---------------------------- MODULE SendContract ----------------------------
(***************************************************************************)
(* What an Idempotency-Key promises a caller of POST /emails/send, with    *)
(* nothing of how it is stored: a key is free, claimed by one request, or  *)
(* completed with the id of one request; mail is posted under a claim of   *)
(* one's own; a key is completed by its claimant, after the provider has   *)
(* accepted; and only a completed key's id is ever reported as sent.       *)
(***************************************************************************)
CONSTANTS Key, NoKey, Invocation, KeyOf, Id, CorrelationOf

VARIABLES
  entry,      \* the state of each key
  posting,    \* requests with a POST to the provider under way
  accepted,   \* requests whose mail the provider has accepted
  reported    \* the id each keyed request has learned to report as sent

vars == <<entry, posting, accepted, reported>>

Free == [state |-> "free", by |-> {}, stale |-> FALSE]
Claimed(c) == [state |-> "claimed", by |-> {c}, stale |-> FALSE]
Completed(c) == [state |-> "completed", by |-> {c}, stale |-> FALSE]
Stale(e) == [state |-> e.state, by |-> e.by, stale |-> TRUE]

Entry(c) == entry[KeyOf[c]]
Keyed(c) == KeyOf[c] # NoKey
Set(c, e) == entry' = [entry EXCEPT ![KeyOf[c]] = e]
Report(c, id) == reported' = [reported EXCEPT ![c] = {id}]
-----------------------------------------------------------------------------
Claim(c) ==
  /\ Keyed(c)
  /\ Entry(c).state = "free" \/ Entry(c).stale
  /\ Set(c, Claimed(c))
  /\ UNCHANGED <<posting, accepted, reported>>

Abandon(c) ==
  /\ Keyed(c) /\ c \notin posting
  /\ Entry(c).state = "claimed" /\ Entry(c).by = {c}
  /\ Set(c, Free)
  /\ UNCHANGED <<posting, accepted, reported>>

OwnClaim(c) == Entry(c).state = "claimed" /\ Entry(c).by = {c} /\ ~Entry(c).stale

StartPost(c) ==
  /\ c \notin posting
  /\ Keyed(c) => OwnClaim(c)
  /\ posting' = posting \cup {c}
  /\ UNCHANGED <<entry, accepted, reported>>

EndPost(c) ==
  /\ c \in posting
  /\ posting' = posting \ {c}
  /\ UNCHANGED <<entry, accepted, reported>>

\* The provider may accept a mail long after the request stopped waiting.
Accept(c) ==
  /\ accepted' = accepted \cup {c}
  /\ UNCHANGED <<entry, posting, reported>>

Complete(c) ==
  /\ Keyed(c) /\ c \notin posting /\ c \in accepted
  /\ Entry(c).state = "claimed" /\ Entry(c).by = {c}
  /\ Set(c, Completed(c))
  /\ Report(c, CorrelationOf[c]) \/ UNCHANGED reported
  /\ UNCHANGED <<posting, accepted>>

Replay(c) ==
  /\ Keyed(c)
  /\ Entry(c).state = "completed"
  /\ \E d \in Entry(c).by : Report(c, CorrelationOf[d])
  /\ UNCHANGED <<entry, posting, accepted>>

\* A request may end at any time; it then reports nothing, and its claim stays.
Die(c) ==
  /\ posting' = posting \ {c}
  /\ reported' = [reported EXCEPT ![c] = {}]
  /\ UNCHANGED <<entry, accepted>>

\* A claim cannot go stale under a request that is posting.
Lapse(k) ==
  /\ entry[k].state # "free" /\ ~entry[k].stale
  /\ entry[k].by \cap posting = {}
  /\ entry' = [entry EXCEPT ![k] = Stale(entry[k])]
  /\ UNCHANGED <<posting, accepted, reported>>

Forget(k) ==
  /\ entry[k].stale
  /\ entry' = [entry EXCEPT ![k] = Free]
  /\ UNCHANGED <<posting, accepted, reported>>

Init ==
  /\ entry = [k \in Key |-> Free]
  /\ posting = {}
  /\ accepted = {}
  /\ reported = [c \in Invocation |-> {}]

Next ==
  \/ \E c \in Invocation :
       \/ Claim(c) \/ Abandon(c) \/ StartPost(c) \/ EndPost(c)
       \/ Accept(c) \/ Complete(c) \/ Replay(c) \/ Die(c)
  \/ \E k \in Key : Lapse(k) \/ Forget(k)

Spec == Init /\ [][Next]_vars
=============================================================================
