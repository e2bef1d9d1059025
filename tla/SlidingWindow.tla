--------------------------- MODULE SlidingWindow ---------------------------
(***************************************************************************)
(* What the rate limiter promises its callers, with nothing of how it      *)
(* keeps books: a call is granted exactly if fewer than MaxHits granted    *)
(* calls of the caller count, that is, lie within the window.  A refused   *)
(* caller is told an instant from which on a call is granted.  Calls that  *)
(* count are forgotten only to make room for a caller without any, while   *)
(* MaxKeys callers have some, and then those of one caller.                *)
(***************************************************************************)
EXTENDS Integers, FiniteSets

CONSTANTS Client, MaxHits, WindowMs, MaxKeys

VARIABLES
  now,
  counted,   \* the granted calls of each caller that count, with their instants
  until      \* what a refused caller was told, -1 once a call is granted

vars == <<now, counted, until>>

Busy == {k \in Client : counted[k] # {}}

\* Those of the calls that still count at an instant.
CountingAt(calls, instant) == {h \in calls : instant - h.at < WindowMs}

\* Whose calls may be forgotten when a call of k is granted.
Forgettable(k) ==
  IF counted[k] = {} /\ Cardinality(Busy) >= MaxKeys THEN {{v} : v \in Busy} ELSE {{}}

Grant(k, forgotten) ==
  /\ Cardinality(counted[k]) < MaxHits
  /\ \E h \in counted'[k] \ counted[k] :
       /\ h.at = now
       /\ counted' = [u \in Client |->
            IF u = k THEN counted[k] \cup {h} ELSE IF u \in forgotten THEN {} ELSE counted[u]]
  /\ until' = [u \in Client |-> IF u \in forgotten \cup {k} THEN -1 ELSE until[u]]
  /\ UNCHANGED now

Refuse(k) ==
  /\ until'[k] > now
  /\ Cardinality(counted[k]) >= MaxHits
  /\ Cardinality(CountingAt(counted[k], until'[k])) < MaxHits
  /\ until' = [until EXCEPT ![k] = until'[k]]
  /\ UNCHANGED <<now, counted>>

Pass ==
  /\ now' = now + 1
  /\ counted' = [k \in Client |-> CountingAt(counted[k], now')]
  /\ UNCHANGED until

Init ==
  /\ now = 0
  /\ counted = [k \in Client |-> {}]
  /\ until = [k \in Client |-> -1]

Next ==
  \/ Pass
  \/ \E k \in Client : Refuse(k) \/ \E forgotten \in Forgettable(k) : Grant(k, forgotten)

Spec == Init /\ [][Next]_vars
=============================================================================
