------------------------ MODULE ForwardEmailProvider ------------------------
(***************************************************************************)
(* ForwardEmailProvider.send: one POST per attempt, repeated by the        *)
(* provider itself as the contact endpoint uses it.  (The send path turns  *)
(* the repetition off; see SendHandler.)                                   *)
(*                                                                         *)
(* A call is one execution of send.  What became of each attempt is kept   *)
(* apart from what the code learns of it: the mail service may take a mail *)
(* whose reply is lost, and may take it after the caller gave up.          *)
(***************************************************************************)
EXTENDS Naturals, FiniteSets

CONSTANTS
  Call,
  MaxRetries     \* 2 unless the caller says otherwise

ASSUME ProviderAssumption == MaxRetries \in Nat

VARIABLES
  phase,       \* of every call
  attempt,     \* the loop's counter
  kind,        \* kind of the EmailProviderError of a failed call
  heard,       \* what the code heard of every attempt
  mail         \* what the mail service has done with it

providerVars == <<phase, attempt, kind, heard, mail>>

Attempt == 0 .. MaxRetries
Phase == {"idle", "posting", "pausing", "sent", "failed"}
Kind == {"none", "rate_limit", "transient", "permanent"}
Heard == {"unsent", "nothing", "accepted", "refused", "lost", "timeout"}
-----------------------------------------------------------------------------
\* fetch is called: the mail service has the request, or will.
Post(c, a) ==
  /\ phase' = [phase EXCEPT ![c] = "posting"]
  /\ attempt' = [attempt EXCEPT ![c] = a]
  /\ heard' = [heard EXCEPT ![c][a] = "nothing"]
  /\ mail' = [mail EXCEPT ![c][a] = "open"]

StartSend(c) ==
  /\ phase[c] = "idle"
  /\ Post(c, 0)
  /\ UNCHANGED kind

Hear(c, what) == heard' = [heard EXCEPT ![c][attempt[c]] = what]

\* The loop ends with an error, or sleeps before it posts again.
FailOrPause(c, k, retryable) ==
  IF retryable /\ attempt[c] < MaxRetries
  THEN phase' = [phase EXCEPT ![c] = "pausing"] /\ UNCHANGED kind
  ELSE /\ phase' = [phase EXCEPT ![c] = "failed"]
       /\ kind' = [kind EXCEPT ![c] = k]

\* Mutated form of BodyMatters: an acceptance without a readable body is an error.
BodyRequired == TRUE
BodyMatters == FALSE

\* A 2xx.  Its body only names the mail; one that cannot be read does not matter.
HearAccepted(c) ==
  /\ phase[c] = "posting" /\ mail[c][attempt[c]] = "taken"
  /\ \E readable \in BOOLEAN :
       IF readable \/ ~BodyMatters
       THEN phase' = [phase EXCEPT ![c] = "sent"] /\ UNCHANGED kind
       ELSE FailOrPause(c, "transient", TRUE)
  /\ Hear(c, "accepted")
  /\ UNCHANGED <<attempt, mail>>

\* classifyHttpStatus: which errors are repeated.
Retryable(k) == k \in {"rate_limit", "transient"}

\* Another status: the service has not taken the mail, and never will.
HearRefused(c) ==
  /\ phase[c] = "posting" /\ mail[c][attempt[c]] = "open"
  /\ \E k \in {"rate_limit", "transient", "permanent"} : FailOrPause(c, k, Retryable(k))
  /\ Hear(c, "refused")
  /\ mail' = [mail EXCEPT ![c][attempt[c]] = "void"]
  /\ UNCHANGED attempt

\* timeoutMs passes, and the abort ends the attempt and the call.
TimeOut(c) ==
  /\ phase[c] = "posting"
  /\ FailOrPause(c, "transient", FALSE)
  /\ Hear(c, "timeout")
  /\ UNCHANGED <<attempt, mail>>

\* The connection fails: before the request arrived, or after it was answered.
LoseConnection(c) ==
  /\ phase[c] = "posting"
  /\ FailOrPause(c, "transient", TRUE)
  /\ Hear(c, "lost")
  /\ UNCHANGED <<attempt, mail>>

PostAgain(c) ==
  /\ phase[c] = "pausing"
  /\ Post(c, attempt[c] + 1)
  /\ UNCHANGED kind

\* The mail service takes the mail of an attempt, whoever still waits for it.
TakeMail(c, a) ==
  /\ mail[c][a] = "open"
  /\ mail' = [mail EXCEPT ![c][a] = "taken"]
  /\ UNCHANGED <<phase, attempt, kind, heard>>

ProviderInit ==
  /\ phase = [c \in Call |-> "idle"]
  /\ attempt = [c \in Call |-> 0]
  /\ kind = [c \in Call |-> "none"]
  /\ heard = [c \in Call |-> [a \in Attempt |-> "unsent"]]
  /\ mail = [c \in Call |-> [a \in Attempt |-> "unsent"]]

\* What the provider does by itself once send was called.
ProviderStep(c) ==
  \/ HearAccepted(c) \/ HearRefused(c) \/ TimeOut(c) \/ LoseConnection(c)
  \/ PostAgain(c)
  \/ \E a \in Attempt : TakeMail(c, a)
-----------------------------------------------------------------------------
\* Types; the attempts of a call are bounded by MaxRetries.
ProviderTypeOK ==
  /\ phase \in [Call -> Phase]
  /\ attempt \in [Call -> Attempt]
  /\ kind \in [Call -> Kind]
  /\ heard \in [Call -> [Attempt -> Heard]]
  /\ mail \in [Call -> [Attempt -> {"unsent", "open", "taken", "void"}]]

Taken(c) == {a \in Attempt : mail[c][a] = "taken"}
LostReplies(c) == {a \in Attempt : heard[c][a] = "lost"}

(***************************************************************************)
(* A mail leaves twice only because the reply to an attempt was lost: at   *)
(* most one copy more than there were lost replies, whatever is refused,   *)
(* times out or arrives late.  (Without a ledger that much is              *)
(* unavoidable.)                                                           *)
(***************************************************************************)
CopiesNeedLostReplies ==
  \A c \in Call : Cardinality(Taken(c)) <= Cardinality(LostReplies(c)) + 1
=============================================================================
