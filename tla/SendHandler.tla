---------------------------- MODULE SendHandler ----------------------------
(***************************************************************************)
(* POST /emails/send from the idempotency claim to the answer: the handler *)
(* of send.ts composed with the Blob ledger (BlobIdempotencyStore) and the *)
(* delivery policy of send-delivery.ts.  Invocations of the handler run    *)
(* concurrently, on one instance or several; a client's retry with the     *)
(* same key is another invocation.  The host may kill an invocation        *)
(* between any two steps.                                                  *)
(*                                                                         *)
(* The steps before the claim (configuration, authentication, rate limit,  *)
(* validation, template, rendering) touch neither ledger nor provider:     *)
(* they are one step, which refuses the request or lets it through.        *)
(***************************************************************************)
EXTENDS BlobIdempotencyStore

CONSTANTS
  MaxAttempts,             \* deliveryPolicy.maxAttempts
  CompleteAttempts,        \* IDEMPOTENCY_COMPLETE_ATTEMPTS (3 in the code)
  TtlOutlivesInvocation    \* IDEMPOTENCY_TTL_MS exceeds the life of an invocation

ASSUME PolicyAssumption ==
  /\ MaxAttempts \in Nat \ {0}
  /\ CompleteAttempts \in Nat \ {0}
  /\ TtlOutlivesInvocation \in BOOLEAN

VARIABLES
  pc,         \* what the invocation is doing
  attempt,    \* provider attempts made by deliverSend
  post,       \* the last POST to the provider, as the provider knows it
  tries,      \* complete() or release() calls made
  verdict,    \* failureClass of the delivery
  answer      \* the HTTP answer

handlerVars == <<pc, attempt, post, tries, verdict, answer>>
vars == <<storeVars, handlerVars>>

ProgramPoint == {"received", "beginning", "delivering", "sending",
                 "completing", "releasing", "answered", "killed"}
\* "sent": on its way, the provider may accept it at any later time.
\* "confirmed": accepted, and the handler has seen the 2xx.
PostState == {"none", "sent", "accepted", "confirmed", "rejected"}
FailureClass == {"transient", "permanent"}
Answer == {"none", "refused", "sent", "in_progress", "unavailable",
           "complete_failed", "transient", "permanent"}

Keyed(c) == KeyOf[c] # NoKey
Running(c) == pc[c] \notin {"received", "answered", "killed"}

\* The id in the body of a 200: the stored one for a replay, else the caller's.
ResponseId(c) == IF replayed[c] # NoId THEN replayed[c] ELSE CorrelationOf[c]

Goto(c, point) == pc' = [pc EXCEPT ![c] = point]

\* The locals of an invocation go with it.
DropLocals(c) ==
  /\ token' = [token EXCEPT ![c] = NoEtag]
  /\ seen' = [seen EXCEPT ![c] = NoEtag]
  /\ attempt' = [attempt EXCEPT ![c] = 0]
  /\ tries' = [tries EXCEPT ![c] = 0]
  /\ verdict' = [verdict EXCEPT ![c] = "transient"]

RespondWith(c, result) ==
  /\ Goto(c, "answered")
  /\ answer' = [answer EXCEPT ![c] = result]
  /\ DropLocals(c)
  /\ UNCHANGED <<storageVars, at, outcome, replayed>>

\* Start a store call; its first storage request comes next.
Call(c, request) ==
  /\ at' = [at EXCEPT ![c] = request]
  /\ outcome' = [outcome EXCEPT ![c] = "none"]
  /\ UNCHANGED <<storageVars, token, seen, replayed>>
-----------------------------------------------------------------------------
(***************************************************************************)
(* Before the claim, and the claim.                                        *)
(***************************************************************************)
Refuse(c) ==
  /\ pc[c] = "received"
  /\ RespondWith(c, "refused")
  /\ UNCHANGED post

Admit(c) ==
  /\ pc[c] = "received"
  /\ \/ Keyed(c) /\ Goto(c, "beginning") /\ Call(c, "create")
     \/ ~Keyed(c) /\ Goto(c, "delivering") /\ UNCHANGED storeVars
  /\ UNCHANGED <<attempt, post, tries, verdict, answer>>

AfterBegin(c) ==
  /\ pc[c] = "beginning" /\ at[c] = "idle"
  /\ UNCHANGED post
  /\ \/ /\ outcome[c] = "claimed"
        /\ Goto(c, "delivering")
        /\ UNCHANGED <<storeVars, attempt, tries, verdict, answer>>
     \/ outcome[c] = "replay" /\ RespondWith(c, "sent")
     \/ outcome[c] = "in_progress" /\ RespondWith(c, "in_progress")
     \/ outcome[c] = "failed" /\ RespondWith(c, "unavailable")
-----------------------------------------------------------------------------
(***************************************************************************)
(* deliverSend: attempts under a timeout.  Only a status the provider      *)
(* answered with is retried, only under a claim, up to MaxAttempts.        *)
(***************************************************************************)
CanRetry(c) == Keyed(c) /\ attempt[c] < MaxAttempts

\* Delivery has failed: release the claim if there is one, and answer.
FailDelivery(c, class) ==
  \/ /\ Keyed(c)
     /\ Goto(c, "releasing") /\ Call(c, "inspect")
     /\ tries' = [tries EXCEPT ![c] = 1]
     /\ verdict' = [verdict EXCEPT ![c] = class]
     /\ UNCHANGED <<attempt, answer>>
  \/ ~Keyed(c) /\ RespondWith(c, class)

\* The loop of deliverSend comes round.
TryAgain(c) ==
  /\ Goto(c, "delivering")
  /\ UNCHANGED <<storeVars, attempt, tries, verdict, answer>>

\* provider.send: the POST leaves, or is refused locally (not configured, unsafe header).
Attempt(c) ==
  /\ pc[c] = "delivering"
  /\ \/ /\ attempt' = [attempt EXCEPT ![c] = @ + 1]
        /\ post' = [post EXCEPT ![c] = "sent"]
        /\ Goto(c, "sending")
        /\ UNCHANGED <<storeVars, tries, verdict, answer>>
     \/ FailDelivery(c, "permanent") /\ UNCHANGED post

RejectedStatus(c) ==
  /\ pc[c] = "sending" /\ post[c] = "sent"
  /\ post' = [post EXCEPT ![c] = "rejected"]
  /\ \/ CanRetry(c) /\ TryAgain(c)                      \* 408, 409, 429, 5xx
     \/ ~CanRetry(c) /\ FailDelivery(c, "transient")
     \/ FailDelivery(c, "permanent")                    \* any other status

\* Mutated form of AmbiguousFailure: a timeout is retried like a 5xx.
RetriedTimeout(c) == IF CanRetry(c) THEN TryAgain(c) ELSE FailDelivery(c, "transient")
\* Mutated form of AmbiguousFailure: a timeout is classified as permanent.
PermanentTimeout(c) == FailDelivery(c, "permanent")

\* classifySendFailure on a timeout or a transport failure: transient, never retried.
AmbiguousFailure(c) == FailDelivery(c, "transient")

\* SendTimeoutError, or the connection drops: the provider may have accepted, or may yet.
NoReply(c) ==
  /\ pc[c] = "sending"
  /\ AmbiguousFailure(c)
  /\ UNCHANGED post

AcceptedStatus(c) ==
  /\ pc[c] = "sending" /\ post[c] = "accepted"
  /\ post' = [post EXCEPT ![c] = "confirmed"]
  /\ \/ /\ Keyed(c)
        /\ Goto(c, "completing") /\ Call(c, "complete")
        /\ tries' = [tries EXCEPT ![c] = 1]
        /\ UNCHANGED <<attempt, verdict, answer>>
     \/ ~Keyed(c) /\ RespondWith(c, "sent")

\* External: the provider accepts the mail, possibly long after the handler gave up.
ProviderAccepts(c) ==
  /\ post[c] = "sent"
  /\ post' = [post EXCEPT ![c] = "accepted"]
  /\ UNCHANGED <<storeVars, pc, attempt, tries, verdict, answer>>
-----------------------------------------------------------------------------
(***************************************************************************)
(* completeIdempotencyWithRetry, and the answer that follows it.  When all *)
(* attempts fail the claim is left as it is.                               *)
(***************************************************************************)
CompleteAgain(c) ==
  /\ Call(c, "complete")
  /\ tries' = [tries EXCEPT ![c] = @ + 1]
  /\ UNCHANGED <<pc, attempt, verdict, answer>>

\* Mutated form of GiveUpCompleting: the claim is released when it could not be completed.
ReleaseUncompleted(c) == FailDelivery(c, "transient")
GiveUpCompleting(c) == RespondWith(c, "complete_failed")

AfterComplete(c) ==
  /\ pc[c] = "completing" /\ at[c] = "idle"
  /\ UNCHANGED post
  /\ \/ outcome[c] = "completed" /\ RespondWith(c, "sent")
     \/ outcome[c] = "failed" /\ tries[c] < CompleteAttempts /\ CompleteAgain(c)
     \/ outcome[c] = "failed" /\ tries[c] >= CompleteAttempts /\ GiveUpCompleting(c)

(***************************************************************************)
(* The claim is released before the failure is thrown, and once more on    *)
(* the way out if that release threw.                                      *)
(***************************************************************************)
\* Mutated form of ReleaseAgain: the second release is not counted as such.
ReleaseForever(c) == Call(c, "inspect") /\ UNCHANGED <<pc, attempt, tries, verdict, answer>>
ReleaseAgain(c) ==
  /\ Call(c, "inspect")
  /\ tries' = [tries EXCEPT ![c] = @ + 1]
  /\ UNCHANGED <<pc, attempt, verdict, answer>>

SecondRelease(c) == tries[c] = 2

AfterRelease(c) ==
  /\ pc[c] = "releasing" /\ at[c] = "idle"
  /\ UNCHANGED post
  /\ \/ outcome[c] = "released" /\ RespondWith(c, verdict[c])
     \/ outcome[c] = "failed" /\ SecondRelease(c) /\ RespondWith(c, verdict[c])
     \/ outcome[c] = "failed" /\ ~SecondRelease(c) /\ ReleaseAgain(c)

LedgerStep(c) == StoreStep(c) /\ UNCHANGED handlerVars
-----------------------------------------------------------------------------
\* The host stops the invocation: function timeout, recycling, crash.
Kill(c) ==
  /\ Running(c)
  /\ Goto(c, "killed")
  /\ DropLocals(c)
  /\ at' = [at EXCEPT ![c] = "idle"]
  /\ outcome' = [outcome EXCEPT ![c] = "none"]
  /\ replayed' = [replayed EXCEPT ![c] = NoId]
  /\ UNCHANGED <<storageVars, post, answer>>

\* With the default TTL (24 h) no record outlives its TTL while its writer still runs.
Expire(k) ==
  /\ TtlOutlivesInvocation => \A c \in blob[k].writer : ~Running(c)
  /\ PassExpiry(k)
  /\ UNCHANGED handlerVars

Purge(k) == LifecycleDelete(k) /\ UNCHANGED handlerVars

HandlerStep(c) ==
  \/ Refuse(c) \/ Admit(c) \/ AfterBegin(c)
  \/ Attempt(c) \/ RejectedStatus(c) \/ NoReply(c) \/ AcceptedStatus(c)
  \/ AfterComplete(c) \/ AfterRelease(c)
  \/ LedgerStep(c)

Init ==
  /\ StoreInit
  /\ pc = [c \in Invocation |-> "received"]
  /\ attempt = [c \in Invocation |-> 0]
  /\ post = [c \in Invocation |-> "none"]
  /\ tries = [c \in Invocation |-> 0]
  /\ verdict = [c \in Invocation |-> "transient"]
  /\ answer = [c \in Invocation |-> "none"]

Next ==
  \/ \E c \in Invocation : HandlerStep(c) \/ ProviderAccepts(c) \/ Kill(c)
  \/ \E k \in Key : Expire(k) \/ Purge(k)

Spec == Init /\ [][Next]_vars

(***************************************************************************)
(* An invocation that is not killed keeps running (storage requests and    *)
(* provider calls settle: the SDK and sendWithTimeout bound them), and     *)
(* time passes.  Nothing obliges the provider to accept, the host to kill, *)
(* or the lifecycle rule to run.                                           *)
(***************************************************************************)
Fairness ==
  /\ \A c \in Invocation : WF_vars(HandlerStep(c))
  /\ \A k \in Key : WF_vars(Expire(k))

FairSpec == Spec /\ Fairness
-----------------------------------------------------------------------------
\* The type of every variable; deliverSend never exceeds its attempts.
TypeOK ==
  /\ StoreTypeOK
  /\ pc \in [Invocation -> ProgramPoint]
  /\ attempt \in [Invocation -> 0..MaxAttempts]
  /\ post \in [Invocation -> PostState]
  /\ tries \in [Invocation -> Nat]
  /\ verdict \in [Invocation -> FailureClass]
  /\ answer \in [Invocation -> Answer]

SameKey(c, d) == Keyed(c) /\ KeyOf[c] = KeyOf[d]
InDelivery(c) == Keyed(c) /\ pc[c] \in {"delivering", "sending"}
Accepted(c) == post[c] \in {"accepted", "confirmed"}

\* Two invocations with one key never talk to the provider at the same time,
\* retries and backoffs of deliverSend included: the claim is kept between attempts.
NoParallelDelivery ==
  \A c, d \in Invocation : SameKey(c, d) /\ InDelivery(c) /\ InDelivery(d) => c = d

\* As long as no record of the key has expired, at most one invocation of the key
\* ever sees the provider accept its mail: not after a replay, a release, a failed
\* complete, or a kill between the provider's 2xx and the ledger write.
OneConfirmedDelivery ==
  \A c, d \in Invocation :
    /\ SameKey(c, d) /\ ~lapsed[KeyOf[c]]
    /\ post[c] = "confirmed" /\ post[d] = "confirmed"
    => c = d

\* A 200 names a mail the provider has accepted: the caller's own, or, for a
\* replay, that of an invocation with the same key and the replayed id.
AckedMeansAccepted ==
  \A c \in Invocation :
    answer[c] = "sent" =>
      \E d \in Invocation :
        /\ c = d \/ SameKey(c, d)
        /\ Accepted(d) /\ CorrelationOf[d] = ResponseId(c)

\* As long as no record of the key has expired, every 200 for the key carries
\* the same id: a replay returns the original response.
ConsistentReplay ==
  \A c, d \in Invocation :
    /\ SameKey(c, d) /\ ~lapsed[KeyOf[c]]
    /\ answer[c] = "sent" /\ answer[d] = "sent"
    => ResponseId(c) = ResponseId(d)

\* A failure reported as permanent ("fix the request") never hides a mail that
\* was, or may still be, accepted.
PermanentMeansNotSent ==
  \A c \in Invocation :
    verdict[c] = "permanent" \/ answer[c] = "permanent" => post[c] \in {"none", "rejected"}

\* A release that reported success leaves no claim of the invocation behind:
\* the key is free for the caller's retry.
ReleasedClaimIsGone ==
  \A c \in Invocation :
    pc[c] = "answered" /\ outcome[c] = "released" /\ blob[KeyOf[c]].status = "in_progress"
    => c \notin blob[KeyOf[c]].writer

\* deliverSend repeats an attempt only for an invocation that holds the claim of
\* its key in the ledger at that moment; without a key there is one attempt.
RetryOnlyUnderClaim ==
  [][\A c \in Invocation :
       attempt[c] > 0 /\ attempt'[c] > attempt[c] =>
         /\ Keyed(c)
         /\ Blob(c).status = "in_progress" /\ Blob(c).writer = {c}]_vars

\* A new POST leaves only when the last one, if any, was answered with a
\* status: an attempt with an unknown outcome is never repeated.
NoBlindRetry ==
  [][\A c \in Invocation :
       attempt'[c] > attempt[c] => post[c] \in {"none", "rejected"}]_vars

\* An unexpired record is changed by nobody but the invocation that wrote it,
\* and not even by that one once it is completed: a stale claimant can neither
\* overwrite nor delete a newer claim or a completed record.
FreshRecordProtected ==
  [][\A k \in Key :
       blob[k].status # "absent" /\ ~blob[k].expired /\ blob'[k] # blob[k] =>
         \/ blob'[k] = [blob[k] EXCEPT !.expired = TRUE]
         \/ /\ blob[k].status = "in_progress"
            /\ \E c \in blob[k].writer : pc[c] \in {"completing", "releasing"}]_vars

\* Every invocation ends: it answers, or the host has killed it.
EveryRequestAnswered ==
  \A c \in Invocation : <>(pc[c] \in {"answered", "killed"})

\* No key is blocked for ever: again and again it is completed, or open to a
\* new claim, even when its claimant was killed or failed to release.
NoKeyBlockedForever ==
  \A k \in Key : []<>(blob[k].status = "completed" \/ Reclaimable(blob[k]))

(***************************************************************************)
(* The handler over the Blob ledger implements SendContract.  A claim is   *)
(* its writer's whatever its ETag; a request has learned the id it reports *)
(* when begin returns a replay, or complete returns.                       *)
(***************************************************************************)
EntryState ==
  [absent |-> "free", in_progress |-> "claimed", completed |-> "completed"]

LedgerEntry(record) ==
  [state |-> EntryState[record.status], by |-> record.writer, stale |-> record.expired]

Learned(c) ==
  IF replayed[c] # NoId THEN {replayed[c]}
  ELSE IF outcome[c] = "completed" THEN {CorrelationOf[c]} ELSE {}

Contract ==
  INSTANCE SendContract WITH
    entry <- [k \in Key |-> LedgerEntry(blob[k])],
    posting <- {c \in Invocation : pc[c] = "sending"},
    accepted <- {c \in Invocation : Accepted(c)},
    reported <- [c \in Invocation |-> Learned(c)]

\* Every step of the handler, the ledger, the host and the clock is a step the
\* contract allows, or none at all.
ImplementsContract == Contract!Spec

(***************************************************************************)
(* "do not return 200 while the ledger is still in_progress (that would    *)
(* 409 retries until TTL, ...).  Ask the client to retry the same key":    *)
(* so once an invocation has answered that the completion could not be     *)
(* saved, a retry is not told that a request is in progress, unless one    *)
(* really is.                                                              *)
(***************************************************************************)
RetryAfterFailedCompleteNotBlocked ==
  [][\A c, d \in Invocation :
       /\ SameKey(c, d) /\ answer[c] = "complete_failed"
       /\ outcome[d] = "none" /\ outcome'[d] = "in_progress"
       => \E e \in Invocation : e # d /\ SameKey(d, e) /\ Running(e)]_vars
=============================================================================
