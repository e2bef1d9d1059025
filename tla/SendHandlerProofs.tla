-------------------------- MODULE SendHandlerProofs --------------------------
(***************************************************************************)
(* Proofs about SendHandler, for any number of keys and invocations and    *)
(* any number of attempts.                                                 *)
(*                                                                         *)
(* The inductive invariant says what each part of the system knows about   *)
(* the ledger: an ETag names one write, so a claim token that still        *)
(* matches is the holder's own claim; a record read as expired cannot      *)
(* become fresh again under the same ETag; a delivery in progress has its  *)
(* claim in place; and whoever saw the provider accept is still the        *)
(* writer of the record.                                                   *)
(***************************************************************************)
EXTENDS SendHandler, TLAPS

\* Every stored record is some invocation's write, and a completed one stands
\* for a mail the provider has accepted.
RecordInv ==
  \A k \in Key :
    /\ blob[k].etag <= lastEtag
    /\ blob[k].status = "absent" => blob[k] = Absent
    /\ blob[k].status # "absent" =>
         /\ blob[k].etag # NoEtag
         /\ \E c \in Invocation :
              /\ KeyOf[c] = k /\ blob[k].writer = {c}
              /\ blob[k].status = "completed" =>
                   blob[k].id = CorrelationOf[c] /\ post[c] = "confirmed"
    /\ blob[k].expired => lapsed[k]

\* Which storage request, post state and locals go with which program point.
ControlInv ==
  \A c \in Invocation :
    /\ at[c] \in {"create", "resolve", "reclaim", "reread"} =>
         pc[c] = "beginning" /\ outcome[c] = "none"
    /\ at[c] \in {"complete", "confirm"} => pc[c] = "completing" /\ outcome[c] = "none"
    /\ at[c] \in {"inspect", "delete"} => pc[c] = "releasing" /\ outcome[c] = "none"
    /\ ~Keyed(c) =>
         /\ at[c] = "idle" /\ outcome[c] = "none"
         /\ pc[c] \notin {"beginning", "completing", "releasing"}
    /\ pc[c] \in {"received", "beginning"} => post[c] = "none" /\ attempt[c] = 0
    /\ pc[c] = "delivering" => post[c] \in {"none", "rejected"} /\ attempt[c] < MaxAttempts
    /\ pc[c] = "delivering" /\ attempt[c] > 0 => Keyed(c)
    /\ pc[c] = "sending" => post[c] \in {"sent", "accepted"}
    /\ pc[c] = "completing" => post[c] = "confirmed"
    /\ pc[c] = "releasing" => post[c] # "confirmed"
    /\ verdict[c] = "permanent" => pc[c] = "releasing" /\ post[c] \in {"none", "rejected"}
    /\ answer[c] = "permanent" => post[c] \in {"none", "rejected"}
    /\ answer[c] # "none" => pc[c] = "answered"

\* The invocation has been given a claim and has not ended.
Holder(c) ==
  /\ Keyed(c)
  /\ \/ pc[c] \in {"delivering", "sending", "completing", "releasing"}
     \/ pc[c] = "beginning" /\ outcome[c] = "claimed"

\* ... and has neither heard of acceptance nor given up.
Delivers(c) ==
  /\ Keyed(c)
  /\ \/ pc[c] \in {"delivering", "sending"}
     \/ pc[c] = "beginning" /\ outcome[c] = "claimed"

\* An ETag names one write.
TokenInv ==
  \A c \in Invocation :
    /\ token[c] <= lastEtag /\ seen[c] <= lastEtag
    /\ Holder(c) => token[c] # NoEtag
    /\ Keyed(c) /\ token[c] # NoEtag /\ Blob(c).etag = token[c] =>
         Blob(c).status = "in_progress" /\ Blob(c).writer = {c}
    /\ Keyed(c) /\ seen[c] # NoEtag /\ Blob(c).etag = seen[c] => Blob(c).expired

\* The claim is in place throughout delivery, and the record is still the
\* claimant's once the provider is known to have accepted.
DeliveryInv ==
  \A c \in Invocation :
    /\ Delivers(c) /\ (TtlOutlivesInvocation \/ ~lapsed[KeyOf[c]]) =>
         Blob(c).etag = token[c] /\ ~Blob(c).expired
    /\ Keyed(c) /\ post[c] = "confirmed" /\ ~lapsed[KeyOf[c]] =>
         Blob(c).status # "absent" /\ Blob(c).writer = {c}

\* Whoever has learned an id to report learned it from a completed record.
ReportInv ==
  \A c \in Invocation :
    /\ replayed[c] # NoId => outcome[c] = "replay"
    /\ outcome[c] = "replay" =>
         /\ Keyed(c) /\ pc[c] \in {"beginning", "answered"}
         /\ \E d \in Invocation :
              /\ SameKey(c, d) /\ post[d] = "confirmed"
              /\ CorrelationOf[d] = replayed[c]
    /\ outcome[c] = "completed" =>
         Keyed(c) /\ pc[c] \in {"completing", "answered"} /\ post[c] = "confirmed"
    /\ outcome[c] \in {"replay", "completed"} /\ ~lapsed[KeyOf[c]] =>
         Blob(c).status = "completed" /\ Blob(c).id = ResponseId(c)
    /\ answer[c] = "sent" =>
         IF Keyed(c) THEN outcome[c] \in {"replay", "completed"}
                     ELSE outcome[c] = "none" /\ post[c] = "confirmed"

IInv == TypeOK /\ RecordInv /\ ControlInv /\ TokenInv /\ DeliveryInv /\ ReportInv
-----------------------------------------------------------------------------
\* What begin and complete write is a record, and so is the absent one.
LEMMA RecordTypes ==
  ASSUME NEW c \in Invocation, Keyed(c), lastEtag \in Nat
  PROVE  /\ KeyOf[c] \in Key
         /\ Absent \in Record
         /\ ClaimRecord(c) \in Record /\ CompletedRecord(c) \in Record
  BY LedgerAssumption
     DEF Keyed, Absent, Record, ClaimRecord, CompletedRecord, BuildRecord, NoEtag

\* The invariant holds before any invocation has started.
LEMMA InitIInv == Init => IInv
<1> SUFFICES ASSUME Init PROVE IInv
  OBVIOUS
<1> USE LedgerAssumption, PolicyAssumption DEF Init, StoreInit
<1>1. TypeOK
  BY DEF TypeOK, StoreTypeOK, Record, Absent, NoEtag, StorageRequest, Outcome,
         ProgramPoint, PostState, FailureClass, Answer
<1>2. RecordInv
  <2>1. ASSUME NEW k \in Key
        PROVE  blob[k] = Absent
    OBVIOUS
  <2>2. /\ Absent.etag = 0 /\ Absent.status = "absent" /\ ~Absent.expired
        /\ lastEtag = 0
    BY DEF Absent, NoEtag
  <2>3. ASSUME NEW k \in Key
        PROVE  /\ blob[k].etag <= lastEtag
               /\ blob[k].status = "absent"
               /\ ~blob[k].expired
    <3>1. blob[k].etag = 0 /\ lastEtag = 0
      BY <2>1, <2>2
    <3>2. QED
      BY <2>1, <2>2, <3>1
  <2>4. QED
    BY <2>1, <2>3 DEF RecordInv
<1>3. ControlInv
  BY DEF ControlInv
<1>4. TokenInv
  BY DEF TokenInv, Holder, NoEtag
<1>5. DeliveryInv
  BY DEF DeliveryInv, Delivers
<1>6. ReportInv
  BY DEF ReportInv
<1>7. QED
  BY <1>1, <1>2, <1>3, <1>4, <1>5, <1>6 DEF IInv

\* A ledger step keeps the types.
LEMMA StoreStepTyped ==
  ASSUME IInv, NEW c \in Invocation, LedgerStep(c)
  PROVE  TypeOK'
<1>1. Keyed(c)
  BY DEF IInv, ControlInv, LedgerStep, StoreStep, CreateClaim, ResolveAfterConflict,
         ReclaimClaim, RereadAfterRace, WriteCompleted, ConfirmCompleted,
         InspectClaim, DeleteClaim
<1>2. KeyOf[c] \in Key /\ Absent \in Record
      /\ ClaimRecord(c) \in Record /\ CompletedRecord(c) \in Record
  BY <1>1, RecordTypes DEF IInv, TypeOK, StoreTypeOK
<1>3. UNCHANGED handlerVars
  BY DEF LedgerStep
<1>4. StoreTypeOK'
  <2> USE <1>2 DEF IInv, TypeOK, StoreTypeOK, StorageRequest, Outcome, Continue, Return,
                ReturnClaimed, ReturnStored, storageVars, callVars, Upload, DeleteIfExists, NoEtag
  <2>1. CASE CreateClaim(c)
    BY <2>1 DEF CreateClaim
  <2>2. CASE ResolveAfterConflict(c)
    BY <2>2 DEF ResolveAfterConflict, Blob, StoredId, Record
  <2>3. CASE ReclaimClaim(c)
    BY <2>3 DEF ReclaimClaim
  <2>4. CASE RereadAfterRace(c)
    BY <2>4, SMTT(60) DEF RereadAfterRace, Blob, StoredId, Record
  <2>5. CASE WriteCompleted(c)
    BY <2>5 DEF WriteCompleted
  <2>6. CASE ConfirmCompleted(c)
    BY <2>6 DEF ConfirmCompleted
  <2>7. CASE InspectClaim(c)
    BY <2>7 DEF InspectClaim
  <2>8. CASE DeleteClaim(c)
    BY <2>8 DEF DeleteClaim
  <2>9. QED
    BY <2>1, <2>2, <2>3, <2>4, <2>5, <2>6, <2>7, <2>8 DEF LedgerStep, StoreStep
<1>5. QED
  BY <1>3, <1>4 DEF IInv, TypeOK, handlerVars
-----------------------------------------------------------------------------
(***************************************************************************)
(* What a step does to the ledger.  A ledger step leaves it alone, claims  *)
(* a key that is free or expired, completes the invocation's own claim, or *)
(* deletes it; no other step of an invocation touches it.                  *)
(***************************************************************************)
ClaimEffect(c) ==
  /\ pc[c] = "beginning" /\ outcome[c] = "none"
  /\ Blob(c) = Absent \/ Blob(c).expired
  /\ blob' = [blob EXCEPT ![KeyOf[c]] = ClaimRecord(c)]
  /\ lastEtag' = lastEtag + 1
  /\ UNCHANGED lapsed

OwnsRecord(c) ==
  Blob(c).etag = token[c] /\ Blob(c).status = "in_progress" /\ Blob(c).writer = {c}

CompleteEffect(c) ==
  /\ pc[c] = "completing" /\ OwnsRecord(c)
  /\ blob' = [blob EXCEPT ![KeyOf[c]] = CompletedRecord(c)]
  /\ lastEtag' = lastEtag + 1
  /\ UNCHANGED lapsed

DeleteEffect(c) ==
  /\ pc[c] = "releasing" /\ OwnsRecord(c)
  /\ blob' = [blob EXCEPT ![KeyOf[c]] = Absent]
  /\ UNCHANGED <<lastEtag, lapsed>>

LedgerEffect(c) ==
  UNCHANGED storageVars \/ ClaimEffect(c) \/ CompleteEffect(c) \/ DeleteEffect(c)

\* Only invocations with a key call the ledger.
LEMMA LedgerStepKeyed ==
  ASSUME IInv, NEW c \in Invocation, LedgerStep(c)
  PROVE  Keyed(c) /\ KeyOf[c] \in Key /\ Blob(c) \in Record
<1>1. Keyed(c)
  BY DEF IInv, ControlInv, LedgerStep, StoreStep, CreateClaim, ResolveAfterConflict,
         ReclaimClaim, RereadAfterRace, WriteCompleted, ConfirmCompleted,
         InspectClaim, DeleteClaim
<1>2. KeyOf[c] \in Key
  BY <1>1, LedgerAssumption DEF Keyed
<1>3. QED
  BY <1>1, <1>2 DEF IInv, TypeOK, StoreTypeOK, Blob

\* Whoever matches the ETag of its token owns the record (complete, release).
LEMMA TokenIsOwn ==
  ASSUME IInv, NEW c \in Invocation, Keyed(c), Holder(c), MatchesToken(c)
  PROVE  OwnsRecord(c)
  BY DEF IInv, TokenInv, MatchesToken, OwnsRecord

\* A record unchanged since it was read as expired is still expired (resolveAfterConflict).
LEMMA SeenIsReclaimable ==
  ASSUME IInv, NEW c \in Invocation, Keyed(c), UnchangedSince(c)
  PROVE  Blob(c) = Absent \/ Blob(c).expired
<1>1. KeyOf[c] \in Key
  BY LedgerAssumption DEF Keyed
<1>2. CASE seen[c] = NoEtag
  BY <1>1, <1>2 DEF IInv, RecordInv, UnchangedSince, Blob
<1>3. CASE seen[c] # NoEtag
  BY <1>3 DEF IInv, TokenInv, UnchangedSince
<1>4. QED
  BY <1>2, <1>3

\* What a ledger step may do to the records: one of the effects of LedgerEffect.
LEMMA LedgerStepEffect ==
  ASSUME IInv, NEW c \in Invocation, LedgerStep(c)
  PROVE  LedgerEffect(c)
<1> USE LedgerStepKeyed DEF LedgerEffect
<1>1. CASE CreateClaim(c)
  <2>1. pc[c] = "beginning" /\ outcome[c] = "none"
    BY <1>1 DEF IInv, ControlInv, CreateClaim
  <2>2. NotThere(c) => Blob(c) = Absent
    BY DEF NotThere, IInv, RecordInv, Blob
  <2>3. QED
    BY <1>1, <2>1, <2>2 DEF CreateClaim, Upload, ClaimEffect
<1>2. CASE ReclaimClaim(c)
  <2>1. pc[c] = "beginning" /\ outcome[c] = "none"
    BY <1>2 DEF IInv, ControlInv, ReclaimClaim
  <2>2. QED
    BY <1>2, <2>1, SeenIsReclaimable DEF ReclaimClaim, Upload, ClaimEffect
<1>3. CASE WriteCompleted(c)
  <2>1. pc[c] = "completing" /\ Holder(c)
    BY <1>3 DEF IInv, ControlInv, WriteCompleted, Holder
  <2>2. QED
    BY <1>3, <2>1, TokenIsOwn DEF WriteCompleted, Upload, CompleteEffect
<1>4. CASE DeleteClaim(c)
  <2>1. pc[c] = "releasing" /\ Holder(c)
    BY <1>4 DEF IInv, ControlInv, DeleteClaim, Holder
  <2>2. QED
    BY <1>4, <2>1, TokenIsOwn DEF DeleteClaim, DeleteIfExists, DeleteEffect
<1>5. CASE \/ ResolveAfterConflict(c) \/ RereadAfterRace(c)
           \/ ConfirmCompleted(c) \/ InspectClaim(c)
  BY <1>5 DEF ResolveAfterConflict, RereadAfterRace, ConfirmCompleted, InspectClaim
<1>6. QED
  BY <1>1, <1>2, <1>3, <1>4, <1>5 DEF LedgerStep, StoreStep

\* The steps of the handler outside its store calls.
ControlStep(c) ==
  \/ Refuse(c) \/ Admit(c) \/ AfterBegin(c)
  \/ Attempt(c) \/ RejectedStatus(c) \/ NoReply(c) \/ AcceptedStatus(c)
  \/ AfterComplete(c) \/ AfterRelease(c)
  \/ ProviderAccepts(c) \/ Kill(c)

\* A step outside the store calls leaves the ledger alone.
LEMMA ControlStepEffect ==
  ASSUME NEW c \in Invocation, ControlStep(c)
  PROVE  UNCHANGED storageVars
<1> USE DEF storeVars, storageVars, RespondWith, Call, FailDelivery, TryAgain
<1>1. CASE Refuse(c)
  BY <1>1 DEF Refuse
<1>2. CASE Admit(c)
  BY <1>2 DEF Admit
<1>3. CASE AfterBegin(c)
  BY <1>3 DEF AfterBegin
<1>4. CASE Attempt(c)
  BY <1>4 DEF Attempt
<1>5. CASE RejectedStatus(c)
  BY <1>5 DEF RejectedStatus
<1>6. CASE NoReply(c)
  BY <1>6 DEF NoReply, AmbiguousFailure
<1>7. CASE AcceptedStatus(c)
  BY <1>7 DEF AcceptedStatus
<1>8. CASE AfterComplete(c)
  BY <1>8 DEF AfterComplete, CompleteAgain, GiveUpCompleting
<1>9. CASE AfterRelease(c)
  BY <1>9 DEF AfterRelease, ReleaseAgain
<1>10. CASE ProviderAccepts(c)
  BY <1>10 DEF ProviderAccepts
<1>11. CASE Kill(c)
  BY <1>11 DEF Kill
<1>12. QED
  BY <1>1, <1>2, <1>3, <1>4, <1>5, <1>6, <1>7, <1>8, <1>9, <1>10, <1>11 DEF ControlStep

\* Every step is a control step, a ledger step, an expiry or a purge.
LEMMA NextSteps ==
  ASSUME Next
  PROVE  \/ \E c \in Invocation : ControlStep(c) \/ LedgerStep(c)
         \/ \E k \in Key : Expire(k) \/ Purge(k)
  BY DEF Next, HandlerStep, ControlStep
-----------------------------------------------------------------------------
(***************************************************************************)
(* Ledger steps keep the invariant.                                        *)
(***************************************************************************)
\* A ledger step of one invocation leaves the locals of every other one alone.
LEMMA LedgerStepLocals ==
  ASSUME IInv, NEW c \in Invocation, LedgerStep(c)
  PROVE  /\ UNCHANGED handlerVars
         /\ \A d \in Invocation \ {c} :
              /\ at'[d] = at[d] /\ token'[d] = token[d] /\ seen'[d] = seen[d]
              /\ outcome'[d] = outcome[d] /\ replayed'[d] = replayed[d]
<1>1. UNCHANGED handlerVars
  BY DEF LedgerStep
<1>2. ASSUME NEW d \in Invocation \ {c}
      PROVE  /\ at'[d] = at[d] /\ token'[d] = token[d] /\ seen'[d] = seen[d]
             /\ outcome'[d] = outcome[d] /\ replayed'[d] = replayed[d]
  BY DEF IInv, TypeOK, StoreTypeOK, LedgerStep, StoreStep, CreateClaim, ResolveAfterConflict,
         ReclaimClaim, RereadAfterRace, WriteCompleted, ConfirmCompleted, InspectClaim,
         DeleteClaim, Continue, Return, ReturnClaimed, ReturnStored
<1>3. QED
  BY <1>1, <1>2

\* The records stay consistent: absent ones are blank, ETags are never ahead of the counter.
LEMMA LedgerKeepsRecordInv ==
  ASSUME IInv, NEW c \in Invocation, LedgerStep(c)
  PROVE  RecordInv'
<1>1. LedgerEffect(c) /\ Keyed(c) /\ KeyOf[c] \in Key /\ post' = post
  BY LedgerStepEffect, LedgerStepKeyed, LedgerStepLocals DEF handlerVars
<1>2. RecordInv /\ blob \in [Key -> Record] /\ lastEtag \in Nat
  BY DEF IInv, TypeOK, StoreTypeOK
<1>3. CASE UNCHANGED storageVars
  BY <1>1, <1>2, <1>3 DEF RecordInv, storageVars
<1>4. CASE ClaimEffect(c)
  BY <1>1, <1>2, <1>4 DEF RecordInv, ClaimEffect, ClaimRecord, BuildRecord, Record, NoEtag
<1>5. CASE CompleteEffect(c)
  <2>1. post[c] = "confirmed"
    BY <1>5 DEF IInv, ControlInv, CompleteEffect
  <2>2. QED
    BY <1>1, <1>2, <1>5, <2>1
       DEF RecordInv, CompleteEffect, CompletedRecord, BuildRecord, Record, NoEtag
<1>6. CASE DeleteEffect(c)
  BY <1>1, <1>2, <1>6 DEF RecordInv, DeleteEffect, Absent, NoEtag, Record
<1>7. QED
  BY <1>1, <1>3, <1>4, <1>5, <1>6 DEF LedgerEffect

\* Program points and store calls stay in step.
LEMMA LedgerKeepsControlInv ==
  ASSUME IInv, NEW c \in Invocation, LedgerStep(c)
  PROVE  ControlInv'
<1> USE LedgerStepLocals, LedgerStepKeyed
        DEF IInv, TypeOK, StoreTypeOK, ControlInv, handlerVars, Continue, Return, ReturnClaimed,
            ReturnStored, Keyed
<1>1. CASE CreateClaim(c)
  BY <1>1 DEF CreateClaim
<1>2. CASE ResolveAfterConflict(c)
  BY <1>2 DEF ResolveAfterConflict
<1>3. CASE ReclaimClaim(c)
  BY <1>3 DEF ReclaimClaim
<1>4. CASE RereadAfterRace(c)
  BY <1>4 DEF RereadAfterRace
<1>5. CASE WriteCompleted(c)
  BY <1>5 DEF WriteCompleted
<1>6. CASE ConfirmCompleted(c)
  BY <1>6 DEF ConfirmCompleted
<1>7. CASE InspectClaim(c)
  BY <1>7 DEF InspectClaim
<1>8. CASE DeleteClaim(c)
  BY <1>8 DEF DeleteClaim
<1>9. QED
  BY <1>1, <1>2, <1>3, <1>4, <1>5, <1>6, <1>7, <1>8 DEF LedgerStep, StoreStep

\* A new ETag differs from every token and every ETag read before.
LEMMA LedgerKeepsTokenInv ==
  ASSUME IInv, NEW c \in Invocation, LedgerStep(c)
  PROVE  TokenInv'
<1>1. /\ LedgerEffect(c) /\ Keyed(c) /\ KeyOf[c] \in Key
      /\ pc' = pc /\ Blob(c) \in Record
  BY LedgerStepEffect, LedgerStepKeyed, LedgerStepLocals DEF handlerVars
<1>2. /\ TokenInv /\ RecordInv /\ lastEtag \in Nat /\ blob \in [Key -> Record]
      /\ token \in [Invocation -> Nat] /\ seen \in [Invocation -> Nat]
      /\ outcome \in [Invocation -> Outcome]
  BY DEF IInv, TypeOK, StoreTypeOK
<1>3. lastEtag' \in Nat /\ lastEtag' >= lastEtag
  BY <1>1, <1>2 DEF LedgerEffect, storageVars, ClaimEffect, CompleteEffect, DeleteEffect
\* Another invocation's token and read ETag.
<1>4. ASSUME NEW d \in Invocation \ {c}
      PROVE  /\ token'[d] <= lastEtag' /\ seen'[d] <= lastEtag'
             /\ Holder(d)' => token'[d] # NoEtag
             /\ Keyed(d) /\ token'[d] # NoEtag /\ Blob(d)'.etag = token'[d] =>
                  Blob(d)'.status = "in_progress" /\ Blob(d)'.writer = {d}
             /\ Keyed(d) /\ seen'[d] # NoEtag /\ Blob(d)'.etag = seen'[d] => Blob(d)'.expired
  <2>1. token'[d] = token[d] /\ seen'[d] = seen[d] /\ outcome'[d] = outcome[d]
    BY LedgerStepLocals
  <2>2. token'[d] <= lastEtag' /\ seen'[d] <= lastEtag'
    BY <1>2, <1>3, <2>1 DEF TokenInv
  <2>3. Holder(d)' => token'[d] # NoEtag
    BY <1>1, <1>2, <2>1 DEF TokenInv, Holder, Keyed
  <2>4. Blob(d)'.etag # NoEtag /\ Blob(d)'.etag <= lastEtag /\ Keyed(d) => Blob(d)' = Blob(d)
    BY <1>1, <1>2, LedgerAssumption
       DEF LedgerEffect, storageVars, ClaimEffect, CompleteEffect, DeleteEffect, Blob, Keyed,
           ClaimRecord, CompletedRecord, BuildRecord, Absent, NoEtag
  <2>5. token[d] <= lastEtag /\ seen[d] <= lastEtag
    BY <1>2 DEF TokenInv
  <2>6. QED
    BY <1>2, <2>1, <2>2, <2>3, <2>4, <2>5 DEF TokenInv
\* The invocation's own.
<1>5. CASE CreateClaim(c) \/ ReclaimClaim(c)
  <2>1. CASE outcome'[c] = "claimed"
    <3>1. /\ token'[c] = lastEtag + 1 /\ seen'[c] \in {seen[c], NoEtag}
          /\ blob' = [blob EXCEPT ![KeyOf[c]] = ClaimRecord(c)] /\ lastEtag' = lastEtag + 1
      BY <1>1, <1>2, <1>5, <2>1
         DEF CreateClaim, ReclaimClaim, Upload, ReturnClaimed, Return, Continue, IInv, ControlInv
    <3>2. Blob(c)' = ClaimRecord(c)
      BY <1>1, <1>2, <3>1 DEF Blob
    <3>3. seen[c] <= lastEtag /\ seen[c] \in Nat
      BY <1>2 DEF TokenInv
    <3>4. QED
      BY <1>2, <1>4, <3>1, <3>2, <3>3 DEF TokenInv, ClaimRecord, BuildRecord, NoEtag, Holder
  <2>2. CASE outcome'[c] # "claimed"
    <3>1. token'[c] = token[c] /\ seen'[c] \in {seen[c], NoEtag} /\ pc[c] = "beginning"
      BY <1>1, <1>2, <1>5, <2>2
         DEF CreateClaim, ReclaimClaim, Upload, ReturnClaimed, Return, Continue, IInv, ControlInv
    <3>2. Blob(c)'.etag # NoEtag /\ Blob(c)'.etag <= lastEtag => Blob(c)' = Blob(c)
      BY <1>1, <1>2
         DEF LedgerEffect, storageVars, ClaimEffect, CompleteEffect, DeleteEffect, Blob,
             ClaimRecord, CompletedRecord, BuildRecord, Absent, NoEtag
    <3>3. token[c] <= lastEtag /\ seen[c] <= lastEtag /\ token'[c] <= lastEtag' /\ seen'[c] <= lastEtag'
      BY <1>2, <1>3, <3>1 DEF TokenInv, NoEtag
    <3>4. ~Holder(c)'
      BY <1>1, <2>2, <3>1 DEF Holder
    <3>5. QED
      BY <1>2, <1>4, <3>1, <3>2, <3>3, <3>4 DEF TokenInv
  <2>3. QED
    BY <2>1, <2>2
<1>6. CASE ResolveAfterConflict(c)
  <2>1. /\ UNCHANGED storageVars /\ token'[c] = token[c] /\ pc[c] = "beginning"
        /\ outcome'[c] # "claimed"
    BY <1>2, <1>6
       DEF ResolveAfterConflict, IInv, ControlInv, Continue, Return, ReturnStored
  <2>2. \/ seen'[c] = seen[c]
        \/ seen'[c] = Blob(c).etag /\ Reclaimable(Blob(c))
    BY <1>2, <1>6 DEF ResolveAfterConflict
  <2>3. Reclaimable(Blob(c)) => Blob(c).etag = NoEtag \/ Blob(c).expired
    BY <1>1, <1>2 DEF Reclaimable, RecordInv, Blob, Absent
  <2>4. seen'[c] <= lastEtag
    BY <1>1, <1>2, <2>2 DEF TokenInv, RecordInv, Blob
  <2>5. ~Holder(c)'
    BY <1>1, <2>1 DEF Holder
  <2>6. QED
    BY <1>1, <1>2, <1>4, <2>1, <2>2, <2>3, <2>4, <2>5 DEF TokenInv, storageVars, Blob
<1>7. CASE \/ RereadAfterRace(c) \/ WriteCompleted(c) \/ ConfirmCompleted(c)
           \/ InspectClaim(c) \/ DeleteClaim(c)
  <2>1. token'[c] = token[c] /\ seen'[c] = seen[c] /\ outcome'[c] # "claimed"
    BY <1>2, <1>7
       DEF RereadAfterRace, WriteCompleted, ConfirmCompleted, InspectClaim, DeleteClaim, IInv,
           ControlInv, Continue, Return, ReturnStored
  <2>2. Blob(c)'.etag # NoEtag /\ Blob(c)'.etag <= lastEtag => Blob(c)' = Blob(c)
    BY <1>1, <1>2
       DEF LedgerEffect, storageVars, ClaimEffect, CompleteEffect, DeleteEffect, Blob,
           ClaimRecord, CompletedRecord, BuildRecord, Absent, NoEtag
  <2>3. token[c] <= lastEtag /\ seen[c] <= lastEtag /\ token'[c] <= lastEtag' /\ seen'[c] <= lastEtag'
    BY <1>2, <1>3, <2>1 DEF TokenInv
  <2>4. Holder(c)' => Holder(c)
    BY <1>1, <2>1 DEF Holder, Keyed
  <2>5. QED
    BY <1>2, <1>4, <2>1, <2>2, <2>3, <2>4 DEF TokenInv
<1>8. QED
  BY <1>5, <1>6, <1>7 DEF LedgerStep, StoreStep

\* A ledger step keeps what ties a delivery to the claim it runs under.
LEMMA LedgerKeepsDeliveryInv ==
  ASSUME IInv, NEW c \in Invocation, LedgerStep(c)
  PROVE  DeliveryInv'
<1>1. /\ LedgerEffect(c) /\ Keyed(c) /\ KeyOf[c] \in Key
      /\ pc' = pc /\ post' = post /\ lapsed' = lapsed
  BY LedgerStepEffect, LedgerStepKeyed, LedgerStepLocals
     DEF handlerVars, LedgerEffect, storageVars, ClaimEffect, CompleteEffect, DeleteEffect
<1>2. /\ TokenInv /\ RecordInv /\ DeliveryInv /\ ControlInv
      /\ lastEtag \in Nat /\ blob \in [Key -> Record]
      /\ token \in [Invocation -> Nat] /\ outcome \in [Invocation -> Outcome]
  BY DEF IInv, TypeOK, StoreTypeOK
<1>3. ASSUME NEW d \in Invocation,
             Delivers(d)', TtlOutlivesInvocation \/ ~lapsed'[KeyOf[d]]
      PROVE  Blob(d)'.etag = token'[d] /\ ~Blob(d)'.expired
  <2>1. CASE d = c /\ ~Delivers(c)
    <3>1. /\ token'[c] = lastEtag + 1
          /\ blob' = [blob EXCEPT ![KeyOf[c]] = ClaimRecord(c)]
      BY <1>1, <1>2, <1>3, <2>1
         DEF LedgerStep, StoreStep, CreateClaim, ReclaimClaim, ResolveAfterConflict,
             RereadAfterRace, WriteCompleted, ConfirmCompleted, InspectClaim, DeleteClaim,
             Upload, ReturnClaimed, Return, ReturnStored, Continue, ControlInv, Delivers
    <3>2. QED
      BY <1>1, <1>2, <2>1, <3>1 DEF Blob, ClaimRecord, BuildRecord
  <2>2. CASE d # c \/ Delivers(c)
    <3>1. Delivers(d) /\ token'[d] = token[d]
      BY <1>1, <1>2, <1>3, <2>2, LedgerStepLocals
         DEF LedgerStep, StoreStep, CreateClaim, ReclaimClaim, ResolveAfterConflict,
             RereadAfterRace, WriteCompleted, ConfirmCompleted, InspectClaim, DeleteClaim,
             Delivers, Keyed, ControlInv
    <3>2. Blob(d).etag = token[d] /\ ~Blob(d).expired /\ token[d] # NoEtag
      BY <1>1, <1>2, <1>3, <3>1 DEF DeliveryInv, TokenInv, Delivers, Holder
    <3>3. Blob(d).status = "in_progress" /\ Blob(d).writer = {d}
      BY <1>2, <3>1, <3>2 DEF TokenInv, Delivers
    <3>4. Blob(d)' = Blob(d)
      <4>1. KeyOf[d] \in Key
        BY <3>1, LedgerAssumption DEF Delivers, Keyed
      <4>2. CASE UNCHANGED storageVars
        BY <4>2 DEF storageVars, Blob
      <4>3. CASE ClaimEffect(c)
        BY <1>1, <1>2, <3>2, <4>1, <4>3 DEF ClaimEffect, Blob, Absent
      <4>4. CASE CompleteEffect(c)
        BY <1>1, <1>2, <3>1, <3>3, <4>1, <4>4 DEF CompleteEffect, OwnsRecord, Blob, Delivers
      <4>5. CASE DeleteEffect(c)
        BY <1>1, <1>2, <3>1, <3>3, <4>1, <4>5 DEF DeleteEffect, OwnsRecord, Blob, Delivers
      <4>6. QED
        BY <1>1, <4>2, <4>3, <4>4, <4>5 DEF LedgerEffect
    <3>5. QED
      BY <3>1, <3>2, <3>4
  <2>3. QED
    BY <2>1, <2>2
<1>4. ASSUME NEW d \in Invocation,
             Keyed(d), post'[d] = "confirmed", ~lapsed'[KeyOf[d]]
      PROVE  Blob(d)'.status # "absent" /\ Blob(d)'.writer = {d}
  <2>1. Blob(d).status # "absent" /\ Blob(d).writer = {d}
    BY <1>1, <1>2, <1>4 DEF DeliveryInv
  <2>2. KeyOf[d] \in Key /\ ~Blob(d).expired
    BY <1>1, <1>2, <1>4, LedgerAssumption DEF Keyed, RecordInv, Blob
  <2>3. CASE UNCHANGED storageVars
    BY <2>1, <2>3 DEF storageVars, Blob
  <2>4. CASE ClaimEffect(c)
    BY <1>1, <1>2, <2>1, <2>2, <2>4 DEF ClaimEffect, Blob, Absent
  <2>5. CASE CompleteEffect(c)
    BY <1>1, <1>2, <2>1, <2>2, <2>5
       DEF CompleteEffect, OwnsRecord, Blob, CompletedRecord, BuildRecord
  <2>6. CASE DeleteEffect(c)
    BY <1>1, <1>2, <1>4, <2>1, <2>2, <2>6 DEF DeleteEffect, OwnsRecord, Blob, ControlInv
  <2>7. QED
    BY <1>1, <2>3, <2>4, <2>5, <2>6 DEF LedgerEffect
<1>5. QED
  BY <1>3, <1>4 DEF DeliveryInv, Keyed

\* An id once learned stays the id of the completed record, until the record expires.
LEMMA LedgerKeepsReportInv ==
  ASSUME IInv, NEW c \in Invocation, LedgerStep(c)
  PROVE  ReportInv'
<1>1. /\ LedgerEffect(c) /\ Keyed(c) /\ KeyOf[c] \in Key
      /\ pc' = pc /\ post' = post /\ answer' = answer /\ lapsed' = lapsed
  BY LedgerStepEffect, LedgerStepKeyed, LedgerStepLocals
     DEF handlerVars, LedgerEffect, storageVars, ClaimEffect, CompleteEffect, DeleteEffect
<1>2. /\ RecordInv /\ ControlInv /\ ReportInv
      /\ blob \in [Key -> Record]
      /\ outcome \in [Invocation -> Outcome] /\ replayed \in [Invocation -> Id \cup {NoId}]
  BY DEF IInv, TypeOK, StoreTypeOK
<1>3. ASSUME NEW d \in Invocation, Keyed(d), Blob(d).status = "completed", ~lapsed[KeyOf[d]]
      PROVE  Blob(d)' = Blob(d)
  <2>1. KeyOf[d] \in Key /\ ~Blob(d).expired
    BY <1>2, <1>3, LedgerAssumption DEF Keyed, RecordInv, Blob
  <2>2. QED
    BY <1>1, <1>2, <1>3, <2>1
       DEF LedgerEffect, storageVars, ClaimEffect, CompleteEffect, DeleteEffect, OwnsRecord,
           Blob, Absent
\* What the invocation's call returns, if it is an id.
<1>4. CASE outcome'[c] = "replay" /\ outcome[c] # "replay"
  <2>1. /\ UNCHANGED storageVars /\ pc[c] = "beginning"
        /\ Blob(c).status = "completed" /\ replayed'[c] = Blob(c).id
    BY <1>2, <1>4
       DEF LedgerStep, StoreStep, CreateClaim, ResolveAfterConflict, ReclaimClaim,
           RereadAfterRace, WriteCompleted, ConfirmCompleted, InspectClaim, DeleteClaim,
           Return, ReturnClaimed, ReturnStored, Continue, HasStoredResponse, StoredId, ControlInv
  <2>2. PICK e \in Invocation :
          /\ KeyOf[e] = KeyOf[c] /\ Blob(c).id = CorrelationOf[e] /\ post[e] = "confirmed"
    BY <1>1, <1>2, <2>1 DEF RecordInv, Blob
  <2>3. SameKey(c, e) /\ CorrelationOf[e] = replayed'[c] /\ replayed'[c] # NoId
    BY <1>1, <2>1, <2>2, LedgerAssumption DEF SameKey
  <2>4. answer[c] = "none"
    BY <1>2, <2>1 DEF ControlInv, IInv, TypeOK
  <2>5. /\ Blob(c)'.status = "completed" /\ Blob(c)'.id = ResponseId(c)'
        /\ \E d \in Invocation : SameKey(c, d) /\ post'[d] = "confirmed"
                                 /\ CorrelationOf[d] = replayed'[c]
    BY <1>1, <2>1, <2>2, <2>3 DEF Blob, ResponseId, storageVars
  <2>6. ASSUME NEW d \in Invocation \ {c}
        PROVE  /\ outcome'[d] = outcome[d] /\ replayed'[d] = replayed[d]
               /\ Blob(d)' = Blob(d) /\ ResponseId(d)' = ResponseId(d)
    BY <2>1, LedgerStepLocals DEF storageVars, Blob, ResponseId
  <2>7. QED
    BY <1>1, <1>2, <1>4, <2>1, <2>4, <2>5, <2>6 DEF ReportInv, SameKey, Keyed
<1>5. CASE outcome'[c] = "completed" /\ outcome[c] # "completed"
  <2>1. /\ pc[c] = "completing" /\ replayed'[c] = replayed[c] /\ outcome[c] = "none"
        /\ WriteCompleted(c) \/ ConfirmCompleted(c)
    BY <1>2, <1>5
       DEF LedgerStep, StoreStep, CreateClaim, ResolveAfterConflict, ReclaimClaim,
           RereadAfterRace, WriteCompleted, ConfirmCompleted, InspectClaim, DeleteClaim,
           Return, ReturnClaimed, ReturnStored, Continue, ControlInv
  <2>2. replayed'[c] = NoId /\ post[c] = "confirmed" /\ answer[c] = "none"
    BY <1>2, <2>1 DEF ReportInv, ControlInv
  <2>3. Blob(c)'.status = "completed" /\ Blob(c)'.id = CorrelationOf[c]
    <3>1. CASE WriteCompleted(c)
      BY <1>1, <1>2, <1>5, <2>1, <3>1
         DEF WriteCompleted, Upload, Return, Continue, Blob, CompletedRecord, BuildRecord
    <3>2. CASE ConfirmCompleted(c)
      BY <1>2, <1>5, <3>2 DEF ConfirmCompleted, CompletedBySame, Return, Blob, storageVars
    <3>3. QED
      BY <2>1, <3>1, <3>2
  <2>4. ASSUME NEW d \in Invocation \ {c}
        PROVE  /\ outcome'[d] = outcome[d] /\ replayed'[d] = replayed[d]
               /\ ResponseId(d)' = ResponseId(d)
    BY LedgerStepLocals DEF ResponseId
  <2>5. QED
    BY <1>1, <1>2, <1>3, <1>5, <2>1, <2>2, <2>3, <2>4 DEF ReportInv, SameKey, Keyed, ResponseId
<1>6. CASE outcome'[c] \notin {"replay", "completed"} \/ outcome'[c] = outcome[c]
  <2>1. replayed'[c] = replayed[c] /\ outcome[c] = "none"
    BY <1>2, <1>6
       DEF LedgerStep, StoreStep, CreateClaim, ResolveAfterConflict, ReclaimClaim,
           RereadAfterRace, WriteCompleted, ConfirmCompleted, InspectClaim, DeleteClaim,
           Return, ReturnClaimed, ReturnStored, Continue, ControlInv
  <2>2. replayed[c] = NoId /\ answer[c] = "none" /\ outcome'[c] \notin {"replay", "completed"}
    BY <1>2, <1>6, <2>1, LedgerStepKeyed
       DEF ReportInv, ControlInv, LedgerStep, StoreStep, CreateClaim, ResolveAfterConflict,
           ReclaimClaim, RereadAfterRace, WriteCompleted, ConfirmCompleted, InspectClaim,
           DeleteClaim
  <2>3. ASSUME NEW d \in Invocation \ {c}
        PROVE  /\ outcome'[d] = outcome[d] /\ replayed'[d] = replayed[d]
               /\ ResponseId(d)' = ResponseId(d)
    BY LedgerStepLocals DEF ResponseId
  <2>4. QED
    BY <1>1, <1>2, <1>3, <2>1, <2>2, <2>3 DEF ReportInv, SameKey, Keyed, ResponseId
<1>7. QED
  BY <1>4, <1>5, <1>6
-----------------------------------------------------------------------------
(***************************************************************************)
(* The other steps of an invocation keep the invariant.                    *)
(***************************************************************************)
LEMMA ControlStepTyped ==
  ASSUME IInv, NEW c \in Invocation, ControlStep(c)
  PROVE  TypeOK'
<1>1. StoreTypeOK'
  <2> USE DEF IInv, TypeOK, StoreTypeOK, storeVars, storageVars, RespondWith, Call, FailDelivery,
              TryAgain, DropLocals, StorageRequest, Outcome, NoEtag
  <2>1. CASE Refuse(c)
    BY <2>1 DEF Refuse
  <2>2. CASE Admit(c)
    BY <2>2 DEF Admit
  <2>3. CASE AfterBegin(c)
    BY <2>3 DEF AfterBegin
  <2>4. CASE Attempt(c)
    BY <2>4 DEF Attempt
  <2>5. CASE RejectedStatus(c)
    BY <2>5 DEF RejectedStatus
  <2>6. CASE NoReply(c)
    BY <2>6 DEF NoReply, AmbiguousFailure
  <2>7. CASE AcceptedStatus(c)
    BY <2>7 DEF AcceptedStatus
  <2>8. CASE AfterComplete(c)
    BY <2>8 DEF AfterComplete, CompleteAgain, GiveUpCompleting
  <2>9. CASE AfterRelease(c)
    BY <2>9 DEF AfterRelease, ReleaseAgain
  <2>10. CASE ProviderAccepts(c)
    BY <2>10 DEF ProviderAccepts
  <2>11. CASE Kill(c)
    BY <2>11 DEF Kill
  <2>12. QED
    BY <2>1, <2>2, <2>3, <2>4, <2>5, <2>6, <2>7, <2>8, <2>9, <2>10, <2>11 DEF ControlStep
<1>2. /\ pc' \in [Invocation -> ProgramPoint] /\ attempt' \in [Invocation -> 0..MaxAttempts]
      /\ post' \in [Invocation -> PostState] /\ tries' \in [Invocation -> Nat]
      /\ verdict' \in [Invocation -> FailureClass] /\ answer' \in [Invocation -> Answer]
  <2> USE PolicyAssumption
          DEF IInv, TypeOK, RespondWith, Call, FailDelivery, Goto,
              TryAgain, DropLocals, ProgramPoint, PostState, FailureClass, Answer
  <2>1. CASE Refuse(c)
    BY <2>1 DEF Refuse
  <2>2. CASE Admit(c)
    BY <2>2 DEF Admit
  <2>3. CASE AfterBegin(c)
    BY <2>3 DEF AfterBegin
  <2>4. CASE Attempt(c)
    <3>1. attempt[c] < MaxAttempts
      BY <2>4 DEF Attempt, ControlInv
    <3>2. QED
      BY <2>4, <3>1 DEF Attempt
  <2>5. CASE RejectedStatus(c)
    BY <2>5 DEF RejectedStatus
  <2>6. CASE NoReply(c)
    BY <2>6 DEF NoReply, AmbiguousFailure
  <2>7. CASE AcceptedStatus(c)
    BY <2>7 DEF AcceptedStatus
  <2>8. CASE AfterComplete(c)
    BY <2>8 DEF AfterComplete, CompleteAgain, GiveUpCompleting
  <2>9. CASE AfterRelease(c)
    BY <2>9 DEF AfterRelease, ReleaseAgain
  <2>10. CASE ProviderAccepts(c)
    BY <2>10 DEF ProviderAccepts
  <2>11. CASE Kill(c)
    BY <2>11 DEF Kill
  <2>12. QED
    BY <2>1, <2>2, <2>3, <2>4, <2>5, <2>6, <2>7, <2>8, <2>9, <2>10, <2>11 DEF ControlStep
<1>3. QED
  BY <1>1, <1>2 DEF TypeOK

\* Such a step leaves the other invocations' locals alone.
LEMMA ControlStepLocals ==
  ASSUME IInv, NEW c \in Invocation, ControlStep(c), NEW d \in Invocation \ {c}
  PROVE  /\ at'[d] = at[d] /\ token'[d] = token[d] /\ seen'[d] = seen[d]
         /\ outcome'[d] = outcome[d] /\ replayed'[d] = replayed[d]
         /\ pc'[d] = pc[d] /\ attempt'[d] = attempt[d] /\ post'[d] = post[d]
         /\ tries'[d] = tries[d] /\ verdict'[d] = verdict[d] /\ answer'[d] = answer[d]
<1> USE DEF IInv, TypeOK, StoreTypeOK, storeVars, storageVars, RespondWith, Call, FailDelivery,
            TryAgain, DropLocals, Goto
<1>1. CASE Refuse(c)
  BY <1>1 DEF Refuse
<1>2. CASE Admit(c)
  BY <1>2 DEF Admit
<1>3. CASE AfterBegin(c)
  BY <1>3 DEF AfterBegin
<1>4. CASE Attempt(c)
  BY <1>4 DEF Attempt
<1>5. CASE RejectedStatus(c)
  BY <1>5 DEF RejectedStatus
<1>6. CASE NoReply(c)
  BY <1>6 DEF NoReply, AmbiguousFailure
<1>7. CASE AcceptedStatus(c)
  BY <1>7 DEF AcceptedStatus
<1>8. CASE AfterComplete(c)
  BY <1>8 DEF AfterComplete, CompleteAgain, GiveUpCompleting
<1>9. CASE AfterRelease(c)
  BY <1>9 DEF AfterRelease, ReleaseAgain
<1>10. CASE ProviderAccepts(c)
  BY <1>10 DEF ProviderAccepts
<1>11. CASE Kill(c)
  BY <1>11 DEF Kill
<1>12. QED
  BY <1>1, <1>2, <1>3, <1>4, <1>5, <1>6, <1>7, <1>8, <1>9, <1>10, <1>11 DEF ControlStep

\* Program points and store calls stay in step outside the calls as well.
LEMMA ControlKeepsControlInv ==
  ASSUME IInv, NEW c \in Invocation, ControlStep(c)
  PROVE  ControlInv'
<1> USE ControlStepLocals, PolicyAssumption
        DEF IInv, TypeOK, StoreTypeOK, ControlInv, storeVars, storageVars, RespondWith, Call, FailDelivery,
            TryAgain, DropLocals, Goto, Keyed, PostState, NoEtag
<1>1. CASE Refuse(c)
  BY <1>1 DEF Refuse, ReportInv
<1>2. CASE Admit(c)
  BY <1>2 DEF Admit
<1>3. CASE AfterBegin(c)
  BY <1>3 DEF AfterBegin
<1>4. CASE Attempt(c)
  BY <1>4 DEF Attempt
<1>5. CASE RejectedStatus(c)
  BY <1>5 DEF RejectedStatus, CanRetry
<1>6. CASE NoReply(c)
  BY <1>6 DEF NoReply, AmbiguousFailure
<1>7. CASE AcceptedStatus(c)
  BY <1>7 DEF AcceptedStatus
<1>8. CASE AfterComplete(c)
  BY <1>8 DEF AfterComplete, CompleteAgain, GiveUpCompleting
<1>9. CASE AfterRelease(c)
  BY <1>9 DEF AfterRelease, ReleaseAgain
<1>10. CASE ProviderAccepts(c)
  BY <1>10 DEF ProviderAccepts
<1>11. CASE Kill(c)
  BY <1>11 DEF Kill, Running
<1>12. QED
  BY <1>1, <1>2, <1>3, <1>4, <1>5, <1>6, <1>7, <1>8, <1>9, <1>10, <1>11 DEF ControlStep

\* What a step of the handler does to the locals of its invocation: tokens are
\* kept or dropped, acceptance is never forgotten, an invocation becomes a holder
\* only by a store call, and hears of acceptance only while it delivers.
LEMMA ControlStepOwnLocals ==
  ASSUME IInv, NEW c \in Invocation, ControlStep(c)
  PROVE  /\ token'[c] = token[c] \/ (token'[c] = NoEtag /\ ~Holder(c)')
         /\ seen'[c] \in {seen[c], NoEtag}
         /\ Holder(c)' => Holder(c)
         /\ Delivers(c)' => Delivers(c)
         /\ post[c] = "confirmed" => post'[c] = "confirmed"
         /\ post'[c] = "confirmed" /\ post[c] # "confirmed" /\ Keyed(c) => Delivers(c)
<1> USE PolicyAssumption
        DEF IInv, TypeOK, StoreTypeOK, ControlInv, Holder, Delivers, storeVars, storageVars,
            RespondWith, Call, FailDelivery, TryAgain, DropLocals, Goto, Keyed
<1>1. CASE Refuse(c)
  BY <1>1 DEF Refuse
<1>2. CASE Admit(c)
  BY <1>2 DEF Admit
<1>3. CASE AfterBegin(c)
  BY <1>3 DEF AfterBegin
<1>4. CASE Attempt(c)
  BY <1>4 DEF Attempt
<1>5. CASE RejectedStatus(c)
  BY <1>5 DEF RejectedStatus, CanRetry
<1>6. CASE NoReply(c)
  BY <1>6 DEF NoReply, AmbiguousFailure
<1>7. CASE AcceptedStatus(c)
  BY <1>7 DEF AcceptedStatus
<1>8. CASE AfterComplete(c)
  BY <1>8 DEF AfterComplete, CompleteAgain, GiveUpCompleting
<1>9. CASE AfterRelease(c)
  BY <1>9 DEF AfterRelease, ReleaseAgain
<1>10. CASE ProviderAccepts(c)
  BY <1>10 DEF ProviderAccepts
<1>11. CASE Kill(c)
  BY <1>11 DEF Kill, Running
<1>12. QED
  BY <1>1, <1>2, <1>3, <1>4, <1>5, <1>6, <1>7, <1>8, <1>9, <1>10, <1>11 DEF ControlStep

\* Nobody forgets that the provider accepted.
LEMMA ConfirmedStays ==
  ASSUME IInv, NEW c \in Invocation, ControlStep(c), NEW d \in Invocation, post[d] = "confirmed"
  PROVE  post'[d] = "confirmed"
BY ControlStepLocals, ControlStepOwnLocals

\* The records are untouched by a control step.
LEMMA ControlKeepsRecordInv ==
  ASSUME IInv, NEW c \in Invocation, ControlStep(c)
  PROVE  RecordInv'
BY ControlStepEffect, ConfirmedStays DEF IInv, RecordInv, storageVars

\* Tokens are untouched by a control step.
LEMMA ControlKeepsTokenInv ==
  ASSUME IInv, NEW c \in Invocation, ControlStep(c)
  PROVE  TokenInv'
<1>1. UNCHANGED storageVars /\ TokenInv /\ lastEtag \in Nat
  BY ControlStepEffect DEF IInv, TypeOK, StoreTypeOK
<1>2. ASSUME NEW d \in Invocation
      PROVE  /\ token'[d] = token[d] \/ (token'[d] = NoEtag /\ ~Holder(d)')
             /\ seen'[d] \in {seen[d], NoEtag}
             /\ Holder(d)' => Holder(d)
  BY ControlStepLocals, ControlStepOwnLocals DEF Holder, Keyed
<1>3. QED
  BY <1>1, <1>2 DEF TokenInv, storageVars, Blob, NoEtag, Keyed

\* A control step keeps what ties a delivery to the claim it runs under.
LEMMA ControlKeepsDeliveryInv ==
  ASSUME IInv, NEW c \in Invocation, ControlStep(c)
  PROVE  DeliveryInv'
<1>1. UNCHANGED storageVars /\ DeliveryInv /\ TokenInv /\ blob \in [Key -> Record]
      /\ token \in [Invocation -> Nat]
  BY ControlStepEffect DEF IInv, TypeOK, StoreTypeOK
<1>2. ASSUME NEW d \in Invocation
      PROVE  /\ Delivers(d)' => Delivers(d) /\ token'[d] = token[d]
             /\ post'[d] = "confirmed" /\ Keyed(d) => post[d] = "confirmed" \/ Delivers(d)
  BY ControlStepLocals, ControlStepOwnLocals DEF Delivers, Holder, Keyed
<1>3. ASSUME NEW d \in Invocation,
             Delivers(d)', TtlOutlivesInvocation \/ ~lapsed'[KeyOf[d]]
      PROVE  Blob(d)'.etag = token'[d] /\ ~Blob(d)'.expired
  BY <1>1, <1>2, <1>3 DEF DeliveryInv, storageVars, Blob
<1>4. ASSUME NEW d \in Invocation,
             Keyed(d), post'[d] = "confirmed", ~lapsed'[KeyOf[d]]
      PROVE  Blob(d)'.status # "absent" /\ Blob(d)'.writer = {d}
  <2>1. CASE post[d] = "confirmed"
    BY <1>1, <1>4, <2>1 DEF DeliveryInv, storageVars, Blob
  <2>2. CASE Delivers(d)
    <3>1. Blob(d).etag = token[d] /\ token[d] # NoEtag
      BY <1>1, <1>4, <2>2 DEF DeliveryInv, TokenInv, Delivers, Holder, storageVars
    <3>2. QED
      BY <1>1, <1>4, <3>1 DEF TokenInv, storageVars, Blob
  <2>3. QED
    BY <1>2, <1>4, <2>1, <2>2
<1>5. QED
  BY <1>3, <1>4 DEF DeliveryInv, Keyed

\* A control step keeps what ties answers to the record and to the provider.
LEMMA ControlKeepsReportInv ==
  ASSUME IInv, NEW c \in Invocation, ControlStep(c)
  PROVE  ReportInv'
<1>1. UNCHANGED storageVars /\ ReportInv /\ ControlInv /\ TypeOK
  BY ControlStepEffect DEF IInv
\* The id a call returned is kept until the next call, and the answer follows from it.
<1>2. /\ replayed'[c] \in {replayed[c], NoId}
      /\ outcome'[c] \in {outcome[c], "none"}
      /\ outcome'[c] \in {"replay", "completed"} => replayed'[c] = replayed[c]
      /\ outcome'[c] = "replay" => pc'[c] \in {"beginning", "answered"}
      /\ outcome'[c] = "completed" => pc'[c] \in {"completing", "answered"}
      /\ replayed'[c] # NoId => outcome'[c] = "replay"
      /\ answer'[c] = "sent" =>
           IF Keyed(c) THEN outcome'[c] \in {"replay", "completed"}
                       ELSE outcome'[c] = "none" /\ post'[c] = "confirmed"
  <2> USE PolicyAssumption, <1>1
          DEF TypeOK, StoreTypeOK, ControlInv, ReportInv, storeVars, storageVars,
              RespondWith, Call, FailDelivery, TryAgain, DropLocals, Goto, Keyed
  <2>1. CASE Refuse(c)
    BY <2>1 DEF Refuse
  <2>2. CASE Admit(c)
    BY <2>2 DEF Admit
  <2>3. CASE AfterBegin(c)
    BY <2>3 DEF AfterBegin
  <2>4. CASE Attempt(c)
    BY <2>4 DEF Attempt
  <2>5. CASE RejectedStatus(c)
    BY <2>5 DEF RejectedStatus, CanRetry
  <2>6. CASE NoReply(c)
    BY <2>6 DEF NoReply, AmbiguousFailure
  <2>7. CASE AcceptedStatus(c)
    BY <2>7 DEF AcceptedStatus
  <2>8. CASE AfterComplete(c)
    BY <2>8 DEF AfterComplete, CompleteAgain, GiveUpCompleting
  <2>9. CASE AfterRelease(c)
    BY <2>9 DEF AfterRelease, ReleaseAgain, FailureClass
  <2>10. CASE ProviderAccepts(c)
    BY <2>10 DEF ProviderAccepts
  <2>11. CASE Kill(c)
    BY <2>11 DEF Kill, Running
  <2>12. QED
    BY <2>1, <2>2, <2>3, <2>4, <2>5, <2>6, <2>7, <2>8, <2>9, <2>10, <2>11 DEF ControlStep
<1>3. ASSUME NEW d \in Invocation, post[d] = "confirmed"
      PROVE  post'[d] = "confirmed"
  BY <1>3, ConfirmedStays
<1>4. QED
  BY <1>1, <1>2, <1>3, ControlStepLocals
     DEF ReportInv, ResponseId, Blob, storageVars, SameKey, Keyed
-----------------------------------------------------------------------------
(***************************************************************************)
(* The clock and the lifecycle rule keep the invariant.                    *)
(***************************************************************************)
\* The clock keeps the invariant: an expired record protects nobody.
LEMMA ExpireKeepsIInv ==
  ASSUME IInv, NEW k \in Key, Expire(k)
  PROVE  IInv'
<1>1. /\ blob' = [blob EXCEPT ![k].expired = TRUE] /\ lapsed' = [lapsed EXCEPT ![k] = TRUE]
      /\ blob[k].status # "absent"
      /\ TtlOutlivesInvocation => \A c \in blob[k].writer : ~Running(c)
      /\ UNCHANGED <<lastEtag, callVars, handlerVars>>
  BY DEF Expire, PassExpiry
<1>2. /\ blob \in [Key -> Record] /\ lapsed \in [Key -> BOOLEAN] /\ lastEtag \in Nat
      /\ token \in [Invocation -> Nat] /\ blob[k] \in Record
  BY DEF IInv, TypeOK, StoreTypeOK
<1>3. /\ blob'[k] = [blob[k] EXCEPT !.expired = TRUE] /\ lapsed'[k] = TRUE
      /\ \A j \in Key \ {k} : blob'[j] = blob[j] /\ lapsed'[j] = lapsed[j]
  BY <1>1, <1>2
<1>4. /\ blob'[k].status = blob[k].status /\ blob'[k].id = blob[k].id
      /\ blob'[k].etag = blob[k].etag /\ blob'[k].writer = blob[k].writer
      /\ blob'[k].expired
  BY <1>2, <1>3 DEF Record
<1>5. TypeOK'
  <2>1. blob'[k] \in Record
    BY <1>2, <1>3 DEF Record
  <2>2. blob' \in [Key -> Record] /\ lapsed' \in [Key -> BOOLEAN]
    BY <1>1, <1>2, <1>3, <2>1
  <2>3. QED
    BY <1>1, <2>2 DEF IInv, TypeOK, StoreTypeOK, callVars, handlerVars
<1>6. RecordInv'
  <2>1. ASSUME NEW j \in Key \ {k}
        PROVE  blob'[j] = blob[j] /\ lapsed'[j] = lapsed[j]
    BY <1>3
  <2>2. RecordInv /\ lastEtag' = lastEtag /\ post' = post
    BY <1>1 DEF IInv, handlerVars
  <2>3. QED
    BY <1>1, <1>3, <1>4, <2>1, <2>2 DEF RecordInv
<1>7. ControlInv'
  BY <1>1 DEF IInv, ControlInv, callVars, handlerVars, Keyed
<1>8. ASSUME NEW c \in Invocation, Keyed(c)
      PROVE  /\ KeyOf[c] \in Key
             /\ Blob(c)'.status = Blob(c).status /\ Blob(c)'.etag = Blob(c).etag
             /\ Blob(c)'.id = Blob(c).id /\ Blob(c)'.writer = Blob(c).writer
             /\ Blob(c).expired => Blob(c)'.expired
             /\ ~lapsed'[KeyOf[c]] => Blob(c)' = Blob(c) /\ ~lapsed[KeyOf[c]]
             /\ KeyOf[c] # k => Blob(c)' = Blob(c) /\ lapsed'[KeyOf[c]] = lapsed[KeyOf[c]]
  <2>1. KeyOf[c] \in Key
    BY <1>8, LedgerAssumption DEF Keyed
  <2>2. QED
    BY <1>3, <1>4, <2>1 DEF Blob
<1>9. TokenInv'
  BY <1>1, <1>8 DEF IInv, TokenInv, callVars, handlerVars, Holder, Keyed
<1>10. DeliveryInv'
  <2>1. ASSUME NEW c \in Invocation,
               Delivers(c)', TtlOutlivesInvocation \/ ~lapsed'[KeyOf[c]]
        PROVE  Blob(c)'.etag = token'[c] /\ ~Blob(c)'.expired
    <3>1. Delivers(c) /\ Keyed(c) /\ token' = token
      BY <1>1, <2>1 DEF callVars, handlerVars, Delivers, Keyed
    <3>2. CASE KeyOf[c] # k \/ ~lapsed'[KeyOf[c]]
      BY <1>8, <2>1, <3>1, <3>2 DEF IInv, DeliveryInv
    <3>3. CASE KeyOf[c] = k /\ TtlOutlivesInvocation
      <4>1. Blob(c).etag = token[c] /\ token[c] # NoEtag
        BY <3>1, <3>3 DEF IInv, DeliveryInv, TokenInv, Delivers, Holder
      <4>2. blob[k].writer = {c}
        BY <3>1, <3>3, <4>1 DEF IInv, TokenInv, Blob
      <4>3. Running(c)
        BY <3>1 DEF Delivers, Running
      <4>4. QED
        BY <1>1, <3>3, <4>2, <4>3
    <3>4. QED
      BY <2>1, <3>2, <3>3
  <2>2. ASSUME NEW c \in Invocation, Keyed(c), post'[c] = "confirmed", ~lapsed'[KeyOf[c]]
        PROVE  Blob(c)'.status # "absent" /\ Blob(c)'.writer = {c}
    BY <1>1, <1>8, <2>2 DEF IInv, DeliveryInv, handlerVars
  <2>3. QED
    BY <2>1, <2>2 DEF DeliveryInv, Keyed
<1>11. ReportInv'
  <2>1. /\ outcome' = outcome /\ replayed' = replayed /\ pc' = pc /\ post' = post
        /\ answer' = answer /\ ReportInv
    BY <1>1 DEF callVars, handlerVars, IInv
  <2>2. ASSUME NEW c \in Invocation, outcome[c] \in {"replay", "completed"}, ~lapsed'[KeyOf[c]]
        PROVE  Blob(c)'.status = "completed" /\ Blob(c)'.id = ResponseId(c)
    <3>1. Keyed(c)
      BY <2>1, <2>2 DEF ReportInv
    <3>2. QED
      BY <1>8, <2>1, <2>2, <3>1 DEF ReportInv
  <2>3. QED
    BY <2>1, <2>2 DEF ReportInv, ResponseId, SameKey, Keyed
<1>12. QED
  BY <1>5, <1>6, <1>7, <1>9, <1>10, <1>11 DEF IInv

\* The lifecycle rule keeps the invariant: it deletes expired records only.
LEMMA PurgeKeepsIInv ==
  ASSUME IInv, NEW k \in Key, Purge(k)
  PROVE  IInv'
<1>1. /\ blob' = [blob EXCEPT ![k] = Absent] /\ blob[k].expired
      /\ UNCHANGED <<lastEtag, lapsed, callVars, handlerVars>>
  BY DEF Purge, LifecycleDelete
<1>2. /\ blob \in [Key -> Record] /\ lastEtag \in Nat /\ lapsed[k]
      /\ token \in [Invocation -> Nat] /\ seen \in [Invocation -> Nat]
  BY <1>1 DEF IInv, TypeOK, StoreTypeOK, RecordInv
<1>3. /\ blob'[k] = Absent
      /\ \A j \in Key \ {k} : blob'[j] = blob[j]
  BY <1>1, <1>2
<1>4. /\ Absent \in Record /\ Absent.etag = NoEtag /\ Absent.status = "absent" /\ ~Absent.expired
  BY DEF Absent, Record, NoEtag
<1>5. TypeOK'
  BY <1>1, <1>4 DEF IInv, TypeOK, StoreTypeOK, callVars, handlerVars
<1>6. RecordInv'
  <2>1. ASSUME NEW j \in Key \ {k}
        PROVE  blob'[j] = blob[j]
    BY <1>3
  <2>2. RecordInv /\ lastEtag' = lastEtag /\ post' = post /\ lapsed' = lapsed
    BY <1>1 DEF IInv, handlerVars
  <2>3. NoEtag <= lastEtag
    BY <1>2 DEF NoEtag
  <2>4. QED
    BY <1>3, <1>4, <2>1, <2>2, <2>3 DEF RecordInv
<1>7. ControlInv'
  BY <1>1 DEF IInv, ControlInv, callVars, handlerVars, Keyed
<1>8. ASSUME NEW c \in Invocation, Keyed(c)
      PROVE  /\ KeyOf[c] \in Key
             /\ Blob(c)' = Blob(c) \/ (Blob(c)' = Absent /\ Blob(c).expired)
             /\ ~lapsed[KeyOf[c]] => Blob(c)' = Blob(c)
  <2>1. KeyOf[c] \in Key
    BY <1>8, LedgerAssumption DEF Keyed
  <2>2. QED
    BY <1>1, <1>2, <1>3, <2>1 DEF Blob
<1>9. TokenInv'
  BY <1>1, <1>4, <1>8 DEF IInv, TokenInv, callVars, handlerVars, Holder, Keyed
<1>10. DeliveryInv'
  BY <1>1, <1>8 DEF IInv, DeliveryInv, callVars, handlerVars, Delivers, Keyed
<1>11. ReportInv'
  BY <1>1, <1>8 DEF IInv, ReportInv, callVars, handlerVars, SameKey, Keyed, ResponseId
<1>12. QED
  BY <1>5, <1>6, <1>7, <1>9, <1>10, <1>11 DEF IInv

\* A stuttering step keeps the invariant.
LEMMA StutterKeepsIInv ==
  ASSUME IInv, UNCHANGED vars
  PROVE  IInv'
BY DEF IInv, vars, storeVars, handlerVars, TypeOK, StoreTypeOK, RecordInv, ControlInv, TokenInv,
       DeliveryInv, ReportInv, Holder, Delivers, Blob, Keyed, SameKey, ResponseId
-----------------------------------------------------------------------------
\* Every step keeps the invariant.
LEMMA StepKeepsIInv ==
  ASSUME IInv, [Next]_vars
  PROVE  IInv'
<1>1. ASSUME NEW c \in Invocation, LedgerStep(c)
      PROVE  IInv'
  BY <1>1, StoreStepTyped, LedgerKeepsRecordInv, LedgerKeepsControlInv, LedgerKeepsTokenInv,
     LedgerKeepsDeliveryInv, LedgerKeepsReportInv DEF IInv
<1>2. ASSUME NEW c \in Invocation, ControlStep(c)
      PROVE  IInv'
  BY <1>2, ControlStepTyped, ControlKeepsRecordInv, ControlKeepsControlInv, ControlKeepsTokenInv,
     ControlKeepsDeliveryInv, ControlKeepsReportInv DEF IInv
<1>3. ASSUME NEW k \in Key, Expire(k) \/ Purge(k)
      PROVE  IInv'
  BY <1>3, ExpireKeepsIInv, PurgeKeepsIInv
<1>4. CASE UNCHANGED vars
  BY <1>4, StutterKeepsIInv
<1>5. QED
  BY <1>1, <1>2, <1>3, <1>4, NextSteps

\* The inductive invariant holds of every behaviour.
THEOREM Invariance == Spec => []IInv
<1>1. Init => IInv
  BY InitIInv
<1>2. IInv /\ [Next]_vars => IInv'
  BY StepKeepsIInv
<1>3. QED
  BY <1>1, <1>2, PTL DEF Spec

\* Every variable keeps its type; in particular no invocation ever makes more
\* than MaxAttempts provider attempts.
THEOREM TypeCorrect == Spec => []TypeOK
<1>1. IInv => TypeOK
  BY DEF IInv
<1>2. QED
  BY <1>1, Invariance, PTL

\* Two invocations with the same key are keyed.
LEMMA SameKeyFacts ==
  ASSUME NEW c \in Invocation, NEW d \in Invocation, SameKey(c, d)
  PROVE  Keyed(c) /\ Keyed(d) /\ KeyOf[c] = KeyOf[d] /\ KeyOf[c] \in Key
BY LedgerAssumption DEF SameKey, Keyed

\* The claim excludes: two invocations with one key are never both delivering,
\* when no record outlives its TTL while its writer runs.
THEOREM DeliveryIsExclusive ==
  ASSUME TtlOutlivesInvocation
  PROVE  Spec => []NoParallelDelivery
<1>1. ASSUME IInv
      PROVE  NoParallelDelivery
  <2>1. ASSUME NEW c \in Invocation, NEW d \in Invocation,
               SameKey(c, d), InDelivery(c), InDelivery(d)
        PROVE  c = d
    <3>1. Keyed(c) /\ Keyed(d) /\ Blob(c) = Blob(d)
      BY <2>1, SameKeyFacts DEF Blob
    <3>2. Delivers(c) /\ Delivers(d)
      BY <2>1, <3>1 DEF InDelivery, Delivers
    <3>3. Blob(c).etag = token[c] /\ Blob(d).etag = token[d]
      BY <1>1, <3>2 DEF IInv, DeliveryInv
    <3>4. token[c] # NoEtag /\ token[d] # NoEtag
      BY <1>1, <3>2 DEF IInv, TokenInv, Delivers, Holder
    <3>5. Blob(c).writer = {c} /\ Blob(d).writer = {d}
      BY <1>1, <3>1, <3>3, <3>4 DEF IInv, TokenInv
    <3>6. QED
      BY <3>1, <3>5
  <2>2. QED
    BY <2>1 DEF NoParallelDelivery
<1>2. QED
  BY <1>1, Invariance, PTL

\* Until a record of the key expires, one invocation at most hears of
\* acceptance: it is, and stays, the writer of the record.
THEOREM DeliveryIsUnique == Spec => []OneConfirmedDelivery
<1>1. ASSUME IInv
      PROVE  OneConfirmedDelivery
  <2>1. ASSUME NEW c \in Invocation, NEW d \in Invocation,
               SameKey(c, d), ~lapsed[KeyOf[c]],
               post[c] = "confirmed", post[d] = "confirmed"
        PROVE  c = d
    <3>1. Keyed(c) /\ Keyed(d) /\ KeyOf[c] = KeyOf[d]
      BY <2>1, SameKeyFacts
    <3>2. Blob(c).writer = {c} /\ Blob(d).writer = {d}
      BY <1>1, <2>1, <3>1 DEF IInv, DeliveryInv
    <3>3. QED
      BY <3>1, <3>2 DEF Blob
  <2>2. QED
    BY <2>1 DEF OneConfirmedDelivery
<1>2. QED
  BY <1>1, Invariance, PTL

\* A 200 names a mail the provider has accepted.
THEOREM AcknowledgementIsSound == Spec => []AckedMeansAccepted
<1>1. ASSUME IInv
      PROVE  AckedMeansAccepted
  <2>1. ASSUME NEW c \in Invocation, answer[c] = "sent"
        PROVE  \E d \in Invocation :
                 /\ c = d \/ SameKey(c, d)
                 /\ Accepted(d) /\ CorrelationOf[d] = ResponseId(c)
    <3>1. CASE replayed[c] # NoId
      <4>1. PICK d \in Invocation :
              SameKey(c, d) /\ post[d] = "confirmed" /\ CorrelationOf[d] = replayed[c]
        BY <1>1, <3>1 DEF IInv, ReportInv
      <4>2. QED
        BY <3>1, <4>1 DEF Accepted, ResponseId
    <3>2. CASE replayed[c] = NoId
      <4>1. outcome[c] # "replay"
        BY <1>1, <3>2, LedgerAssumption DEF IInv, ReportInv
      <4>2. post[c] = "confirmed"
        BY <1>1, <2>1, <4>1 DEF IInv, ReportInv
      <4>3. QED
        BY <3>2, <4>2 DEF Accepted, ResponseId
    <3>3. QED
      BY <3>1, <3>2
  <2>2. QED
    BY <2>1 DEF AckedMeansAccepted
<1>2. QED
  BY <1>1, Invariance, PTL

\* Until a record of the key expires, every 200 for it carries one id.
THEOREM ReplayIsConsistent == Spec => []ConsistentReplay
<1>1. ASSUME IInv
      PROVE  ConsistentReplay
  <2>1. ASSUME NEW c \in Invocation, NEW d \in Invocation,
               SameKey(c, d), ~lapsed[KeyOf[c]],
               answer[c] = "sent", answer[d] = "sent"
        PROVE  ResponseId(c) = ResponseId(d)
    <3>1. Keyed(c) /\ Keyed(d) /\ KeyOf[c] = KeyOf[d]
      BY <2>1, SameKeyFacts
    <3>2. Blob(c).id = ResponseId(c) /\ Blob(d).id = ResponseId(d)
      BY <1>1, <2>1, <3>1 DEF IInv, ReportInv
    <3>3. QED
      BY <3>1, <3>2 DEF Blob
  <2>2. QED
    BY <2>1 DEF ConsistentReplay
<1>2. QED
  BY <1>1, Invariance, PTL

\* A failure is reported as permanent only when the provider has not accepted
\* the mail and will not.
THEOREM PermanentIsFinal == Spec => []PermanentMeansNotSent
<1>1. IInv => PermanentMeansNotSent
  BY DEF IInv, ControlInv, PermanentMeansNotSent
<1>2. QED
  BY <1>1, Invariance, PTL
-----------------------------------------------------------------------------
\* Only Attempt makes an attempt.
LEMMA AttemptsGrowOnlyByAttempt ==
  ASSUME IInv, [Next]_vars, NEW c \in Invocation, attempt'[c] > attempt[c]
  PROVE  Attempt(c) /\ pc[c] = "delivering"
<1>1. attempt \in [Invocation -> 0..MaxAttempts]
  BY DEF IInv, TypeOK
<1>2. CASE UNCHANGED vars
  BY <1>1, <1>2, PolicyAssumption DEF vars, handlerVars
<1>3. ASSUME NEW k \in Key, Expire(k) \/ Purge(k)
      PROVE  FALSE
  BY <1>1, <1>3, PolicyAssumption DEF Expire, Purge, handlerVars
<1>4. ASSUME NEW d \in Invocation, LedgerStep(d)
      PROVE  FALSE
  BY <1>1, <1>4, PolicyAssumption DEF LedgerStep, handlerVars
<1>5. ASSUME NEW d \in Invocation, ControlStep(d)
      PROVE  Attempt(c)
  <2>1. d = c
    BY <1>1, <1>5, ControlStepLocals, PolicyAssumption
  <2>2. Attempt(c) \/ attempt'[c] \in {attempt[c], 0}
    BY <1>1, <1>5, <2>1
       DEF ControlStep, Refuse, Admit, AfterBegin, RejectedStatus, NoReply, AmbiguousFailure,
           AcceptedStatus, AfterComplete, CompleteAgain, GiveUpCompleting, AfterRelease,
           ReleaseAgain, ProviderAccepts, Kill, RespondWith, DropLocals, FailDelivery, TryAgain
  <2>3. QED
    BY <1>1, <2>2, PolicyAssumption
<1>6. QED
  BY <1>2, <1>3, <1>4, <1>5, NextSteps DEF Attempt

\* An attempt whose outcome is unknown is never repeated.
THEOREM NoBlindRetries == Spec => NoBlindRetry
<1>1. ASSUME IInv, [Next]_vars, NEW c \in Invocation, attempt'[c] > attempt[c]
      PROVE  post[c] \in {"none", "rejected"}
  BY <1>1, AttemptsGrowOnlyByAttempt DEF IInv, ControlInv
<1>2. IInv /\ [Next]_vars =>
        [\A c \in Invocation : attempt'[c] > attempt[c] => post[c] \in {"none", "rejected"}]_vars
  BY <1>1
<1>3. QED
  BY <1>2, Invariance, PTL DEF Spec, NoBlindRetry

\* A repeated attempt is made under the invocation's own claim, still in place
\* in the ledger, when no record outlives its TTL while its writer runs.
THEOREM RetriesAreClaimed ==
  ASSUME TtlOutlivesInvocation
  PROVE  Spec => RetryOnlyUnderClaim
<1>1. ASSUME IInv, [Next]_vars, NEW c \in Invocation,
             attempt[c] > 0 /\ attempt'[c] > attempt[c]
      PROVE  Keyed(c) /\ Blob(c).status = "in_progress" /\ Blob(c).writer = {c}
  <2>1. pc[c] = "delivering" /\ Keyed(c)
    BY <1>1, AttemptsGrowOnlyByAttempt DEF IInv, ControlInv
  <2>2. Blob(c).etag = token[c] /\ token[c] # NoEtag
    BY <1>1, <2>1 DEF IInv, DeliveryInv, TokenInv, Delivers, Holder
  <2>3. QED
    BY <1>1, <2>1, <2>2 DEF IInv, TokenInv
<1>2. IInv /\ [Next]_vars =>
        [\A c \in Invocation :
           attempt[c] > 0 /\ attempt'[c] > attempt[c] =>
             /\ Keyed(c)
             /\ Blob(c).status = "in_progress" /\ Blob(c).writer = {c}]_vars
  BY <1>1
<1>3. QED
  BY <1>2, Invariance, PTL DEF Spec, RetryOnlyUnderClaim

\* An unexpired record is changed by its own writer alone, and not once it is completed.
THEOREM FreshRecordsAreProtected == Spec => FreshRecordProtected
<1> DEFINE Step(k) ==
      blob[k].status # "absent" /\ ~blob[k].expired /\ blob'[k] # blob[k] =>
         \/ blob'[k] = [blob[k] EXCEPT !.expired = TRUE]
         \/ /\ blob[k].status = "in_progress"
            /\ \E c \in blob[k].writer : pc[c] \in {"completing", "releasing"}
<1>1. ASSUME IInv, [Next]_vars, NEW k \in Key,
             blob[k].status # "absent", ~blob[k].expired, blob'[k] # blob[k]
      PROVE  \/ blob'[k] = [blob[k] EXCEPT !.expired = TRUE]
             \/ /\ blob[k].status = "in_progress"
                /\ \E c \in blob[k].writer : pc[c] \in {"completing", "releasing"}
  <2>1. blob \in [Key -> Record]
    BY <1>1 DEF IInv, TypeOK, StoreTypeOK
  <2>2. CASE UNCHANGED vars
    BY <1>1, <2>2 DEF vars, storeVars
  <2>3. ASSUME NEW j \in Key, Expire(j)
        PROVE  blob'[k] = [blob[k] EXCEPT !.expired = TRUE]
    BY <1>1, <2>1, <2>3 DEF Expire, PassExpiry
  <2>4. ASSUME NEW j \in Key, Purge(j)
        PROVE  FALSE
    BY <1>1, <2>1, <2>4 DEF Purge, LifecycleDelete
  <2>5. ASSUME NEW c \in Invocation, ControlStep(c)
        PROVE  FALSE
    BY <1>1, <2>5, ControlStepEffect DEF storageVars
  <2>6. ASSUME NEW c \in Invocation, LedgerStep(c)
        PROVE  /\ blob[k].status = "in_progress"
               /\ blob[k].writer = {c} /\ pc[c] \in {"completing", "releasing"}
    <3>1. LedgerEffect(c) /\ KeyOf[c] \in Key
      BY <1>1, <2>6, LedgerStepEffect, LedgerStepKeyed
    <3>2. KeyOf[c] = k
      BY <1>1, <2>1, <3>1
         DEF LedgerEffect, storageVars, ClaimEffect, CompleteEffect, DeleteEffect
    <3>3. QED
      BY <1>1, <2>1, <3>1, <3>2
         DEF LedgerEffect, storageVars, ClaimEffect, CompleteEffect, DeleteEffect, OwnsRecord,
             Blob, Absent
  <2>7. QED
    BY <1>1, <2>2, <2>3, <2>4, <2>5, <2>6, NextSteps
<1>2. IInv /\ [Next]_vars => [\A k \in Key : Step(k)]_vars
  BY <1>1
<1>3. QED
  BY <1>2, Invariance, PTL DEF Spec, FreshRecordProtected
-----------------------------------------------------------------------------
(***************************************************************************)
(* Released claims.  That a token which still matches is the holder's own  *)
(* claim is not enough: a release whose delete meets another ETag has      *)
(* succeeded only if that ETag cannot be the invocation's own claim, so    *)
(* the converse is needed as well.                                         *)
(***************************************************************************)
HasClaim(c) == Blob(c).status = "in_progress" /\ c \in Blob(c).writer

ReleaseInv ==
  \A c \in Invocation :
    /\ Holder(c) /\ HasClaim(c) => Blob(c).etag = token[c]
    /\ outcome[c] = "released" => Keyed(c) /\ ~HasClaim(c)

\* Outside its store calls an invocation can only forget what the last call returned.
LEMMA ControlStepOutcome ==
  ASSUME IInv, NEW c \in Invocation, ControlStep(c)
  PROVE  outcome'[c] \in {outcome[c], "none"}
<1> USE DEF IInv, TypeOK, StoreTypeOK, storeVars, storageVars, RespondWith, Call, FailDelivery,
            TryAgain, DropLocals, Goto
<1>1. CASE Refuse(c)
  BY <1>1 DEF Refuse
<1>2. CASE Admit(c)
  BY <1>2 DEF Admit
<1>3. CASE AfterBegin(c)
  BY <1>3 DEF AfterBegin
<1>4. CASE Attempt(c)
  BY <1>4 DEF Attempt
<1>5. CASE RejectedStatus(c)
  BY <1>5 DEF RejectedStatus
<1>6. CASE NoReply(c)
  BY <1>6 DEF NoReply, AmbiguousFailure
<1>7. CASE AcceptedStatus(c)
  BY <1>7 DEF AcceptedStatus
<1>8. CASE AfterComplete(c)
  BY <1>8 DEF AfterComplete, CompleteAgain, GiveUpCompleting
<1>9. CASE AfterRelease(c)
  BY <1>9 DEF AfterRelease, ReleaseAgain
<1>10. CASE ProviderAccepts(c)
  BY <1>10 DEF ProviderAccepts
<1>11. CASE Kill(c)
  BY <1>11 DEF Kill
<1>12. QED
  BY <1>1, <1>2, <1>3, <1>4, <1>5, <1>6, <1>7, <1>8, <1>9, <1>10, <1>11 DEF ControlStep

\* A step outside the store calls frees or keeps: it creates no holder.
LEMMA ControlKeepsReleaseInv ==
  ASSUME IInv, ReleaseInv, NEW c \in Invocation, ControlStep(c)
  PROVE  ReleaseInv'
<1>1. blob' = blob
  BY ControlStepEffect DEF storageVars
<1>2. ASSUME NEW d \in Invocation
      PROVE  /\ Holder(d)' => Holder(d) /\ token'[d] = token[d]
             /\ outcome'[d] \in {outcome[d], "none"}
  BY ControlStepLocals, ControlStepOwnLocals, ControlStepOutcome DEF Holder, Keyed
<1>3. QED
  BY <1>1, <1>2 DEF ReleaseInv, HasClaim, Blob, Keyed

\* A ledger step makes no other invocation the writer of a claim.
LEMMA LedgerStepHasClaim ==
  ASSUME IInv, NEW c \in Invocation, LedgerStep(c), NEW d \in Invocation \ {c},
         Keyed(d), HasClaim(d)'
  PROVE  Blob(d)' = Blob(d)
<1>1. LedgerEffect(c) /\ KeyOf[c] \in Key /\ KeyOf[d] \in Key /\ blob \in [Key -> Record]
  BY LedgerStepEffect, LedgerStepKeyed, LedgerAssumption DEF Keyed, IInv, TypeOK, StoreTypeOK
<1>2. QED
  BY <1>1
     DEF LedgerEffect, storageVars, ClaimEffect, CompleteEffect, DeleteEffect, HasClaim, Blob,
         ClaimRecord, CompletedRecord, BuildRecord, Absent

\* A ledger step keeps the invocation's own part: it holds the claim it has just
\* made, and a release that returns has found or left none.
LEMMA LedgerKeepsOwnRelease ==
  ASSUME IInv, ReleaseInv, NEW c \in Invocation, LedgerStep(c)
  PROVE  /\ Holder(c)' /\ HasClaim(c)' => Blob(c)'.etag = token'[c]
         /\ outcome'[c] = "released" => ~HasClaim(c)'
<1>1. /\ Keyed(c) /\ KeyOf[c] \in Key /\ pc' = pc /\ TypeOK /\ ControlInv
      /\ Holder(c) /\ HasClaim(c) => MatchesToken(c)
  BY LedgerStepKeyed, LedgerStepLocals DEF handlerVars, ReleaseInv, MatchesToken, IInv
<1> USE <1>1 DEF TypeOK, StoreTypeOK, Upload, Continue, Return, ReturnStored, storageVars,
                 HasClaim, Blob, ControlInv
<1>2. CASE CreateClaim(c) \/ ReclaimClaim(c)
  <2>1. pc[c] = "beginning" /\ outcome[c] = "none"
    BY <1>2 DEF CreateClaim, ReclaimClaim
  <2>2. CASE outcome'[c] = "claimed"
    <3>1. token'[c] = lastEtag + 1 /\ blob' = [blob EXCEPT ![KeyOf[c]] = ClaimRecord(c)]
      BY <1>2, <2>1, <2>2 DEF CreateClaim, ReclaimClaim, ReturnClaimed
    <3>2. QED
      BY <2>2, <3>1 DEF ClaimRecord, BuildRecord
  <2>3. CASE outcome'[c] # "claimed"
    <3>1. ~Holder(c)' /\ outcome'[c] # "released"
      BY <1>2, <2>1, <2>3 DEF CreateClaim, ReclaimClaim, ReturnClaimed, Holder
    <3>2. QED
      BY <3>1
  <2>4. QED
    BY <2>2, <2>3
<1>3. CASE ResolveAfterConflict(c) \/ RereadAfterRace(c)
  <2>1. pc[c] = "beginning" /\ outcome'[c] \notin {"claimed", "released"}
    BY <1>3 DEF ResolveAfterConflict, RereadAfterRace
  <2>2. ~Holder(c)'
    BY <2>1 DEF Holder
  <2>3. QED
    BY <2>1, <2>2
<1>4. CASE WriteCompleted(c) \/ ConfirmCompleted(c)
  <2>1. pc[c] = "completing" /\ token' = token /\ outcome'[c] # "released"
    BY <1>4 DEF WriteCompleted, ConfirmCompleted
  <2>2. blob' = blob \/ blob' = [blob EXCEPT ![KeyOf[c]] = CompletedRecord(c)]
    BY <1>4 DEF WriteCompleted, ConfirmCompleted
  <2>3. Holder(c)
    BY <2>1 DEF Holder
  <2>4. QED
    BY <2>1, <2>2, <2>3 DEF CompletedRecord, BuildRecord, MatchesToken
<1>5. CASE InspectClaim(c)
  <2>1. pc[c] = "releasing" /\ token' = token /\ blob' = blob
    BY <1>5 DEF InspectClaim
  <2>2. outcome'[c] = "released" => NothingToRelease(c)
    BY <1>5 DEF InspectClaim
  <2>3. Holder(c)
    BY <2>1 DEF Holder
  <2>4. QED
    BY <2>1, <2>2, <2>3 DEF NothingToRelease, MatchesToken
<1>6. CASE DeleteClaim(c)
  <2>1. pc[c] = "releasing" /\ token' = token
    BY <1>6 DEF DeleteClaim
  <2>2. \/ blob' = [blob EXCEPT ![KeyOf[c]] = Absent]
        \/ blob' = blob /\ (outcome'[c] = "released" => ~MatchesToken(c))
    BY <1>6 DEF DeleteClaim, DeleteIfExists
  <2>3. Holder(c)
    BY <2>1 DEF Holder
  <2>4. QED
    BY <2>1, <2>2, <2>3 DEF Absent, MatchesToken
<1>7. QED
  BY <1>2, <1>3, <1>4, <1>5, <1>6 DEF LedgerStep, StoreStep

\* A ledger step keeps it for the invocation that makes it and for all others.
LEMMA LedgerKeepsReleaseInv ==
  ASSUME IInv, ReleaseInv, NEW c \in Invocation, LedgerStep(c)
  PROVE  ReleaseInv'
<1>1. ASSUME NEW d \in Invocation \ {c}
      PROVE  /\ Holder(d)' /\ HasClaim(d)' => Blob(d)'.etag = token'[d]
             /\ outcome'[d] = "released" => Keyed(d) /\ ~HasClaim(d)'
  <2>1. /\ token'[d] = token[d] /\ outcome'[d] = outcome[d] /\ pc' = pc
    BY LedgerStepLocals DEF handlerVars
  <2>2. (Holder(d)' => Holder(d)) /\ (Holder(d) => Keyed(d))
    BY <2>1 DEF Holder, Keyed
  <2>3. Keyed(d) /\ HasClaim(d)' => Blob(d)' = Blob(d) /\ HasClaim(d)
    BY LedgerStepHasClaim DEF HasClaim
  <2>4. QED
    BY <2>1, <2>2, <2>3 DEF ReleaseInv
<1>2. Keyed(c)
  BY LedgerStepKeyed
<1>3. QED
  BY <1>1, <1>2, LedgerKeepsOwnRelease DEF ReleaseInv, Keyed

\* An expiry leaves writer, status and ETag as they are; a purge leaves no claim.
LEMMA ClockKeepsReleaseInv ==
  ASSUME IInv, ReleaseInv, NEW k \in Key, Expire(k) \/ Purge(k)
  PROVE  ReleaseInv'
<1>1. UNCHANGED <<callVars, handlerVars>> /\ blob \in [Key -> Record]
  BY DEF Expire, PassExpiry, Purge, LifecycleDelete, IInv, TypeOK, StoreTypeOK
<1>2. \/ blob' = [blob EXCEPT ![k].expired = TRUE]
      \/ blob' = [blob EXCEPT ![k] = Absent]
  BY DEF Expire, PassExpiry, Purge, LifecycleDelete
<1>3. ASSUME NEW d \in Invocation, Keyed(d), HasClaim(d)'
      PROVE  HasClaim(d) /\ Blob(d)'.etag = Blob(d).etag
  <2>1. KeyOf[d] \in Key
    BY <1>3, LedgerAssumption DEF Keyed
  <2>2. blob[k] \in Record
    BY <1>1
  <2>3. QED
    BY <1>1, <1>2, <1>3, <2>1, <2>2 DEF HasClaim, Blob, Absent, Record
<1>4. QED
  BY <1>1, <1>3 DEF ReleaseInv, callVars, handlerVars, Holder, Keyed

\* The two invariants hold together.
LEMMA ReleaseInvariance == Spec => [](IInv /\ ReleaseInv)
<1>1. Init => ReleaseInv
  BY DEF Init, StoreInit, ReleaseInv, Holder
<1>2. IInv /\ ReleaseInv /\ [Next]_vars => ReleaseInv'
  <2>1. ASSUME IInv, ReleaseInv, UNCHANGED vars PROVE ReleaseInv'
    BY <2>1 DEF vars, storeVars, handlerVars, ReleaseInv, HasClaim, Blob, Holder, Keyed
  <2>2. QED
    BY <2>1, LedgerKeepsReleaseInv, ControlKeepsReleaseInv, ClockKeepsReleaseInv, NextSteps
<1>3. QED
  BY <1>1, <1>2, Invariance, PTL DEF Spec

(***************************************************************************)
(* A release that reported success leaves no claim of the invocation       *)
(* behind, although the delete may have found another ETag, been applied   *)
(* with a lost reply, or not been sent at all.                             *)
(***************************************************************************)
THEOREM ReleaseFreesTheKey == Spec => []ReleasedClaimIsGone
<1>1. ReleaseInv => ReleasedClaimIsGone
  BY DEF ReleaseInv, HasClaim, Blob, ReleasedClaimIsGone
<1>2. QED
  BY <1>1, ReleaseInvariance, PTL
-----------------------------------------------------------------------------
(***************************************************************************)
(* SendHandler implements SendContract when no record outlives its TTL     *)
(* while its writer runs: the initial states correspond, and every step is *)
(* a step of the contract or a stutter.                                    *)
(***************************************************************************)

\* The state of the contract that a state of the handler and the ledger stands for.
Entries == [k \in Key |-> LedgerEntry(blob[k])]
Posting == {c \in Invocation : pc[c] = "sending"}
AcceptedMail == {c \in Invocation : Accepted(c)}
Reported == [c \in Invocation |-> Learned(c)]
ContractState == <<Entries, Posting, AcceptedMail, Reported>>

\* The ledger's states in the words of the contract.
LEMMA EntryStates ==
  /\ EntryState["absent"] = "free"
  /\ EntryState["in_progress"] = "claimed"
  /\ EntryState["completed"] = "completed"
BY DEF EntryState

\* The ledger records of the handler as entries of the contract.
LEMMA RecordEntries ==
  ASSUME NEW c \in Invocation
  PROVE  /\ LedgerEntry(Absent) = Contract!Free
         /\ LedgerEntry(ClaimRecord(c)) = Contract!Claimed(c)
         /\ LedgerEntry(CompletedRecord(c)) = Contract!Completed(c)
BY EntryStates
   DEF LedgerEntry, Absent, ClaimRecord, CompletedRecord, BuildRecord,
       Contract!Free, Contract!Claimed, Contract!Completed

\* The handler's initial states are the contract's.
LEMMA InitImplements == Init => Contract!Init
<1> SUFFICES ASSUME Init PROVE Contract!Init
  OBVIOUS
<1>1. ASSUME NEW k \in Key
      PROVE  LedgerEntry(blob[k]) = Contract!Free
  BY EntryStates DEF Init, StoreInit, LedgerEntry, Absent, Contract!Free
<1>2. ASSUME NEW c \in Invocation
      PROVE  pc[c] # "sending" /\ ~Accepted(c) /\ Learned(c) = {}
  BY DEF Init, StoreInit, Accepted, Learned
<1>3. QED
  BY <1>1, <1>2 DEF Contract!Init

\* A write to one key changes one entry.
LEMMA EntryUpdate ==
  ASSUME blob \in [Key -> Record], NEW k \in Key, NEW r,
         blob' = [blob EXCEPT ![k] = r]
  PROVE  Entries' = [Entries EXCEPT ![k] = LedgerEntry(r)]
<1>1. ASSUME NEW j \in Key
      PROVE  blob'[j] = IF j = k THEN r ELSE blob[j]
  OBVIOUS
<1>2. ASSUME NEW j \in Key
      PROVE  LedgerEntry(blob[j])' = IF j = k THEN LedgerEntry(r) ELSE LedgerEntry(blob[j])
  BY <1>1 DEF LedgerEntry, EntryState
<1>3. QED
  BY <1>2 DEF Entries

\* A step that changes what one invocation has learned changes one report.
LEMMA ReportUpdate ==
  ASSUME NEW c \in Invocation,
         \A d \in Invocation \ {c} : Learned(d)' = Learned(d)
  PROVE  Reported' = [Reported EXCEPT ![c] = Learned(c)']
BY DEF Reported

\* Nothing is learned while a call is under way.
LEMMA NothingLearned ==
  ASSUME IInv, NEW c \in Invocation, outcome[c] \notin {"replay", "completed"}
  PROVE  Learned(c) = {}
BY DEF IInv, ReportInv, Learned
-----------------------------------------------------------------------------
\* What the invocation of a ledger step learns: an id, from a replay or its own completion.
LEMMA LedgerStepLearned ==
  ASSUME IInv, NEW c \in Invocation, LedgerStep(c)
  PROVE  /\ \A d \in Invocation \ {c} : Learned(d)' = Learned(d)
         /\ Learned(c) = {}
         /\ outcome'[c] \notin {"replay", "completed"} => Learned(c)' = {}
         /\ outcome'[c] = "replay" =>
              /\ UNCHANGED storageVars
              /\ Blob(c).status = "completed" /\ Learned(c)' = {Blob(c).id}
         /\ outcome'[c] = "completed" =>
              /\ Learned(c)' = {CorrelationOf[c]}
              /\ \/ CompleteEffect(c)
                 \/ /\ UNCHANGED storageVars
                    /\ Blob(c).status = "completed" /\ Blob(c).id = CorrelationOf[c]
<1>1. IInv' /\ LedgerEffect(c) /\ outcome[c] = "none" /\ replayed[c] = NoId
  <2>1. IInv'
    BY StepKeepsIInv DEF Next, HandlerStep
  <2>2. outcome[c] = "none"
    BY DEF IInv, ControlInv, LedgerStep, StoreStep, CreateClaim, ResolveAfterConflict,
           ReclaimClaim, RereadAfterRace, WriteCompleted, ConfirmCompleted, InspectClaim,
           DeleteClaim
  <2>3. QED
    BY <2>1, <2>2, LedgerStepEffect DEF IInv, ReportInv
<1>2. /\ outcome \in [Invocation -> Outcome] /\ replayed \in [Invocation -> Id \cup {NoId}]
  BY DEF IInv, TypeOK, StoreTypeOK
<1>3. \A d \in Invocation \ {c} : Learned(d)' = Learned(d)
  BY LedgerStepLocals DEF Learned
<1>4. Learned(c) = {}
  BY <1>1 DEF Learned
<1>5. ASSUME outcome'[c] \notin {"replay", "completed"}
      PROVE  Learned(c)' = {}
  BY <1>1, <1>5 DEF Learned, IInv, ReportInv
<1>6. ASSUME outcome'[c] = "replay"
      PROVE  /\ UNCHANGED storageVars
             /\ Blob(c).status = "completed" /\ Learned(c)' = {Blob(c).id}
  <2>1. /\ UNCHANGED storageVars
        /\ Blob(c).status = "completed" /\ replayed'[c] = Blob(c).id
    BY <1>1, <1>2, <1>6
       DEF LedgerStep, StoreStep, CreateClaim, ResolveAfterConflict, ReclaimClaim,
           RereadAfterRace, WriteCompleted, ConfirmCompleted, InspectClaim, DeleteClaim,
           Return, ReturnClaimed, ReturnStored, Continue, HasStoredResponse, StoredId
  <2>2. replayed'[c] # NoId
    <3>1. PICK d \in Invocation : CorrelationOf[d] = replayed'[c]
      BY <1>1, <1>6 DEF IInv, ReportInv
    <3>2. QED
      BY <3>1, LedgerAssumption
  <2>3. QED
    BY <2>1, <2>2 DEF Learned
<1>7. ASSUME outcome'[c] = "completed"
      PROVE  /\ Learned(c)' = {CorrelationOf[c]}
             /\ \/ CompleteEffect(c)
                \/ /\ UNCHANGED storageVars
                   /\ Blob(c).status = "completed" /\ Blob(c).id = CorrelationOf[c]
  <2>1. Learned(c)' = {CorrelationOf[c]}
    BY <1>1, <1>7 DEF Learned, IInv, ReportInv
  <2>2. WriteCompleted(c) \/ ConfirmCompleted(c)
    BY <1>1, <1>2, <1>7
       DEF LedgerStep, StoreStep, CreateClaim, ResolveAfterConflict, ReclaimClaim,
           RereadAfterRace, WriteCompleted, ConfirmCompleted, InspectClaim, DeleteClaim,
           Return, ReturnClaimed, ReturnStored, Continue
  <2>3. CASE WriteCompleted(c)
    <3>1. pc[c] = "completing" /\ Holder(c)
      BY <2>3, LedgerStepKeyed DEF IInv, ControlInv, WriteCompleted, Holder
    <3>2. MatchesToken(c) /\ Upload(c, MatchesToken(c), CompletedRecord(c), "ok")
      BY <1>1, <1>2, <1>7, <2>3 DEF WriteCompleted, Return, Continue, Upload
    <3>3. OwnsRecord(c)
      BY <3>1, <3>2, TokenIsOwn, LedgerStepKeyed
    <3>4. QED
      BY <2>1, <3>1, <3>2, <3>3 DEF Upload, CompleteEffect
  <2>4. CASE ConfirmCompleted(c)
    BY <1>2, <1>7, <2>1, <2>4 DEF ConfirmCompleted, CompletedBySame, Return
  <2>5. QED
    BY <2>2, <2>3, <2>4
<1>8. QED
  BY <1>3, <1>4, <1>5, <1>6, <1>7

\* What a keyed invocation's entry is in the contract.
LEMMA EntryOf ==
  ASSUME NEW c \in Invocation, Keyed(c)
  PROVE  /\ KeyOf[c] \in Key /\ Contract!Keyed(c)
         /\ Contract!Entry(c) = LedgerEntry(Blob(c))
<1>1. KeyOf[c] \in Key
  BY LedgerAssumption DEF Keyed
<1>2. QED
  BY <1>1 DEF Keyed, Blob, Contract!Keyed, Contract!Entry

\* A ledger step is a claim, an abandon, a completion, a replay, or nothing.
LEMMA LedgerStepImplements ==
  ASSUME IInv, NEW c \in Invocation, LedgerStep(c)
  PROVE  Contract!Next \/ UNCHANGED ContractState
<1>1. /\ Keyed(c) /\ KeyOf[c] \in Key /\ LedgerEffect(c) /\ blob \in [Key -> Record]
      /\ Contract!Entry(c) = LedgerEntry(Blob(c)) /\ Contract!Keyed(c) /\ Blob(c) \in Record
  BY LedgerStepKeyed, LedgerStepEffect, EntryOf DEF IInv, TypeOK, StoreTypeOK
<1>2. Posting' = Posting /\ AcceptedMail' = AcceptedMail
  BY LedgerStepLocals DEF handlerVars, Posting, AcceptedMail, Accepted
<1>3. Reported' = [Reported EXCEPT ![c] = Learned(c)']
  BY LedgerStepLearned, ReportUpdate
<1>4. Learned(c)' = {} => Reported' = Reported
  BY <1>3, LedgerStepLearned DEF Reported
<1>5. UNCHANGED storageVars => Entries' = Entries
  BY DEF storageVars, Entries, LedgerEntry, EntryState
<1>6. CASE outcome'[c] = "replay"
            \/ (outcome'[c] = "completed" /\ UNCHANGED storageVars)
  <2>1. /\ UNCHANGED storageVars /\ Blob(c).status = "completed"
        /\ Learned(c)' = {Blob(c).id}
    <3>1. ~(UNCHANGED storageVars /\ CompleteEffect(c))
      BY <1>1 DEF IInv, TypeOK, StoreTypeOK, storageVars, CompleteEffect
    <3>2. QED
      BY <1>6, <3>1, LedgerStepLearned
  <2>2. PICK d \in Invocation : Blob(c).writer = {d} /\ Blob(c).id = CorrelationOf[d]
    BY <1>1, <2>1 DEF IInv, RecordInv, Blob
  <2>3. Contract!Entry(c).state = "completed" /\ Contract!Entry(c).by = {d}
    BY <1>1, <2>1, <2>2, EntryStates DEF LedgerEntry
  <2>4. Contract!Report(c, CorrelationOf[d])
    BY <1>3, <2>1, <2>2 DEF Contract!Report, Reported
  <2>5. Contract!Replay(c)
    BY <1>1, <1>2, <1>5, <2>1, <2>3, <2>4 DEF Contract!Replay, Entries, Posting, AcceptedMail
  <2>6. QED
    BY <2>5 DEF Contract!Next
<1>7. CASE outcome'[c] \notin {"replay", "completed"} /\ UNCHANGED storageVars
  BY <1>2, <1>4, <1>5, <1>7, LedgerStepLearned DEF ContractState
<1>8. CASE ClaimEffect(c)
  <2>1. Entries' = [Entries EXCEPT ![KeyOf[c]] = Contract!Claimed(c)]
    <3>1. blob' = [blob EXCEPT ![KeyOf[c]] = ClaimRecord(c)]
      BY <1>8 DEF ClaimEffect
    <3>2. Entries' = [Entries EXCEPT ![KeyOf[c]] = LedgerEntry(ClaimRecord(c))]
      BY <1>1, <3>1, EntryUpdate
    <3>3. QED
      BY <3>2, RecordEntries
  <2>2. Contract!Entry(c).state = "free" \/ Contract!Entry(c).stale
    BY <1>1, <1>8, EntryStates DEF ClaimEffect, LedgerEntry, Absent
  <2>3. Reported' = Reported
    <3>1. lastEtag' # lastEtag
      BY <1>8 DEF ClaimEffect, IInv, TypeOK, StoreTypeOK
    <3>2. outcome'[c] \notin {"replay", "completed"}
      BY <1>8, <3>1, LedgerStepLearned DEF storageVars, ClaimEffect, CompleteEffect
    <3>3. QED
      BY <1>4, <3>2, LedgerStepLearned
  <2>4. Contract!Claim(c)
    BY <1>1, <1>2, <2>1, <2>2, <2>3
       DEF Contract!Claim, Contract!Set, Entries, Posting, AcceptedMail, Reported
  <2>5. QED
    BY <2>4 DEF Contract!Next
<1>9. CASE CompleteEffect(c)
  <2>1. Entries' = [Entries EXCEPT ![KeyOf[c]] = Contract!Completed(c)]
    <3>1. blob' = [blob EXCEPT ![KeyOf[c]] = CompletedRecord(c)]
      BY <1>9 DEF CompleteEffect
    <3>2. Entries' = [Entries EXCEPT ![KeyOf[c]] = LedgerEntry(CompletedRecord(c))]
      BY <1>1, <3>1, EntryUpdate
    <3>3. QED
      BY <3>2, RecordEntries
  <2>2. Contract!Entry(c).state = "claimed" /\ Contract!Entry(c).by = {c}
    BY <1>1, <1>9, EntryStates DEF CompleteEffect, OwnsRecord, LedgerEntry
  <2>3. c \notin Posting /\ c \in AcceptedMail
    BY <1>9 DEF CompleteEffect, IInv, ControlInv, Posting, AcceptedMail, Accepted
  <2>4. outcome'[c] # "replay"
    BY <1>9, LedgerStepLearned DEF storageVars, CompleteEffect, IInv, TypeOK, StoreTypeOK
  <2>5. Contract!Report(c, CorrelationOf[c]) \/ Reported' = Reported
    BY <1>3, <1>4, <2>4, LedgerStepLearned DEF Contract!Report, Reported
  <2>6. Contract!Complete(c)
    BY <1>1, <1>2, <2>1, <2>2, <2>3, <2>5
       DEF Contract!Complete, Contract!Set, Entries, Posting, AcceptedMail, Reported
  <2>7. QED
    BY <2>6 DEF Contract!Next
<1>10. CASE DeleteEffect(c) /\ blob' # blob
  <2>1. Entries' = [Entries EXCEPT ![KeyOf[c]] = Contract!Free]
    <3>1. blob' = [blob EXCEPT ![KeyOf[c]] = Absent]
      BY <1>10 DEF DeleteEffect
    <3>2. Entries' = [Entries EXCEPT ![KeyOf[c]] = LedgerEntry(Absent)]
      BY <1>1, <3>1, EntryUpdate
    <3>3. QED
      BY <3>2, RecordEntries
  <2>2. Contract!Entry(c).state = "claimed" /\ Contract!Entry(c).by = {c}
    BY <1>1, <1>10, EntryStates DEF DeleteEffect, OwnsRecord, LedgerEntry
  <2>3. c \notin Posting
    BY <1>10 DEF DeleteEffect, Posting
  <2>4. Reported' = Reported
    <3>1. outcome'[c] \notin {"replay", "completed"}
      BY <1>10, LedgerStepLearned DEF storageVars, DeleteEffect, CompleteEffect
    <3>2. QED
      BY <1>4, <3>1, LedgerStepLearned
  <2>5. Contract!Abandon(c)
    BY <1>1, <1>2, <2>1, <2>2, <2>3, <2>4
       DEF Contract!Abandon, Contract!Set, Entries, Posting, AcceptedMail, Reported
  <2>6. QED
    BY <2>5 DEF Contract!Next
<1>11. QED
  BY <1>1, <1>6, <1>7, <1>8, <1>9, <1>10 DEF LedgerEffect, DeleteEffect, storageVars
-----------------------------------------------------------------------------
\* A step outside the store calls teaches nothing; a kill forgets.
LEMMA ControlStepLearned ==
  ASSUME IInv, NEW c \in Invocation, ControlStep(c)
  PROVE  /\ \A d \in Invocation \ {c} : Learned(d)' = Learned(d)
         /\ Kill(c) \/ Learned(c)' = Learned(c)
         /\ Kill(c) => Learned(c)' = {}
<1>1. \A d \in Invocation \ {c} : Learned(d)' = Learned(d)
  BY ControlStepLocals DEF Learned
<1>2. Kill(c) => Learned(c)' = {}
  BY DEF Kill, Learned, IInv, TypeOK, StoreTypeOK
<1>3. ~Kill(c) => /\ replayed' = replayed
                  /\ \/ outcome'[c] = outcome[c]
                     \/ /\ outcome'[c] = "none" /\ outcome[c] \notin {"replay", "completed"}
  <2> USE DEF IInv, TypeOK, StoreTypeOK, ReportInv, storeVars, RespondWith, Call, FailDelivery, TryAgain
  <2>1. CASE Refuse(c) \/ Admit(c) \/ AfterBegin(c)
    BY <2>1 DEF Refuse, Admit, AfterBegin
  <2>2. CASE Attempt(c) \/ RejectedStatus(c) \/ NoReply(c) \/ AcceptedStatus(c)
    BY <2>2 DEF Attempt, RejectedStatus, NoReply, AmbiguousFailure, AcceptedStatus
  <2>3. CASE AfterComplete(c) \/ AfterRelease(c) \/ ProviderAccepts(c)
    BY <2>3 DEF AfterComplete, CompleteAgain, GiveUpCompleting, AfterRelease, ReleaseAgain,
                ProviderAccepts
  <2>4. QED
    BY <2>1, <2>2, <2>3 DEF ControlStep
<1>4. QED
  BY <1>1, <1>2, <1>3 DEF Learned, IInv, ReportInv

\* What a step outside the store calls does to the POSTs of its invocation.
LEMMA ControlStepPosting ==
  ASSUME IInv, NEW c \in Invocation, ControlStep(c), ~Kill(c)
  PROVE  \/ pc[c] # "sending" /\ pc'[c] # "sending" /\ AcceptedMail' = AcceptedMail
         \/ Attempt(c) /\ pc'[c] = "sending" /\ AcceptedMail' = AcceptedMail
         \/ pc[c] = "sending" /\ pc'[c] # "sending" /\ AcceptedMail' = AcceptedMail
         \/ /\ pc' = pc /\ AcceptedMail' = AcceptedMail \cup {c}
<1> USE DEF IInv, TypeOK, storeVars, RespondWith, Goto, Call, FailDelivery, TryAgain
<1>1. CASE Refuse(c) \/ Admit(c) \/ AfterBegin(c) \/ AfterComplete(c) \/ AfterRelease(c)
  <2>1. post' = post /\ pc[c] # "sending" /\ pc'[c] # "sending"
    BY <1>1 DEF Refuse, Admit, AfterBegin, AfterComplete, CompleteAgain, GiveUpCompleting,
                AfterRelease, ReleaseAgain
  <2>2. QED
    BY <2>1 DEF AcceptedMail, Accepted
<1>2. CASE Attempt(c)
  <2>1. pc[c] = "delivering" /\ post[c] \in {"none", "rejected"} /\ pc'[c] \in ProgramPoint
    BY <1>2, ControlStepTyped DEF Attempt, ControlInv
  <2>2. post' = post \/ post' = [post EXCEPT ![c] = "sent"]
    BY <1>2 DEF Attempt
  <2>3. AcceptedMail' = AcceptedMail
    BY <2>1, <2>2 DEF AcceptedMail, Accepted
  <2>4. QED
    BY <1>2, <2>1, <2>3
<1>3. CASE RejectedStatus(c) \/ NoReply(c) \/ AcceptedStatus(c)
  <2>1. pc[c] = "sending" /\ pc'[c] # "sending"
    BY <1>3 DEF RejectedStatus, NoReply, AmbiguousFailure, AcceptedStatus
  <2>2. \/ post' = post
        \/ post[c] = "sent" /\ post' = [post EXCEPT ![c] = "rejected"]
        \/ post[c] = "accepted" /\ post' = [post EXCEPT ![c] = "confirmed"]
    BY <1>3 DEF RejectedStatus, NoReply, AcceptedStatus
  <2>3. AcceptedMail' = AcceptedMail
    BY <2>2 DEF AcceptedMail, Accepted
  <2>4. QED
    BY <2>1, <2>3
<1>4. CASE ProviderAccepts(c)
  BY <1>4 DEF ProviderAccepts, AcceptedMail, Accepted
<1>5. QED
  BY <1>1, <1>2, <1>3, <1>4 DEF ControlStep

\* A step outside the store calls is the start or the end of a POST, the
\* provider's acceptance, a death, or nothing.
LEMMA ControlStepImplements ==
  ASSUME IInv, TtlOutlivesInvocation, NEW c \in Invocation, ControlStep(c)
  PROVE  Contract!Next \/ UNCHANGED ContractState
<1>1. Entries' = Entries
  BY ControlStepEffect DEF storageVars, Entries, LedgerEntry, EntryState
<1>2. \A d \in Invocation \ {c} : pc'[d] = pc[d]
  BY ControlStepLocals
<1>3. CASE Kill(c)
  <2>1. Reported' = [Reported EXCEPT ![c] = {}]
    BY <1>3, ControlStepLearned, ReportUpdate
  <2>2. Posting' = Posting \ {c} /\ AcceptedMail' = AcceptedMail
    BY <1>2, <1>3 DEF Kill, Goto, Posting, AcceptedMail, Accepted, IInv, TypeOK
  <2>3. Contract!Die(c)
    BY <1>1, <2>1, <2>2 DEF Contract!Die, Entries, Posting, AcceptedMail, Reported
  <2>4. QED
    BY <2>3 DEF Contract!Next
<1>4. CASE ~Kill(c)
  <2>1. Reported' = Reported
    BY <1>4, ControlStepLearned DEF Reported
  <2>2. CASE pc[c] # "sending" /\ pc'[c] # "sending" /\ AcceptedMail' = AcceptedMail
    BY <1>1, <1>2, <2>1, <2>2 DEF ContractState, Posting
  <2>3. CASE Attempt(c) /\ pc'[c] = "sending" /\ AcceptedMail' = AcceptedMail
    <3>1. c \notin Posting /\ Posting' = Posting \cup {c} /\ pc[c] = "delivering"
      BY <1>2, <2>3 DEF Attempt, Posting
    <3>2. ASSUME Contract!Keyed(c)
          PROVE  Contract!OwnClaim(c)
      <4>1. Keyed(c) /\ Contract!Entry(c) = LedgerEntry(Blob(c))
        BY <3>2, EntryOf DEF Contract!Keyed, Keyed
      <4>2. Blob(c).etag = token[c] /\ ~Blob(c).expired /\ token[c] # NoEtag
        BY <3>1, <4>1 DEF IInv, DeliveryInv, TokenInv, Delivers, Holder
      <4>3. Blob(c).status = "in_progress" /\ Blob(c).writer = {c}
        BY <4>1, <4>2 DEF IInv, TokenInv
      <4>4. QED
        BY <4>1, <4>2, <4>3, EntryStates DEF LedgerEntry, Contract!OwnClaim
    <3>3. Contract!StartPost(c)
      BY <1>1, <2>1, <2>3, <3>1, <3>2
         DEF Contract!StartPost, Entries, Posting, AcceptedMail, Reported
    <3>4. QED
      BY <3>3 DEF Contract!Next
  <2>4. CASE pc[c] = "sending" /\ pc'[c] # "sending" /\ AcceptedMail' = AcceptedMail
    <3>1. c \in Posting /\ Posting' = Posting \ {c}
      BY <1>2, <2>4 DEF Posting
    <3>2. Contract!EndPost(c)
      BY <1>1, <2>1, <2>4, <3>1
         DEF Contract!EndPost, Entries, Posting, AcceptedMail, Reported
    <3>3. QED
      BY <3>2 DEF Contract!Next
  <2>5. CASE pc' = pc /\ AcceptedMail' = AcceptedMail \cup {c}
    <3>1. Posting' = Posting
      BY <2>5 DEF Posting
    <3>2. Contract!Accept(c)
      BY <1>1, <2>1, <2>5, <3>1
         DEF Contract!Accept, Entries, Posting, AcceptedMail, Reported
    <3>3. QED
      BY <3>2 DEF Contract!Next
  <2>6. QED
    BY <1>4, <2>2, <2>3, <2>4, <2>5, ControlStepPosting
<1>5. QED
  BY <1>3, <1>4

\* The clock and the lifecycle rule are the contract's Lapse and Forget.
LEMMA ClockStepImplements ==
  ASSUME IInv, TtlOutlivesInvocation, NEW k \in Key, Expire(k) \/ Purge(k)
  PROVE  Contract!Next \/ UNCHANGED ContractState
<1>1. /\ blob \in [Key -> Record] /\ blob[k] \in Record
      /\ Entries[k] = LedgerEntry(blob[k])
  BY DEF IInv, TypeOK, StoreTypeOK, Entries
<1>2. Posting' = Posting /\ AcceptedMail' = AcceptedMail /\ Reported' = Reported
  BY DEF Expire, PassExpiry, Purge, LifecycleDelete, handlerVars, callVars, Posting,
         AcceptedMail, Accepted, Reported, Learned
<1>3. CASE Expire(k)
  <2>1. /\ blob' = [blob EXCEPT ![k].expired = TRUE]
        /\ blob[k].status # "absent" /\ ~blob[k].expired
        /\ \A c \in blob[k].writer : ~Running(c)
    BY <1>3 DEF Expire, PassExpiry
  <2>2. blob' = [blob EXCEPT ![k] = [blob[k] EXCEPT !.expired = TRUE]]
    BY <1>1, <2>1
  <2>3. Entries' = [Entries EXCEPT ![k] = LedgerEntry([blob[k] EXCEPT !.expired = TRUE])]
    BY <1>1, <2>2, EntryUpdate
  <2>4. LedgerEntry([blob[k] EXCEPT !.expired = TRUE]) = Contract!Stale(Entries[k])
    <3> DEFINE r == [blob[k] EXCEPT !.expired = TRUE]
    <3>1. r.status = blob[k].status /\ r.writer = blob[k].writer /\ r.expired = TRUE
      BY <1>1 DEF Record
    <3>2. LedgerEntry(r) = [state |-> EntryState[blob[k].status], by |-> blob[k].writer, stale |-> TRUE]
      BY <3>1 DEF LedgerEntry
    <3>3. QED
      BY <1>1, <3>2 DEF LedgerEntry, Contract!Stale
  <2>5. Entries' = [Entries EXCEPT ![k] = Contract!Stale(Entries[k])]
    BY <2>3, <2>4
  <2>6. /\ Entries[k].state # "free" /\ ~Entries[k].stale
        /\ Entries[k].by \cap Posting = {}
    <3>1. blob[k].status \in {"in_progress", "completed"}
      BY <1>1, <2>1 DEF Record
    <3>2. blob[k].writer \cap Posting = {}
      BY <2>1 DEF Posting, Running
    <3>3. QED
      BY <1>1, <2>1, <3>1, <3>2, EntryStates DEF LedgerEntry
  <2>7. Contract!Lapse(k)
    BY <1>2, <2>5, <2>6 DEF Contract!Lapse, Entries, Posting, AcceptedMail, Reported
  <2>8. QED
    BY <2>7 DEF Contract!Next
<1>4. CASE Purge(k)
  <2>1. blob' = [blob EXCEPT ![k] = Absent] /\ blob[k].expired
    BY <1>4 DEF Purge, LifecycleDelete
  <2>2. Entries' = [Entries EXCEPT ![k] = LedgerEntry(Absent)]
    BY <1>1, <2>1, EntryUpdate
  <2>3. Entries' = [Entries EXCEPT ![k] = Contract!Free]
    <3>1. LedgerEntry(Absent) = Contract!Free
      BY EntryStates DEF LedgerEntry, Absent, Contract!Free
    <3>2. QED
      BY <2>2, <3>1
  <2>4. Entries[k].stale
    BY <1>1, <2>1 DEF LedgerEntry
  <2>5. Contract!Forget(k)
    BY <1>2, <2>3, <2>4 DEF Contract!Forget, Entries, Posting, AcceptedMail, Reported
  <2>6. QED
    BY <2>5 DEF Contract!Next
<1>5. QED
  BY <1>3, <1>4

\* The handler over the Blob ledger implements the contract of an
\* Idempotency-Key, when no record outlives its TTL while its writer runs.
THEOREM HandlerImplementsContract ==
  ASSUME TtlOutlivesInvocation
  PROVE  Spec => ImplementsContract
<1>1. ASSUME IInv, [Next]_vars
      PROVE  [Contract!Next]_(Contract!vars)
  <2>1. CASE UNCHANGED vars
    BY <2>1 DEF vars, storeVars, handlerVars, Contract!vars, LedgerEntry, EntryState, Accepted, Learned
  <2>2. CASE Next
    <3>1. Contract!Next \/ UNCHANGED ContractState
      BY <1>1, <2>2, NextSteps, LedgerStepImplements, ControlStepImplements, ClockStepImplements
    <3>2. QED
      BY <3>1 DEF ContractState, Entries, Posting, AcceptedMail, Reported, Contract!vars
  <2>3. QED
    BY <1>1, <2>1, <2>2
<1>2. Spec => [][Contract!Next]_(Contract!vars)
  BY <1>1, Invariance, PTL DEF Spec
<1>3. QED
  BY <1>2, InitImplements, PTL DEF Spec, ImplementsContract, Contract!Spec
=============================================================================
