------------------------ MODULE BlobIdempotencyStore ------------------------
(***************************************************************************)
(* The idempotency ledger of the send endpoint, as BlobIdempotencyStore    *)
(* implements it: one JSON blob per (tenant, environment, Idempotency-Key),*)
(* created, replaced and deleted by conditional requests to Azure Blob     *)
(* Storage.                                                                *)
(*                                                                         *)
(* Every request to storage is one atomic step of the blob and one reply.  *)
(* A write whose condition holds may be applied and still be reported as   *)
(* failed (its reply is lost), or as conflicting (the storage client       *)
(* resends it after a lost reply and meets its own first write).           *)
(***************************************************************************)
EXTENDS Naturals

CONSTANTS
  Key,            \* ledger coordinates: tenant, environment, hashed key
  NoKey,          \* a request that carries no Idempotency-Key
  Invocation,     \* invocations of the send handler, on any instance
  KeyOf,          \* the key each invocation carries
  Id,             \* correlation ids; SendResponse.id is one of them
  NoId,
  CorrelationOf   \* the correlation id each invocation runs under

ASSUME LedgerAssumption ==
  /\ NoKey \notin Key
  /\ NoId \notin Id
  /\ KeyOf \in [Invocation -> Key \cup {NoKey}]
  /\ CorrelationOf \in [Invocation -> Id]

VARIABLES
  blob,       \* the stored record of each key
  lastEtag,   \* the newest ETag storage has handed out
  lapsed,     \* history: some record of the key has passed its expiresAt
  at,         \* the storage request each invocation's store call is at
  token,      \* claimToken: the ETag of the claim upload
  seen,       \* ETag read by resolveAfterConflict (NoEtag: no blob there)
  outcome,    \* what the invocation's last store call returned
  replayed    \* the stored response id returned by begin, for a replay

storageVars == <<blob, lastEtag, lapsed>>
callVars == <<at, token, seen, outcome, replayed>>
storeVars == <<blob, lastEtag, lapsed, at, token, seen, outcome, replayed>>

NoEtag == 0
Reply == {"ok", "conflict", "error"}
Outcome == {"none", "claimed", "replay", "in_progress", "completed", "released", "failed"}
StorageRequest ==
  {"idle", "create", "resolve", "reclaim", "reread",
   "complete", "confirm", "inspect", "delete"}

\* "writer" is not stored: it names the invocation whose upload the blob holds.
Record ==
  [status : {"absent", "in_progress", "completed"}, id : Id \cup {NoId},
   etag : Nat, expired : BOOLEAN, writer : SUBSET Invocation]

Absent ==
  [status |-> "absent", id |-> NoId, etag |-> NoEtag,
   expired |-> FALSE, writer |-> {}]

Blob(c) == blob[KeyOf[c]]

(***************************************************************************)
(* buildIdempotencyRecord.  Its TTL counts from the store call; a record   *)
(* already past it when written is one that expires in the next step.      *)
(***************************************************************************)
BuildRecord(c, status, id) ==
  [status |-> status, id |-> id, etag |-> lastEtag + 1,
   expired |-> FALSE, writer |-> {c}]

ClaimRecord(c) == BuildRecord(c, "in_progress", NoId)
CompletedRecord(c) == BuildRecord(c, "completed", CorrelationOf[c])

(***************************************************************************)
(* Azure Blob Storage, as the store uses it: an upload under a condition.  *)
(***************************************************************************)
Upload(c, holds, record, reply) ==
  \/ /\ holds
     /\ blob' = [blob EXCEPT ![KeyOf[c]] = record]
     /\ lastEtag' = lastEtag + 1
     /\ UNCHANGED lapsed
  \/ /\ reply = "error" \/ (reply = "conflict" /\ ~holds)
     /\ UNCHANGED storageVars

DeleteIfExists(c, holds, reply) ==
  \/ /\ holds
     /\ blob' = [blob EXCEPT ![KeyOf[c]] = Absent]
     /\ UNCHANGED <<lastEtag, lapsed>>
  \/ /\ reply = "error" \/ (reply = "conflict" /\ ~holds)
     /\ UNCHANGED storageVars

(***************************************************************************)
(* The conditions the store puts on its writes, and what it makes of a     *)
(* record it has read.                                                     *)
(***************************************************************************)
NotThere(c) == Blob(c).etag = NoEtag                    \* If-None-Match: *

\* Mutated form of UnchangedSince and MatchesToken: no If-Match on the write.
AnyState(c) == TRUE
UnchangedSince(c) == Blob(c).etag = seen[c]             \* If-Match, or If-None-Match: * if absent
MatchesToken(c) == Blob(c).etag = token[c]              \* If-Match: claimToken

\* Mutated form of Reclaimable: isExpired is not asked.
AbsentOnly(record) == record.status = "absent"
Reclaimable(record) == record.status = "absent" \/ record.expired

(***************************************************************************)
(* A store call goes on with its next storage request, or returns.         *)
(***************************************************************************)
Continue(c, request) ==
  /\ at' = [at EXCEPT ![c] = request]
  /\ UNCHANGED <<outcome, replayed>>

Return(c, result) ==
  /\ at' = [at EXCEPT ![c] = "idle"]
  /\ outcome' = [outcome EXCEPT ![c] = result]
  /\ UNCHANGED replayed

ReturnClaimed(c) ==
  /\ Return(c, "claimed")
  /\ token' = [token EXCEPT ![c] = lastEtag + 1]

\* Mutated form of StoredId: the replay carries the id of the current request.
StoredIdOfCaller(c) ==
  IF Blob(c).status = "completed" THEN CorrelationOf[c] ELSE NoId
StoredId(c) == Blob(c).id

\* Mutated form of HasStoredResponse: the status is not looked at.
CompletedOrClaimed(c) == Blob(c).status # "absent"
HasStoredResponse(c) == Blob(c).status = "completed"

\* Mutated form of ReturnStored: who lost the race for the claim goes on as if it had won.
ClaimedAnyway(c) == Return(c, "claimed")
ReturnStored(c) ==
  \/ /\ HasStoredResponse(c)
     /\ replayed' = [replayed EXCEPT ![c] = StoredId(c)]
     /\ at' = [at EXCEPT ![c] = "idle"]
     /\ outcome' = [outcome EXCEPT ![c] = "replay"]
  \/ /\ ~HasStoredResponse(c)
     /\ Return(c, "in_progress")
-----------------------------------------------------------------------------
(***************************************************************************)
(* begin: conditional create of the claim.                                 *)
(***************************************************************************)
CreateClaim(c) ==
  /\ at[c] = "create"
  /\ UNCHANGED seen
  /\ \/ Upload(c, NotThere(c), ClaimRecord(c), "ok") /\ ReturnClaimed(c)
     \/ Upload(c, NotThere(c), ClaimRecord(c), "conflict") /\ Continue(c, "resolve") /\ UNCHANGED token
     \/ Upload(c, NotThere(c), ClaimRecord(c), "error") /\ Return(c, "failed") /\ UNCHANGED token

(***************************************************************************)
(* resolveAfterConflict: read the record that is there.  Fresh: replay it  *)
(* or report it in progress.  Gone or expired: reclaim it, on condition    *)
(* that it is still what was read.                                         *)
(***************************************************************************)
ResolveAfterConflict(c) ==
  /\ at[c] = "resolve"
  /\ UNCHANGED <<storageVars, token>>
  /\ \/ /\ Reclaimable(Blob(c))
        /\ seen' = [seen EXCEPT ![c] = Blob(c).etag]
        /\ Continue(c, "reclaim")
     \/ ~Reclaimable(Blob(c)) /\ ReturnStored(c) /\ UNCHANGED seen
     \/ Return(c, "failed") /\ UNCHANGED seen

ReclaimClaim(c) ==
  /\ at[c] = "reclaim"
  /\ seen' = [seen EXCEPT ![c] = NoEtag]
  /\ \/ Upload(c, UnchangedSince(c), ClaimRecord(c), "ok") /\ ReturnClaimed(c)
     \/ Upload(c, UnchangedSince(c), ClaimRecord(c), "conflict") /\ Continue(c, "reread") /\ UNCHANGED token
     \/ Upload(c, UnchangedSince(c), ClaimRecord(c), "error") /\ Return(c, "failed") /\ UNCHANGED token

\* Lost the reclaim race: look once more, and give up if there is still nothing fresh.
RereadAfterRace(c) ==
  /\ at[c] = "reread"
  /\ UNCHANGED <<storageVars, token, seen>>
  /\ \/ ~Reclaimable(Blob(c)) /\ ReturnStored(c)
     \/ Return(c, "failed")

(***************************************************************************)
(* complete: replace the claim by the completed record.  On a failed       *)
(* condition the store accepts a completed record that already carries     *)
(* this response id (its own write whose reply was lost).                  *)
(***************************************************************************)
WriteCompleted(c) ==
  /\ at[c] = "complete"
  /\ UNCHANGED <<token, seen>>
  /\ \/ Upload(c, MatchesToken(c), CompletedRecord(c), "ok") /\ Return(c, "completed")
     \/ Upload(c, MatchesToken(c), CompletedRecord(c), "conflict") /\ Continue(c, "confirm")
     \/ Upload(c, MatchesToken(c), CompletedRecord(c), "error") /\ Return(c, "failed")

CompletedBySame(c) == Blob(c).status = "completed" /\ Blob(c).id = CorrelationOf[c]

ConfirmCompleted(c) ==
  /\ at[c] = "confirm"
  /\ UNCHANGED <<storageVars, token, seen>>
  /\ \/ CompletedBySame(c) /\ Return(c, "completed")
     \/ Return(c, "failed")

(***************************************************************************)
(* release: leave a completed or missing record alone, else delete the     *)
(* blob on condition that it is still this claim.                          *)
(***************************************************************************)
\* Mutated form of NothingToRelease: the status test is inverted.
NotCompleted(c) == Blob(c).status # "completed"
NothingToRelease(c) == Blob(c).status \in {"absent", "completed"}

InspectClaim(c) ==
  /\ at[c] = "inspect"
  /\ UNCHANGED <<storageVars, token, seen>>
  /\ \/ NothingToRelease(c) /\ Return(c, "released")
     \/ ~NothingToRelease(c) /\ Continue(c, "delete")
     \/ Return(c, "failed")

DeleteClaim(c) ==
  /\ at[c] = "delete"
  /\ UNCHANGED <<token, seen>>
  /\ \/ DeleteIfExists(c, MatchesToken(c), "ok") /\ Return(c, "released")
     \/ DeleteIfExists(c, MatchesToken(c), "conflict") /\ Return(c, "released")
     \/ DeleteIfExists(c, MatchesToken(c), "error") /\ Return(c, "failed")

StoreStep(c) ==
  \/ CreateClaim(c) \/ ResolveAfterConflict(c) \/ ReclaimClaim(c) \/ RereadAfterRace(c)
  \/ WriteCompleted(c) \/ ConfirmCompleted(c)
  \/ InspectClaim(c) \/ DeleteClaim(c)
-----------------------------------------------------------------------------
(***************************************************************************)
(* isExpired turns true for a record when the clock passes its expiresAt;  *)
(* a lifecycle rule on the container may later delete an expired blob.     *)
(***************************************************************************)
PassExpiry(k) ==
  /\ blob[k].status # "absent" /\ ~blob[k].expired
  /\ blob' = [blob EXCEPT ![k].expired = TRUE]
  /\ lapsed' = [lapsed EXCEPT ![k] = TRUE]
  /\ UNCHANGED <<lastEtag, callVars>>

LifecycleDelete(k) ==
  /\ blob[k].status # "absent" /\ blob[k].expired
  /\ blob' = [blob EXCEPT ![k] = Absent]
  /\ UNCHANGED <<lastEtag, lapsed, callVars>>

StoreInit ==
  /\ blob = [k \in Key |-> Absent]
  /\ lastEtag = NoEtag
  /\ lapsed = [k \in Key |-> FALSE]
  /\ at = [c \in Invocation |-> "idle"]
  /\ token = [c \in Invocation |-> NoEtag]
  /\ seen = [c \in Invocation |-> NoEtag]
  /\ outcome = [c \in Invocation |-> "none"]
  /\ replayed = [c \in Invocation |-> NoId]

\* Types of the ledger and of the calls to it.
StoreTypeOK ==
  /\ blob \in [Key -> Record]
  /\ lastEtag \in Nat
  /\ lapsed \in [Key -> BOOLEAN]
  /\ at \in [Invocation -> StorageRequest]
  /\ token \in [Invocation -> Nat]
  /\ seen \in [Invocation -> Nat]
  /\ outcome \in [Invocation -> Outcome]
  /\ replayed \in [Invocation -> Id \cup {NoId}]
=============================================================================
