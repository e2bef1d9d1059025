---------------------------- MODULE KeyRegistry ----------------------------
(***************************************************************************)
(* The registry of API keys: one Key Vault secret, read, merged and        *)
(* written back whole by register-tenant-api-key.sh, edited by operators   *)
(* by hand, and read by the workers of the API.                            *)
(***************************************************************************)
EXTENDS Naturals

CONSTANTS
  Token,          \* API keys; a digest stands for its token
  Tenant,         \* a tenant with its environment
  Registration,   \* runs of the script followed, each once
  MaxEdits        \* bound: hand edits of the secret

VARIABLES
  secret,    \* what Key Vault holds; an absent secret is an empty document
  wired,     \* the Function App setting refers to the secret
  expired,   \* the instant all expiresAt name has passed
  pc, job,   \* of every run: its place, its token and tenant
  seen,      \* the document it has read
  merged,    \* the document it will store
  writer,    \* who wrote the secret last
  edits,
  \* History, read by no guard:
  revoked,   \* the tokens an operator has revoked, and nobody let in again since
  overtaken  \* for every run, the tokens revoked since it read the secret

history == <<revoked, overtaken>>
keyVars == <<secret, wired, expired, pc, job, seen, merged, writer, edits, revoked, overtaken>>

\* revokedAt is set, expiresAt is set, the scopes lack email:send, or none of it.
Status == {"active", "narrow", "expiring", "revoked"}
Record == [tenant : Tenant, status : Status]
Partial(R) == UNION {[S -> R] : S \in SUBSET Token}

\* A document that is not valid still holds what a repair would recover.
Document == [valid : BOOLEAN, keys : Partial(Record), plain : Partial(Tenant)]
Empty == [valid |-> TRUE, keys |-> [t \in {} |-> 0], plain |-> [t \in {} |-> 0]]

Operator == "operator"
ASSUME KeyAssumption ==
  /\ MaxEdits \in Nat /\ Operator \notin Registration
-----------------------------------------------------------------------------
With(f, t, x) == [u \in DOMAIN f \cup {t} |-> IF u = t THEN x ELSE f[u]]
Without(f, t) == [u \in DOMAIN f \ {t} |-> f[u]]

\* Mutated form of Upsert: the token keeps its plaintext entry.
UpsertKeepsPlaintext(d, t, n) ==
  [d EXCEPT !.keys = With(@, t, [tenant |-> n, status |-> "active"])]
\* Mutated form of Upsert: the plaintext entries are not carried over.
UpsertDropsPlaintext(d, t, n) ==
  [d EXCEPT !.keys = With(@, t, [tenant |-> n, status |-> "active"]), !.plain = [u \in {} |-> 0]]
\* Mutated form of Upsert: a record that exists keeps its revokedAt.
UpsertKeepsStatus(d, t, n) ==
  [d EXCEPT !.keys = With(@, t, [tenant |-> n,
                                 status |-> IF t \in DOMAIN @ THEN @[t].status ELSE "active"]),
            !.plain = Without(@, t)]
\* upsertHashedKeyRecord: a fresh record, whatever the token had before.
Upsert(d, t, n) ==
  [d EXCEPT !.keys = With(@, t, [tenant |-> n, status |-> "active"]),
            !.plain = Without(@, t)]

Active(rec) == rec.status # "revoked" /\ ~(rec.status = "expiring" /\ expired)

\* findHashedRecord, assertKeyActive: a record that is not active has no principal.
HashedPrincipal(d, t) ==
  {[tenant |-> rec.tenant, maySend |-> rec.status # "narrow"] :
     rec \in {x \in {d.keys[t]} : Active(x)}}

\* principalFromTenantKeyMap: plaintext entries have all scopes.
PlaintextPrincipal(d, t) ==
  {[tenant |-> d.plain[u], maySend |-> TRUE] : u \in {t} \cap DOMAIN d.plain}

\* ApiKeyAuthenticator.authenticate: a record decides, revoked or not.
Principals(d, t) ==
  IF t \in DOMAIN d.keys THEN HashedPrincipal(d, t) ELSE PlaintextPrincipal(d, t)

\* What a worker makes of it: an invalid document is an empty registry.
Authenticate(d, t) == IF d.valid THEN Principals(d, t) ELSE {}
-----------------------------------------------------------------------------
\* --dry-run: merges into nothing, prints the token, stores nothing.
DryRun(r) ==
  /\ pc[r] = "idle"
  /\ pc' = [pc EXCEPT ![r] = "dry"]
  /\ UNCHANGED <<secret, wired, expired, job, seen, merged, writer, edits, history>>

\* parseTenantKeyRegistryJson: no result when it throws.
Parse(d) == IF d.valid THEN {d} ELSE {}

\* tenant-key-map.mjs merge: no output when the document does not parse.
Merge(d, t, n) == {Upsert(e, t, n) : e \in Parse(d)}

\* The secret is read and merged with a token, brought or fresh, in memory.
ReadAndMerge(r, t, n) ==
  /\ pc[r] = "idle"
  /\ \E d \in Merge(secret, t, n) : merged' = [merged EXCEPT ![r] = d]
  /\ seen' = [seen EXCEPT ![r] = secret]
  /\ job' = [job EXCEPT ![r] = [token |-> t, tenant |-> n]]
  /\ pc' = [pc EXCEPT ![r] = "merged"]
  /\ overtaken' = [overtaken EXCEPT ![r] = {}]
  /\ UNCHANGED <<secret, wired, expired, writer, edits, revoked>>

\* az keyvault secret set; its failure may come after the effect.
Store(r) ==
  /\ pc[r] = "merged"
  /\ secret' = merged[r]
  /\ writer' = r
  /\ \E p \in {"stored", "failed"} : pc' = [pc EXCEPT ![r] = p]
  /\ revoked' = revoked \ (overtaken[r] \cup {job[r].token})
  /\ UNCHANGED <<wired, expired, job, seen, merged, edits, overtaken>>

\* The setting is made a reference to the secret; then the token is printed.
Wire(r) ==
  /\ pc[r] = "stored"
  /\ wired' = TRUE
  /\ \E p \in {"printed", "failed"} : pc' = [pc EXCEPT ![r] = p]
  /\ UNCHANGED <<secret, expired, job, seen, merged, writer, edits, history>>

\* Bad arguments, a command that fails without effect, or the run is stopped.
GiveUp(r) ==
  /\ pc[r] \in {"idle", "merged", "stored"}
  /\ pc' = [pc EXCEPT ![r] = "failed"]
  /\ UNCHANGED <<secret, wired, expired, job, seen, merged, writer, edits, history>>

\* An operator edits the document by hand and stores it.
Edit(d) ==
  /\ edits < MaxEdits /\ edits' = edits + 1
  /\ secret' = d /\ writer' = Operator
  /\ UNCHANGED <<wired, expired, pc, job, seen, merged>>

\* Token t is revoked, whatever a run that has read the secret still carries.
Revoke(t) ==
  /\ revoked' = revoked \cup {t}
  /\ overtaken' = [r \in Registration |-> overtaken[r] \cup {t}]

SetStatus(t, s) ==
  /\ t \in DOMAIN secret.keys
  /\ Edit([secret EXCEPT !.keys[t].status = s])
  /\ IF s = "revoked" THEN Revoke(t) ELSE revoked' = revoked \ {t} /\ UNCHANGED overtaken

DeleteRecord(t) ==
  /\ t \in DOMAIN secret.keys
  /\ Edit([secret EXCEPT !.keys = Without(@, t)])
  /\ Revoke(t)

\* A slip makes the document invalid, or it is repaired.
SlipOrRepair == Edit([secret EXCEPT !.valid = ~@]) /\ UNCHANGED history

Expire ==
  /\ ~expired /\ expired' = TRUE
  /\ UNCHANGED <<secret, wired, pc, job, seen, merged, writer, edits, history>>

\* A deployment starts without keys or with a plaintext map of the first schema.
KeyInit ==
  /\ secret \in {[Empty EXCEPT !.plain = p] : p \in Partial(Tenant)}
  /\ wired = FALSE /\ expired = FALSE
  /\ pc = [r \in Registration |-> "idle"]
  /\ job \in [Registration -> {[token |-> t, tenant |-> n] : t \in Token, n \in Tenant}]
  /\ seen = [r \in Registration |-> Empty] /\ merged = seen
  /\ writer = Operator
  /\ edits = 0
  /\ revoked = {} /\ overtaken = [r \in Registration |-> {}]

RunStep(r) ==
  \/ DryRun(r) \/ Store(r) \/ Wire(r) \/ GiveUp(r)
  \/ \E t \in Token, n \in Tenant : ReadAndMerge(r, t, n)

OperatorStep ==
  \/ \E t \in Token : DeleteRecord(t) \/ \E s \in Status : SetStatus(t, s)
  \/ SlipOrRepair

KeyNext == (\E r \in Registration : RunStep(r)) \/ OperatorStep \/ Expire

KeySpec == KeyInit /\ [][KeyNext]_keyVars
-----------------------------------------------------------------------------
\* Types, and what a run is about to store is valid.
KeyTypeOK ==
  /\ secret \in Document
  /\ wired \in BOOLEAN /\ expired \in BOOLEAN
  /\ pc \in [Registration -> {"idle", "dry", "merged", "stored", "printed", "failed"}]
  /\ job \in [Registration -> [token : Token, tenant : Tenant]]
  /\ seen \in [Registration -> Document] /\ merged \in [Registration -> Document]
  /\ \A r \in Registration : merged[r].valid
  /\ writer \in Registration \cup {Operator}
  /\ edits \in 0 .. MaxEdits
  /\ revoked \in SUBSET Token /\ overtaken \in [Registration -> SUBSET Token]

(***************************************************************************)
(* A token an operator has revoked, by a revokedAt or by deleting its      *)
(* record, has no principal, not by a plaintext entry either, and a repair *)
(* of the document gives it none; until the operator takes the revocation  *)
(* back, a run registers the token anew, or a run stores that had read the *)
(* secret before the revocation.  The last brings the token back as it was *)
(* read: the secret is replaced whole, with no condition on its version.   *)
(***************************************************************************)
RevocationHolds == \A t \in revoked : Principals(secret, t) = {}

(***************************************************************************)
(* A run that stores what it merged into the document as it still is       *)
(* changes what the document says of its own token and of no other: not    *)
(* of the plaintext ones when the document changes schema, not of revoked  *)
(* ones, and nothing a repair could have recovered.                        *)
(***************************************************************************)
OnlyItsTokenChanges ==
  [][\A r \in Registration : Store(r) /\ seen[r] = secret =>
       \A t \in Token \ {job[r].token} :
         /\ Principals(secret', t) = Principals(secret, t)
         /\ t \in DOMAIN secret.keys => secret'.keys[t] = secret.keys[t]]_keyVars

(***************************************************************************)
(* A token that was printed as registered works, for the tenant asked for, *)
(* in every worker that starts from now on, even when the token had been   *)
(* revoked, as long as nobody wrote the secret after its run.              *)
(***************************************************************************)
PrintedKeyWorks ==
  \A r \in Registration : pc[r] = "printed" /\ writer = r =>
    wired /\ Authenticate(secret, job[r].token) =
               {[tenant |-> job[r].tenant, maySend |-> TRUE]}
=============================================================================
