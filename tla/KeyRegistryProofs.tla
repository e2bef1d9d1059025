------------------------- MODULE KeyRegistryProofs -------------------------
(***************************************************************************)
(* Theorems about KeyRegistry, for any tokens, tenants, runs and edits.    *)
(***************************************************************************)
EXTENDS KeyRegistry, TLAPS

\* What is known of a run that has merged, and of the secret it may have written.
Merging(r) ==
  pc[r] \in {"merged", "stored", "printed"} =>
    /\ seen[r].valid
    /\ merged[r] = Upsert(seen[r], job[r].token, job[r].tenant)
    /\ DOMAIN seen[r].keys \cap DOMAIN seen[r].plain = {}

\* No entry of document d lets token t in: it has none, or a revoked record.
Out(d, t) ==
  t \notin DOMAIN d.plain /\ (t \in DOMAIN d.keys => d.keys[t].status = "revoked")

\* A run that read the secret after t was revoked does not carry it.
Carries(r, t) == t = job[r].token \/ t \in overtaken[r]

RevokedAreOut ==
  \A t \in revoked :
    /\ Out(secret, t)
    /\ \A r \in Registration : pc[r] = "merged" => Carries(r, t) \/ Out(merged[r], t)

Writing(r) ==
  /\ writer = r => secret = merged[r] /\ pc[r] \in {"stored", "printed", "failed"}
  /\ pc[r] = "printed" => wired

KeyInvariant ==
  /\ KeyTypeOK
  /\ DOMAIN secret.keys \cap DOMAIN secret.plain = {}
  /\ \A r \in Registration : Merging(r) /\ Writing(r)
-----------------------------------------------------------------------------
\* A partial map of tokens, as a function on its domain.
LEMMA PartialFunctions ==
  ASSUME NEW R, NEW f
  PROVE  f \in Partial(R) <=> DOMAIN f \subseteq Token /\ f \in [DOMAIN f -> R]
<1>1. ASSUME f \in Partial(R) PROVE DOMAIN f \subseteq Token /\ f \in [DOMAIN f -> R]
  <2>1. PICK S \in SUBSET Token : f \in [S -> R]  BY <1>1, Zenon DEF Partial
  <2> QED  BY <2>1
<1>2. ASSUME DOMAIN f \subseteq Token, f \in [DOMAIN f -> R] PROVE f \in Partial(R)
  BY <1>2, Zenon DEF Partial
<1> QED  BY <1>1, <1>2

\* What adding or replacing one entry does.
LEMMA WithIsPartial ==
  ASSUME NEW R, NEW f \in Partial(R), NEW t \in Token, NEW x \in R
  PROVE  /\ With(f, t, x) \in Partial(R)
         /\ DOMAIN With(f, t, x) = DOMAIN f \cup {t}
         /\ With(f, t, x)[t] = x
         /\ \A u \in DOMAIN f \ {t} : With(f, t, x)[u] = f[u]
<1> DEFINE g == With(f, t, x)
<1>1. DOMAIN f \subseteq Token /\ f \in [DOMAIN f -> R]  BY PartialFunctions
<1>2. DOMAIN g = DOMAIN f \cup {t} /\ g \in [DOMAIN f \cup {t} -> R]
  BY <1>1 DEF With
<1>3. g \in Partial(R)
  <2>1. DOMAIN g \subseteq Token /\ g \in [DOMAIN g -> R]  BY <1>1, <1>2
  <2> HIDE DEF g
  <2> QED  BY <2>1, PartialFunctions
<1> QED  BY <1>2, <1>3 DEF With

\* What removing one entry does.
LEMMA WithoutIsPartial ==
  ASSUME NEW R, NEW f \in Partial(R), NEW t
  PROVE  /\ Without(f, t) \in Partial(R)
         /\ DOMAIN Without(f, t) = DOMAIN f \ {t}
         /\ \A u \in DOMAIN f \ {t} : Without(f, t)[u] = f[u]
<1> DEFINE g == Without(f, t)
<1>1. DOMAIN f \subseteq Token /\ f \in [DOMAIN f -> R]  BY PartialFunctions
<1>2. DOMAIN g = DOMAIN f \ {t} /\ g \in [DOMAIN f \ {t} -> R]  BY <1>1 DEF Without
<1>3. g \in Partial(R)
  <2>1. DOMAIN g \subseteq Token /\ g \in [DOMAIN g -> R]  BY <1>1, <1>2
  <2> HIDE DEF g
  <2> QED  BY <2>1, PartialFunctions
<1> QED  BY <1>2, <1>3 DEF Without

\* A document, field by field.
LEMMA DocumentParts ==
  ASSUME NEW d \in Document
  PROVE  /\ d.keys \in Partial(Record) /\ d.plain \in Partial(Tenant) /\ d.valid \in BOOLEAN
         /\ d = [valid |-> d.valid, keys |-> d.keys, plain |-> d.plain]
BY DEF Document

Fresh(n) == [tenant |-> n, status |-> "active"]

\* A fresh record is a record.
LEMMA FreshIsRecord == ASSUME NEW n \in Tenant PROVE Fresh(n) \in Record
BY DEF Fresh, Record, Status

\* What upsertHashedKeyRecord gives, and what it keeps.
LEMMA UpsertParts ==
  ASSUME NEW d \in Document, NEW t \in Token, NEW n \in Tenant
  PROVE  /\ Upsert(d, t, n).valid = d.valid
         /\ Upsert(d, t, n).keys = With(d.keys, t, Fresh(n))
         /\ Upsert(d, t, n).plain = Without(d.plain, t)
         /\ Upsert(d, t, n) \in Document
<1> DEFINE k == With(d.keys, t, Fresh(n))
           p == Without(d.plain, t)
<1>1. k \in Partial(Record)  BY DocumentParts, FreshIsRecord, WithIsPartial
<1>2. p \in Partial(Tenant)  BY DocumentParts, WithoutIsPartial
<1>3. Upsert(d, t, n) = [valid |-> d.valid, keys |-> k, plain |-> p]
  <2> HIDE DEF k, p
  <2>1. Upsert(d, t, n) = [d EXCEPT !.keys = k, !.plain = p]
    BY DocumentParts DEF Upsert, k, p, Fresh
  <2> QED  BY DocumentParts, <2>1
<1> HIDE DEF k, p
<1>4. [valid |-> d.valid, keys |-> k, plain |-> p] \in Document
  BY DocumentParts, <1>1, <1>2 DEF Document
<1> QED  BY <1>3, <1>4 DEF k, p

\* A merge adds the token to the hashed records and takes it from the plaintext ones.
LEMMA UpsertDomains ==
  ASSUME NEW d \in Document, NEW t \in Token, NEW n \in Tenant
  PROVE  /\ DOMAIN Upsert(d, t, n).keys = DOMAIN d.keys \cup {t}
         /\ DOMAIN Upsert(d, t, n).plain = DOMAIN d.plain \ {t}
<1>1. DOMAIN With(d.keys, t, Fresh(n)) = DOMAIN d.keys \cup {t}  BY DEF With
<1>2. DOMAIN Without(d.plain, t) = DOMAIN d.plain \ {t}  BY DEF Without
<1> QED  BY <1>1, <1>2, UpsertParts

\* The token gets a fresh record, and the document stays as valid as it was.
LEMMA UpsertRecord ==
  ASSUME NEW d \in Document, NEW t \in Token, NEW n \in Tenant
  PROVE  Upsert(d, t, n).valid = d.valid /\ Upsert(d, t, n).keys[t] = Fresh(n)
BY UpsertParts DEF With

\* Other hashed records are carried over.
LEMMA UpsertKeepsKeys ==
  ASSUME NEW d \in Document, NEW t \in Token, NEW n \in Tenant
  PROVE  \A u \in DOMAIN d.keys \ {t} : Upsert(d, t, n).keys[u] = d.keys[u]
<1>1. \A u \in DOMAIN d.keys \ {t} : With(d.keys, t, Fresh(n))[u] = d.keys[u]  BY DEF With
<1> QED  BY <1>1, UpsertParts

\* So are other plaintext entries.
LEMMA UpsertKeepsPlain ==
  ASSUME NEW d \in Document, NEW t \in Token, NEW n \in Tenant
  PROVE  \A u \in DOMAIN d.plain \ {t} : Upsert(d, t, n).plain[u] = d.plain[u]
<1>1. \A u \in DOMAIN d.plain \ {t} : Without(d.plain, t)[u] = d.plain[u]  BY DEF Without
<1> QED  BY <1>1, UpsertParts

\* No token is in both after a merge.
LEMMA UpsertSeparates ==
  ASSUME NEW d \in Document, NEW t \in Token, NEW n \in Tenant,
         DOMAIN d.keys \cap DOMAIN d.plain = {}
  PROVE  DOMAIN Upsert(d, t, n).keys \cap DOMAIN Upsert(d, t, n).plain = {}
BY UpsertDomains
-----------------------------------------------------------------------------
\* A document of the first schema, and the empty one, are documents.
LEMMA EmptyDocument ==
  ASSUME NEW p \in Partial(Tenant)
  PROVE  /\ [Empty EXCEPT !.plain = p] \in Document
         /\ Empty \in Document
         /\ [Empty EXCEPT !.plain = p].keys = Empty.keys
         /\ DOMAIN Empty.keys = {} /\ Empty.valid
<1> DEFINE e == [u \in {} |-> 0]
<1>1. DOMAIN e = {} /\ \A R : e \in [{} -> R]  OBVIOUS
<1>2. \A R : e \in Partial(R)
  <2> HIDE DEF e
  <2> QED  BY <1>1, PartialFunctions
<1>3. Empty = [valid |-> TRUE, keys |-> e, plain |-> e]  BY DEF Empty
<1> HIDE DEF e
<1> QED  BY <1>1, <1>2, <1>3 DEF Document

\* A deployment starts in the invariant.
LEMMA KeyInitially == KeyInit => KeyInvariant
<1> SUFFICES ASSUME KeyInit PROVE KeyInvariant  OBVIOUS
<1>1. PICK p \in Partial(Tenant) : secret = [Empty EXCEPT !.plain = p]  BY DEF KeyInit
<1>2. /\ secret \in Document /\ Empty \in Document /\ Empty.valid
      /\ DOMAIN secret.keys = {}
  BY <1>1, EmptyDocument
<1>3. KeyTypeOK
  <2>1. job \in [Registration -> [token : Token, tenant : Tenant]]
    BY DEF KeyInit
  <2>2. seen \in [Registration -> Document] /\ merged \in [Registration -> Document]
        /\ \A r \in Registration : merged[r].valid
    BY <1>2 DEF KeyInit
  <2>3. pc \in [Registration -> {"idle", "dry", "merged", "stored", "printed", "failed"}]
    BY DEF KeyInit
  <2>4. edits = 0 /\ wired = FALSE /\ expired = FALSE /\ writer = Operator
    BY Zenon DEF KeyInit
  <2>5. edits \in 0 .. MaxEdits  BY <2>4, KeyAssumption
  <2>6. revoked \in SUBSET Token /\ overtaken \in [Registration -> SUBSET Token]
    BY DEF KeyInit
  <2> QED  BY <1>2, <2>1, <2>2, <2>3, <2>4, <2>5, <2>6 DEF KeyTypeOK
<1>4. \A r \in Registration : Merging(r) /\ Writing(r)
  <2>1. writer = Operator /\ \A r \in Registration : pc[r] = "idle"
    BY Zenon DEF KeyInit
  <2> QED  BY <2>1, KeyAssumption DEF Merging, Writing
<1> QED  BY <1>2, <1>3, <1>4 DEF KeyInvariant

\* Nothing of a run that Merging and Writing speak of changes.
LEMMA RunUntouched ==
  ASSUME NEW r \in Registration, Merging(r), Writing(r),
         pc'[r] = pc[r], seen'[r] = seen[r], merged'[r] = merged[r], job'[r] = job[r],
         writer' # r \/ (writer' = writer /\ secret' = secret),
         wired => wired'
  PROVE  Merging(r)' /\ Writing(r)'
BY DEF Merging, Writing

\* A run remembers what it read, and its merge of it.
LEMMA ReadPreserves ==
  ASSUME KeyInvariant, NEW r \in Registration, NEW t \in Token, NEW n \in Tenant,
         ReadAndMerge(r, t, n)
  PROVE  KeyInvariant'
<1> USE DEF KeyInvariant, KeyTypeOK
<1>1. secret.valid /\ merged' = [merged EXCEPT ![r] = Upsert(secret, t, n)]
  BY DEF ReadAndMerge, Merge, Parse
<1>2. Upsert(secret, t, n) \in Document /\ Upsert(secret, t, n).valid
  BY <1>1, UpsertParts, UpsertRecord
<1>3. KeyTypeOK'
  BY <1>1, <1>2 DEF ReadAndMerge
<1>4. ASSUME NEW q \in Registration PROVE Merging(q)' /\ Writing(q)'
  <2>1. CASE q = r
    BY <1>1, <2>1 DEF ReadAndMerge, Merging, Writing
  <2>2. CASE q # r
    <3>1. pc'[q] = pc[q] /\ seen'[q] = seen[q] /\ merged'[q] = merged[q] /\ job'[q] = job[q]
      BY <1>1, <2>2 DEF ReadAndMerge
    <3> QED  BY <3>1, RunUntouched DEF ReadAndMerge
  <2> QED  BY <2>1, <2>2
<1> QED  BY <1>3, <1>4 DEF ReadAndMerge

\* A run stores its merge: from now on the secret is what it merged.
LEMMA StorePreserves ==
  ASSUME KeyInvariant, NEW r \in Registration, Store(r)
  PROVE  KeyInvariant'
<1> USE DEF KeyInvariant, KeyTypeOK
<1>1. /\ seen[r] \in Document /\ job[r].token \in Token /\ job[r].tenant \in Tenant
      /\ DOMAIN seen[r].keys \cap DOMAIN seen[r].plain = {}
      /\ merged[r] = Upsert(seen[r], job[r].token, job[r].tenant)
  BY DEF Store, Merging
<1>2. DOMAIN merged[r].keys \cap DOMAIN merged[r].plain = {}
  BY <1>1, UpsertSeparates
<1>3. KeyTypeOK'  BY DEF Store
<1>4. ASSUME NEW q \in Registration PROVE Merging(q)' /\ Writing(q)'
  <2>1. CASE q = r  BY <2>1 DEF Store, Merging, Writing
  <2>2. CASE q # r
    <3>1. pc'[q] = pc[q] /\ seen'[q] = seen[q] /\ merged'[q] = merged[q] /\ job'[q] = job[q]
      BY <2>2 DEF Store
    <3> QED  BY <2>2, <3>1, RunUntouched DEF Store
  <2> QED  BY <2>1, <2>2
<1> QED  BY <1>2, <1>3, <1>4 DEF Store

\* The steps of a run that write nothing.
LEMMA QuietPreserves ==
  ASSUME KeyInvariant, NEW r \in Registration, DryRun(r) \/ Wire(r) \/ GiveUp(r)
  PROVE  KeyInvariant'
<1> USE DEF KeyInvariant, KeyTypeOK, DryRun, Wire, GiveUp, history
<1>1. KeyTypeOK' /\ secret' = secret  OBVIOUS
<1>2. ASSUME NEW q \in Registration PROVE Merging(q)' /\ Writing(q)'
  <2>1. CASE q = r  BY <2>1 DEF Merging, Writing
  <2>2. CASE q # r
    <3>1. /\ pc'[q] = pc[q] /\ seen'[q] = seen[q] /\ merged'[q] = merged[q] /\ job'[q] = job[q]
          /\ writer' = writer /\ wired => wired'
      BY <2>2
    <3> QED  BY <1>1, <3>1, RunUntouched
  <2> QED  BY <2>1, <2>2
<1> QED  BY <1>1, <1>2

\* An edit by hand makes the operator the last writer.
LEMMA EditPreserves ==
  ASSUME KeyInvariant, NEW d \in Document, DOMAIN d.keys \cap DOMAIN d.plain = {}, Edit(d),
         revoked' \in SUBSET Token, overtaken' \in [Registration -> SUBSET Token]
  PROVE  KeyInvariant'
<1> USE KeyAssumption DEF KeyInvariant, KeyTypeOK, Edit
<1>1. KeyTypeOK'  OBVIOUS
<1>2. \A q \in Registration : Merging(q)' /\ Writing(q)'
  BY RunUntouched
<1> QED  BY <1>1, <1>2

\* Every edit an operator makes keeps the two kinds of entries apart.
LEMMA OperatorPreserves ==
  ASSUME KeyInvariant, OperatorStep
  PROVE  KeyInvariant'
<1>0. revoked' \in SUBSET Token /\ overtaken' \in [Registration -> SUBSET Token]
  <2>1. revoked \in SUBSET Token /\ overtaken \in [Registration -> SUBSET Token]
    BY DEF KeyInvariant, KeyTypeOK
  <2>2. \/ \E t \in Token : Revoke(t) \/ (revoked' = revoked \ {t} /\ overtaken' = overtaken)
        \/ revoked' = revoked /\ overtaken' = overtaken
    BY DEF OperatorStep, DeleteRecord, SetStatus, SlipOrRepair, history
  <2> QED  BY <2>1, <2>2 DEF Revoke
<1>1. /\ secret \in Document /\ DOMAIN secret.keys \cap DOMAIN secret.plain = {}
      /\ secret.keys \in Partial(Record) /\ secret.plain \in Partial(Tenant)
      /\ secret.valid \in BOOLEAN
      /\ secret = [valid |-> secret.valid, keys |-> secret.keys, plain |-> secret.plain]
  BY DEF KeyInvariant, KeyTypeOK, Document
<1>2. ASSUME NEW t \in Token, DeleteRecord(t) PROVE KeyInvariant'
  <2> DEFINE k == Without(secret.keys, t)
             d == [secret EXCEPT !.keys = k]
  <2>1. k \in Partial(Record) /\ DOMAIN k = DOMAIN secret.keys \ {t}
    <3> DEFINE f == secret.keys
    <3>1. f \in Partial(Record)  BY <1>1
    <3> HIDE DEF f
    <3>2. Without(f, t) \in Partial(Record) /\ DOMAIN Without(f, t) = DOMAIN f \ {t}
      BY <3>1, WithoutIsPartial
    <3> QED  BY <3>2 DEF f
  <2>2. Edit(d)  BY <1>1, <1>2 DEF DeleteRecord
  <2> HIDE DEF k
  <2>3. d \in Document /\ DOMAIN d.keys \cap DOMAIN d.plain = {}
    BY <1>1, <2>1 DEF Document
  <2> QED  BY <1>0, <2>2, <2>3, EditPreserves
<1>3. ASSUME NEW t \in Token, NEW s \in Status, SetStatus(t, s) PROVE KeyInvariant'
  <2> DEFINE k == [secret.keys EXCEPT ![t].status = s]
             d == [secret EXCEPT !.keys = k]
  <2>1. DOMAIN secret.keys \subseteq Token /\ secret.keys \in [DOMAIN secret.keys -> Record]
        /\ t \in DOMAIN secret.keys
    BY <1>1, <1>3, PartialFunctions DEF SetStatus
  <2>2. DOMAIN k = DOMAIN secret.keys /\ k \in [DOMAIN secret.keys -> Record]
    BY <2>1 DEF Record
  <2>3. Edit(d)  BY <1>1, <1>3 DEF SetStatus
  <2> HIDE DEF k
  <2>4. k \in Partial(Record)  BY <2>1, <2>2, PartialFunctions
  <2>5. d \in Document /\ DOMAIN d.keys \cap DOMAIN d.plain = {}
    BY <1>1, <2>2, <2>4 DEF Document
  <2> QED  BY <1>0, <2>3, <2>5, EditPreserves
<1>4. ASSUME SlipOrRepair PROVE KeyInvariant'
  <2> DEFINE d == [secret EXCEPT !.valid = ~@]
  <2>1. Edit(d)  BY <1>4 DEF SlipOrRepair
  <2>2. d \in Document /\ DOMAIN d.keys \cap DOMAIN d.plain = {}
    BY <1>1 DEF Document
  <2> QED  BY <1>0, <2>1, <2>2, EditPreserves
<1> QED  BY <1>2, <1>3, <1>4 DEF OperatorStep

\* Every step keeps the invariant.
LEMMA KeyStep == KeyInvariant /\ [KeyNext]_keyVars => KeyInvariant'
<1> SUFFICES ASSUME KeyInvariant, [KeyNext]_keyVars PROVE KeyInvariant'  OBVIOUS
<1>1. ASSUME NEW r \in Registration, RunStep(r) PROVE KeyInvariant'
  BY <1>1, ReadPreserves, StorePreserves, QuietPreserves DEF RunStep
<1>2. CASE OperatorStep  BY <1>2, OperatorPreserves
<1>3. CASE Expire \/ UNCHANGED keyVars
  <2>1. /\ UNCHANGED <<secret, wired, pc, job, seen, merged, writer, edits, revoked, overtaken>>
        /\ expired' \in BOOLEAN
    BY <1>3 DEF Expire, keyVars, history, KeyInvariant, KeyTypeOK
  <2> QED  BY <2>1 DEF KeyInvariant, KeyTypeOK, Merging, Writing
<1> QED  BY <1>1, <1>2, <1>3 DEF KeyNext

(***************************************************************************)
(* What every state of the registry satisfies.                             *)
(***************************************************************************)
THEOREM KeysInvariance == KeySpec => []KeyInvariant
BY KeyInitially, KeyStep, PTL DEF KeySpec

(***************************************************************************)
(* Every variable keeps its type, and no run is about to store a document  *)
(* that is not valid.                                                      *)
(***************************************************************************)
THEOREM KeysTypeCorrect == KeySpec => []KeyTypeOK
<1>1. KeyInvariant => KeyTypeOK  BY DEF KeyInvariant
<1> QED  BY <1>1, KeysInvariance, PTL

\* A merge lets no other token in.
LEMMA UpsertKeepsOut ==
  ASSUME NEW d \in Document, NEW t \in Token, NEW n \in Tenant, NEW u \in Token \ {t}, Out(d, u)
  PROVE  Out(Upsert(d, t, n), u)
<1>1. u \notin DOMAIN Upsert(d, t, n).plain
  BY UpsertDomains DEF Out
<1>2. ASSUME u \in DOMAIN Upsert(d, t, n).keys
      PROVE  Upsert(d, t, n).keys[u].status = "revoked"
  <2>1. u \in DOMAIN d.keys \ {t}  BY <1>2, UpsertDomains
  <2> QED  BY <2>1, UpsertKeepsKeys DEF Out
<1> QED  BY <1>1, <1>2 DEF Out

\* A run reads: what it merges keeps out what is revoked.
LEMMA ReadKeepsOut ==
  ASSUME KeyInvariant, RevokedAreOut, NEW r \in Registration, NEW t \in Token, NEW n \in Tenant,
         ReadAndMerge(r, t, n)
  PROVE  RevokedAreOut'
<1> USE DEF KeyInvariant, KeyTypeOK
<1>1. /\ merged' = [merged EXCEPT ![r] = Upsert(secret, t, n)]
      /\ job' = [job EXCEPT ![r] = [token |-> t, tenant |-> n]]
      /\ pc' = [pc EXCEPT ![r] = "merged"]
      /\ overtaken' = [overtaken EXCEPT ![r] = {}]
      /\ secret' = secret /\ revoked' = revoked
  BY DEF ReadAndMerge, Merge, Parse
<1> SUFFICES ASSUME NEW u \in revoked, NEW q \in Registration, pc'[q] = "merged"
             PROVE  Out(secret, u) /\ (Carries(q, u)' \/ Out(merged'[q], u))
  BY <1>1 DEF RevokedAreOut
<1>2. u \in Token /\ Out(secret, u)  BY DEF RevokedAreOut
<1>3. CASE q = r
  <2>1. job'[r].token = t /\ merged'[r] = Upsert(secret, t, n)
    <3>1. job'[r] = [token |-> t, tenant |-> n]  BY <1>1
    <3> QED  BY <1>1, <3>1
  <2>2. CASE u = t
    <3>1. Carries(q, u)'  BY <1>3, <2>1, <2>2 DEF Carries
    <3> QED  BY <1>2, <3>1
  <2>3. CASE u # t
    <3>1. Out(Upsert(secret, t, n), u)  BY <1>2, <2>3, UpsertKeepsOut
    <3> QED  BY <1>2, <1>3, <2>1, <3>1
  <2> QED  BY <1>2, <2>2, <2>3
<1>4. CASE q # r
  <2>1. /\ pc'[q] = pc[q] /\ merged'[q] = merged[q]
        /\ job'[q] = job[q] /\ overtaken'[q] = overtaken[q]
    BY <1>1, <1>4
  <2> QED  BY <1>2, <2>1 DEF RevokedAreOut, Carries
<1> QED  BY <1>3, <1>4

\* A run stores: what is still revoked afterwards, its document keeps out.
LEMMA StoreKeepsOut ==
  ASSUME KeyInvariant, RevokedAreOut, NEW r \in Registration, Store(r)
  PROVE  RevokedAreOut'
<1> USE DEF KeyInvariant, KeyTypeOK
<1>1. /\ pc[r] = "merged" /\ secret' = merged[r]
      /\ revoked' = revoked \ (overtaken[r] \cup {job[r].token})
      /\ UNCHANGED <<job, merged, overtaken>>
      /\ \A q \in Registration : pc'[q] = "merged" => pc[q] = "merged"
  BY DEF Store
<1> SUFFICES ASSUME NEW u \in revoked'
             PROVE  /\ Out(secret', u)
                    /\ \A q \in Registration : pc'[q] = "merged" => Carries(q, u) \/ Out(merged[q], u)
  BY <1>1 DEF RevokedAreOut, Carries
<1>2. u \in revoked /\ ~Carries(r, u)  BY <1>1 DEF Carries
<1> QED  BY <1>1, <1>2 DEF RevokedAreOut

\* An operator edits: what is revoked from now on has no entry that lets it in,
\* and every run that has merged is overtaken.
LEMMA OperatorKeepsOut ==
  ASSUME KeyInvariant, RevokedAreOut, OperatorStep
  PROVE  RevokedAreOut'
<1> USE DEF KeyInvariant, KeyTypeOK
<1>1. UNCHANGED <<pc, job, merged>>
  BY DEF OperatorStep, DeleteRecord, SetStatus, SlipOrRepair, Edit
<1>2. /\ secret \in Document /\ DOMAIN secret.keys \cap DOMAIN secret.plain = {}
      /\ secret.keys \in Partial(Record) /\ secret.plain \in Partial(Tenant)
      /\ secret = [valid |-> secret.valid, keys |-> secret.keys, plain |-> secret.plain]
  BY DEF Document
<1>3. ASSUME NEW t \in Token, Revoke(t), Out(secret', t), \A u \in revoked : Out(secret', u)
      PROVE  RevokedAreOut'
  <2>1. /\ revoked' = revoked \cup {t}
        /\ \A r \in Registration : overtaken'[r] = overtaken[r] \cup {t}
    BY <1>3 DEF Revoke
  <2> QED  BY <1>1, <1>3, <2>1 DEF RevokedAreOut, Carries
<1>4. ASSUME NEW t \in Token, DeleteRecord(t) PROVE RevokedAreOut'
  <2> DEFINE f == secret.keys
             k == Without(f, t)
  <2>1. DOMAIN k = DOMAIN f \ {t} /\ \A u \in DOMAIN f \ {t} : k[u] = f[u]
    <3> HIDE DEF f
    <3> QED  BY DEF k, Without
  <2>2. secret' = [secret EXCEPT !.keys = k] /\ t \in DOMAIN f
    <3>1. secret' = [secret EXCEPT !.keys = Without(@, t)] /\ t \in DOMAIN secret.keys
      BY <1>4 DEF DeleteRecord, Edit
    <3> QED  BY <1>2, <3>1
  <2> HIDE DEF k
  <2>3. secret'.keys = k /\ secret'.plain = secret.plain  BY <1>2, <2>2
  <2>4. Out(secret', t)  BY <1>2, <2>1, <2>2, <2>3 DEF Out
  <2>5. \A u \in revoked : Out(secret', u)
    BY <2>1, <2>3 DEF RevokedAreOut, Out
  <2> QED  BY <1>3, <1>4, <2>4, <2>5 DEF DeleteRecord
<1>5. ASSUME NEW t \in Token, NEW s \in Status, SetStatus(t, s) PROVE RevokedAreOut'
  <2> DEFINE k == [secret.keys EXCEPT ![t].status = s]
  <2>1. /\ DOMAIN secret.keys \subseteq Token /\ secret.keys \in [DOMAIN secret.keys -> Record]
        /\ t \in DOMAIN secret.keys
    BY <1>2, <1>5, PartialFunctions DEF SetStatus
  <2>2. /\ DOMAIN k = DOMAIN secret.keys /\ k[t].status = s
        /\ \A u \in DOMAIN k \ {t} : k[u] = secret.keys[u]
    BY <2>1 DEF Record
  <2>3. secret' = [secret EXCEPT !.keys = k]
    BY <1>2, <1>5 DEF SetStatus, Edit
  <2> HIDE DEF k
  <2>4. secret'.keys = k /\ secret'.plain = secret.plain  BY <1>2, <2>3
  <2>5. \A u \in revoked \ {t} : Out(secret', u)
    BY <2>2, <2>4 DEF RevokedAreOut, Out
  <2>6. CASE s = "revoked"
    <3>1. Out(secret', t)  BY <1>2, <2>1, <2>2, <2>4, <2>6 DEF Out
    <3>2. Revoke(t)  BY <1>5, <2>6 DEF SetStatus
    <3> QED  BY <1>3, <2>5, <3>1, <3>2
  <2>7. CASE s # "revoked"
    <3>1. revoked' = revoked \ {t} /\ overtaken' = overtaken  BY <1>5, <2>7 DEF SetStatus
    <3> QED  BY <1>1, <2>5, <3>1 DEF RevokedAreOut, Carries
  <2> QED  BY <2>6, <2>7
<1>6. ASSUME SlipOrRepair PROVE RevokedAreOut'
  <2>1. secret'.keys = secret.keys /\ secret'.plain = secret.plain /\ UNCHANGED <<revoked, overtaken>>
    BY <1>2, <1>6 DEF SlipOrRepair, Edit, history
  <2> QED  BY <1>1, <2>1 DEF RevokedAreOut, Out, Carries
<1> QED  BY <1>4, <1>5, <1>6 DEF OperatorStep

\* Every step keeps out what is revoked.
LEMMA OutStep == KeyInvariant /\ RevokedAreOut /\ [KeyNext]_keyVars => RevokedAreOut'
<1> SUFFICES ASSUME KeyInvariant, RevokedAreOut, [KeyNext]_keyVars PROVE RevokedAreOut'  OBVIOUS
<1>1. ASSUME NEW r \in Registration, DryRun(r) \/ Wire(r) \/ GiveUp(r) PROVE RevokedAreOut'
  <2>1. /\ UNCHANGED <<secret, job, merged, revoked, overtaken>>
        /\ \A q \in Registration : pc'[q] = "merged" => pc[q] = "merged"
    BY <1>1 DEF DryRun, Wire, GiveUp, history, KeyInvariant, KeyTypeOK
  <2> QED  BY <2>1 DEF RevokedAreOut, Carries
<1>2. ASSUME NEW r \in Registration, RunStep(r) PROVE RevokedAreOut'
  BY <1>1, <1>2, ReadKeepsOut, StoreKeepsOut DEF RunStep
<1>3. CASE OperatorStep  BY <1>3, OperatorKeepsOut
<1>4. CASE Expire \/ UNCHANGED keyVars
  <2>1. UNCHANGED <<secret, pc, job, merged, revoked, overtaken>>
    BY <1>4 DEF Expire, keyVars, history
  <2> QED  BY <2>1 DEF RevokedAreOut, Carries
<1> QED  BY <1>2, <1>3, <1>4 DEF KeyNext

(***************************************************************************)
(* A token an operator has revoked or whose record was deleted has no      *)
(* principal, in no schema, until it is registered anew, restored by the   *)
(* operator, or stored by a run that had read the secret before.           *)
(***************************************************************************)
THEOREM RevocationsHold == KeySpec => []RevocationHolds
<1>1. KeyInit => RevokedAreOut
  <2>1. KeyInit => revoked = {}  BY DEF KeyInit
  <2> QED  BY <2>1 DEF RevokedAreOut
<1>2. RevokedAreOut => RevocationHolds
  <2> SUFFICES ASSUME RevokedAreOut, NEW t \in revoked PROVE Principals(secret, t) = {}
    BY DEF RevocationHolds
  <2>1. Out(secret, t)  BY DEF RevokedAreOut
  <2>2. CASE t \in DOMAIN secret.keys
    <3>1. secret.keys[t].status = "revoked"  BY <2>1, <2>2 DEF Out
    <3>2. {x \in {secret.keys[t]} : Active(x)} = {}  BY <3>1 DEF Active
    <3> QED  BY <2>2, <3>2 DEF Principals, HashedPrincipal
  <2>3. CASE t \notin DOMAIN secret.keys
    BY <2>1, <2>3 DEF Principals, PlaintextPrincipal, Out
  <2> QED  BY <2>2, <2>3
<1> QED  BY <1>1, <1>2, OutStep, KeysInvariance, PTL DEF KeySpec

(***************************************************************************)
(* A token that was printed as registered, and after whose run nobody      *)
(* wrote the secret, is that of the tenant asked for, with its scope.      *)
(***************************************************************************)
THEOREM PrintedKeysWork == KeySpec => []PrintedKeyWorks
<1>1. KeyInvariant => PrintedKeyWorks
  <2> SUFFICES ASSUME KeyInvariant, NEW r \in Registration, pc[r] = "printed", writer = r
               PROVE  wired /\ Authenticate(secret, job[r].token) =
                                 {[tenant |-> job[r].tenant, maySend |-> TRUE]}
    BY DEF PrintedKeyWorks
  <2> DEFINE t == job[r].token
             x == [tenant |-> job[r].tenant, status |-> "active"]
  <2>1. /\ seen[r] \in Document /\ t \in Token /\ job[r].tenant \in Tenant
        /\ seen[r].valid /\ DOMAIN seen[r].keys \cap DOMAIN seen[r].plain = {}
        /\ secret = Upsert(seen[r], t, job[r].tenant)
        /\ wired
    BY DEF KeyInvariant, KeyTypeOK, Merging, Writing
  <2>2. secret.valid /\ t \in DOMAIN secret.keys /\ secret.keys[t] = x
    <3> DEFINE u == Upsert(seen[r], t, job[r].tenant)
    <3>1. u.valid = seen[r].valid /\ u.keys[t] = Fresh(job[r].tenant)
      BY <2>1, UpsertRecord
    <3>2. DOMAIN u.keys = DOMAIN seen[r].keys \cup {t}  BY <2>1, UpsertDomains
    <3>3. secret = u  BY <2>1
    <3> HIDE DEF u
    <3> QED  BY <2>1, <3>1, <3>2, <3>3 DEF Fresh
  <2>3. {y \in {secret.keys[t]} : Active(y)} = {x} /\ x.status # "narrow" /\ x.tenant = job[r].tenant
    BY <2>2 DEF Active
  <2> HIDE DEF x
  <2>4. Principals(secret, t) = {[tenant |-> x.tenant, maySend |-> x.status # "narrow"]}
    BY <2>2, <2>3 DEF Principals, HashedPrincipal
  <2> QED  BY <2>1, <2>2, <2>3, <2>4 DEF Authenticate
<1> QED  BY <1>1, KeysInvariance, PTL

(***************************************************************************)
(* A run that stores what it merged into the document as it still is       *)
(* changes what the document says of its own token only.                   *)
(***************************************************************************)
THEOREM OthersAreKept == KeySpec => OnlyItsTokenChanges
<1> DEFINE Keeps == \A r \in Registration : Store(r) /\ seen[r] = secret =>
              \A t \in Token \ {job[r].token} :
                /\ Principals(secret', t) = Principals(secret, t)
                /\ t \in DOMAIN secret.keys => secret'.keys[t] = secret.keys[t]
<1>1. KeyInvariant /\ [KeyNext]_keyVars => [Keeps]_keyVars
  <2> SUFFICES ASSUME KeyInvariant, NEW r \in Registration, Store(r), seen[r] = secret,
                      NEW t \in Token \ {job[r].token}
               PROVE  /\ Principals(secret', t) = Principals(secret, t)
                      /\ t \in DOMAIN secret.keys => secret'.keys[t] = secret.keys[t]
    OBVIOUS
  <2>1. /\ secret \in Document /\ job[r].token \in Token /\ job[r].tenant \in Tenant
        /\ DOMAIN secret.keys \cap DOMAIN secret.plain = {}
        /\ secret' = Upsert(secret, job[r].token, job[r].tenant)
        /\ expired' = expired
    BY DEF KeyInvariant, KeyTypeOK, Merging, Store
  <2>2. /\ (t \in DOMAIN secret'.keys) = (t \in DOMAIN secret.keys)
        /\ (t \in DOMAIN secret'.plain) = (t \in DOMAIN secret.plain)
        /\ t \in DOMAIN secret.keys => secret'.keys[t] = secret.keys[t]
        /\ t \in DOMAIN secret.plain => secret'.plain[t] = secret.plain[t]
    <3> DEFINE u == Upsert(secret, job[r].token, job[r].tenant)
    <3>1. /\ DOMAIN u.keys = DOMAIN secret.keys \cup {job[r].token}
          /\ DOMAIN u.plain = DOMAIN secret.plain \ {job[r].token}
      BY <2>1, UpsertDomains
    <3>2. \A v \in DOMAIN secret.keys \ {job[r].token} : u.keys[v] = secret.keys[v]
      BY <2>1, UpsertKeepsKeys
    <3>3. \A v \in DOMAIN secret.plain \ {job[r].token} : u.plain[v] = secret.plain[v]
      BY <2>1, UpsertKeepsPlain
    <3>4. secret' = u  BY <2>1
    <3> HIDE DEF u
    <3> QED  BY <3>1, <3>2, <3>3, <3>4
  <2>3. CASE t \in DOMAIN secret.keys
    BY <2>2, <2>3, Zenon DEF Principals, HashedPrincipal, PlaintextPrincipal, Active
  <2>4. CASE t \notin DOMAIN secret.keys
    <3>1. {t} \cap DOMAIN secret'.plain = {t} \cap DOMAIN secret.plain  BY <2>2
    <3>2. \A u \in {t} \cap DOMAIN secret.plain : secret'.plain[u] = secret.plain[u]
      BY <2>2
    <3> QED  BY <2>2, <2>4, <3>1, <3>2 DEF Principals, PlaintextPrincipal
  <2> QED  BY <2>3, <2>4
<1> QED  BY <1>1, KeysInvariance, PTL DEF KeySpec, OnlyItsTokenChanges
=============================================================================
