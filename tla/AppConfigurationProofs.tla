----------------------- MODULE AppConfigurationProofs -----------------------
(***************************************************************************)
(* Proofs about AppConfiguration, for any number of invocations, settings  *)
(* and revisions of the store.                                             *)
(***************************************************************************)
EXTENDS AppConfiguration, TLAPS

(***************************************************************************)
(* The inductive invariant.                                                *)
(***************************************************************************)
\* Who waits, waits for a load that was begun; who went on, for one that is done.
WaitersJoined ==
  \A c \in Invocation :
    /\ state[c] = "idle" => load[c].status = "none"
    /\ state[c] = "waiting" => awaited[c] \in Invocation /\ load[awaited[c]].status # "none"
    /\ state[c] = "ready" => awaited[c] \in Invocation /\ load[awaited[c]].status = "done"

\* The shared promise is that of a load under way or done, and a load done keeps it.
PromiseIsLive ==
  /\ loadOnce # None => load[loadOnce].status \in {"running", "done"}
  /\ \A l \in Invocation : load[l].status = "done" => loadOnce = l

\* A load has set all it has visited, but for the reference it is resolving.
VisitedIsSet ==
  \A l \in Invocation : load[l].status \in {"running", "done"} =>
    \A s \in Setting : s \in load[l].todo \/ env[s] # Unset \/ resolving[l] = s

\* A reference being resolved has no value yet, and only a load under way resolves.
ResolvingIsUnset ==
  \A l \in Invocation : resolving[l] # None =>
    /\ load[l].status = "running"
    /\ env[resolving[l]] = Unset

\* A load is done when nothing is left.
DoneIsEmpty ==
  \A l \in Invocation : load[l].status = "done" => load[l].todo = {}

\* No version without its key.
VersionFollowsKey ==
  env[Versioned] \in {Unset, FromHost} => version \in {Unset, FromHost}

IInv ==
  /\ TypeOK
  /\ WaitersJoined /\ PromiseIsLive
  /\ VisitedIsSet /\ ResolvingIsUnset /\ DoneIsEmpty
  /\ VersionFollowsKey /\ KeyAndVersionAgree

-----------------------------------------------------------------------------
\* A revision of the store is a value, told apart from none and from the host's.
LEMMA RevisionIsSet == TypeOK => revision \in Source \ {Unset, FromHost}
  BY ConfigurationAssumption DEF TypeOK, Source

\* The initial states satisfy the invariant: no load was begun.
LEMMA InitIInv == Init => IInv
<1> SUFFICES ASSUME Init PROVE IInv
  OBVIOUS
<1> USE ConfigurationAssumption DEF Init
<1>1. TypeOK
  BY DEF TypeOK, Source, Status, Running
<1>2. WaitersJoined /\ PromiseIsLive
  BY DEF WaitersJoined, PromiseIsLive
<1>3. VisitedIsSet /\ ResolvingIsUnset /\ DoneIsEmpty
  BY DEF VisitedIsSet, ResolvingIsUnset, DoneIsEmpty
<1>4. VersionFollowsKey /\ KeyAndVersionAgree
  BY DEF VersionFollowsKey, KeyAndVersionAgree
<1> QED
  BY <1>1, <1>2, <1>3, <1>4 DEF IInv

\* An invocation that calls ensureAppConfiguration keeps the invariant.
LEMMA EnsureKeeps ==
  ASSUME IInv, NEW c \in Invocation, Ensure(c)
  PROVE  IInv'
<1> USE ConfigurationAssumption DEF IInv
<1>1. CASE loadOnce = None
  <2>1. /\ loadOnce' = c /\ UNCHANGED <<env, version, revision, resolving>>
        /\ load' = [load EXCEPT ![c] = [status |-> "running", todo |-> Setting]]
        /\ awaited' = [awaited EXCEPT ![c] = c]
        /\ state' = [state EXCEPT ![c] = "waiting"] /\ state[c] = "idle"
    BY <1>1 DEF Ensure, StartsLoad
  <2>2. \A l \in Invocation : ~Running(l) /\ load[l].status # "done"
    BY <1>1 DEF TypeOK, PromiseIsLive
  <2>3. TypeOK'
    BY <2>1, <2>2 DEF TypeOK, Running, Status
  <2>4. WaitersJoined'
    BY <2>1, <2>2 DEF TypeOK, WaitersJoined
  <2>5. PromiseIsLive'
    BY <2>1, <2>2 DEF TypeOK, PromiseIsLive
  <2>6. VisitedIsSet' /\ ResolvingIsUnset' /\ DoneIsEmpty'
    BY <2>1, <2>2 DEF TypeOK, VisitedIsSet, ResolvingIsUnset, DoneIsEmpty, Running
  <2>7. VersionFollowsKey' /\ KeyAndVersionAgree'
    BY <2>1 DEF VersionFollowsKey, KeyAndVersionAgree
  <2> QED
    BY <2>3, <2>4, <2>5, <2>6, <2>7
<1>2. CASE loadOnce # None
  <2>1. /\ UNCHANGED <<env, version, revision, resolving, loadOnce, load>>
        /\ awaited' = [awaited EXCEPT ![c] = loadOnce]
        /\ state' = [state EXCEPT ![c] = "waiting"] /\ state[c] = "idle"
    BY <1>2 DEF Ensure, StartsLoad
  <2>2. TypeOK'
    BY <2>1 DEF TypeOK, Running
  <2>3. WaitersJoined'
    BY <1>2, <2>1 DEF TypeOK, WaitersJoined, PromiseIsLive
  <2>4. PromiseIsLive' /\ VisitedIsSet' /\ ResolvingIsUnset' /\ DoneIsEmpty'
    BY <2>1 DEF PromiseIsLive, VisitedIsSet, ResolvingIsUnset, DoneIsEmpty
  <2>5. VersionFollowsKey' /\ KeyAndVersionAgree'
    BY <2>1 DEF VersionFollowsKey, KeyAndVersionAgree
  <2> QED
    BY <2>2, <2>3, <2>4, <2>5
<1> QED
  BY <1>1, <1>2

\* Visiting a setting keeps the invariant.
LEMMA VisitKeeps ==
  ASSUME IInv, NEW l \in Invocation, NEW s \in Setting, VisitSetting(l, s)
  PROVE  IInv'
<1> USE ConfigurationAssumption DEF IInv
<1>1. /\ load[l].status = "running" /\ resolving[l] = None /\ s \in load[l].todo
      /\ load' = [load EXCEPT ![l] = [status |-> "running", todo |-> load[l].todo \ {s}]]
      /\ UNCHANGED <<version, revision, loadOnce, state, awaited>>
  BY DEF VisitSetting, Running, TypeOK
<1>2. \A m \in Invocation : load'[m].status = load[m].status
  BY <1>1 DEF TypeOK
<1>3. \A m \in Invocation \ {l} : load[m].status \notin {"running", "done"}
  BY <1>1 DEF TypeOK, PromiseIsLive, Running
<1>4. /\ env' \in [Setting -> Source]
      /\ resolving' \in [Invocation -> Reference \cup {None}]
  <2>1. CASE AlreadySet(s)
    BY <2>1 DEF VisitSetting, TypeOK
  <2>2. CASE ~AlreadySet(s) /\ s \in Reference
    BY <2>2 DEF VisitSetting, TypeOK
  <2>3. CASE ~AlreadySet(s) /\ s \notin Reference
    BY <2>3, RevisionIsSet DEF VisitSetting, TypeOK
  <2> QED
    BY <2>1, <2>2, <2>3
<1>5. TypeOK'
  BY <1>1, <1>2, <1>4 DEF TypeOK, Running, Status
<1>6. WaitersJoined' /\ PromiseIsLive'
  BY <1>1, <1>2 DEF TypeOK, WaitersJoined, PromiseIsLive
<1>7. DoneIsEmpty'
  BY <1>1, <1>2 DEF TypeOK, DoneIsEmpty
<1>8. VisitedIsSet' /\ ResolvingIsUnset'
  <2>1. CASE AlreadySet(s)
    BY <1>1, <1>2, <1>3, <2>1
       DEF VisitSetting, AlreadySet, TypeOK, VisitedIsSet, ResolvingIsUnset
  <2>2. CASE ~AlreadySet(s) /\ s \in Reference
    <3>1. UNCHANGED env /\ resolving' = [resolving EXCEPT ![l] = s] /\ env[s] = Unset
      BY <2>2 DEF VisitSetting, AlreadySet
    <3> QED
      BY <1>1, <1>2, <1>3, <3>1 DEF TypeOK, VisitedIsSet, ResolvingIsUnset
  <2>3. CASE ~AlreadySet(s) /\ s \notin Reference
    <3>1. UNCHANGED resolving /\ env' = [env EXCEPT ![s] = revision]
      BY <2>3 DEF VisitSetting
    <3>2. revision # Unset
      BY RevisionIsSet
    <3>3. \A u \in Setting : u # s => env'[u] = env[u]
      BY <3>1 DEF TypeOK
    <3>4. VisitedIsSet'
      BY <1>1, <1>2, <1>3, <3>1, <3>2, <3>3 DEF TypeOK, VisitedIsSet
    <3>5. ResolvingIsUnset'
      BY <1>1, <1>2, <3>1, <3>3, <2>3 DEF TypeOK, ResolvingIsUnset
    <3> QED
      BY <3>4, <3>5
  <2> QED
    BY <2>1, <2>2, <2>3
<1>9. VersionFollowsKey' /\ KeyAndVersionAgree'
  <2>1. env'[Versioned] = env[Versioned]
    BY DEF VisitSetting, TypeOK
  <2> QED
    BY <1>1, <2>1 DEF VersionFollowsKey, KeyAndVersionAgree
<1> QED
  BY <1>5, <1>6, <1>7, <1>8, <1>9

\* A secret that arrives keeps the invariant: nobody else has set it meanwhile.
LEMMA ResolveKeeps ==
  ASSUME IInv, NEW l \in Invocation, ResolveSecret(l)
  PROVE  IInv'
<1> USE ConfigurationAssumption DEF IInv
<1> DEFINE s == resolving[l]
<1>1. /\ load[l].status = "running" /\ s \in Reference
      /\ env' = [env EXCEPT ![s] = revision]
      /\ version' = IF s = Versioned /\ version = Unset THEN revision ELSE version
      /\ resolving' = [resolving EXCEPT ![l] = None]
      /\ UNCHANGED <<revision, loadOnce, load, state, awaited>>
  BY DEF ResolveSecret, Running, TypeOK
<1>2. env[s] = Unset /\ s \in Setting /\ revision \in Source \ {Unset, FromHost}
  BY <1>1, RevisionIsSet DEF ResolveSecret, ResolvingIsUnset, TypeOK
<1>3. \A m \in Invocation \ {l} : load[m].status \notin {"running", "done"} /\ resolving[m] = None
  BY <1>1 DEF TypeOK, PromiseIsLive, Running, ResolvingIsUnset
<1>4. TypeOK'
  BY <1>1, <1>2 DEF TypeOK, Source, Running
<1>5. WaitersJoined' /\ PromiseIsLive' /\ DoneIsEmpty'
  BY <1>1 DEF WaitersJoined, PromiseIsLive, DoneIsEmpty
<1>6. VisitedIsSet' /\ ResolvingIsUnset'
  BY <1>1, <1>2, <1>3 DEF TypeOK, VisitedIsSet, ResolvingIsUnset
<1>7. VersionFollowsKey' /\ KeyAndVersionAgree'
  <2>1. CASE s = Versioned
    <3>1. env'[Versioned] = revision /\ version \in {Unset, FromHost}
      BY <1>1, <1>2, <2>1 DEF TypeOK, VersionFollowsKey
    <3> QED
      BY <1>1, <1>2, <2>1, <3>1 DEF VersionFollowsKey, KeyAndVersionAgree
  <2>2. CASE s # Versioned
    BY <1>1, <2>2 DEF TypeOK, VersionFollowsKey, KeyAndVersionAgree
  <2> QED
    BY <2>1, <2>2
<1> QED
  BY <1>4, <1>5, <1>6, <1>7

\* The end of a load, with success or not, keeps the invariant.
LEMMA EndKeeps ==
  ASSUME IInv, NEW l \in Invocation, FinishLoad(l) \/ FailLoad(l)
  PROVE  IInv'
<1> USE ConfigurationAssumption DEF IInv
<1>1. CASE FinishLoad(l)
  <2>1. /\ load[l].status = "running" /\ load[l].todo = {} /\ resolving[l] = None
        /\ load' = [load EXCEPT ![l] = [status |-> "done", todo |-> {}]]
        /\ UNCHANGED <<env, version, revision, loadOnce, resolving, state, awaited>>
        /\ loadOnce = l
    BY <1>1 DEF FinishLoad, Running, TypeOK
  <2>2. TypeOK' /\ PromiseIsLive' /\ DoneIsEmpty'
    BY <2>1 DEF TypeOK, Status, Running, PromiseIsLive, DoneIsEmpty
  <2>3. WaitersJoined'
    BY <2>1 DEF TypeOK, WaitersJoined
  <2>4. VisitedIsSet' /\ ResolvingIsUnset'
    BY <2>1 DEF TypeOK, VisitedIsSet, ResolvingIsUnset
  <2>5. VersionFollowsKey' /\ KeyAndVersionAgree'
    BY <2>1 DEF VersionFollowsKey, KeyAndVersionAgree
  <2> QED
    BY <2>2, <2>3, <2>4, <2>5
<1>2. CASE FailLoad(l)
  <2>1. /\ load[l].status = "running" /\ loadOnce = l /\ loadOnce' = None
        /\ load' = [load EXCEPT ![l] = [status |-> "failed", todo |-> load[l].todo]]
        /\ resolving' = [resolving EXCEPT ![l] = None]
        /\ UNCHANGED <<env, version, revision, state, awaited>>
    BY <1>2 DEF FailLoad, AfterFailure, Running, TypeOK
  <2>2. \A m \in Invocation \ {l} : load[m].status \notin {"running", "done"}
    BY <2>1 DEF TypeOK, PromiseIsLive, Running
  <2>3. TypeOK' /\ PromiseIsLive' /\ DoneIsEmpty'
    BY <2>1, <2>2 DEF TypeOK, Status, Running, PromiseIsLive, DoneIsEmpty
  <2>4. WaitersJoined'
    BY <2>1 DEF TypeOK, WaitersJoined
  <2>5. VisitedIsSet' /\ ResolvingIsUnset'
    BY <2>1, <2>2 DEF TypeOK, VisitedIsSet, ResolvingIsUnset
  <2>6. VersionFollowsKey' /\ KeyAndVersionAgree'
    BY <2>1 DEF VersionFollowsKey, KeyAndVersionAgree
  <2> QED
    BY <2>3, <2>4, <2>5, <2>6
<1> QED
  BY <1>1, <1>2

\* Waking an invocation, and a change of the store, keep the invariant.
LEMMA RestKeeps ==
  ASSUME IInv, (\E c \in Invocation : Wake(c)) \/ ChangeStore \/ UNCHANGED vars
  PROVE  IInv'
<1> USE ConfigurationAssumption DEF IInv
<1>1. ASSUME NEW c \in Invocation, Wake(c) PROVE IInv'
  <2>1. /\ UNCHANGED <<env, version, revision, loadOnce, load, resolving, awaited>>
        /\ state[c] = "waiting" /\ load[awaited[c]].status # "running"
        /\ state' = [state EXCEPT ![c] =
             IF load[awaited[c]].status = "failed" THEN "refused" ELSE "ready"]
    BY <1>1 DEF Wake, Running, Rejected
  <2>2. awaited[c] \in Invocation /\ load[awaited[c]].status \in {"done", "failed"}
    BY <2>1 DEF WaitersJoined, TypeOK, Status
  <2>3. TypeOK'
    BY <2>1 DEF TypeOK, Running
  <2>4. PromiseIsLive' /\ VisitedIsSet' /\ ResolvingIsUnset' /\ DoneIsEmpty'
    BY <2>1 DEF PromiseIsLive, VisitedIsSet, ResolvingIsUnset, DoneIsEmpty
  <2>5. VersionFollowsKey' /\ KeyAndVersionAgree'
    BY <2>1 DEF VersionFollowsKey, KeyAndVersionAgree
  <2>6. WaitersJoined'
    BY <2>1, <2>2 DEF TypeOK, WaitersJoined
  <2> QED
    BY <2>3, <2>4, <2>5, <2>6
<1>2. CASE ChangeStore
  <2>1. revision' \in 1 .. MaxRevision
    BY <1>2 DEF ChangeStore, TypeOK
  <2> QED
    BY <1>2, <2>1 DEF ChangeStore, TypeOK, Running, WaitersJoined, PromiseIsLive, VisitedIsSet,
       ResolvingIsUnset, DoneIsEmpty, VersionFollowsKey, KeyAndVersionAgree
<1>3. CASE UNCHANGED vars
  BY <1>3 DEF vars, TypeOK, Running, WaitersJoined, PromiseIsLive, VisitedIsSet,
     ResolvingIsUnset, DoneIsEmpty, VersionFollowsKey, KeyAndVersionAgree
<1> QED
  BY <1>1, <1>2, <1>3

\* Every step keeps the invariant.
LEMMA StepKeepsIInv == IInv /\ [Next]_vars => IInv'
<1> SUFFICES ASSUME IInv, [Next]_vars PROVE IInv'
  OBVIOUS
<1>1. ASSUME NEW c \in Invocation, Ensure(c) PROVE IInv'
  BY <1>1, EnsureKeeps
<1>2. ASSUME NEW l \in Invocation, NEW s \in Setting, VisitSetting(l, s) PROVE IInv'
  BY <1>2, VisitKeeps
<1>3. ASSUME NEW l \in Invocation, ResolveSecret(l) PROVE IInv'
  BY <1>3, ResolveKeeps
<1>4. ASSUME NEW l \in Invocation, FinishLoad(l) \/ FailLoad(l) PROVE IInv'
  BY <1>4, EndKeeps
<1>5. CASE (\E c \in Invocation : Wake(c)) \/ ChangeStore \/ UNCHANGED vars
  BY <1>5, RestKeeps
<1> QED
  BY <1>1, <1>2, <1>3, <1>4, <1>5 DEF Next

\* The invariant holds in every behaviour of ensureAppConfiguration.
THEOREM ConfigurationInvariance == Spec => []IInv
<1> QED
  BY InitIInv, StepKeepsIInv, PTL DEF Spec

\* Types; one load at most is under way, the one new invocations join (ensureAppConfiguration).
THEOREM OneLoadAtATime == Spec => []TypeOK
<1>1. IInv => TypeOK
  BY DEF IInv
<1> QED
  BY <1>1, ConfigurationInvariance, PTL

\* An invocation that goes on finds every setting set (ensureAppConfiguration).
THEOREM ReadyIsComplete == Spec => []ReadyMeansComplete
<1>1. IInv => ReadyMeansComplete
  BY ConfigurationAssumption DEF IInv, ReadyMeansComplete, WaitersJoined, VisitedIsSet, DoneIsEmpty, ResolvingIsUnset, TypeOK
<1> QED
  BY <1>1, ConfigurationInvariance, PTL

\* The HMAC key and its version in process.env come from one secret (loadAppConfiguration).
THEOREM KeyMatchesVersion == Spec => []KeyAndVersionAgree
<1>1. IInv => KeyAndVersionAgree
  BY DEF IInv
<1> QED
  BY <1>1, ConfigurationInvariance, PTL

\* process.env stays as it is once an invocation has gone on (ensureAppConfiguration).
THEOREM ConfigurationStaysStable == Spec => ConfigurationIsStable
<1>1. IInv /\ [Next]_vars =>
        [(\E c \in Invocation : state[c] = "ready") => UNCHANGED <<env, version>>]_vars
  <2> SUFFICES ASSUME IInv, [Next]_vars, NEW c \in Invocation, state[c] = "ready"
               PROVE  UNCHANGED <<env, version>>
    OBVIOUS
  <2>1. \A l \in Invocation : ~Running(l)
    BY DEF IInv, WaitersJoined, PromiseIsLive, TypeOK, Running
  <2>2. ASSUME NEW d \in Invocation, Ensure(d) \/ Wake(d) PROVE UNCHANGED <<env, version>>
    BY <2>2 DEF Ensure, Wake
  <2>3. CASE ChangeStore \/ UNCHANGED vars
    BY <2>3 DEF ChangeStore, vars
  <2> QED
    BY <2>1, <2>2, <2>3 DEF Next, VisitSetting, ResolveSecret, FinishLoad, FailLoad
<1> QED
  BY <1>1, ConfigurationInvariance, PTL DEF Spec, ConfigurationIsStable

\* An invocation never waits for a load that failed before it came (ensureAppConfiguration).
THEOREM FailuresAreForgotten == Spec => NoStaleFailure
<1> DEFINE Fresh == \A c \in Invocation : state[c] = "idle" /\ state[c]' = "waiting" =>
                      \A l \in Invocation : awaited'[c] = l => load'[l].status # "failed"
<1>1. IInv /\ [Next]_vars => [Fresh]_vars
  <2> SUFFICES ASSUME IInv, [Next]_vars, NEW c \in Invocation, NEW l \in Invocation,
                      state[c] = "idle", state'[c] = "waiting", awaited'[c] = l
               PROVE  load'[l].status # "failed"
    OBVIOUS
  <2>1. Ensure(c)
    BY DEF IInv, TypeOK, Next, Ensure, Wake, VisitSetting, ResolveSecret, FinishLoad, FailLoad,
       ChangeStore, vars
  <2>2. CASE loadOnce = None
    BY <2>1, <2>2 DEF Ensure, StartsLoad, IInv, TypeOK
  <2>3. CASE loadOnce # None
    BY <2>1, <2>3 DEF Ensure, StartsLoad, IInv, TypeOK, PromiseIsLive
  <2> QED
    BY <2>2, <2>3
<1> QED
  BY <1>1, ConfigurationInvariance, PTL DEF Spec, NoStaleFailure
=============================================================================
