-------------------------- MODULE AppConfiguration --------------------------
(***************************************************************************)
(* ensureAppConfiguration: the invocations of one worker share one load of *)
(* Azure App Configuration into process.env.  A load visits the settings   *)
(* one by one, resolving Key Vault references on the way; one that fails   *)
(* leaves what it has set, and the next invocation loads again.            *)
(*                                                                         *)
(* Values are told apart by where they come from: set by the host before   *)
(* the process started, or read from the store in its n-th revision.  A    *)
(* load is named after the invocation that began it.                       *)
(***************************************************************************)
EXTENDS Naturals

CONSTANTS
  Setting,       \* keys of APP_CONFIGURATION_ENVIRONMENT_KEYS with a value in the store
  Reference,     \* those whose value is a Key Vault reference
  Versioned,     \* the reference whose secret version is published as well
  Invocation,
  None,
  Unset,         \* process.env has no value
  FromHost,      \* it has one from the host's settings
  MaxRevision    \* bound on the changes of the store

ASSUME ConfigurationAssumption ==
  /\ Reference \subseteq Setting /\ Versioned \in Reference
  /\ None \notin Invocation /\ None \notin Setting
  /\ MaxRevision \in Nat \ {0}
  /\ Unset # FromHost /\ Unset \notin Nat /\ FromHost \notin Nat

VARIABLES
  env,         \* process.env, per setting
  version,     \* RECIPIENT_HASH_HMAC_KEY_VERSION
  revision,    \* of the store and of the secrets in Key Vault
  loadOnce,    \* the shared promise: the load it belongs to, or None
  load,        \* every load: its status, and the settings it has still to visit
  resolving,   \* the reference a load waits for, or None
  state,       \* of every invocation
  awaited      \* the load it waits for, or None

vars == <<env, version, revision, loadOnce, load, resolving, state, awaited>>

Source == {Unset, FromHost} \cup (1 .. MaxRevision)
Status == {"none", "running", "done", "failed"}
-----------------------------------------------------------------------------
\* Mutated form of StartsLoad: every call loads.
AlwaysStarts == TRUE
StartsLoad == loadOnce = None

Ensure(c) ==
  /\ state[c] = "idle"
  /\ state' = [state EXCEPT ![c] = "waiting"]
  /\ IF StartsLoad
     THEN /\ loadOnce' = c
          /\ awaited' = [awaited EXCEPT ![c] = c]
          /\ load' = [load EXCEPT ![c] = [status |-> "running", todo |-> Setting]]
     ELSE /\ awaited' = [awaited EXCEPT ![c] = loadOnce]
          /\ UNCHANGED <<loadOnce, load>>
  /\ UNCHANGED <<env, version, revision, resolving>>

Running(l) == load[l].status = "running"

\* Mutated form of AlreadySet: what an earlier load has set is read again.
SetByHost(s) == env[s] = FromHost
AlreadySet(s) == env[s] # Unset

\* The next setting of the listing: skipped, copied, or a reference to resolve.
VisitSetting(l, s) ==
  /\ Running(l) /\ resolving[l] = None /\ s \in load[l].todo
  /\ load' = [load EXCEPT ![l] = [status |-> "running", todo |-> load[l].todo \ {s}]]
  /\ IF AlreadySet(s) THEN UNCHANGED <<env, resolving>>
     ELSE IF s \in Reference THEN resolving' = [resolving EXCEPT ![l] = s] /\ UNCHANGED env
     ELSE env' = [env EXCEPT ![s] = revision] /\ UNCHANGED resolving
  /\ UNCHANGED <<version, revision, loadOnce, state, awaited>>

\* getSecret answers; key and version are set without giving way in between.
ResolveSecret(l) ==
  /\ Running(l) /\ resolving[l] # None
  /\ env' = [env EXCEPT ![resolving[l]] = revision]
  /\ version' = IF resolving[l] = Versioned /\ version = Unset THEN revision ELSE version
  /\ resolving' = [resolving EXCEPT ![l] = None]
  /\ UNCHANGED <<revision, loadOnce, load, state, awaited>>

FinishLoad(l) ==
  /\ Running(l) /\ resolving[l] = None /\ load[l].todo = {}
  /\ load' = [load EXCEPT ![l] = [status |-> "done", todo |-> {}]]
  /\ UNCHANGED <<env, version, revision, loadOnce, resolving, state, awaited>>

\* Mutated form of AfterFailure: the rejected promise stays.
FailureIsCached == loadOnce
AfterFailure == None

\* The listing fails, or a reference is malformed, cannot be read or has no value.
FailLoad(l) ==
  /\ Running(l)
  /\ load' = [load EXCEPT ![l] = [status |-> "failed", todo |-> load[l].todo]]
  /\ resolving' = [resolving EXCEPT ![l] = None]
  /\ loadOnce' = AfterFailure
  /\ UNCHANGED <<env, version, revision, state, awaited>>

\* Mutated form of Rejected: the failure is swallowed.
NeverRejected(l) == FALSE
Rejected(l) == load[l].status = "failed"

\* The promise settles for an invocation: it goes on with process.env, or answers 503.
Wake(c) ==
  /\ state[c] = "waiting" /\ ~Running(awaited[c])
  /\ state' = [state EXCEPT ![c] = IF Rejected(awaited[c]) THEN "refused" ELSE "ready"]
  /\ UNCHANGED <<env, version, revision, loadOnce, load, resolving, awaited>>

\* An operator changes settings, or rotates secrets.
ChangeStore ==
  /\ revision < MaxRevision
  /\ revision' = revision + 1
  /\ UNCHANGED <<env, version, loadOnce, load, resolving, state, awaited>>

Init ==
  /\ env \in [Setting -> {Unset, FromHost}]
  /\ version \in {Unset, FromHost}
  /\ revision = 1
  /\ loadOnce = None
  /\ load = [l \in Invocation |-> [status |-> "none", todo |-> {}]]
  /\ resolving = [l \in Invocation |-> None]
  /\ state = [c \in Invocation |-> "idle"]
  /\ awaited = [c \in Invocation |-> None]

Next ==
  \/ \E c \in Invocation : Ensure(c) \/ Wake(c)
  \/ \E l \in Invocation :
       \/ \E s \in Setting : VisitSetting(l, s)
       \/ ResolveSecret(l) \/ FinishLoad(l) \/ FailLoad(l)
  \/ ChangeStore

Spec == Init /\ [][Next]_vars
-----------------------------------------------------------------------------
\* Types, and one load at most is under way, the one new invocations join.
TypeOK ==
  /\ env \in [Setting -> Source]
  /\ version \in Source
  /\ revision \in 1 .. MaxRevision
  /\ loadOnce \in Invocation \cup {None}
  /\ load \in [Invocation -> [status : Status, todo : SUBSET Setting]]
  /\ resolving \in [Invocation -> Reference \cup {None}]
  /\ state \in [Invocation -> {"idle", "waiting", "ready", "refused"}]
  /\ awaited \in [Invocation -> Invocation \cup {None}]
  /\ \A l \in Invocation : Running(l) => loadOnce = l

(***************************************************************************)
(* An invocation that goes on finds every setting in process.env: it never *)
(* works with the leavings of a load that failed, or of one still under    *)
(* way.                                                                    *)
(***************************************************************************)
ReadyMeansComplete ==
  \A c \in Invocation : state[c] = "ready" => \A s \in Setting : env[s] # Unset

(***************************************************************************)
(* Once an invocation has gone on, process.env does not change any more:   *)
(* limiters, stores and policies that read it lazily all see one           *)
(* configuration, whatever happens to the store.                           *)
(***************************************************************************)
ConfigurationIsStable ==
  [][(\E c \in Invocation : state[c] = "ready") => UNCHANGED <<env, version>>]_vars

(***************************************************************************)
(* The published version is that of the published key, also when a load    *)
(* fails after the key and the secret is rotated before the next one.      *)
(***************************************************************************)
KeyAndVersionAgree ==
  env[Versioned] \notin {Unset, FromHost} /\ version # FromHost => version = env[Versioned]

(***************************************************************************)
(* A failure is not remembered: an invocation that arrives after a load    *)
(* failed waits for another load.                                          *)
(***************************************************************************)
NoStaleFailure ==
  [][\A c \in Invocation : state[c] = "idle" /\ state[c]' = "waiting" =>
       \A l \in Invocation : awaited'[c] = l => load'[l].status # "failed"]_vars
=============================================================================
