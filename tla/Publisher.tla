----------------------------- MODULE Publisher -----------------------------
(***************************************************************************)
(* post-kit-publish: one run compiles every template of a source tree and  *)
(* uploads html, metadata and manifest of each to Blob Storage, template   *)
(* after template; with --prune it then deletes the templates the tree no  *)
(* longer has.                                                             *)
(*                                                                         *)
(* Every request to storage is one atomic step.  A request may fail after  *)
(* it was applied: the upload or deletion, then Stop.  A listing is one    *)
(* request (one page).  The sorted order in which a run takes its keys is  *)
(* some fixed order (CHOOSE); nothing here depends on which.               *)
(***************************************************************************)
EXTENDS Naturals

CONSTANTS
  Template,      \* template keys of one tenant and environment
  Version,       \* contents a template compiles to
  NoBlob,
  Run,           \* runs of the publisher
  Tree           \* source trees: what each template compiles to, or NoBlob

ASSUME PublisherAssumption ==
  /\ NoBlob \notin Version
  /\ Tree \subseteq [Template -> Version \cup {NoBlob}]

VARIABLES
  store,      \* the three blobs of every template
  status,     \* of each run
  options,    \* of each run: its source tree, --prune, --dry-run
  at,         \* the request a running run makes next
  todo,       \* compiled templates not uploaded yet
  existing,   \* existingKeys, as listed (empty when nothing was listed)
  retired,    \* keysToDelete not handled yet
  doomed,     \* blobs of the current retired key left to delete
  alone,      \* history: the run started last, as a set; empty once another
              \* was under way with it
  settled     \* history: the run that ended with success last, as a set; empty
              \* when none did, when another was under way with it, or when
              \* another has compiled its tree since

publisherVars ==
  <<store, status, options, at, todo, existing, retired, doomed,
    alone, settled>>

Part == {"html", "metadata", "manifest"}
Stored == Version \cup {NoBlob}
Request == {"compile", "list", "html", "metadata", "manifest", "inspect", "delete"}
NoTemplates == [t \in Template |-> NoBlob]     \* an empty templates directory
Options == [tree : Tree \cup {NoTemplates}, prune : BOOLEAN, dryRun : BOOLEAN]

Compiled(r) == {t \in Template : options[r].tree[t] # NoBlob}
First(S) == CHOOSE t \in S : TRUE
Current(r) == First(todo[r])
Retiring(r) == First(retired[r])

PartsOf(t) == {p \in Part : store[t][p] # NoBlob}

\* Mutated form of StoredKeys: a key is known by its metadata, as BlobTemplateStore.list knows it.
KeysWithMetadata == {t \in Template : store[t]["metadata"] # NoBlob}
StoredKeys == {t \in Template : PartsOf(t) # {}}

Active(r) == status[r] = "running"
-----------------------------------------------------------------------------
(***************************************************************************)
(* A run starts, compiles everything before the first request, and gives   *)
(* up if anything fails to compile or has a duplicate key.                 *)
(***************************************************************************)
StartRun(r) ==
  /\ status[r] = "new"
  /\ \E o \in Options : options' = [options EXCEPT ![r] = o]
  /\ status' = [status EXCEPT ![r] = "running"]
  /\ alone' = IF \E q \in Run : Active(q) THEN {} ELSE {r}
  /\ UNCHANGED <<store, at, todo, existing, retired, doomed, settled>>

NeedsListing(r) == options[r].dryRun \/ options[r].prune

\* Goes on after the upload of the last template.
AfterUploads(r, left) ==
  IF left # {} THEN at' = [at EXCEPT ![r] = "html"] /\ UNCHANGED status
  ELSE IF options[r].prune THEN at' = [at EXCEPT ![r] = "inspect"] /\ UNCHANGED status
  ELSE status' = [status EXCEPT ![r] = "done"] /\ UNCHANGED at

Settle(r) ==
  settled' = IF options[r].dryRun THEN settled
             ELSE IF status'[r] = "done" /\ r \in alone THEN {r} ELSE {}

CompileAll(r) ==
  /\ Active(r) /\ at[r] = "compile"
  /\ \/ /\ status' = [status EXCEPT ![r] = "failed"]
        /\ UNCHANGED <<store, options, at, todo, existing, retired, doomed, alone, settled>>
     \/ /\ todo' = [todo EXCEPT ![r] = Compiled(r)]
        /\ IF NeedsListing(r) THEN at' = [at EXCEPT ![r] = "list"] /\ UNCHANGED status
                              ELSE AfterUploads(r, Compiled(r))
        /\ Settle(r)
        /\ UNCHANGED <<store, options, existing, retired, doomed, alone>>

ToDelete(r) == IF options[r].prune THEN StoredKeys \ Compiled(r) ELSE {}

\* Mutated form of AfterListing: a dry run goes on.
AfterListingAlways(r) == AfterUploads(r, todo[r])
AfterListing(r) ==
  IF options[r].dryRun THEN status' = [status EXCEPT ![r] = "done"] /\ UNCHANGED at
                       ELSE AfterUploads(r, todo[r])

ListStored(r) ==
  /\ Active(r) /\ at[r] = "list"
  /\ existing' = [existing EXCEPT ![r] = StoredKeys]
  /\ retired' = [retired EXCEPT ![r] = ToDelete(r)]
  /\ AfterListing(r)
  /\ UNCHANGED <<store, options, todo, doomed, alone, settled>>

(***************************************************************************)
(* Uploads: template.html, metadata.json, manifest.json of one template,   *)
(* then the next template.                                                 *)
(***************************************************************************)
Put(r, p) == store' = [store EXCEPT ![Current(r)][p] = options[r].tree[Current(r)]]

UploadHtml(r) ==
  /\ Active(r) /\ at[r] = "html"
  /\ Put(r, "html")
  /\ at' = [at EXCEPT ![r] = "metadata"]
  /\ UNCHANGED <<status, options, todo, existing, retired, doomed, alone, settled>>

UploadMetadata(r) ==
  /\ Active(r) /\ at[r] = "metadata"
  /\ Put(r, "metadata")
  /\ at' = [at EXCEPT ![r] = "manifest"]
  /\ UNCHANGED <<status, options, todo, existing, retired, doomed, alone, settled>>

UploadManifest(r) ==
  /\ Active(r) /\ at[r] = "manifest"
  /\ Put(r, "manifest")
  /\ todo' = [todo EXCEPT ![r] = @ \ {Current(r)}]
  /\ AfterUploads(r, todo[r] \ {Current(r)})
  /\ Settle(r)
  /\ UNCHANGED <<options, existing, retired, doomed, alone>>

(***************************************************************************)
(* Prune: list the blobs of a retired key, delete them in name order.      *)
(***************************************************************************)
FinishRun(r) ==
  /\ Active(r) /\ at[r] = "inspect" /\ retired[r] = {}
  /\ status' = [status EXCEPT ![r] = "done"]
  /\ Settle(r)
  /\ UNCHANGED <<store, options, at, todo, existing, retired, doomed, alone>>

InspectRetired(r) ==
  /\ Active(r) /\ at[r] = "inspect" /\ retired[r] # {}
  /\ doomed' = [doomed EXCEPT ![r] = PartsOf(Retiring(r))]
  /\ IF PartsOf(Retiring(r)) = {}
     THEN retired' = [retired EXCEPT ![r] = @ \ {Retiring(r)}] /\ UNCHANGED at
     ELSE at' = [at EXCEPT ![r] = "delete"] /\ UNCHANGED retired
  /\ UNCHANGED <<store, status, options, todo, existing, alone, settled>>

NextDoomed(r) ==
  IF "manifest" \in doomed[r] THEN "manifest"
  ELSE IF "metadata" \in doomed[r] THEN "metadata" ELSE "html"

DeleteBlob(r) ==
  /\ Active(r) /\ at[r] = "delete"
  /\ store' = [store EXCEPT ![Retiring(r)][NextDoomed(r)] = NoBlob]
  /\ doomed' = [doomed EXCEPT ![r] = @ \ {NextDoomed(r)}]
  /\ IF doomed[r] = {NextDoomed(r)}
     THEN /\ retired' = [retired EXCEPT ![r] = @ \ {Retiring(r)}]
          /\ at' = [at EXCEPT ![r] = "inspect"]
     ELSE UNCHANGED <<retired, at>>
  /\ UNCHANGED <<status, options, todo, existing, alone, settled>>

\* A request fails, or the job is stopped: nothing is undone, the run's memory is gone.
Stop(r) ==
  /\ Active(r) /\ at[r] # "compile"
  /\ status' = [status EXCEPT ![r] = "failed"]
  /\ at' = [at EXCEPT ![r] = "compile"]
  /\ todo' = [todo EXCEPT ![r] = {}]
  /\ existing' = [existing EXCEPT ![r] = {}]
  /\ retired' = [retired EXCEPT ![r] = {}]
  /\ doomed' = [doomed EXCEPT ![r] = {}]
  /\ UNCHANGED <<store, options, alone, settled>>

RunStep(r) ==
  \/ StartRun(r) \/ CompileAll(r) \/ ListStored(r)
  \/ UploadHtml(r) \/ UploadMetadata(r) \/ UploadManifest(r)
  \/ InspectRetired(r) \/ DeleteBlob(r) \/ FinishRun(r)
  \/ Stop(r)
-----------------------------------------------------------------------------
PublisherInit ==
  /\ store = [t \in Template |-> [p \in Part |-> NoBlob]]
  /\ status = [r \in Run |-> "new"]
  /\ options = [r \in Run |-> [tree |-> NoTemplates, prune |-> FALSE, dryRun |-> FALSE]]
  /\ at = [r \in Run |-> "compile"]
  /\ todo = [r \in Run |-> {}]
  /\ existing = [r \in Run |-> {}]
  /\ retired = [r \in Run |-> {}]
  /\ doomed = [r \in Run |-> {}]
  /\ alone = {} /\ settled = {}

\* Types of the store, of the runs and of what they remember.
PublisherTypeOK ==
  /\ store \in [Template -> [Part -> Stored]]
  /\ status \in [Run -> {"new", "running", "done", "failed"}]
  /\ options \in [Run -> Options]
  /\ at \in [Run -> Request]
  /\ todo \in [Run -> SUBSET Template]
  /\ existing \in [Run -> SUBSET Template]
  /\ retired \in [Run -> SUBSET Template]
  /\ doomed \in [Run -> SUBSET Part]
  /\ alone \in SUBSET Run
  /\ settled \in SUBSET Run
=============================================================================
