-------------------------- MODULE FsTemplateStore --------------------------
(***************************************************************************)
(* The file system store of the admin editor example: a template is one    *)
(* directory with three files.  A save stages a directory and swaps it in. *)
(* Processes that share the root interleave at every call of node:fs; any  *)
(* such call may fail and a process may stop before it.                    *)
(***************************************************************************)
EXTENDS TemplateFiles

CONSTANTS
  Refused   \* triples whose serialized form the store does not accept

VARIABLES
  tree,       \* directories under the root, by name; those not in its domain do not exist
  pc,         \* of every save: the call of node:fs it makes next
  content,    \* the triple it was given
  placed,     \* saves whose staged directory became the live one
  torn,       \* saves that stopped removing their backup half-way
  copy        \* the files a load has read so far

storeVars == <<tree, pc, content, placed, torn, copy>>

Partial == UNION {[F -> Version] : F \in SUBSET File}
Whole(d) == DOMAIN d = File

Live == <<"live">>
Staging(s) == <<"staging", s>>
Backup(s) == <<"backup", s>>
Name == {Live} \cup {Staging(s) : s \in Save} \cup {Backup(s) : s \in Save}

ASSUME StoreAssumption == Refused \subseteq Triple
-----------------------------------------------------------------------------
Exists(n) == n \in DOMAIN tree
With(f, n, d) == [m \in DOMAIN f \cup {n} |-> IF m = n THEN d ELSE f[m]]
Without(f, n) == [m \in DOMAIN f \ {n} |-> f[m]]

\* renameSync replaces an empty directory and no other.
CanRename(a, b) == Exists(a) /\ (Exists(b) => DOMAIN tree[b] = {})
Rename(a, b) == tree' = With(Without(tree, a), b, tree[a])

Goto(s, p) == pc' = [pc EXCEPT ![s] = p]

\* The checks before anything is written: the name, the key, the triple.
Begin(s, c) ==
  /\ pc[s] = "unborn"
  /\ content' = [content EXCEPT ![s] = c]
  /\ Goto(s, IF c \in Refused THEN "failed" ELSE "stage")
  /\ UNCHANGED <<tree, placed, torn, copy>>

\* A call of node:fs throws: the catch block follows.
Throw(s) ==
  /\ pc[s] \in {"stage", "aside", "swap"}
  /\ Goto(s, "catch")
  /\ \/ UNCHANGED tree
     \/ pc[s] = "stage" /\ tree' = With(tree, Staging(s), [f \in {} |-> 0])
  /\ UNCHANGED <<content, placed, torn, copy>>

\* Mutated form of Staged: the third file is not written.
StagedInPart(s) == [f \in {SOURCE_FILES[1], SOURCE_FILES[2]} |-> content[s][f]]
\* What the three writes leave in the staging directory.
Staged(s) == [f \in File |-> content[s][f]]

\* mkdirSync, mkdtempSync and the writes, which no other save sees, up to the
\* question whether there is a live directory.
Stage(s) ==
  /\ pc[s] = "stage"
  /\ tree' = With(tree, Staging(s), Staged(s))
  /\ Goto(s, IF Exists(Live) THEN "aside" ELSE "swap")
  /\ UNCHANGED <<content, placed, torn, copy>>

\* Mutated form of MoveAside: the live directory is removed to make room.
RemoveLive(s) ==
  /\ pc[s] = "aside" /\ Exists(Live)
  /\ tree' = Without(tree, Live)
  /\ Goto(s, "swap")
  /\ UNCHANGED <<content, placed, torn, copy>>
MoveAside(s) ==
  /\ pc[s] = "aside" /\ CanRename(Live, Backup(s))
  /\ Rename(Live, Backup(s))
  /\ Goto(s, "swap")
  /\ UNCHANGED <<content, placed, torn, copy>>

SwapIn(s) ==
  /\ pc[s] = "swap" /\ CanRename(Staging(s), Live)
  /\ Rename(Staging(s), Live)
  /\ placed' = placed \cup {s}
  /\ Goto(s, "tidy")
  /\ UNCHANGED <<content, torn, copy>>

\* What a removal that fails half-way leaves: all files, some or none.
Leftovers == {File, {SOURCE_FILES[3]}, {}}

\* The backup is removed if there is one.
Tidy(s) ==
  /\ pc[s] = "tidy"
  /\ tree' = Without(tree, Backup(s))
  /\ Goto(s, "saved")
  /\ UNCHANGED <<content, placed, torn, copy>>

TidyFails(s, kept) ==
  /\ pc[s] = "tidy" /\ Exists(Backup(s))
  /\ kept \subseteq DOMAIN tree[Backup(s)]
  /\ tree' = [tree EXCEPT ![Backup(s)] = [f \in kept |-> @[f]]]
  /\ torn' = IF kept = File THEN torn ELSE torn \cup {s}
  /\ Goto(s, "catch")
  /\ UNCHANGED <<content, placed, copy>>

\* Mutated form of AfterCatch: the backup is left where it is.
NeverRestore(s) == "failed"
AfterCatch(s) ==
  CASE ~Exists(Backup(s)) -> "failed"
    [] Exists(Backup(s)) /\ ~Exists(Live) -> "restore"
    [] OTHER -> "discard"

\* The catch block: removes what was staged, then decides about the backup.
Catch(s) ==
  /\ pc[s] = "catch"
  /\ tree' = Without(tree, Staging(s))
  /\ Goto(s, AfterCatch(s))
  /\ UNCHANGED <<content, placed, torn, copy>>

Restore(s) ==
  /\ pc[s] = "restore" /\ CanRename(Backup(s), Live)
  /\ Rename(Backup(s), Live)
  /\ Goto(s, "failed")
  /\ UNCHANGED <<content, placed, torn, copy>>

Discard(s) ==
  /\ pc[s] = "discard"
  /\ tree' = Without(tree, Backup(s))
  /\ Goto(s, "failed")
  /\ UNCHANGED <<content, placed, torn, copy>>

\* A failure inside the catch block ends it and does not replace the first one.
CleanupFails(s) ==
  /\ pc[s] \in {"catch", "restore", "discard"}
  /\ pc[s] = "catch" => Exists(Staging(s))
  /\ Goto(s, IF Exists(Backup(s)) /\ pc[s] # "discard" THEN "unrestored" ELSE "failed")
  /\ UNCHANGED <<tree, content, placed, torn, copy>>

Ended == {"unborn", "saved", "failed", "unrestored", "stopped"}

\* The process ends between two calls.
Stop(s) ==
  /\ pc[s] \notin Ended
  /\ Goto(s, "stopped")
  /\ UNCHANGED <<tree, content, placed, torn, copy>>

\* list names a directory that loads in full.
Listed == Exists(Live) /\ Whole(tree[Live])

\* loadDirectory reads the files one after the other, by their paths; a
\* missing one makes it throw, and the next load starts afresh.
ReadFile(i) ==
  /\ DOMAIN copy = {SOURCE_FILES[j] : j \in 1 .. (i - 1)}
  /\ Exists(Live) /\ SOURCE_FILES[i] \in DOMAIN tree[Live]
  /\ copy' = With(copy, SOURCE_FILES[i], tree[Live][SOURCE_FILES[i]])
  /\ UNCHANGED <<tree, pc, content, placed, torn>>

LoadFails ==
  /\ DOMAIN copy # {} /\ ~Whole(copy)
  /\ ~Listed
  /\ copy' = [f \in {} |-> 0]
  /\ UNCHANGED <<tree, pc, content, placed, torn>>

LoadReturns ==
  /\ Whole(copy)
  /\ copy' = [f \in {} |-> 0]
  /\ UNCHANGED <<tree, pc, content, placed, torn>>

\* The template is there when the saves begin.
StoreInit ==
  /\ tree \in [{Live} -> Triple]
  /\ pc = [s \in Save |-> "unborn"]
  /\ content \in {[s \in Save |-> c] : c \in Triple}
  /\ placed = {} /\ torn = {}
  /\ copy = [f \in {} |-> 0]

SaveStep(s) ==
  \/ Throw(s) \/ Stage(s) \/ MoveAside(s) \/ SwapIn(s) \/ Tidy(s)
  \/ Catch(s) \/ Restore(s) \/ Discard(s)
  \/ \E kept \in Leftovers : TidyFails(s, kept)
  \/ CleanupFails(s) \/ Stop(s)

SaveSteps == \E s \in Save : SaveStep(s)
LoadStep == (\E i \in 1 .. 3 : ReadFile(i)) \/ LoadFails
-----------------------------------------------------------------------------
\* Types; only a save whose directory went live can have torn its backup.
StoreTypeOK ==
  /\ DOMAIN tree \subseteq Name
  /\ \A n \in DOMAIN tree : tree[n] \in Partial
  /\ pc \in [Save -> Ended \cup {"stage", "aside", "swap", "tidy", "catch", "restore", "discard"}]
  /\ content \in [Save -> Triple]
  /\ placed \subseteq Save /\ torn \subseteq placed
  /\ copy \in Partial

Backups == {s \in Save : Exists(Backup(s))}

\* A save that has not renamed anything yet.
Early == {"unborn", "stage", "aside"}

\* A save that tore its backup, and failed, has had another beside it: the
\* one that made it find no live template, and put back what was left.
TornPutBack ==
  \E s \in torn, t \in Save : s # t /\ pc[s] = "failed" /\ pc[t] \notin Early

(***************************************************************************)
(* A complete copy of the template is always there, live or in a backup,   *)
(* whichever calls fail and wherever processes stop.  The exception: a     *)
(* save that failed to remove its backup, half-way, then put back what was *)
(* left of it, for another had just moved the live template aside.         *)
(***************************************************************************)
CompleteCopySurvives ==
  \/ \E n \in {Live} \cup {Backup(s) : s \in Backups} : Exists(n) /\ Whole(tree[n])
  \/ TornPutBack

(***************************************************************************)
(* The template is out of the list only while there is no live directory   *)
(* and a save that moved it aside, and has its backup in full, is between  *)
(* its two renames, stopped there or could not put it back; or while the   *)
(* live directory is what was left of a backup (as above): nobody is then  *)
(* at work on it and list passes it over until the next save.  Any other   *)
(* save that fails, alone or beside others, leaves the template listed.    *)
(***************************************************************************)
UnlistedOnlyMidSwap ==
  ~Listed =>
    IF Exists(Live)
    THEN TornPutBack
    ELSE \E s \in Backups \ torn :
           pc[s] \in {"swap", "catch", "restore", "stopped", "unrestored"}

(***************************************************************************)
(* The live directory changes only to a triple as one save was given it,   *)
(* or back to one that was moved aside, in full but for the exception      *)
(* above: never to a mix of old and new, and what a save replaces it had   *)
(* moved to its backup before.                                             *)
(***************************************************************************)
SwapsAreWhole ==
  [][Exists(Live)' /\ (Exists(Live) => tree'[Live] # tree[Live]) =>
       /\ Exists(Live) => DOMAIN tree[Live] = {}
       /\ \E s \in Save :
            \/ pc[s] = "swap" /\ tree'[Live] = content[s]
            \/ /\ pc[s] = "restore" /\ tree'[Live] = tree[Backup(s)]
               /\ Whole(tree'[Live]) \/ TornPutBack']_storeVars
=============================================================================
