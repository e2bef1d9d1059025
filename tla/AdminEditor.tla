---------------------------- MODULE AdminEditor ----------------------------
(***************************************************************************)
(* The editor wired to the file system store by toFsOnSave, beside another *)
(* administrator who saves the same template, and a host that loads it.    *)
(***************************************************************************)
EXTENDS EditorSession, FsTemplateStore

CONSTANTS
  Others,    \* saves that are not of this editor
  Given,     \* triples the live directory may hold at first
  Theirs,    \* triples the other saves are given
  MaxLoads   \* bound: loads that reach the editor

VARIABLES
  loads

adminVars == <<editorVars, storeVars, loads>>

ASSUME AdminAssumption ==
  Others \subseteq Save /\ Given \cup Theirs \subseteq Triple /\ MaxLoads \in Nat

\* onSave runs the save of the store with the payload of the call.
SaveClicked(s) ==
  /\ StartSave(s) /\ Begin(s, workingFiles) /\ UNCHANGED loads

OtherSaves(s, c) ==
  /\ Begin(s, c) /\ UNCHANGED <<editorVars, loads>>

\* The result of the save, or the rejection when the process is gone.
SaveAnswered(s) ==
  /\ pc[s] \in Ended \ {"unborn"}
  /\ FinishSave(s, pc[s] = "saved")
  /\ UNCHANGED <<storeVars, loads>>

\* What a load returns reaches the editor as its template, which ignores it if
\* it is what the editor has for saved already.
Loaded ==
  /\ LoadReturns
  /\ loads < MaxLoads /\ loads' = loads + 1
  /\ IF isWorkingDirty(seedFiles, copy) THEN TemplateArrives(copy) ELSE UNCHANGED editorVars

\* The host loads the template, then mounts the editor.
AdminInit ==
  /\ EditorInit /\ StoreInit
  /\ seedFiles \in Given
  /\ tree = [n \in {Live} |-> seedFiles]
  /\ content = [s \in Save |-> seedFiles]
  /\ loads = 0

AdminNext ==
  \/ EditorStep /\ UNCHANGED <<storeVars, loads>>
  \/ SaveSteps /\ UNCHANGED <<editorVars, loads>>
  \/ LoadStep /\ loads < MaxLoads /\ UNCHANGED <<editorVars, loads>>
  \/ \E s \in Save \ Others : SaveClicked(s) \/ SaveAnswered(s)
  \/ \E s \in Others, c \in Theirs : OtherSaves(s, c)
  \/ Loaded

AdminSpec == AdminInit /\ [][AdminNext]_adminVars
-----------------------------------------------------------------------------
(***************************************************************************)
(* "Saved." is shown only when the triple now taken for saved, no edit     *)
(* made since included, was put in place as the live template.             *)
(***************************************************************************)
SuccessIsStored ==
  saveFeedback = "success" =>
    \E s \in placed \ Others : ~call[s].open /\ pc[s] = "saved" /\ content[s] = seedFiles
=============================================================================
