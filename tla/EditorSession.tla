--------------------------- MODULE EditorSession ---------------------------
(***************************************************************************)
(* EmailTemplateEditor with its PreviewPane: one mounted editor, whose     *)
(* host may load, echo or replace the template at any time, and whose      *)
(* saves, test sends and preview renders are answered whenever they are.   *)
(* An effect runs with the render that calls for it.                       *)
(***************************************************************************)
EXTENDS TemplateFiles, FiniteSets

CONSTANTS
  Broken,     \* triples that do not compile
  Invalid,    \* triples with an error of validateTemplate
  Edits,      \* what the administrator may do to one part
  MaxEdits,   \* bound: edits
  MaxRenders, \* bound: renders under way at a time
  MaxSends    \* bound: calls of onSendTest

VARIABLES
  workingFiles, seedFiles,
  saveFeedback, sendFeedback,
  previewResult,   \* "null", "ok" or "failed"
  timer,           \* the debounce timer of PreviewPane runs
  renders,         \* renders under way; current: no later request superseded it
  call,            \* of every onSave call: its payload, and whether it is under
                   \* way, of the current generation, and of the very object edited
  sends,           \* onSendTest calls under way
  echoed,          \* the last template was the object being edited
  edits, sent

editorVars == <<workingFiles, seedFiles, saveFeedback, sendFeedback, previewResult,
                timer, renders, call, sends, echoed, edits, sent>>

Feedback == {"idle", "pending", "success", "failure"}
Call == [files : Triple, open : BOOLEAN, current : BOOLEAN, same : BOOLEAN]

ASSUME EditorAssumption ==
  /\ Broken \subseteq Triple /\ Invalid \subseteq Triple
  /\ Edits \subseteq File \X Version
  /\ MaxEdits \in Nat /\ MaxRenders \in Nat /\ MaxSends \in Nat
-----------------------------------------------------------------------------
isWorkingDirty(seed, working) == seed # working

busy == "pending" \in {saveFeedback, sendFeedback}

\* validateTemplate finds an error: of subject, variables or preview data.
HasErrors(files) == files \in Invalid

\* renderTemplatePreview: a result, or the error of the compiler.
renderTemplatePreview(files) == IF files \in Broken THEN "failed" ELSE "ok"

\* The preview is awaited or failed, or validation has an error.
validationBlocked == previewResult # "ok" \/ HasErrors(workingFiles)

\* Mutated form of Superseded: a render goes on whatever happens.
NotSuperseded(R) == R
\* The cleanup of the preview effect: no render under way counts any more.
Superseded(R) == {[r EXCEPT !.current = FALSE] : r \in R}

\* PreviewPane's effect on a new files object.
PreviewEffect ==
  /\ previewResult' = "null"
  /\ timer' = TRUE
  /\ renders' = Superseded(renders)

\* The object that is edited is another from now on.
NewObject(c) == [s \in Save |-> [c[s] EXCEPT !.same = FALSE]]

\* Any of the handlers that replace a part of the working files.
Edit(f, v) ==
  /\ edits < MaxEdits /\ edits' = edits + 1
  /\ workingFiles' = [workingFiles EXCEPT ![f] = v]
  /\ call' = NewObject(call)
  /\ echoed' = FALSE
  /\ PreviewEffect
  /\ UNCHANGED <<seedFiles, saveFeedback, sendFeedback, sends, sent>>

\* Mutated form of NewRender: numbered before the counter is raised.
StaleRender == [files |-> workingFiles, current |-> FALSE]
\* A render of what the effect closed over, with the latest number.
NewRender == [files |-> workingFiles, current |-> TRUE]

TimerFires ==
  /\ timer /\ timer' = FALSE
  /\ Cardinality(renders) < MaxRenders
  /\ renders' = renders \cup {NewRender}
  /\ UNCHANGED <<workingFiles, seedFiles, saveFeedback, sendFeedback, previewResult,
                 call, sends, echoed, edits, sent>>

\* renderTemplatePreview answers; a superseded answer is dropped.
RenderAnswers(r) ==
  /\ r \in renders /\ renders' = renders \ {r}
  /\ previewResult' = IF r.current THEN renderTemplatePreview(r.files) ELSE previewResult
  /\ UNCHANGED <<workingFiles, seedFiles, saveFeedback, sendFeedback, timer,
                 call, sends, echoed, edits, sent>>

\* handleSave up to the call of onSave.
StartSave(s) ==
  /\ ~busy /\ ~validationBlocked
  /\ saveFeedback' = "pending"
  /\ call' = [call EXCEPT ![s] = [files |-> workingFiles, open |-> TRUE,
                                  current |-> TRUE, same |-> TRUE]]
  /\ UNCHANGED <<workingFiles, seedFiles, sendFeedback, previewResult, timer, renders,
                 sends, echoed, edits, sent>>

\* buildSavePayload throws, for a save or a test send: neither is called.
SerializeFails ==
  /\ ~busy /\ ~validationBlocked
  /\ \/ saveFeedback' = "failure" /\ UNCHANGED sendFeedback
     \/ sendFeedback' = "failure" /\ UNCHANGED saveFeedback
  /\ UNCHANGED <<workingFiles, seedFiles, previewResult, timer, renders, call, sends,
                 echoed, edits, sent>>

\* Mutated form of SavedFiles: what is on screen counts as saved.
WhatIsShown(s) == workingFiles
\* What is the seed once s has succeeded: what was sent, not what was edited since.
SavedFiles(s) == call[s].files

\* finishSaveAction: onSave has answered, or rejected (ok is FALSE).
FinishSave(s, ok) ==
  /\ call[s].open
  /\ call' = [call EXCEPT ![s].open = FALSE]
  /\ IF call[s].current
     THEN /\ seedFiles' = IF ok THEN SavedFiles(s) ELSE seedFiles
          /\ saveFeedback' = IF ok THEN "success" ELSE "failure"
     ELSE UNCHANGED <<seedFiles, saveFeedback>>
  /\ UNCHANGED <<workingFiles, sendFeedback, previewResult, timer, renders, sends, echoed,
                 edits, sent>>

\* handleSendTest with a recipient that is one; with another nothing is sent,
\* and SaveSendBar shows why without handing it on.
StartSendTest ==
  /\ ~busy /\ ~validationBlocked
  /\ sent < MaxSends /\ sent' = sent + 1
  /\ sendFeedback' = "pending"
  /\ sends' = sends \cup {[files |-> workingFiles, current |-> TRUE]}
  /\ UNCHANGED <<workingFiles, seedFiles, saveFeedback, previewResult, timer, renders,
                 call, echoed, edits>>

FinishSendTest(c, ok) ==
  /\ c \in sends /\ sends' = sends \ {c}
  /\ sendFeedback' = IF ~c.current THEN sendFeedback
                     ELSE IF ok THEN "success" ELSE "failure"
  /\ UNCHANGED <<workingFiles, seedFiles, saveFeedback, previewResult, timer, renders,
                 call, echoed, edits, sent>>

\* Mutated form of NextGeneration: the feedback of what was under way stays.
FeedbackStays ==
  /\ UNCHANGED <<saveFeedback, sendFeedback>>
  /\ sends' = Superseded(sends)
\* The template effect: what is under way is of an old generation.
NextGeneration ==
  /\ saveFeedback' = "idle" /\ sendFeedback' = "idle"
  /\ sends' = Superseded(sends)

OldGeneration(c) == [s \in Save |-> [c[s] EXCEPT !.current = FALSE]]

\* The host passes a template it has loaded.
TemplateArrives(files) ==
  /\ isWorkingDirty(seedFiles, files)
  /\ NextGeneration
  /\ workingFiles' = files /\ seedFiles' = files
  /\ call' = NewObject(OldGeneration(call))
  /\ echoed' = FALSE
  /\ PreviewEffect
  /\ UNCHANGED <<edits, sent>>

\* The host passes the files that onSave was given.  If they are the object
\* being edited still, the working files do not change and PreviewPane does not
\* start again, although its last result has been dropped.
TemplateEchoed(s) ==
  /\ call[s].open
  /\ isWorkingDirty(seedFiles, call[s].files)
  /\ NextGeneration
  /\ workingFiles' = call[s].files /\ seedFiles' = call[s].files
  /\ IF call[s].same
     THEN /\ previewResult' = "null"
          /\ echoed' = TRUE
          /\ call' = OldGeneration(call)
          /\ UNCHANGED <<timer, renders>>
     ELSE /\ PreviewEffect
          /\ echoed' = FALSE
          /\ call' = OldGeneration([NewObject(call) EXCEPT ![s].same = TRUE])
  /\ UNCHANGED <<edits, sent>>

EditorInit ==
  /\ workingFiles \in Triple /\ seedFiles = workingFiles
  /\ saveFeedback = "idle" /\ sendFeedback = "idle"
  /\ previewResult = "null" /\ timer = TRUE /\ renders = {}
  /\ call = [s \in Save |-> [files |-> workingFiles, open |-> FALSE,
                             current |-> FALSE, same |-> FALSE]]
  /\ sends = {} /\ echoed = FALSE
  /\ edits = 0 /\ sent = 0

EditorStep ==
  \/ \E e \in Edits : Edit(e[1], e[2])
  \/ TimerFires
  \/ \E r \in renders : RenderAnswers(r)
  \/ SerializeFails
  \/ StartSendTest
  \/ \E c \in sends, ok \in BOOLEAN : FinishSendTest(c, ok)
  \/ \E s \in Save : TemplateEchoed(s)
-----------------------------------------------------------------------------
\* Types; every payload is of a triple.
EditorTypeOK ==
  /\ workingFiles \in Triple /\ seedFiles \in Triple
  /\ saveFeedback \in Feedback /\ sendFeedback \in Feedback
  /\ previewResult \in {"null", "ok", "failed"}
  /\ timer \in BOOLEAN /\ echoed \in BOOLEAN
  /\ renders \subseteq [files : Triple, current : BOOLEAN]
  /\ sends \subseteq [files : Triple, current : BOOLEAN]
  /\ call \in [Save -> Call]
  /\ edits \in 0 .. MaxEdits /\ sent \in 0 .. MaxSends

(***************************************************************************)
(* What onSave and onSendTest are given has itself been rendered without   *)
(* an error and has no error of validation: not a version before or after  *)
(* it, however late renders answer and templates arrive.                   *)
(***************************************************************************)
OnlyPreviewedLeaves ==
  \A c \in sends \cup {call[s] : s \in {t \in Save : call[t].open}} :
    c.files \notin Broken \cup Invalid

(***************************************************************************)
(* "Saving..." is shown only while a call that will end it is under way,   *)
(* and so for a test send: a template that arrives in between does not     *)
(* leave the controls disabled for good.                                   *)
(***************************************************************************)
NoOrphanPending ==
  /\ saveFeedback = "pending" => \E s \in Save : call[s].open /\ call[s].current
  /\ sendFeedback = "pending" => \E c \in sends : c.current

(***************************************************************************)
(* The editor says "wait for the preview" only while one is on its way,    *)
(* except where the host has echoed the object being edited.               *)
(***************************************************************************)
WaitHasReason ==
  previewResult = "null" => timer \/ (\E r \in renders : r.current) \/ echoed

(***************************************************************************)
(* What the package says of onSave: the control of a save is enabled again *)
(* "in every outcome".  Where no call is under way any more, Save is held  *)
(* back by a preview only while one is on its way.  Does not hold where    *)
(* the host echoes the object being edited.                                *)
(***************************************************************************)
SaveIsReenabled ==
  previewResult = "null" =>
    timer \/ (\E r \in renders : r.current) \/ (\E s \in Save : call[s].open)
=============================================================================
