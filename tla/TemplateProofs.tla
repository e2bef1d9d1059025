--------------------------- MODULE TemplateProofs ---------------------------
(***************************************************************************)
(* Proofs about the publisher and the readers of templates, for any        *)
(* templates, contents, source trees and number of runs, overlapping or    *)
(* not: what a run may write, what readers miss, what a run that no other  *)
(* was under way with leaves, and what readers are served after it.        *)
(***************************************************************************)
EXTENDS BlobTemplateStore, TLAPS

\* The key a run takes next is one of those left.
LEMMA FirstOf == ASSUME NEW S, S # {} PROVE First(S) \in S
  BY DEF First

\* A step is one of a run, one of a reader, or stuttering; the latter two leave the
\* publisher's state alone.
LEMMA Steps ==
  ASSUME [Next]_vars
  PROVE  (\E r \in Run : RunStep(r)) \/ UNCHANGED publisherVars
<1>1. ASSUME NEW c \in Reader, ReadStep(c) PROVE UNCHANGED publisherVars
  BY <1>1 DEF ReadStep, BeginLoad, Download, BeginList, DownloadRow, ReturnItems, FailRead
<1> QED
  BY <1>1 DEF Next, vars
-----------------------------------------------------------------------------
(***************************************************************************)
(* What holds of every run, whatever other runs do.                        *)
(***************************************************************************)
\* Which memory and which options go with which request.
RunInv(r) ==
  /\ at[r] = "compile" => todo[r] = {} /\ retired[r] = {}
  /\ status[r] = "new" => at[r] = "compile"
  /\ Active(r) =>
       /\ todo[r] \subseteq Compiled(r)
       /\ at[r] \in {"html", "metadata", "manifest"} => todo[r] # {}
       /\ at[r] \in {"inspect", "delete"} => options[r].prune
       /\ at[r] \notin {"compile", "list"} => ~options[r].dryRun
       /\ retired[r] \cap Compiled(r) = {}
       /\ at[r] = "delete" => retired[r] # {}

WellFormed == PublisherTypeOK /\ \A r \in Run : RunInv(r)

\* A step of one run leaves the memory of the others alone.
OthersKept(r) ==
  \A q \in Run \ {r} :
    /\ status'[q] = status[q] /\ options'[q] = options[q] /\ at'[q] = at[q]
    /\ todo'[q] = todo[q] /\ retired'[q] = retired[q]

\* A run that keeps its own memory well formed keeps everybody's.
LEMMA OthersStayWellFormed ==
  ASSUME WellFormed, NEW r \in Run, PublisherTypeOK', RunInv(r)', OthersKept(r)
  PROVE  WellFormed'
<1> SUFFICES ASSUME NEW q \in Run, q # r PROVE RunInv(q)'
  BY DEF WellFormed
<1> QED
  BY DEF WellFormed, OthersKept, RunInv, Active, Compiled

\* Continuing after the uploads keeps a run well formed.
LEMMA AfterUploadsKeeps ==
  ASSUME WellFormed, NEW r \in Run, NEW left, left \subseteq Compiled(r),
         Active(r), ~options[r].dryRun,
         AfterUploads(r, left), UNCHANGED options,
         todo'[r] = left, retired'[r] \cap Compiled(r) = {},
         at[r] = "compile" => retired'[r] = {}
  PROVE  /\ at' \in [Run -> Request] /\ status' \in [Run -> {"new", "running", "done", "failed"}]
         /\ RunInv(r)'
         /\ \A q \in Run \ {r} : status'[q] = status[q] /\ at'[q] = at[q]
  BY DEF WellFormed, PublisherTypeOK, Request, AfterUploads, RunInv, Active, Compiled

\* settled names runs only.
LEMMA SettleKeeps ==
  ASSUME PublisherTypeOK, NEW r \in Run, Settle(r)
  PROVE  settled' \in SUBSET Run
  BY DEF Settle, PublisherTypeOK

\* Every step of a run keeps all runs well formed, and the others' memory.
LEMMA RunStepKeeps ==
  ASSUME WellFormed, NEW r \in Run, RunStep(r)
  PROVE  WellFormed' /\ OthersKept(r)
<1> USE DEF WellFormed
<1> SUFFICES PublisherTypeOK' /\ RunInv(r)' /\ OthersKept(r)
  BY OthersStayWellFormed
<1>1. CASE StartRun(r)
  BY <1>1 DEF StartRun, PublisherTypeOK, RunInv, OthersKept, Active
<1>2. CASE CompileAll(r)
  <2>1. /\ Active(r) /\ at[r] = "compile" /\ retired[r] = {} /\ todo[r] = {}
        /\ UNCHANGED <<store, options, existing, retired, doomed, alone>>
    BY <1>2 DEF CompileAll, RunInv
  <2>2. CASE status' = [status EXCEPT ![r] = "failed"] /\ UNCHANGED <<at, todo, alone, settled>>
    BY <2>1, <2>2 DEF PublisherTypeOK, RunInv, OthersKept, Active
  <2>3. CASE /\ todo' = [todo EXCEPT ![r] = Compiled(r)] /\ Settle(r)
             /\ at' = [at EXCEPT ![r] = "list"] /\ UNCHANGED status
    BY <2>1, <2>3, SettleKeeps DEF PublisherTypeOK, Request, RunInv, OthersKept, Active, Compiled
  <2>4. CASE /\ todo' = [todo EXCEPT ![r] = Compiled(r)] /\ Settle(r)
             /\ ~NeedsListing(r) /\ AfterUploads(r, Compiled(r))
    <3>1. ~options[r].dryRun /\ Compiled(r) \subseteq Template
      BY <2>4 DEF NeedsListing, Compiled
    <3>2. todo' \in [Run -> SUBSET Template] /\ todo'[r] = Compiled(r)
          /\ \A q \in Run \ {r} : todo'[q] = todo[q]
      BY <2>4, <3>1 DEF PublisherTypeOK
    <3> QED
      BY <2>1, <2>4, <3>1, <3>2, AfterUploadsKeeps, SettleKeeps DEF PublisherTypeOK, OthersKept
  <2> QED
    BY <1>2, <2>2, <2>3, <2>4 DEF CompileAll
<1>3. CASE ListStored(r)
  <2>1. /\ Active(r) /\ at[r] = "list" /\ todo[r] \subseteq Compiled(r)
        /\ existing' = [existing EXCEPT ![r] = StoredKeys]
        /\ retired' = [retired EXCEPT ![r] = ToDelete(r)]
        /\ UNCHANGED <<store, options, todo, doomed, alone, settled>>
    BY <1>3 DEF ListStored, RunInv
  <2>2. /\ ToDelete(r) \subseteq Template /\ ToDelete(r) \cap Compiled(r) = {}
        /\ StoredKeys \subseteq Template
    BY DEF ToDelete, StoredKeys
  <2>3. /\ existing' \in [Run -> SUBSET Template] /\ retired' \in [Run -> SUBSET Template]
        /\ retired'[r] = ToDelete(r) /\ \A q \in Run \ {r} : retired'[q] = retired[q]
    BY <2>1, <2>2 DEF PublisherTypeOK
  <2>4. CASE options[r].dryRun
    BY <1>3, <2>1, <2>3, <2>4
       DEF ListStored, AfterListing, PublisherTypeOK, RunInv, OthersKept, Active
  <2>5. CASE ~options[r].dryRun
    BY <1>3, <2>1, <2>2, <2>3, <2>5, AfterUploadsKeeps
       DEF ListStored, AfterListing, PublisherTypeOK, OthersKept
  <2> QED
    BY <2>4, <2>5
<1>4. ASSUME Active(r), todo[r] # {}
      PROVE  /\ Current(r) \in todo[r] /\ Current(r) \in Template
             /\ options[r].tree[Current(r)] \in Stored
  <2>1. options[r].tree \in [Template -> Stored]
    BY PublisherAssumption DEF PublisherTypeOK, Options, NoTemplates, Stored
  <2> QED
    BY <1>4, <2>1, FirstOf DEF Current, PublisherTypeOK
<1>5. CASE UploadHtml(r) \/ UploadMetadata(r)
  <2>1. /\ Active(r) /\ todo[r] # {}
        /\ \E p \in Part : Put(r, p)
        /\ at' \in {[at EXCEPT ![r] = "metadata"], [at EXCEPT ![r] = "manifest"]}
        /\ at[r] # "compile" /\ ~options[r].dryRun
        /\ UNCHANGED <<status, options, todo, existing, retired, doomed, alone, settled>>
    BY <1>5 DEF UploadHtml, UploadMetadata, RunInv, Part
  <2>2. store' \in [Template -> [Part -> Stored]]
    BY <1>4, <2>1 DEF Put, PublisherTypeOK
  <2>3. PublisherTypeOK'
    BY <2>1, <2>2 DEF PublisherTypeOK, Request
  <2>4. RunInv(r)' /\ OthersKept(r)
    BY <2>1 DEF PublisherTypeOK, RunInv, OthersKept, Active, Compiled
  <2> QED
    BY <2>3, <2>4
<1>6. CASE UploadManifest(r)
  <2> DEFINE left == todo[r] \ {Current(r)}
  <2>1. /\ Active(r) /\ at[r] = "manifest" /\ todo[r] # {} /\ todo[r] \subseteq Compiled(r)
        /\ ~options[r].dryRun /\ retired[r] \cap Compiled(r) = {}
        /\ Put(r, "manifest") /\ todo' = [todo EXCEPT ![r] = left]
        /\ AfterUploads(r, left) /\ Settle(r)
        /\ UNCHANGED <<options, existing, retired, doomed, alone>>
    BY <1>6 DEF UploadManifest, RunInv, PublisherTypeOK
  <2>2. store' \in [Template -> [Part -> Stored]]
    BY <1>4, <2>1 DEF Put, PublisherTypeOK, Part
  <2>3. /\ todo' \in [Run -> SUBSET Template] /\ todo'[r] = left /\ left \subseteq Compiled(r)
        /\ \A q \in Run \ {r} : todo'[q] = todo[q]
    BY <2>1 DEF PublisherTypeOK
  <2> HIDE DEF left
  <2>4. /\ at' \in [Run -> Request] /\ status' \in [Run -> {"new", "running", "done", "failed"}]
        /\ RunInv(r)'
        /\ \A q \in Run \ {r} : status'[q] = status[q] /\ at'[q] = at[q]
    BY <2>1, <2>3, AfterUploadsKeeps
  <2> QED
    BY <2>1, <2>2, <2>3, <2>4, SettleKeeps DEF PublisherTypeOK, OthersKept
<1>7. ASSUME Active(r), retired[r] # {}
      PROVE  Retiring(r) \in retired[r] /\ Retiring(r) \in Template
  BY <1>7, FirstOf DEF Retiring, PublisherTypeOK
<1>8. CASE InspectRetired(r)
  <2>1. PartsOf(Retiring(r)) \subseteq Part
    BY DEF PartsOf
  <2>2. PublisherTypeOK'
    BY <1>8, <2>1 DEF InspectRetired, PublisherTypeOK, Request
  <2> QED
    BY <1>8, <2>2
       DEF InspectRetired, PublisherTypeOK, RunInv, OthersKept, Active, Compiled
<1>9. CASE DeleteBlob(r)
  <2>1. /\ Active(r) /\ at[r] = "delete" /\ retired[r] # {} /\ options[r].prune
        /\ store' = [store EXCEPT ![Retiring(r)][NextDoomed(r)] = NoBlob]
        /\ doomed' = [doomed EXCEPT ![r] = doomed[r] \ {NextDoomed(r)}]
        /\ \/ /\ retired' = [retired EXCEPT ![r] = retired[r] \ {Retiring(r)}]
              /\ at' = [at EXCEPT ![r] = "inspect"]
           \/ UNCHANGED <<retired, at>>
        /\ UNCHANGED <<status, options, todo, existing, alone, settled>>
    BY <1>9 DEF DeleteBlob, RunInv, PublisherTypeOK
  <2>2. NextDoomed(r) \in Part
    BY DEF NextDoomed, Part
  <2>3. store' \in [Template -> [Part -> Stored]]
    BY <1>7, <2>1, <2>2 DEF PublisherTypeOK, Stored
  <2>4. PublisherTypeOK'
    BY <2>1, <2>3 DEF PublisherTypeOK, Request
  <2>5. RunInv(r)' /\ OthersKept(r)
    BY <2>1 DEF PublisherTypeOK, RunInv, OthersKept, Active, Compiled
  <2> QED
    BY <2>4, <2>5
<1>10. CASE FinishRun(r)
  BY <1>10, SettleKeeps DEF FinishRun, PublisherTypeOK, RunInv, OthersKept, Active
<1>11. CASE Stop(r)
  BY <1>11 DEF Stop, PublisherTypeOK, Request, RunInv, OthersKept, Active
<1> QED
  BY <1>1, <1>2, <1>3, <1>5, <1>6, <1>8, <1>9, <1>10, <1>11 DEF RunStep

\* The initial states are well formed.
LEMMA InitWellFormed == PublisherInit => WellFormed
<1> USE PublisherAssumption DEF PublisherInit
<1>1. PublisherInit => PublisherTypeOK
  BY DEF PublisherTypeOK, Stored, Options, NoTemplates, Request
<1> QED
  BY <1>1 DEF WellFormed, RunInv, Active

\* Every step keeps all runs well formed.
LEMMA StepKeepsWellFormed ==
  ASSUME WellFormed, [Next]_vars
  PROVE  WellFormed'
<1>1. ASSUME UNCHANGED publisherVars PROVE WellFormed'
  BY <1>1 DEF publisherVars, WellFormed, PublisherTypeOK, RunInv, Active, Compiled
<1> QED
  BY <1>1, RunStepKeeps, Steps
-----------------------------------------------------------------------------
(***************************************************************************)
(* What a run may change in storage.                                       *)
(***************************************************************************)
\* A step of a run writes what it compiled and deletes what it did not, as its options allow.
LEMMA WritesOfRun ==
  ASSUME WellFormed, NEW r \in Run, RunStep(r), NEW t \in Template, NEW p \in Part,
         store'[t][p] # store[t][p]
  PROVE  IF store'[t][p] = NoBlob THEN MayDelete(r, t) ELSE MayWrite(r, t)
<1> USE DEF WellFormed
<1>1. CASE UploadHtml(r) \/ UploadMetadata(r) \/ UploadManifest(r)
  <2>1. /\ Active(r) /\ todo[r] # {} /\ todo[r] \subseteq Compiled(r)
        /\ at[r] # "compile" /\ ~options[r].dryRun
        /\ \E q \in Part : Put(r, q)
    BY <1>1 DEF UploadHtml, UploadMetadata, UploadManifest, RunInv, Part
  <2>2. Current(r) \in Compiled(r)
    BY <2>1, FirstOf DEF Current
  <2>3. t = Current(r) /\ store'[t][p] = options[r].tree[t]
    BY <2>1, <2>2 DEF Put, PublisherTypeOK, Compiled
  <2> QED
    BY <2>1, <2>2, <2>3 DEF MayWrite, Compiled
<1>2. CASE DeleteBlob(r)
  <2>1. /\ Active(r) /\ retired[r] # {} /\ retired[r] \cap Compiled(r) = {}
        /\ options[r].prune /\ ~options[r].dryRun
        /\ store' = [store EXCEPT ![Retiring(r)][NextDoomed(r)] = NoBlob]
    BY <1>2 DEF DeleteBlob, RunInv
  <2>2. Retiring(r) \in retired[r]
    BY <2>1, FirstOf DEF Retiring
  <2>3. t = Retiring(r) /\ store'[t][p] = NoBlob
    BY <2>1, <2>2 DEF PublisherTypeOK
  <2> QED
    BY <2>1, <2>2, <2>3 DEF MayDelete
<1> QED
  BY <1>1, <1>2 DEF RunStep, StartRun, CompileAll, ListStored, InspectRetired, FinishRun, Stop

\* A dry run and a run that fails to compile change no blob, a run without --prune deletes
\* none, and no run deletes what it has compiled (runPublish), with overlapping runs too.
THEOREM PublisherWritesAuthorised == Spec => WritesAreAuthorised
<1> DEFINE Authorised ==
      \A t \in Template, p \in Part : store[t][p]' # store[t][p] =>
        \E r \in Run : IF store[t][p]' = NoBlob THEN MayDelete(r, t) ELSE MayWrite(r, t)
<1>1. Init => WellFormed
  BY InitWellFormed DEF Init
<1>2. WellFormed /\ [Next]_vars => WellFormed'
  BY StepKeepsWellFormed
<1>3. WellFormed /\ [Next]_vars => [Authorised]_vars
  <2>1. ASSUME UNCHANGED publisherVars PROVE Authorised
    BY <2>1 DEF publisherVars
  <2>2. ASSUME WellFormed, NEW r \in Run, RunStep(r) PROVE Authorised
    BY <2>2, WritesOfRun
  <2> QED
    BY <2>1, <2>2, Steps
<1> HIDE DEF Authorised
<1>4. Spec => [][Authorised]_vars
  BY <1>1, <1>2, <1>3, PTL DEF Spec
<1> QED
  BY <1>4 DEF Authorised, WritesAreAuthorised
-----------------------------------------------------------------------------
(***************************************************************************)
(* Publishing leaves no gap for readers.                                   *)
(***************************************************************************)
\* Some run was asked to prune the key.
Pruned(t) == \E r \in Run : /\ status[r] # "new"
                            /\ options[r].prune /\ ~options[r].dryRun
                            /\ t \notin Compiled(r)

\* What a call still hopes to find is there, or was pruned.
CallInv(c) ==
  /\ doing[c] = "idle" => \A p \in Part : got[c][p] = NoBlob
  /\ doing[c] # "done" => result[c] = "none"
  /\ doing[c] = "load" =>
       key[c] \in Template /\ (key[c] \in available[c] => Loadable(key[c]) \/ Pruned(key[c]))
  /\ doing[c] = "list" => \A t \in listed[c] : ~Gone(t) \/ Pruned(t)
  /\ result[c] = "not_found" => key[c] \notin available[c] \/ Pruned(key[c])
  /\ result[c] = "row_not_found" => Pruned(key[c])

GapInv == WellFormed /\ TypeOK /\ \A c \in Reader : CallInv(c)

\* A run that has begun keeps its options and does not become new again.
LEMMA BegunStaysBegun ==
  ASSUME WellFormed, NEW r \in Run, RunStep(r), NEW q \in Run, status[q] # "new"
  PROVE  status'[q] # "new" /\ options'[q] = options[q]
BY DEF WellFormed, PublisherTypeOK, RunStep, StartRun, CompileAll, AfterUploads, ListStored,
   AfterListing, UploadHtml, UploadMetadata, UploadManifest, InspectRetired, DeleteBlob,
   FinishRun, Stop

\* A blob stays, unless its key is pruned; and what is pruned once counts for good.
LEMMA KeptOrPruned ==
  ASSUME WellFormed, NEW r \in Run, RunStep(r), NEW t
  PROVE  /\ Pruned(t) => Pruned(t)'
         /\ t \in Template => \A p \in Part :
              store[t][p] # NoBlob => store'[t][p] # NoBlob \/ Pruned(t)'
<1>1. Pruned(t) => Pruned(t)'
  BY BegunStaysBegun DEF Pruned, Compiled
<1>2. ASSUME t \in Template, NEW p \in Part, store[t][p] # NoBlob, store'[t][p] = NoBlob
      PROVE  Pruned(t)
  <2>1. MayDelete(r, t)
    BY <1>2, WritesOfRun
  <2> QED
    BY <2>1 DEF MayDelete, Pruned, Active
<1> QED
  BY <1>1, <1>2

\* Initially no call has begun.
LEMMA InitGapInv == Init => GapInv
<1> SUFFICES ASSUME Init PROVE GapInv
  OBVIOUS
<1>1. WellFormed
  BY InitWellFormed DEF Init
<1>2. TypeOK
  BY <1>1 DEF Init, TypeOK, WellFormed, Stored, Result
<1>3. \A c \in Reader : CallInv(c)
  BY DEF Init, CallInv
<1> QED
  BY <1>1, <1>2, <1>3 DEF GapInv

\* A step of a run keeps what the calls rely on.
LEMMA RunStepKeepsGap ==
  ASSUME GapInv, NEW r \in Run, RunStep(r), UNCHANGED readerVars
  PROVE  GapInv'
<1> USE DEF GapInv
<1>1. WellFormed'
  BY RunStepKeeps
<1>2. TypeOK'
  BY <1>1 DEF WellFormed, TypeOK, readerVars
<1>3. ASSUME NEW c \in Reader PROVE CallInv(c)'
  <2>1. \A t : Pruned(t) => Pruned(t)'
    BY KeptOrPruned
  <2>2. \A t \in Template : Loadable(t) => Loadable(t)' \/ Pruned(t)'
    BY KeptOrPruned DEF Loadable, Part
  <2>3. \A t \in Template : ~Gone(t) => ~Gone(t)' \/ Pruned(t)'
    BY KeptOrPruned DEF Gone, Part
  <2>4. listed[c] \subseteq Template
    BY DEF TypeOK
  <2> QED
    BY <2>1, <2>2, <2>3, <2>4 DEF CallInv, readerVars
<1> QED
  BY <1>1, <1>2, <1>3

\* What a reader's step leaves alone: the publisher, and the other calls.
OtherCallsKept(c) ==
  /\ UNCHANGED publisherVars
  /\ \A d \in Reader \ {c} :
       /\ doing'[d] = doing[d] /\ key'[d] = key[d] /\ got'[d] = got[d]
       /\ listed'[d] = listed[d] /\ items'[d] = items[d] /\ result'[d] = result[d]
       /\ basis'[d] = basis[d] /\ available'[d] = available[d]

\* A call's step is typed and does not touch other calls.
LEMMA ReadStepFrame ==
  ASSUME GapInv, NEW c \in Reader, ReadStep(c)
  PROVE  TypeOK' /\ OtherCallsKept(c)
<1> USE DEF TypeOK, GapInv
<1>1. CASE \E t \in Template : BeginLoad(c, t)
  <2>1. \E t \in Template : key' = [key EXCEPT ![c] = t]
    BY <1>1 DEF BeginLoad
  <2> QED
    BY <1>1, <2>1 DEF BeginLoad, RecordHistory, PublisherTypeOK, publisherVars, OtherCallsKept
<1>2. CASE \E p \in Part : Download(c, p)
  <2>1. PICK p \in Part : Download(c, p)
    BY <1>2
  <2>2. store[key[c]][p] \in Stored
    BY <2>1 DEF Download, CallInv, PublisherTypeOK
  <2>3. got' \in [Reader -> [Part -> Stored]] /\ \A d \in Reader \ {c} : got'[d] = got[d]
    BY <2>1, <2>2 DEF Download
  <2>4. \/ UNCHANGED <<doing, result>>
        \/ Finish(c, "not_found")
        \/ Finish(c, "loaded")
    BY <2>1 DEF Download
  <2> QED
    BY <2>1, <2>3, <2>4
       DEF Download, Finish, Result, PublisherTypeOK, publisherVars, OtherCallsKept
<1>3. CASE BeginList(c)
  BY <1>3 DEF BeginList, RecordHistory, ListedKeys, PublisherTypeOK, publisherVars, OtherCallsKept
<1>4. CASE DownloadRow(c)
  <2> DEFINE t == First(listed[c])
  <2>1. t \in Template
    BY <1>4, FirstOf DEF DownloadRow
  <2>2. ~Gone(t) => store[t]["metadata"] \in Version
    BY <2>1 DEF Gone, PublisherTypeOK, Stored, Part
  <2>3. CASE Gone(t)
    <3>1. /\ listed' = [listed EXCEPT ![c] = listed[c] \ {t}]
          /\ Finish(c, "row_not_found") /\ key' = [key EXCEPT ![c] = t]
          /\ UNCHANGED <<got, items, basis, available, publisherVars>>
      BY <1>4, <2>3 DEF DownloadRow
    <3> QED
      BY <2>1, <3>1 DEF Finish, Result, PublisherTypeOK, publisherVars, OtherCallsKept
  <2>4. CASE ~Gone(t)
    <3>1. /\ listed' = [listed EXCEPT ![c] = listed[c] \ {t}]
          /\ items' = [items EXCEPT ![c] = items[c] \cup {<<t, store[t]["metadata"]>>}]
          /\ UNCHANGED <<doing, key, got, result, basis, available, publisherVars>>
      BY <1>4, <2>4 DEF DownloadRow
    <3> QED
      BY <2>1, <2>2, <2>4, <3>1 DEF PublisherTypeOK, publisherVars, OtherCallsKept
  <2> QED
    BY <2>3, <2>4
<1>5. CASE ReturnItems(c) \/ FailRead(c)
  BY <1>5 DEF ReturnItems, FailRead, Finish, Result, PublisherTypeOK, publisherVars, OtherCallsKept
<1> QED
  BY <1>1, <1>2, <1>3, <1>4, <1>5 DEF ReadStep

\* Readers leave the publisher's state, and what is said of it, alone.
LEMMA ReadersSeeTheSame ==
  ASSUME UNCHANGED publisherVars
  PROVE  /\ \A t : (Pruned(t)' <=> Pruned(t)) /\ (Loadable(t)' <=> Loadable(t)) /\ (Gone(t)' <=> Gone(t))
         /\ WellFormed => WellFormed'
  BY DEF publisherVars, Pruned, Loadable, Gone, Compiled, WellFormed, PublisherTypeOK, RunInv, Active

\* A reader's step keeps what the calls rely on.
LEMMA ReadStepKeepsGap ==
  ASSUME GapInv, NEW c \in Reader, ReadStep(c)
  PROVE  GapInv'
<1> USE DEF GapInv
<1>1. TypeOK' /\ OtherCallsKept(c)
  BY ReadStepFrame
<1>2. WellFormed' /\ \A t : (Pruned(t)' <=> Pruned(t)) /\ (Loadable(t)' <=> Loadable(t)) /\ (Gone(t)' <=> Gone(t))
  BY <1>1, ReadersSeeTheSame DEF OtherCallsKept
<1>3. ASSUME NEW d \in Reader \ {c} PROVE CallInv(d)'
  <2>1. CallInv(d)
    OBVIOUS
  <2>2. \A t : (Pruned(t)' <=> Pruned(t)) /\ (Loadable(t)' <=> Loadable(t)) /\ (Gone(t)' <=> Gone(t))
    BY <1>2
  <2> QED
    BY <1>1, <2>1, <2>2 DEF CallInv, OtherCallsKept
<1>4. CallInv(c)'
  <2> DEFINE t == First(listed[c])
  <2>1. CASE \E u \in Template : BeginLoad(c, u)
    <3>1. PICK u \in Template : BeginLoad(c, u)
      BY <2>1
    <3>2. /\ doing'[c] = "load" /\ key'[c] = u /\ result'[c] = "none"
          /\ available'[c] = {v \in Template : Loadable(v)}
      BY <3>1 DEF BeginLoad, RecordHistory, CallInv, TypeOK
    <3>3. u \in available'[c] => Loadable(u)
      BY <3>2
    <3> QED
      BY <1>2, <3>2, <3>3 DEF CallInv
  <2>2. CASE \E p \in Part : Download(c, p)
    <3>1. PICK p \in Part : Download(c, p)
      BY <2>2
    <3>2. /\ doing[c] = "load" /\ p \in {"html", "metadata"} /\ key[c] \in Template
          /\ result[c] = "none"
          /\ key[c] \in available[c] => Loadable(key[c]) \/ Pruned(key[c])
          /\ UNCHANGED <<key, available>>
      BY <3>1 DEF Download, CallInv
    <3>3. \/ doing'[c] = "load" /\ result'[c] = "none"
          \/ doing'[c] = "done" /\ result'[c] = "loaded"
          \/ doing'[c] = "done" /\ result'[c] = "not_found" /\ store[key[c]][p] = NoBlob
      BY <3>1, <3>2 DEF Download, Finish, TypeOK
    <3>4. store[key[c]][p] = NoBlob => ~Loadable(key[c])
      BY <3>2 DEF Loadable
    <3> QED
      BY <1>2, <3>2, <3>3, <3>4 DEF CallInv
  <2>3. CASE BeginList(c)
    <3>1. doing'[c] = "list" /\ result'[c] = "none" /\ listed'[c] = ListedKeys
      BY <2>3 DEF BeginList, CallInv, TypeOK
    <3>2. \A u \in ListedKeys : ~Gone(u)
      BY DEF ListedKeys, Gone
    <3> QED
      BY <1>2, <3>1, <3>2 DEF CallInv
  <2>4. CASE DownloadRow(c)
    <3>1. /\ doing[c] = "list" /\ result[c] = "none" /\ t \in listed[c]
          /\ \A u \in listed[c] : ~Gone(u) \/ Pruned(u)
      BY <2>4, FirstOf DEF DownloadRow, CallInv
    <3>2. listed'[c] \subseteq listed[c]
      BY <2>4 DEF DownloadRow, TypeOK
    <3>3. CASE Gone(t)
      <4>1. doing'[c] = "done" /\ result'[c] = "row_not_found" /\ key'[c] = t
        BY <2>4, <3>3 DEF DownloadRow, Finish, TypeOK
      <4> QED
        BY <1>2, <3>1, <3>3, <4>1 DEF CallInv
    <3>4. CASE ~Gone(t)
      <4>1. doing'[c] = "list" /\ result'[c] = "none"
        BY <2>4, <3>1, <3>4 DEF DownloadRow
      <4> QED
        BY <1>2, <3>1, <3>2, <4>1 DEF CallInv
    <3> QED
      BY <3>3, <3>4
  <2>5. CASE ReturnItems(c) \/ FailRead(c)
    <3>1. doing'[c] = "done" /\ result'[c] \in {"listed", "failed"}
      BY <2>5 DEF ReturnItems, FailRead, Finish, TypeOK
    <3> QED
      BY <3>1 DEF CallInv
  <2> QED
    BY <2>1, <2>2, <2>3, <2>4, <2>5 DEF ReadStep
<1> QED
  BY <1>1, <1>2, <1>3, <1>4

\* The invariant of publisher and readers, for overlapping runs too.
THEOREM GapInvariance == Spec => []GapInv
<1>1. Init => GapInv
  BY InitGapInv
<1>2. GapInv /\ [Next]_vars => GapInv'
  <2> SUFFICES ASSUME GapInv, [Next]_vars PROVE GapInv'
    OBVIOUS
  <2>1. ASSUME NEW r \in Run, RunStep(r), UNCHANGED readerVars PROVE GapInv'
    BY <2>1, RunStepKeepsGap
  <2>2. ASSUME NEW c \in Reader, ReadStep(c) PROVE GapInv'
    BY <2>2, ReadStepKeepsGap
  <2>3. CASE UNCHANGED vars
    <3>1. UNCHANGED publisherVars /\ UNCHANGED readerVars
      BY <2>3 DEF vars
    <3>2. WellFormed' /\ \A t : (Pruned(t)' <=> Pruned(t)) /\ (Loadable(t)' <=> Loadable(t)) /\ (Gone(t)' <=> Gone(t))
      BY <3>1, ReadersSeeTheSame DEF GapInv
    <3>3. TypeOK'
      BY <3>1, <3>2 DEF GapInv, WellFormed, TypeOK, readerVars
    <3>4. \A c \in Reader : CallInv(c)'
      BY <3>1, <3>2 DEF GapInv, CallInv, readerVars
    <3> QED
      BY <3>2, <3>3, <3>4 DEF GapInv
  <2> QED
    BY <2>1, <2>2, <2>3 DEF Next
<1> QED
  BY <1>1, <1>2, PTL DEF Spec

\* The variables of publisher and readers stay in their types.
THEOREM TemplatesTypeCorrect == Spec => []TypeOK
<1>1. GapInv => TypeOK
  BY DEF GapInv
<1> QED
  BY <1>1, GapInvariance, PTL

\* A template that was whole when a call began is reported missing only where a run that
\* prunes and lacks it has started (uploads overwrite in place), with overlapping runs too.
THEOREM NoGapWithoutPrune == Spec => []MissOnlyByPrune
<1>1. GapInv => MissOnlyByPrune
  BY DEF GapInv, CallInv, MissOnlyByPrune, Pruned
<1> QED
  BY <1>1, GapInvariance, PTL
-----------------------------------------------------------------------------
(***************************************************************************)
(* What a run leaves that no other was under way with.                     *)
(***************************************************************************)
\* A run that publishes: it has compiled and is no dry run.
Publishing(r) == Active(r) /\ at[r] # "compile" /\ ~options[r].dryRun

\* A run counted as alone is the only one under way.
AloneInv == \A r \in alone, q \in Run : Active(r) /\ Active(q) => q = r

\* What has been uploaded is in the store, what has been pruned is not.
InPlace(r) ==
  /\ at[r] = "list" => todo[r] = Compiled(r)
  /\ at[r] \in {"inspect", "delete"} => todo[r] = {}
  /\ at[r] = "delete" => doomed[r] # {} /\ doomed[r] = PartsOf(Retiring(r))
  /\ \A t \in Compiled(r) \ todo[r], p \in Part : store[t][p] = options[r].tree[t]
  /\ at[r] \in {"metadata", "manifest"} =>
       store[Current(r)]["html"] = options[r].tree[Current(r)]
  /\ at[r] = "manifest" =>
       store[Current(r)]["metadata"] = options[r].tree[Current(r)]
  /\ options[r].prune /\ at[r] # "list" =>
       \A t \in Template \ Compiled(r) : t \in retired[r] \/ PartsOf(t) = {}

\* No run is settled while one publishes, and one that is alone has everything in place.
ProgressInv == \A r \in Run : Publishing(r) => settled = {} /\ (r \in alone => InPlace(r))

\* What the tree of a run asks of the store.
Settles(r) ==
  /\ \A t \in Compiled(r), p \in Part : store[t][p] = options[r].tree[t]
  /\ options[r].prune => \A t \in Template \ Compiled(r) : PartsOf(t) = {}

SettledInv == \A r \in settled : status[r] = "done" /\ Settles(r)

IInv == WellFormed /\ AloneInv /\ ProgressInv /\ SettledInv

\* The initial states satisfy the invariant: no run has begun.
LEMMA InitIInv == PublisherInit => IInv
  BY InitWellFormed DEF PublisherInit, IInv, AloneInv, ProgressInv, Publishing, SettledInv, Active

\* A run that does not publish changes no blob.
LEMMA OnlyPublishingWrites ==
  ASSUME WellFormed, NEW r \in Run, RunStep(r), ~Publishing(r)
  PROVE  store' = store
BY DEF WellFormed, RunInv, Publishing, RunStep, StartRun, CompileAll, ListStored, UploadHtml,
   UploadMetadata, UploadManifest, InspectRetired, DeleteBlob, FinishRun, Stop

\* A step of a run under way keeps the invariant, if the run itself has everything in place
\* after it, and has settled the store when it is the one that is settled now.
LEMMA Advance ==
  ASSUME IInv, NEW r \in Run, RunStep(r), Active(r),
         Publishing(r)' => settled' = {},
         r \in alone /\ Publishing(r)' => InPlace(r)',
         \/ settled' = settled
         \/ settled' = {}
         \/ settled' = {r} /\ r \in alone /\ status'[r] = "done" /\ Settles(r)'
  PROVE  IInv'
<1> USE DEF IInv
<1>1. WellFormed' /\ OthersKept(r)
  BY RunStepKeeps
<1>2. alone' = alone
  BY DEF Active, RunStep, StartRun, CompileAll, ListStored, UploadHtml, UploadMetadata,
     UploadManifest, InspectRetired, DeleteBlob, FinishRun, Stop
<1>3. \A q \in Run \ {r} : /\ (Active(q)' <=> Active(q)) /\ (Publishing(q)' <=> Publishing(q))
                           /\ q \in alone => ~Active(q)
  BY <1>1 DEF OthersKept, Active, Publishing, AloneInv
<1>4. alone \subseteq Run /\ settled \subseteq Run
  BY DEF WellFormed, PublisherTypeOK
<1>5. AloneInv'
  BY <1>2, <1>3, <1>4 DEF AloneInv
<1>6. ProgressInv'
  <2> SUFFICES ASSUME NEW q \in Run \ {r}, Publishing(q) PROVE settled' = {} /\ q \notin alone
    BY <1>2, <1>3 DEF ProgressInv
  <2>1. settled = {} /\ Active(q)
    BY DEF ProgressInv, Publishing
  <2> QED
    BY <1>3, <2>1 DEF AloneInv
<1>7. SettledInv'
  <2>1. CASE settled' = settled
    <3> SUFFICES ASSUME NEW q \in settled PROVE status'[q] = "done" /\ Settles(q)'
      BY <2>1 DEF SettledInv
    <3>1. store' = store
      BY OnlyPublishingWrites DEF ProgressInv
    <3>2. q \in Run \ {r}
      BY <1>4 DEF SettledInv, Active
    <3>3. status'[q] = status[q] /\ options'[q] = options[q]
      BY <1>1, <3>2 DEF OthersKept
    <3> QED
      BY <3>1, <3>3 DEF SettledInv, Settles, Compiled, PartsOf
  <2> QED
    BY <2>1 DEF SettledInv
<1> QED
  BY <1>1, <1>5, <1>6, <1>7

\* A run that begins keeps the invariant: where another is under way, none is alone.
LEMMA StartKeeps ==
  ASSUME IInv, NEW r \in Run, StartRun(r)
  PROVE  IInv'
<1> USE DEF IInv
<1>1. WellFormed' /\ OthersKept(r)
  BY RunStepKeeps DEF RunStep
<1>2. /\ status[r] = "new" /\ at[r] = "compile" /\ at' = at
      /\ alone' = IF \E q \in Run : Active(q) THEN {} ELSE {r}
      /\ UNCHANGED <<store, settled>>
  BY DEF StartRun, WellFormed, RunInv
<1>3. AloneInv'
  BY <1>1, <1>2 DEF AloneInv, OthersKept, Active
<1>4. ProgressInv'
  <2> SUFFICES ASSUME NEW q \in Run, Publishing(q)' PROVE settled = {} /\ q \notin alone'
    BY <1>2 DEF ProgressInv
  <2>1. q # r /\ Publishing(q)
    BY <1>1, <1>2 DEF Publishing, OthersKept, Active
  <2> QED
    BY <1>2, <2>1 DEF ProgressInv, Publishing
<1>5. SettledInv'
  <2> SUFFICES ASSUME NEW q \in settled PROVE status'[q] = "done" /\ Settles(q)'
    BY <1>2 DEF SettledInv
  <2>1. q \in Run \ {r}
    BY <1>2 DEF SettledInv, WellFormed, PublisherTypeOK
  <2>2. status'[q] = status[q] /\ options'[q] = options[q]
    BY <1>1, <2>1 DEF OthersKept
  <2> QED
    BY <1>2, <2>2 DEF SettledInv, Settles, Compiled, PartsOf
<1> QED
  BY <1>1, <1>3, <1>4, <1>5

\* Compiling keeps the invariant; from here on nothing older is settled.
LEMMA CompileKeeps ==
  ASSUME IInv, NEW r \in Run, CompileAll(r)
  PROVE  IInv'
<1> USE DEF IInv, WellFormed
<1>1. /\ RunStep(r) /\ Active(r) /\ at[r] = "compile" /\ todo[r] = {} /\ retired[r] = {}
      /\ UNCHANGED <<store, options, existing, retired, doomed, alone>>
  BY DEF RunStep, CompileAll, RunInv
<1>2. CASE status' = [status EXCEPT ![r] = "failed"] /\ UNCHANGED <<at, todo, settled>>
  <2>1. ~Publishing(r)'
    BY <1>2 DEF PublisherTypeOK, Publishing, Active
  <2> QED
    BY <1>1, <1>2, <2>1, Advance
<1>3. CASE /\ todo' = [todo EXCEPT ![r] = Compiled(r)]
           /\ NeedsListing(r) /\ at' = [at EXCEPT ![r] = "list"] /\ UNCHANGED status
           /\ Settle(r)
  <2>1. settled' = IF options[r].dryRun THEN settled ELSE {}
    BY <1>1, <1>3 DEF Settle, Active
  <2>2. at'[r] = "list" /\ todo'[r] = Compiled(r)' /\ (Publishing(r)' => ~options[r].dryRun)
    BY <1>1, <1>3 DEF PublisherTypeOK, Compiled, Publishing
  <2>3. InPlace(r)'
    BY <2>2 DEF InPlace
  <2> QED
    BY <1>1, <2>1, <2>2, <2>3, Advance
<1>4. CASE /\ todo' = [todo EXCEPT ![r] = Compiled(r)]
           /\ ~NeedsListing(r) /\ AfterUploads(r, Compiled(r))
           /\ Settle(r)
  <2>1. ~options[r].dryRun /\ ~options[r].prune /\ todo'[r] = Compiled(r)'
    BY <1>4, <1>1 DEF NeedsListing, PublisherTypeOK, Options, Compiled
  <2>2. CASE Compiled(r) # {}
    <3>1. at' = [at EXCEPT ![r] = "html"] /\ UNCHANGED status /\ settled' = {}
      BY <1>1, <1>4, <2>1, <2>2 DEF AfterUploads, Settle, Active
    <3>2. InPlace(r)'
      BY <1>1, <2>1, <3>1 DEF PublisherTypeOK, InPlace
    <3> QED
      BY <1>1, <3>1, <3>2, Advance
  <2>3. CASE Compiled(r) = {}
    <3>1. /\ status'[r] = "done" /\ ~Publishing(r)'
          /\ settled' = IF r \in alone THEN {r} ELSE {}
      BY <1>4, <2>1, <2>3 DEF AfterUploads, Settle, Publishing, Active, PublisherTypeOK
    <3>2. Settles(r)'
      BY <1>1, <2>1, <2>3 DEF Settles, Compiled
    <3> QED
      BY <1>1, <3>1, <3>2, Advance
  <2> QED
    BY <2>2, <2>3
<1> QED
  BY <1>2, <1>3, <1>4 DEF CompileAll

\* The listing keeps the invariant: every key with a blob is retired, or compiled.
LEMMA ListKeeps ==
  ASSUME IInv, NEW r \in Run, ListStored(r)
  PROVE  IInv'
<1> USE DEF IInv, WellFormed
<1>1. /\ RunStep(r) /\ Active(r) /\ at[r] = "list"
      /\ retired' = [retired EXCEPT ![r] = ToDelete(r)]
      /\ UNCHANGED <<store, options, todo, doomed, alone, settled>>
  BY DEF RunStep, ListStored
<1>2. options[r].prune => \A t \in Template \ Compiled(r) : t \in ToDelete(r) \/ PartsOf(t) = {}
  BY DEF ToDelete, StoredKeys
<1>3. CASE options[r].dryRun
  <2>1. ~Publishing(r)'
    BY <1>1, <1>3 DEF Publishing
  <2> QED
    BY <1>1, <2>1, Advance
<1>4. CASE ~options[r].dryRun
  <2>1. Publishing(r) /\ AfterUploads(r, todo[r])
    BY <1>1, <1>4 DEF Publishing, ListStored, AfterListing
  <2>2. settled' = {}
    BY <1>1, <2>1 DEF ProgressInv
  <2>3. ASSUME r \in alone, Publishing(r)' PROVE InPlace(r)'
    <3>1. todo[r] = Compiled(r)
      BY <1>1, <2>1, <2>3 DEF ProgressInv, InPlace
    <3>2. \/ at'[r] = "html"
          \/ at'[r] = "inspect" /\ todo[r] = {} /\ options[r].prune
      BY <2>1, <2>3 DEF AfterUploads, Publishing, Active, PublisherTypeOK
    <3>3. /\ todo'[r] = Compiled(r)' /\ retired'[r] = ToDelete(r)
          /\ Compiled(r)' = Compiled(r) /\ \A t : PartsOf(t)' = PartsOf(t)
      BY <1>1, <3>1 DEF PublisherTypeOK, Compiled, PartsOf
    <3> QED
      BY <1>1, <1>2, <3>1, <3>2, <3>3 DEF InPlace
  <2> QED
    BY <1>1, <2>2, <2>3, Advance
<1> QED
  BY <1>3, <1>4

\* What a run that uploads is about to write.
LEMMA Uploading ==
  ASSUME IInv, NEW r \in Run, Active(r), at[r] \in {"html", "metadata", "manifest"}
  PROVE  /\ Current(r) \in todo[r] /\ Current(r) \in Compiled(r) /\ Current(r) \in Template
         /\ Publishing(r) /\ settled = {}
         /\ options[r].tree[Current(r)] \in Stored
         /\ r \in alone => InPlace(r)
<1>1. todo[r] # {} /\ todo[r] \subseteq Compiled(r) /\ Publishing(r)
  BY DEF IInv, WellFormed, RunInv, Publishing
<1>2. Current(r) \in todo[r]
  BY <1>1, FirstOf DEF Current
<1>3. options[r].tree \in [Template -> Stored]
  BY PublisherAssumption DEF IInv, WellFormed, PublisherTypeOK, Options, NoTemplates, Stored
<1> QED
  BY <1>1, <1>2, <1>3 DEF Compiled, IInv, ProgressInv

\* The upload of the html or the metadata of a template keeps the invariant.
LEMMA UploadKeeps ==
  ASSUME IInv, NEW r \in Run, UploadHtml(r) \/ UploadMetadata(r)
  PROVE  IInv'
<1> USE DEF IInv, WellFormed
<1> DEFINE t == Current(r)
           v == options[r].tree[t]
<1>1. /\ RunStep(r) /\ Active(r) /\ at[r] \in {"html", "metadata"}
      /\ UNCHANGED <<status, options, todo, existing, retired, doomed, alone, settled>>
  BY DEF RunStep, UploadHtml, UploadMetadata
<1>2. /\ t \in todo[r] /\ t \in Compiled(r) /\ t \in Template /\ settled = {}
      /\ r \in alone => InPlace(r)
  BY <1>1, Uploading
<1>3. PICK p \in Part : /\ store' = [store EXCEPT ![t][p] = v]
                        /\ \/ at[r] = "html" /\ p = "html" /\ at'[r] = "metadata"
                           \/ at[r] = "metadata" /\ p = "metadata" /\ at'[r] = "manifest"
  BY DEF UploadHtml, UploadMetadata, Put, Part, PublisherTypeOK
<1>4. \A u \in Template, q \in Part : store'[u][q] = IF u = t /\ q = p THEN v ELSE store[u][q]
  BY <1>2, <1>3 DEF PublisherTypeOK
<1>5. ASSUME r \in alone PROVE InPlace(r)'
  <2>1. \A u \in Compiled(r) \ todo[r], q \in Part : store'[u][q] = options[r].tree[u]
    BY <1>2, <1>4, <1>5 DEF InPlace, Compiled
  <2>2. store'[t]["html"] = v /\ (at'[r] = "manifest" => store'[t]["metadata"] = v)
    BY <1>2, <1>3, <1>4, <1>5 DEF InPlace, Part
  <2>3. \A u \in Template \ Compiled(r) : PartsOf(u)' = PartsOf(u)
    BY <1>2, <1>4 DEF PartsOf
  <2>4. Compiled(r)' = Compiled(r) /\ Current(r)' = t
    BY <1>1 DEF Compiled, Current
  <2>5. options[r].prune => \A u \in Template \ Compiled(r) : u \in retired[r] \/ PartsOf(u) = {}
    BY <1>1, <1>2, <1>5 DEF InPlace
  <2> QED
    BY <1>1, <1>3, <2>1, <2>2, <2>3, <2>4, <2>5 DEF InPlace
<1> QED
  BY <1>1, <1>2, <1>5, Advance

\* The upload of the manifest completes a template, and the run when it was the last.
LEMMA ManifestKeeps ==
  ASSUME IInv, NEW r \in Run, UploadManifest(r)
  PROVE  IInv'
<1> USE DEF IInv, WellFormed
<1> DEFINE t == Current(r)
           v == options[r].tree[t]
           left == todo[r] \ {t}
<1>1. /\ RunStep(r) /\ Active(r) /\ at[r] = "manifest"
      /\ store' = [store EXCEPT ![t]["manifest"] = v]
      /\ todo'[r] = left
      /\ AfterUploads(r, left) /\ Settle(r)
      /\ UNCHANGED <<options, existing, retired, doomed, alone>>
  BY DEF RunStep, UploadManifest, Put, PublisherTypeOK
<1>2. /\ t \in todo[r] /\ t \in Compiled(r) /\ t \in Template /\ ~options[r].dryRun
      /\ r \in alone => InPlace(r)
  BY <1>1, Uploading DEF Publishing
<1>3. \A u \in Template, q \in Part :
        store'[u][q] = IF u = t /\ q = "manifest" THEN v ELSE store[u][q]
  BY <1>1, <1>2 DEF PublisherTypeOK, Part
<1>4. ASSUME r \in alone
      PROVE  /\ \A u \in Compiled(r) \ left, q \in Part : store'[u][q] = options[r].tree[u]
             /\ options[r].prune =>
                  \A u \in Template \ Compiled(r) : u \in retired[r] \/ PartsOf(u)' = {}
  <2>1. InPlace(r)
    BY <1>2, <1>4
  <2>2. \A u \in Template \ Compiled(r) : PartsOf(u)' = PartsOf(u)
    BY <1>2, <1>3 DEF PartsOf
  <2> QED
    BY <1>1, <1>2, <1>3, <2>1, <2>2 DEF InPlace, Part, Compiled
<1>5. Compiled(r)' = Compiled(r)
  BY <1>1 DEF Compiled
<1> HIDE DEF t, v, left
<1>6. CASE left # {}
  <2>1. at'[r] = "html" /\ settled' = {}
    BY <1>1, <1>2, <1>6 DEF AfterUploads, Settle, Active, PublisherTypeOK
  <2> QED
    BY <1>1, <1>4, <1>5, <2>1, Advance DEF InPlace
<1>7. CASE left = {} /\ options[r].prune
  <2>1. at'[r] = "inspect" /\ settled' = {}
    BY <1>1, <1>2, <1>7 DEF AfterUploads, Settle, Active, PublisherTypeOK
  <2> QED
    BY <1>1, <1>4, <1>5, <1>7, <2>1, Advance DEF InPlace
<1>8. CASE left = {} /\ ~options[r].prune
  <2>1. /\ status'[r] = "done" /\ ~Publishing(r)'
        /\ settled' = IF r \in alone THEN {r} ELSE {}
    BY <1>1, <1>2, <1>8 DEF AfterUploads, Settle, PublisherTypeOK, Publishing, Active
  <2>2. r \in alone => Settles(r)'
    BY <1>1, <1>4, <1>5, <1>8 DEF Settles
  <2> QED
    BY <1>1, <2>1, <2>2, Advance
<1> QED
  BY <1>6, <1>7, <1>8

\* What a run that prunes is about.
LEMMA Pruning ==
  ASSUME IInv, NEW r \in Run, Active(r), at[r] \in {"inspect", "delete"}
  PROVE  /\ Publishing(r) /\ settled = {} /\ options[r].prune /\ ~options[r].dryRun
         /\ r \in alone =>
              /\ InPlace(r) /\ todo[r] = {}
              /\ \A u \in Compiled(r), p \in Part : store[u][p] = options[r].tree[u]
              /\ \A u \in Template \ Compiled(r) : u \in retired[r] \/ PartsOf(u) = {}
         /\ retired[r] # {} =>
              Retiring(r) \in retired[r] /\ Retiring(r) \in Template \ Compiled(r)
<1>1. Publishing(r) /\ options[r].prune /\ ~options[r].dryRun
  BY DEF IInv, WellFormed, RunInv, Publishing
<1>2. retired[r] # {} => Retiring(r) \in retired[r] /\ Retiring(r) \in Template \ Compiled(r)
  BY FirstOf DEF Retiring, IInv, WellFormed, RunInv, PublisherTypeOK
<1> QED
  BY <1>1, <1>2 DEF IInv, ProgressInv, InPlace

\* The listing of the blobs of a retired key keeps the invariant.
LEMMA InspectKeeps ==
  ASSUME IInv, NEW r \in Run, InspectRetired(r)
  PROVE  IInv'
<1> USE DEF IInv, WellFormed
<1> DEFINE t == Retiring(r)
<1>1. /\ RunStep(r) /\ Active(r) /\ at[r] = "inspect" /\ retired[r] # {}
      /\ doomed'[r] = PartsOf(t)
      /\ UNCHANGED <<store, status, options, todo, existing, alone, settled>>
  BY DEF RunStep, InspectRetired, PublisherTypeOK
<1>2. settled' = {}
  BY <1>1, Pruning
<1>3. Compiled(r)' = Compiled(r) /\ \A u : PartsOf(u)' = PartsOf(u)
  BY <1>1 DEF Compiled, PartsOf
<1>4. ASSUME r \in alone PROVE InPlace(r)'
  <2>1. /\ todo[r] = {}
        /\ \A u \in Compiled(r), p \in Part : store[u][p] = options[r].tree[u]
        /\ \A u \in Template \ Compiled(r) : u \in retired[r] \/ PartsOf(u) = {}
    BY <1>1, <1>4, Pruning
  <2>2. CASE PartsOf(t) = {}
    <3>1. retired'[r] = retired[r] \ {t} /\ at'[r] = "inspect"
      BY <1>1, <2>2 DEF InspectRetired, PublisherTypeOK
    <3> QED
      BY <1>1, <1>3, <2>1, <2>2, <3>1 DEF InPlace
  <2>3. CASE PartsOf(t) # {}
    <3>1. at'[r] = "delete" /\ retired' = retired /\ Retiring(r)' = t
      BY <2>3 DEF InspectRetired, PublisherTypeOK, Retiring
    <3> QED
      BY <1>1, <1>3, <2>1, <2>3, <3>1 DEF InPlace
  <2> QED
    BY <2>2, <2>3
<1> QED
  BY <1>1, <1>2, <1>4, Advance

\* The deletion of a blob of a retired key keeps the invariant.
LEMMA DeleteKeeps ==
  ASSUME IInv, NEW r \in Run, DeleteBlob(r)
  PROVE  IInv'
<1> USE DEF IInv, WellFormed
<1> DEFINE t == Retiring(r)
           d == NextDoomed(r)
<1>1. /\ RunStep(r) /\ Active(r) /\ at[r] = "delete"
      /\ store' = [store EXCEPT ![t][d] = NoBlob]
      /\ doomed'[r] = doomed[r] \ {d}
      /\ UNCHANGED <<status, options, todo, existing, alone, settled>>
  BY DEF RunStep, DeleteBlob, PublisherTypeOK
<1>2. settled' = {} /\ t \in retired[r] /\ t \in Template \ Compiled(r)
  BY <1>1, Pruning DEF RunInv
<1>3. ASSUME r \in alone PROVE InPlace(r)'
  <2>1. /\ todo[r] = {} /\ doomed[r] # {} /\ doomed[r] = PartsOf(t)
        /\ \A u \in Compiled(r), p \in Part : store[u][p] = options[r].tree[u]
        /\ \A u \in Template \ Compiled(r) : u \in retired[r] \/ PartsOf(u) = {}
    BY <1>1, <1>3, Pruning DEF InPlace
  <2>2. d \in doomed[r] /\ d \in Part
    BY <2>1 DEF NextDoomed, PartsOf, Part
  <2>3. \A u \in Template, q \in Part :
          store'[u][q] = IF u = t /\ q = d THEN NoBlob ELSE store[u][q]
    BY <1>1, <1>2, <2>2 DEF PublisherTypeOK
  <2>4. \A u \in Template : PartsOf(u)' = IF u = t THEN doomed[r] \ {d} ELSE PartsOf(u)
    <3>1. \A u \in Template : PartsOf(u)' = {p \in Part : store'[u][p] # NoBlob}
      BY DEF PartsOf
    <3>2. \A u \in Template : u # t =>
             {p \in Part : store'[u][p] # NoBlob} = {p \in Part : store[u][p] # NoBlob}
      BY <2>3
    <3>3. {p \in Part : store'[t][p] # NoBlob} = {p \in Part : store[t][p] # NoBlob} \ {d}
      BY <1>2, <2>3
    <3> QED
      BY <1>2, <2>1, <3>1, <3>2, <3>3 DEF PartsOf
  <2>5. \A u \in Compiled(r), p \in Part : store'[u][p] = options[r].tree[u]
    BY <1>2, <2>1, <2>3 DEF Compiled
  <2>6. Compiled(r)' = Compiled(r)
    BY <1>1 DEF Compiled
  <2>7. CASE doomed[r] = {d}
    <3>1. retired'[r] = retired[r] \ {t} /\ at'[r] = "inspect"
      BY <2>7 DEF DeleteBlob, PublisherTypeOK
    <3> QED
      BY <1>1, <1>2, <2>1, <2>4, <2>5, <2>6, <2>7, <3>1 DEF InPlace
  <2>8. CASE doomed[r] # {d}
    <3>1. retired' = retired /\ at'[r] = "delete" /\ Retiring(r)' = t
      BY <1>1, <2>8 DEF DeleteBlob, Retiring
    <3>2. doomed[r] \ {d} # {} /\ PartsOf(Retiring(r))' = doomed[r] \ {d}
      <4>1. PartsOf(Retiring(r))' = {p \in Part : store'[t][p] # NoBlob}
        BY <3>1 DEF PartsOf
      <4>2. {p \in Part : store'[t][p] # NoBlob} = doomed[r] \ {d}
        BY <1>2, <2>4 DEF PartsOf
      <4> QED
        BY <2>2, <2>8, <4>1, <4>2
    <3> QED
      BY <1>1, <1>2, <2>1, <2>4, <2>5, <2>6, <3>1, <3>2 DEF InPlace
  <2> QED
    BY <2>7, <2>8
<1> QED
  BY <1>1, <1>2, <1>3, Advance

\* The end of a run keeps the invariant: with success and alone everything is in place, and
\* with a failure nothing is promised.
LEMMA EndKeeps ==
  ASSUME IInv, NEW r \in Run, FinishRun(r) \/ Stop(r)
  PROVE  IInv'
<1> USE DEF IInv, WellFormed
<1>1. RunStep(r) /\ Active(r) /\ UNCHANGED <<store, options>>
  BY DEF RunStep, FinishRun, Stop
<1>2. CASE FinishRun(r)
  <2>1. /\ at[r] = "inspect" /\ retired[r] = {}
        /\ status' = [status EXCEPT ![r] = "done"] /\ Settle(r)
    BY <1>2 DEF FinishRun
  <2>2. ~Publishing(r)' /\ status'[r] = "done" /\ settled' = IF r \in alone THEN {r} ELSE {}
    BY <1>1, <2>1, Pruning DEF Settle, PublisherTypeOK, Publishing, Active
  <2>3. r \in alone => Settles(r)'
    BY <1>1, <2>1, Pruning DEF Settles, Compiled, PartsOf
  <2> QED
    BY <1>1, <2>2, <2>3, Advance
<1>3. CASE Stop(r)
  <2>1. ~Publishing(r)' /\ settled' = settled
    BY <1>3 DEF Stop, PublisherTypeOK, Publishing, Active
  <2> QED
    BY <1>1, <2>1, Advance
<1> QED
  BY <1>2, <1>3

\* Every step keeps the invariant; readers change nothing it speaks of.
LEMMA StepKeepsIInv ==
  ASSUME IInv, [Next]_vars
  PROVE  IInv'
<1>1. ASSUME NEW r \in Run, RunStep(r) PROVE IInv'
  BY <1>1, StartKeeps, CompileKeeps, ListKeeps, UploadKeeps, ManifestKeeps, InspectKeeps,
     DeleteKeeps, EndKeeps DEF RunStep
<1>2. ASSUME UNCHANGED publisherVars PROVE IInv'
  <2>1. WellFormed'
    BY <1>2, ReadersSeeTheSame DEF IInv
  <2> QED
    BY <1>2, <2>1 DEF publisherVars, IInv, AloneInv, ProgressInv, Publishing, InPlace,
       SettledInv, Settles, Active, Compiled, Current, Retiring, PartsOf
<1> QED
  BY <1>1, <1>2, Steps

\* The inductive invariant holds in every behaviour.
THEOREM PublisherInvariance == Spec => []IInv
<1>1. Init => IInv
  BY InitIInv DEF Init
<1>2. IInv /\ [Next]_vars => IInv'
  BY StepKeepsIInv
<1> QED
  BY <1>1, <1>2, PTL DEF Spec

\* A run that ends with success, and that no other was under way with, leaves every template
\* of its tree whole, and with --prune nothing else, whatever the runs before it left
\* (runPublish).
THEOREM SuccessSettles == Spec => []SuccessfulRunSettles
<1>1. IInv => SuccessfulRunSettles
  BY DEF IInv, SettledInv, Settles, SuccessfulRunSettles
<1> QED
  BY <1>1, PublisherInvariance, PTL
-----------------------------------------------------------------------------
(***************************************************************************)
(* What readers are served after a run that no other was under way with.   *)
(***************************************************************************)
\* While the run a call began after is still the last to have changed anything, what the
\* call has collected is that run's, and nothing of it has been missed.
CallServes(c) ==
  \A r \in basis[c] :
    /\ status[r] = "done"
    /\ r \in settled /\ doing[c] = "load" /\ key[c] \in Compiled(r) =>
         \A p \in {"html", "metadata"} : got[c][p] \in {NoBlob, options[r].tree[key[c]]}
    /\ r \in settled /\ doing[c] = "list" =>
         \A t \in Compiled(r) : t \in listed[c] \/ <<t, options[r].tree[t]>> \in items[c]

ServeInv == IInv /\ GapInv /\ \A c \in Reader : CallServes(c)

\* A run that is done stays done with its options, and does not become settled again.
LEMMA DoneStaysDone ==
  ASSUME WellFormed, NEW r \in Run, RunStep(r), NEW q \in Run, status[q] = "done"
  PROVE  status'[q] = "done" /\ options'[q] = options[q] /\ (q \in settled' => q \in settled)
BY DEF WellFormed, PublisherTypeOK, RunStep, StartRun, CompileAll, AfterUploads, ListStored,
   AfterListing, UploadHtml, UploadMetadata, UploadManifest, InspectRetired, DeleteBlob,
   FinishRun, Stop, Settle, Active

\* A step of a run keeps what calls were served.
LEMMA RunStepKeepsServed ==
  ASSUME ServeInv, NEW r \in Run, RunStep(r), UNCHANGED readerVars
  PROVE  \A c \in Reader : CallServes(c)'
<1> SUFFICES ASSUME NEW c \in Reader, NEW q \in basis[c] PROVE
      /\ status'[q] = "done"
      /\ q \in settled' /\ doing[c] = "load" /\ key[c] \in Compiled(q)' =>
           \A p \in {"html", "metadata"} : got[c][p] \in {NoBlob, options'[q].tree[key[c]]}
      /\ q \in settled' /\ doing[c] = "list" =>
           \A t \in Compiled(q)' : t \in listed[c] \/ <<t, options'[q].tree[t]>> \in items[c]
  BY DEF CallServes, readerVars
<1>1. q \in Run /\ status[q] = "done"
  BY DEF ServeInv, GapInv, TypeOK, CallServes
<1>2. status'[q] = "done" /\ options'[q] = options[q] /\ (q \in settled' => q \in settled)
  BY <1>1, DoneStaysDone DEF ServeInv, GapInv
<1>3. Compiled(q)' = Compiled(q)
  BY <1>2 DEF Compiled
<1> QED
  BY <1>2, <1>3 DEF ServeInv, CallServes

\* What the store holds for a call that begins or goes on while a run is settled.
LEMMA SettledStore ==
  ASSUME ServeInv, NEW r \in settled
  PROVE  \A t \in Template :
           /\ t \in Compiled(r) => /\ ~Gone(t)
                                  /\ \A p \in {"html", "metadata"} :
                                       /\ store[t][p] = options[r].tree[t]
                                       /\ store[t][p] # NoBlob
           /\ Compiled(r) \subseteq Template
  BY DEF ServeInv, IInv, SettledInv, Settles, Compiled, Gone, Part

\* A call's own step serves what the run published, and goes on collecting it.
LEMMA CallStepServes ==
  ASSUME ServeInv, NEW c \in Reader, ReadStep(c)
  PROVE  /\ CallServes(c)'
         /\ result'[c] # result[c] => \A r \in basis[c] \cap settled : ServesPublished(c, r)
<1> USE DEF ServeInv, GapInv
<1> DEFINE Collects(r) ==
      /\ doing'[c] = "load" /\ key'[c] \in Compiled(r) =>
           \A p \in {"html", "metadata"} : got'[c][p] \in {NoBlob, options[r].tree[key'[c]]}
      /\ doing'[c] = "list" =>
           \A t \in Compiled(r) : t \in listed'[c] \/ <<t, options[r].tree[t]>> \in items'[c]
<1>1. OtherCallsKept(c) /\ UNCHANGED publisherVars
  BY ReadStepFrame DEF OtherCallsKept
<1>2. CASE (\E u \in Template : BeginLoad(c, u)) \/ BeginList(c)
  <2>1. basis'[c] = settled /\ result' = result
    BY <1>2 DEF BeginLoad, BeginList, RecordHistory, TypeOK
  <2>2. ASSUME NEW r \in settled PROVE Collects(r)
    <3>1. CASE \E u \in Template : BeginLoad(c, u)
      <4>1. doing'[c] = "load" /\ \A p \in Part : got'[c][p] = NoBlob
        BY <3>1 DEF BeginLoad, CallInv, TypeOK
      <4> QED
        BY <4>1 DEF Part
    <3>2. CASE BeginList(c)
      <4>1. doing'[c] = "list" /\ listed'[c] = ListedKeys
        BY <3>2 DEF BeginList, TypeOK
      <4>2. Compiled(r) \subseteq ListedKeys
        BY SettledStore DEF ListedKeys, Compiled
      <4> QED
        BY <4>1, <4>2
    <3> QED
      BY <1>2, <3>1, <3>2
  <2>3. \A r \in settled : status[r] = "done"
    BY DEF IInv, SettledInv
  <2> QED
    BY <1>1, <2>1, <2>2, <2>3 DEF CallServes, publisherVars, Compiled
<1>3. CASE \/ \E p \in Part : Download(c, p)
           \/ DownloadRow(c) \/ ReturnItems(c) \/ FailRead(c)
  <2>1. basis'[c] = basis[c]
    BY <1>3 DEF Download, DownloadRow, ReturnItems, FailRead
  <2>2. ASSUME NEW r \in basis[c] \cap settled
        PROVE  Collects(r) /\ (result'[c] # result[c] => ServesPublished(c, r))
    <3> DEFINE v == options[r].tree
    <3>1. /\ doing[c] = "load" /\ key[c] \in Compiled(r) =>
               \A p \in {"html", "metadata"} : got[c][p] \in {NoBlob, v[key[c]]}
          /\ doing[c] = "list" =>
               \A t \in Compiled(r) : t \in listed[c] \/ <<t, v[t]>> \in items[c]
      BY <2>2 DEF CallServes
    <3>2. CASE \E p \in Part : Download(c, p)
      <4>1. PICK p \in Part : Download(c, p)
        BY <3>2
      <4>2. /\ doing[c] = "load" /\ p \in {"html", "metadata"} /\ key[c] \in Template
            /\ key' = key
        BY <4>1 DEF Download, CallInv
      <4>3. /\ got'[c][p] = store[key[c]][p]
            /\ \A q \in {"html", "metadata"} \ {p} : got'[c][q] = got[c][q]
        BY <4>1, <4>2 DEF Download, TypeOK, Part
      <4>4. key[c] \in Compiled(r) =>
              \A q \in {"html", "metadata"} : got'[c][q] \in {NoBlob, v[key[c]]}
        BY <2>2, <3>1, <4>2, <4>3, SettledStore
      <4>5. \/ doing'[c] = "load" /\ result'[c] = result[c]
            \/ doing'[c] = "done" /\ result'[c] = "not_found" /\ store[key[c]][p] = NoBlob
            \/ /\ doing'[c] = "done" /\ result'[c] = "loaded"
               /\ store[key[c]][p] # NoBlob /\ OtherArrived(c, p)
        BY <4>1, <4>2 DEF Download, Finish, TypeOK
      <4>6. store[key[c]][p] # NoBlob /\ OtherArrived(c, p) =>
              \A q \in {"html", "metadata"} : got'[c][q] # NoBlob
        BY <4>2, <4>3 DEF OtherArrived
      <4>7. store[key[c]][p] = NoBlob => key[c] \notin Compiled(r)
        BY <2>2, <4>2, SettledStore
      <4> QED
        BY <4>2, <4>4, <4>5, <4>6, <4>7 DEF ServesPublished
    <3>3. CASE DownloadRow(c)
      <4> DEFINE t == First(listed[c])
      <4>1. doing[c] = "list" /\ t \in listed[c] /\ t \in Template
        BY <3>3, FirstOf DEF DownloadRow, TypeOK
      <4>2. listed'[c] = listed[c] \ {t}
        BY <3>3 DEF DownloadRow, TypeOK
      <4>3. CASE Gone(t)
        <5>1. doing'[c] = "done" /\ result'[c] = "row_not_found" /\ key'[c] = t
          BY <3>3, <4>3 DEF DownloadRow, Finish, TypeOK
        <5>2. t \notin Compiled(r)
          BY <2>2, <4>1, <4>3, SettledStore
        <5> QED
          BY <5>1, <5>2 DEF ServesPublished
      <4>4. CASE ~Gone(t)
        <5>1. /\ doing'[c] = "list" /\ result'[c] = result[c]
              /\ items'[c] = items[c] \cup {<<t, store[t]["metadata"]>>}
          BY <3>3, <4>1, <4>4 DEF DownloadRow, TypeOK
        <5>2. t \in Compiled(r) => store[t]["metadata"] = v[t]
          BY <2>2, <4>1, SettledStore
        <5> QED
          BY <3>1, <4>1, <4>2, <5>1, <5>2
      <4> QED
        BY <4>3, <4>4
    <3>4. CASE ReturnItems(c)
      <4>1. /\ doing[c] = "list" /\ listed[c] = {} /\ items' = items
            /\ doing'[c] = "done" /\ result'[c] = "listed"
        BY <3>4 DEF ReturnItems, Finish, TypeOK
      <4> QED
        BY <3>1, <4>1 DEF ServesPublished
    <3>5. CASE FailRead(c)
      BY <3>5 DEF FailRead, Finish, TypeOK, ServesPublished
    <3> QED
      BY <1>3, <3>2, <3>3, <3>4, <3>5
  <2>3. \A r \in basis[c] : status[r] = "done"
    BY DEF CallServes
  <2> QED
    BY <1>1, <2>1, <2>2, <2>3 DEF CallServes, publisherVars, Compiled
<1> QED
  BY <1>2, <1>3 DEF ReadStep

\* The invariant behind what readers are served.
LEMMA StepKeepsServed ==
  ASSUME ServeInv, [Next]_vars
  PROVE  /\ ServeInv'
         /\ \A c \in Reader : result[c]' # result[c] =>
              \A r \in basis[c] \cap settled : ServesPublished(c, r)
<1> USE DEF ServeInv
<1>1. IInv'
  BY StepKeepsIInv
<1>2. CASE \E r \in Run : RunStep(r) /\ UNCHANGED readerVars
  <2>1. GapInv' /\ \A c \in Reader : CallServes(c)'
    BY <1>2, RunStepKeepsGap, RunStepKeepsServed
  <2> QED
    BY <1>1, <1>2, <2>1 DEF readerVars
<1>3. CASE \E c \in Reader : ReadStep(c)
  <2>1. PICK c \in Reader : ReadStep(c)
    BY <1>3
  <2>2. GapInv' /\ OtherCallsKept(c)
    BY <2>1, ReadStepKeepsGap, ReadStepFrame
  <2>3. ASSUME NEW d \in Reader \ {c} PROVE CallServes(d)' /\ result'[d] = result[d]
    BY <2>2 DEF OtherCallsKept, publisherVars, CallServes, Compiled
  <2> QED
    BY <1>1, <2>1, <2>2, <2>3, CallStepServes
<1>4. CASE UNCHANGED vars
  <2>1. UNCHANGED publisherVars /\ UNCHANGED readerVars
    BY <1>4 DEF vars
  <2>2. GapInv'
    BY <2>1, ReadersSeeTheSame DEF GapInv, WellFormed, TypeOK, readerVars, CallInv
  <2>3. \A c \in Reader : CallServes(c)'
    BY <2>1 DEF publisherVars, readerVars, CallServes, Compiled
  <2> QED
    BY <1>1, <2>1, <2>2, <2>3 DEF readerVars
<1> QED
  BY <1>2, <1>3, <1>4 DEF Next

\* A load or list that begins after a successful run, and ends before the next has compiled,
\* serves exactly what that run published (BlobTemplateStore over runPublish).
THEOREM PublishedIsServed == Spec => ReadsServePublished
<1> DEFINE Served ==
      \A c \in Reader : result[c]' # result[c] =>
        \A r \in basis[c] \cap settled : ServesPublished(c, r)
<1>1. Init => ServeInv
  <2>1. Init => \A c \in Reader : CallServes(c)
    BY DEF Init, CallServes
  <2> QED
    BY <2>1, InitIInv, InitGapInv DEF Init, ServeInv
<1>2. ServeInv /\ [Next]_vars => ServeInv'
  BY StepKeepsServed
<1>3. ServeInv /\ [Next]_vars => [Served]_vars
  BY StepKeepsServed
<1> HIDE DEF Served
<1>4. Spec => [][Served]_vars
  BY <1>1, <1>2, <1>3, PTL DEF Spec
<1> QED
  BY <1>4 DEF Served, ReadsServePublished
=============================================================================
