------------------------- MODULE AdminEditorProofs -------------------------
(***************************************************************************)
(* Theorems about the store of the admin editor and the editor wired to    *)
(* it, for any versions, saves, edits, renders and loads.                  *)
(***************************************************************************)
EXTENDS AdminEditor, TLAPS

\* What a save that has staged its files has in its staging directory.
StagedWhole == \A s \in Save :
  pc[s] \in {"aside", "swap"} => Exists(Staging(s)) /\ tree[Staging(s)] = content[s]

\* A save has a backup or has swapped only from a point on.
Progress == \A s \in Save :
  /\ pc[s] \in {"unborn", "stage", "aside"} => s \notin placed /\ ~Exists(Backup(s))
  /\ pc[s] \in {"tidy", "saved"} => s \in placed
  /\ pc[s] = "swap" => s \notin placed

Alone(s) == \A t \in Save : s # t => pc[t] \in Early

\* A save that has swapped, with no other that renamed anything, left a live template.
AloneIsLive == \A s \in placed :
  Alone(s) => Exists(Live) /\ pc[s] # "restore"

\* But for the exception, what is live or in a backup that is not torn is whole.
CopiesAreWhole == TornPutBack \/
  /\ Exists(Live) => Whole(tree[Live])
  /\ \A s \in Save \ torn : Exists(Backup(s)) => Whole(tree[Backup(s)])

\* While there is no live directory, the save that took it away has it in its backup.
AbsentOnlyMidSwap ==
  ~Exists(Live) =>
    \E s \in Backups \ torn :
      pc[s] \in {"swap", "catch", "restore", "stopped", "unrestored"}

StoreInvariant ==
  /\ StoreTypeOK
  /\ StagedWhole
  /\ Progress
  /\ AloneIsLive
  /\ CopiesAreWhole
  /\ AbsentOnlyMidSwap
-----------------------------------------------------------------------------
\* No two of the directories share a name.
LEMMA NamesDiffer ==
  /\ \A s \in Save : Live # Staging(s) /\ Live # Backup(s)
  /\ \A s, t \in Save : Staging(s) # Backup(t)
  /\ \A s, t \in Save : s # t => Staging(s) # Staging(t) /\ Backup(s) # Backup(t)
  /\ Live \in Name /\ \A s \in Save : Staging(s) \in Name /\ Backup(s) \in Name
BY DEF Live, Staging, Backup, Name

\* What adding or replacing one entry does.
LEMMA WithFacts ==
  ASSUME NEW f, NEW n, NEW d
  PROVE  /\ DOMAIN With(f, n, d) = DOMAIN f \cup {n}
         /\ With(f, n, d)[n] = d
         /\ \A m \in DOMAIN f : m # n => With(f, n, d)[m] = f[m]
BY DEF With

\* What removing one entry does.
LEMMA WithoutFacts ==
  ASSUME NEW f, NEW n
  PROVE  /\ DOMAIN Without(f, n) = DOMAIN f \ {n}
         /\ \A m \in DOMAIN f : m # n => Without(f, n)[m] = f[m]
BY DEF Without

\* A rename moves one directory and leaves the others alone.
LEMMA RenameFacts ==
  ASSUME NEW a, NEW b, a # b, Exists(a), Rename(a, b)
  PROVE  /\ DOMAIN tree' = (DOMAIN tree \ {a}) \cup {b}
         /\ tree'[b] = tree[a]
         /\ \A m \in DOMAIN tree : m # a /\ m # b => tree'[m] = tree[m]
<1>1. tree' = With(Without(tree, a), b, tree[a])  BY DEF Rename
<1>2. /\ DOMAIN Without(tree, a) = DOMAIN tree \ {a}
      /\ \A m \in DOMAIN tree : m # a => Without(tree, a)[m] = tree[m]
  BY WithoutFacts
<1> DEFINE f == Without(tree, a)
           d == tree[a]
<1> HIDE DEF f, d
<1>3. /\ DOMAIN With(f, b, d) = DOMAIN f \cup {b}
      /\ With(f, b, d)[b] = d
      /\ \A m \in DOMAIN f : m # b => With(f, b, d)[m] = f[m]
  BY DEF With
<1> QED  BY <1>1, <1>2, <1>3 DEF f, d

\* A partial template, as a function on some of the files.
LEMMA PartialFacts ==
  ASSUME NEW f
  PROVE  f \in Partial <=> DOMAIN f \subseteq File /\ f \in [DOMAIN f -> Version]
<1>1. ASSUME f \in Partial PROVE DOMAIN f \subseteq File /\ f \in [DOMAIN f -> Version]
  <2>1. PICK F \in SUBSET File : f \in [F -> Version]  BY <1>1, Zenon DEF Partial
  <2> QED  BY <2>1
<1>2. ASSUME DOMAIN f \subseteq File, f \in [DOMAIN f -> Version] PROVE f \in Partial
  BY <1>2, Zenon DEF Partial
<1> QED  BY <1>1, <1>2

\* A whole template is a partial one with nothing missing.
LEMMA TriplesArePartial ==
  ASSUME NEW c \in Triple PROVE c \in Partial /\ Whole(c)
BY PartialFacts DEF Triple, Whole

\* So is a directory without files.
LEMMA EmptyIsPartial == [f \in {} |-> 0] \in Partial /\ DOMAIN [f \in {} |-> 0] = {}
<1> DEFINE e == [f \in {} |-> 0]
<1>1. DOMAIN e = {} /\ e \in [{} -> Version]  OBVIOUS
<1> HIDE DEF e
<1>2. e \in Partial  BY <1>1, PartialFacts
<1> QED  BY <1>1, <1>2 DEF e
-----------------------------------------------------------------------------
\* The directories a save may touch, and the steps of one save.
Mine(s) == {Live, Staging(s), Backup(s)}
AnyStep(s) == SaveStep(s) \/ \E c \in Triple : Begin(s, c)

\* What a step of s may do to the tree.
LEMMA TreeEffects ==
  ASSUME StoreTypeOK, StagedWhole, NEW s \in Save, AnyStep(s)
  PROVE  /\ DOMAIN tree' \subseteq Name
         /\ \A n \in DOMAIN tree' : tree'[n] \in Partial
         /\ \A n \in Name \ Mine(s) :
              /\ (n \in DOMAIN tree') = (n \in DOMAIN tree)
              /\ n \in DOMAIN tree => tree'[n] = tree[n]
<1> USE NamesDiffer DEF StoreTypeOK, Mine
<1>1. ASSUME NEW d \in Partial, NEW n \in Mine(s), tree' = With(tree, n, d)
      PROVE  /\ DOMAIN tree' \subseteq Name
             /\ \A m \in DOMAIN tree' : tree'[m] \in Partial
             /\ \A m \in Name \ Mine(s) :
                  /\ (m \in DOMAIN tree') = (m \in DOMAIN tree)
                  /\ m \in DOMAIN tree => tree'[m] = tree[m]
  BY <1>1 DEF With
<1>2. ASSUME NEW n \in Mine(s), tree' = Without(tree, n)
      PROVE  /\ DOMAIN tree' \subseteq Name
             /\ \A m \in DOMAIN tree' : tree'[m] \in Partial
             /\ \A m \in Name \ Mine(s) :
                  /\ (m \in DOMAIN tree') = (m \in DOMAIN tree)
                  /\ m \in DOMAIN tree => tree'[m] = tree[m]
  BY <1>2 DEF Without
<1>3. ASSUME NEW a \in Mine(s), NEW b \in Mine(s), a # b, Exists(a), Rename(a, b)
      PROVE  /\ DOMAIN tree' \subseteq Name
             /\ \A m \in DOMAIN tree' : tree'[m] \in Partial
             /\ \A m \in Name \ Mine(s) :
                  /\ (m \in DOMAIN tree') = (m \in DOMAIN tree)
                  /\ m \in DOMAIN tree => tree'[m] = tree[m]
  <2>1. /\ DOMAIN tree' = (DOMAIN tree \ {a}) \cup {b}
        /\ tree'[b] = tree[a]
        /\ \A m \in DOMAIN tree : m # a /\ m # b => tree'[m] = tree[m]
    BY <1>3, RenameFacts
  <2> QED  BY <1>3, <2>1 DEF Exists
<1>4. CASE Throw(s)
  BY <1>1, <1>4, EmptyIsPartial DEF Throw
<1>5. CASE Stage(s)
  <2>1. Staged(s) \in Partial
    BY TriplesArePartial DEF Staged, Triple
  <2> QED  BY <1>1, <1>5, <2>1 DEF Stage
<1>6. CASE MoveAside(s)
  BY <1>3, <1>6 DEF MoveAside, CanRename
<1>7. CASE SwapIn(s)
  BY <1>3, <1>7 DEF SwapIn, CanRename
<1>8. CASE Tidy(s) \/ Discard(s)
  BY <1>2, <1>8 DEF Tidy, Discard
<1>9. ASSUME NEW kept \in Leftovers, TidyFails(s, kept)
      PROVE  /\ DOMAIN tree' \subseteq Name
             /\ \A m \in DOMAIN tree' : tree'[m] \in Partial
             /\ \A m \in Name \ Mine(s) :
                  /\ (m \in DOMAIN tree') = (m \in DOMAIN tree)
                  /\ m \in DOMAIN tree => tree'[m] = tree[m]
  <2> DEFINE n == Backup(s)
             d == [f \in kept |-> tree[n][f]]
  <2>1. tree[n] \in Partial /\ kept \subseteq DOMAIN tree[n] /\ n \in DOMAIN tree
        /\ tree' = [tree EXCEPT ![n] = d]
    BY <1>9 DEF TidyFails, Exists
  <2>2. DOMAIN d \subseteq File /\ d \in [DOMAIN d -> Version]
    BY <2>1, PartialFacts
  <2> HIDE DEF d
  <2>3. d \in Partial  BY <2>2, PartialFacts
  <2> QED  BY <2>1, <2>3
<1>10. CASE Catch(s)
  BY <1>2, <1>10 DEF Catch
<1>11. CASE Restore(s)
  BY <1>3, <1>11 DEF Restore, CanRename
<1>12. CASE CleanupFails(s) \/ Stop(s) \/ \E c \in Triple : Begin(s, c)
  BY <1>12 DEF CleanupFails, Stop, Begin
<1> QED  BY <1>4, <1>5, <1>6, <1>7, <1>8, <1>9, <1>10, <1>11, <1>12 DEF AnyStep, SaveStep

\* What any step of a save does to the variables that are not directories.
LEMMA PcEffects ==
  ASSUME StoreTypeOK, NEW s \in Save, AnyStep(s)
  PROVE  /\ pc' \in [Save -> Ended \cup {"stage", "aside", "swap", "tidy", "catch", "restore", "discard"}]
         /\ content' \in [Save -> Triple]
         /\ placed' \subseteq placed \cup {s} /\ placed \subseteq placed'
         /\ torn' \subseteq torn \cup {s} /\ torn \subseteq torn'
         /\ copy' = copy
         /\ \A t \in Save \ {s} : pc'[t] = pc[t] /\ content'[t] = content[t]
         /\ pc[s] # "unborn" => content'[s] = content[s]
         /\ pc'[s] # "unborn" /\ pc[s] \notin Ended \ {"unborn"}
<1> USE DEF StoreTypeOK, Ended, Goto
<1>1. CASE Throw(s)  BY <1>1 DEF Throw
<1>2. CASE Stage(s)  BY <1>2 DEF Stage
<1>3. CASE MoveAside(s)  BY <1>3 DEF MoveAside
<1>4. CASE SwapIn(s)  BY <1>4 DEF SwapIn
<1>5. CASE Tidy(s)  BY <1>5 DEF Tidy
<1>6. ASSUME NEW kept \in Leftovers, TidyFails(s, kept)
      PROVE  /\ pc' = [pc EXCEPT ![s] = "catch"] /\ pc[s] = "tidy"
             /\ UNCHANGED <<content, placed, copy>>
             /\ torn' \subseteq torn \cup {s} /\ torn \subseteq torn'
  BY <1>6 DEF TidyFails
<1>7. CASE Catch(s)  BY <1>7 DEF Catch, AfterCatch
<1>8. CASE Restore(s)  BY <1>8 DEF Restore
<1>9. CASE Discard(s)  BY <1>9 DEF Discard
<1>10. CASE CleanupFails(s)  BY <1>10 DEF CleanupFails
<1>11. CASE Stop(s)  BY <1>11 DEF Stop
<1>12. ASSUME NEW c \in Triple, Begin(s, c)
       PROVE  /\ pc[s] = "unborn"
              /\ pc' = [pc EXCEPT ![s] = "failed"] \/ pc' = [pc EXCEPT ![s] = "stage"]
              /\ content' = [content EXCEPT ![s] = c]
              /\ UNCHANGED <<tree, placed, torn, copy>>
  <2>1. CASE c \in Refused  BY <1>12, <2>1 DEF Begin
  <2>2. CASE c \notin Refused  BY <1>12, <2>2 DEF Begin
  <2> QED  BY <2>1, <2>2
<1> QED  BY <1>1, <1>2, <1>3, <1>4, <1>5, <1>6, <1>7, <1>8, <1>9, <1>10, <1>11, <1>12
         DEF AnyStep, SaveStep
-----------------------------------------------------------------------------
\* A step of s that does not rename the live directory.
Quiet(s) ==
  /\ Exists(Live)' = Exists(Live) /\ (Exists(Live) => tree'[Live] = tree[Live])
  /\ Exists(Backup(s))' =>
       Exists(Backup(s)) /\ (s \in torn' \/ tree'[Backup(s)] = tree[Backup(s)])
  /\ pc'[s] \in {"aside", "swap"} =>
       /\ pc[s] = "stage"
       /\ Exists(Staging(s))' /\ tree'[Staging(s)] = content[s]
  /\ pc'[s] = "stage" => pc[s] = "unborn"
  /\ pc'[s] \in {"tidy", "unborn"} => FALSE
  /\ pc'[s] = "saved" => pc[s] = "tidy"
  /\ pc'[s] = "restore" => pc[s] = "catch" /\ ~Exists(Live)
  /\ pc[s] \in {"swap", "catch", "restore"} /\ Exists(Backup(s)) /\ ~Exists(Live) =>
       Exists(Backup(s))' /\ pc'[s] \in {"catch", "restore", "stopped", "unrestored"}
  /\ placed' = placed
  /\ s \in torn' => s \in torn \/ pc[s] = "tidy"

\* The first rename: the live directory is now the backup of the save.
LEMMA MoveAsideEffects ==
  ASSUME StoreTypeOK, NEW s \in Save, MoveAside(s)
  PROVE  /\ Exists(Live) /\ ~Exists(Live)'
         /\ Exists(Backup(s))' /\ tree'[Backup(s)] = tree[Live]
         /\ Exists(Staging(s)) => Exists(Staging(s))' /\ tree'[Staging(s)] = tree[Staging(s)]
         /\ pc[s] = "aside" /\ pc'[s] = "swap"
         /\ placed' = placed /\ torn' = torn /\ content' = content
<1>1. Exists(Live) /\ Rename(Live, Backup(s))  BY DEF MoveAside, CanRename
<1>2. /\ DOMAIN tree' = (DOMAIN tree \ {Live}) \cup {Backup(s)}
      /\ tree'[Backup(s)] = tree[Live]
      /\ \A m \in DOMAIN tree : m # Live /\ m # Backup(s) => tree'[m] = tree[m]
  BY <1>1, RenameFacts, NamesDiffer
<1> QED  BY <1>1, <1>2, NamesDiffer DEF MoveAside, Exists, Goto, StoreTypeOK

\* The second rename: what was staged is live; it fails on a directory that is not
\* empty.
LEMMA SwapInEffects ==
  ASSUME StoreTypeOK, NEW s \in Save, SwapIn(s)
  PROVE  /\ Exists(Live)' /\ tree'[Live] = tree[Staging(s)]
         /\ Exists(Live) => DOMAIN tree[Live] = {}
         /\ Exists(Backup(s))' = Exists(Backup(s))
         /\ Exists(Backup(s)) => tree'[Backup(s)] = tree[Backup(s)]
         /\ pc[s] = "swap" /\ pc'[s] = "tidy"
         /\ placed' = placed \cup {s} /\ torn' = torn /\ content' = content
<1>1. Exists(Staging(s)) /\ Rename(Staging(s), Live) /\ (Exists(Live) => DOMAIN tree[Live] = {})
  BY DEF SwapIn, CanRename
<1>2. /\ DOMAIN tree' = (DOMAIN tree \ {Staging(s)}) \cup {Live}
      /\ tree'[Live] = tree[Staging(s)]
      /\ \A m \in DOMAIN tree : m # Staging(s) /\ m # Live => tree'[m] = tree[m]
  BY <1>1, RenameFacts, NamesDiffer
<1> QED  BY <1>1, <1>2, NamesDiffer DEF SwapIn, Exists, Goto, StoreTypeOK

\* The rename back: the backup of the save is live again.
LEMMA RestoreEffects ==
  ASSUME StoreTypeOK, NEW s \in Save, Restore(s)
  PROVE  /\ Exists(Live)' /\ tree'[Live] = tree[Backup(s)]
         /\ Exists(Live) => DOMAIN tree[Live] = {}
         /\ Exists(Backup(s)) /\ ~Exists(Backup(s))'
         /\ pc[s] = "restore" /\ pc'[s] = "failed"
         /\ placed' = placed /\ torn' = torn /\ content' = content
<1>1. Exists(Backup(s)) /\ Rename(Backup(s), Live) /\ (Exists(Live) => DOMAIN tree[Live] = {})
  BY DEF Restore, CanRename
<1>2. /\ DOMAIN tree' = (DOMAIN tree \ {Backup(s)}) \cup {Live}
      /\ tree'[Live] = tree[Backup(s)]
  BY <1>1, RenameFacts, NamesDiffer
<1> QED  BY <1>1, <1>2, NamesDiffer DEF Restore, Exists, Goto, StoreTypeOK

\* No other step touches a live directory or makes a backup.
LEMMA OtherStepsAreQuiet ==
  ASSUME StoreTypeOK, NEW s \in Save, AnyStep(s), ~MoveAside(s), ~SwapIn(s), ~Restore(s)
  PROVE  Quiet(s)
<1> USE NamesDiffer DEF StoreTypeOK, Goto, Exists, Quiet
<1>1. CASE Throw(s)
  BY <1>1 DEF Throw, With
<1>2. CASE Stage(s)
  <2>1. Staged(s) = content[s]  BY DEF Staged, Triple
  <2> QED  BY <1>2, <2>1 DEF Stage, With
<1>3. CASE Tidy(s) \/ Discard(s)
  BY <1>3 DEF Tidy, Discard, Without
<1>4. ASSUME NEW kept \in Leftovers, TidyFails(s, kept) PROVE Quiet(s)
  <2>1. kept = File => [f \in kept |-> tree[Backup(s)][f]] = tree[Backup(s)]
    BY <1>4, PartialFacts DEF TidyFails
  <2> QED  BY <1>4, <2>1 DEF TidyFails
<1>5. CASE Catch(s)
  BY <1>5 DEF Catch, AfterCatch, Without
<1>6. CASE CleanupFails(s)
  BY <1>6 DEF CleanupFails
<1>7. CASE Stop(s)
  BY <1>7 DEF Stop, Ended
<1>8. ASSUME NEW c \in Triple, Begin(s, c) PROVE Quiet(s)
  BY <1>8 DEF Begin
<1> QED  BY <1>1, <1>2, <1>3, <1>4, <1>5, <1>6, <1>7, <1>8 DEF AnyStep, SaveStep
-----------------------------------------------------------------------------
\* What a step of s leaves to another save.
LEMMA OthersKeepTheirs ==
  ASSUME StoreTypeOK, StagedWhole, NEW s \in Save, AnyStep(s), NEW t \in Save, s # t
  PROVE  /\ Exists(Staging(t))' = Exists(Staging(t))
         /\ Exists(Staging(t)) => tree'[Staging(t)] = tree[Staging(t)]
         /\ Exists(Backup(t))' = Exists(Backup(t))
         /\ Exists(Backup(t)) => tree'[Backup(t)] = tree[Backup(t)]
         /\ pc'[t] = pc[t] /\ content'[t] = content[t]
         /\ t \in placed' <=> t \in placed
         /\ t \in torn' <=> t \in torn
<1>1. \A n \in Name \ Mine(s) :
        /\ (n \in DOMAIN tree') = (n \in DOMAIN tree)
        /\ n \in DOMAIN tree => tree'[n] = tree[n]
  BY TreeEffects
<1>2. Staging(t) \in Name \ Mine(s) /\ Backup(t) \in Name \ Mine(s)
  BY NamesDiffer DEF Mine
<1>3. /\ pc'[t] = pc[t] /\ content'[t] = content[t]
      /\ placed' \subseteq placed \cup {s} /\ placed \subseteq placed'
      /\ torn' \subseteq torn \cup {s} /\ torn \subseteq torn'
  BY PcEffects
<1> QED  BY <1>1, <1>2, <1>3 DEF Exists

\* What the steps that rename, and all others, come to for the save itself.
LEMMA StepCases ==
  ASSUME StoreTypeOK, NEW s \in Save, AnyStep(s)
  PROVE  MoveAside(s) \/ SwapIn(s) \/ Restore(s) \/ Quiet(s)
BY OtherStepsAreQuiet

\* What is staged stays whole: only the save itself writes there.
LEMMA StagedWholeStep ==
  ASSUME StoreInvariant, NEW s \in Save, AnyStep(s)
  PROVE  StagedWhole'
<1> USE DEF StoreInvariant
<1> SUFFICES ASSUME NEW t \in Save, pc'[t] \in {"aside", "swap"}
             PROVE  Exists(Staging(t))' /\ tree'[Staging(t)] = content'[t]
  BY DEF StagedWhole, Exists, Staging
<1>1. CASE t # s
  BY <1>1, OthersKeepTheirs DEF StagedWhole
<1>2. CASE t = s
  <2>1. CASE MoveAside(s)
    <3>1. Exists(Staging(s)) /\ tree[Staging(s)] = content[s]
      BY <2>1, MoveAsideEffects DEF StagedWhole
    <3> QED  BY <1>2, <2>1, <3>1, MoveAsideEffects
  <2>2. CASE SwapIn(s)
    BY <1>2, <2>2, SwapInEffects
  <2>3. CASE Restore(s)
    BY <1>2, <2>3, RestoreEffects
  <2>4. CASE Quiet(s)
    BY <1>2, <2>4, PcEffects DEF Quiet
  <2> QED  BY <2>1, <2>2, <2>3, <2>4, StepCases
<1> QED  BY <1>1, <1>2

\* A save has a backup, or has swapped, only from its point on.
LEMMA ProgressStep ==
  ASSUME StoreInvariant, NEW s \in Save, AnyStep(s)
  PROVE  Progress' /\ torn' \subseteq placed'
<1> USE DEF StoreInvariant
<1>1. ASSUME NEW t \in Save, t # s
      PROVE  /\ pc'[t] \in {"unborn", "stage", "aside"} => t \notin placed' /\ ~Exists(Backup(t))'
             /\ pc'[t] \in {"tidy", "saved"} => t \in placed'
             /\ pc'[t] = "swap" => t \notin placed'
             /\ t \in torn' => t \in placed'
  <2>1. t \in torn => t \in placed  BY DEF StoreTypeOK
  <2> QED  BY <1>1, <2>1, OthersKeepTheirs DEF Progress
<1>2. /\ pc'[s] \in {"unborn", "stage", "aside"} => s \notin placed' /\ ~Exists(Backup(s))'
      /\ pc'[s] \in {"tidy", "saved"} => s \in placed'
      /\ pc'[s] = "swap" => s \notin placed'
      /\ s \in torn' => s \in placed'
  <2>1. s \in torn => s \in placed  BY DEF StoreTypeOK
  <2>2. CASE MoveAside(s)
    BY <2>1, <2>2, MoveAsideEffects DEF Progress
  <2>3. CASE SwapIn(s)
    BY <2>3, SwapInEffects
  <2>4. CASE Restore(s)
    BY <2>1, <2>4, RestoreEffects
  <2>5. CASE Quiet(s)
    BY <2>1, <2>5 DEF Quiet, Progress
  <2> QED  BY <2>2, <2>3, <2>4, <2>5, StepCases
<1>3. torn' \subseteq Save
  BY PcEffects DEF StoreTypeOK
<1>4. torn' \subseteq placed'  BY <1>1, <1>2, <1>3
<1>5. Progress'  BY <1>1, <1>2 DEF Progress, Exists, Backup
<1> QED  BY <1>4, <1>5

\* A step of a save keeps the types.
LEMMA TypeStep ==
  ASSUME StoreInvariant, NEW s \in Save, AnyStep(s)
  PROVE  StoreTypeOK'
<1>1. DOMAIN tree' \subseteq Name /\ \A n \in DOMAIN tree' : tree'[n] \in Partial
  BY TreeEffects DEF StoreInvariant
<1>2. torn' \subseteq placed'
  BY ProgressStep
<1>3. /\ pc' \in [Save -> Ended \cup {"stage", "aside", "swap", "tidy", "catch", "restore", "discard"}]
      /\ content' \in [Save -> Triple]
      /\ placed' \subseteq placed \cup {s}
      /\ copy' = copy
  BY PcEffects DEF StoreInvariant
<1>4. Name' = Name /\ Partial' = Partial /\ placed \subseteq Save /\ copy \in Partial
  BY DEF Name, Partial, Live, Staging, Backup, File, StoreInvariant, StoreTypeOK
<1>5. placed' \subseteq Save /\ copy' \in Partial
  BY <1>3, <1>4
<1> QED  BY <1>1, <1>2, <1>3, <1>5, Zenon DEF StoreTypeOK, Ended

\* A save that is past its renames is found with a live template by itself and by
\* any other that has not renamed anything.
LEMMA AloneIsLiveStep ==
  ASSUME StoreInvariant, NEW s \in Save, AnyStep(s)
  PROVE  AloneIsLive'
<1> USE DEF StoreInvariant
<1> SUFFICES ASSUME NEW u \in placed', \A t \in Save : u # t => pc'[t] \in Early
             PROVE  Exists(Live)' /\ pc'[u] # "restore"
  BY DEF AloneIsLive, Alone, Exists, Live, Early
<1>1. \A t \in Save \ {s} : pc'[t] = pc[t]  BY PcEffects
<1>2. CASE MoveAside(s)
  BY <1>2, MoveAsideEffects DEF Progress, Early
<1>3. CASE SwapIn(s)
  BY <1>1, <1>3, SwapInEffects DEF Progress, Early
<1>4. CASE Restore(s)
  BY <1>1, <1>4, RestoreEffects DEF Early
<1>5. CASE Quiet(s)
  <2>1. placed' = placed /\ (pc'[s] \in Early => pc[s] \in Early)
    <3>1. CASE pc'[s] = "aside"  BY <1>5, <3>1 DEF Quiet, Early
    <3>2. CASE pc'[s] # "aside"  BY <1>5, <3>2 DEF Quiet, Early
    <3> QED  BY <1>5, <3>1, <3>2 DEF Quiet
  <2>2. Alone(u)  BY <1>1, <2>1 DEF Alone
  <2>3. Exists(Live) /\ pc[u] # "restore"  BY <2>1, <2>2 DEF AloneIsLive
  <2>4. u \in Save  BY <2>1 DEF StoreTypeOK
  <2>5. pc'[u] # "restore"
    <3>1. CASE u = s  BY <1>5, <2>3, <3>1 DEF Quiet
    <3>2. CASE u # s  BY <1>1, <2>3, <2>4, <3>2
    <3> QED  BY <3>1, <3>2
  <2> QED  BY <1>5, <2>3, <2>5 DEF Quiet
<1> QED  BY <1>2, <1>3, <1>4, <1>5, StepCases

\* Once a torn backup was put back, that has happened.
LEMMA TornPutBackStays ==
  ASSUME StoreInvariant, NEW s \in Save, AnyStep(s), TornPutBack
  PROVE  TornPutBack'
<1>1. /\ torn \subseteq torn' /\ \A t \in Save \ {s} : pc'[t] = pc[t]
      /\ pc[s] \notin Ended \ {"unborn"}
  BY PcEffects DEF StoreInvariant
<1>2. pc[s] \notin Early => pc'[s] \notin Early
  <2>1. CASE MoveAside(s)  BY <2>1, MoveAsideEffects DEF StoreInvariant, Early
  <2>2. CASE SwapIn(s)  BY <2>2, SwapInEffects DEF StoreInvariant, Early
  <2>3. CASE Restore(s)  BY <2>3, RestoreEffects DEF StoreInvariant, Early
  <2>4. CASE Quiet(s)  BY <2>4 DEF Quiet, Early
  <2> QED  BY <2>1, <2>2, <2>3, <2>4, StepCases DEF StoreInvariant
<1> QED  BY <1>1, <1>2 DEF TornPutBack, Ended, StoreInvariant, StoreTypeOK

\* No step loses the last whole copy, but for the exception.
LEMMA CopiesStep ==
  ASSUME StoreInvariant, NEW s \in Save, AnyStep(s)
  PROVE  CopiesAreWhole'
<1> USE DEF StoreInvariant
<1>1. TornPutBack => TornPutBack'  BY TornPutBackStays
<1> SUFFICES ASSUME ~TornPutBack, ~TornPutBack'
             PROVE  /\ Exists(Live)' => Whole(tree'[Live])
                    /\ \A t \in Save \ torn' : Exists(Backup(t))' => Whole(tree'[Backup(t)])
  BY <1>1 DEF CopiesAreWhole, Whole, Exists, Live, Backup, File
<1>2. /\ Exists(Live) => Whole(tree[Live])
      /\ \A t \in Save \ torn : Exists(Backup(t)) => Whole(tree[Backup(t)])
  BY DEF CopiesAreWhole
<1>3. ASSUME NEW t \in Save \ torn', t # s, Exists(Backup(t))'
      PROVE  Whole(tree'[Backup(t)])
  BY <1>2, <1>3, OthersKeepTheirs
<1>4. (Exists(Live)' => Whole(tree'[Live]))
      /\ (s \notin torn' /\ Exists(Backup(s))' => Whole(tree'[Backup(s)]))
  <2>1. CASE MoveAside(s)
    BY <1>2, <2>1, MoveAsideEffects
  <2>2. CASE SwapIn(s)
    <3>1. tree[Staging(s)] = content[s] /\ content[s] \in Triple
      BY <2>2, SwapInEffects DEF StagedWhole, StoreTypeOK
    <3>2. Whole(tree'[Live])
      BY <2>2, <3>1, SwapInEffects, TriplesArePartial
    <3> QED  BY <1>2, <2>2, <3>2, SwapInEffects
  <2>3. CASE Restore(s)
    <3>1. s \notin torn
      <4> SUFFICES ASSUME s \in torn PROVE FALSE
        OBVIOUS
      <4>1. s \in torn' /\ pc'[s] = "failed" /\ \A t \in Save \ {s} : pc'[t] = pc[t]
        BY <2>3, RestoreEffects, PcEffects
      <4>2. Alone(s)  BY <4>1 DEF TornPutBack, Alone
      <4>3. s \in placed  BY DEF StoreTypeOK
      <4> QED  BY <2>3, <4>2, <4>3, RestoreEffects DEF AloneIsLive
    <3> QED  BY <1>2, <2>3, <3>1, RestoreEffects
  <2>4. CASE Quiet(s)
    <3>1. torn \subseteq torn'  BY PcEffects
    <3> QED  BY <1>2, <2>4, <3>1 DEF Quiet
  <2> QED  BY <2>1, <2>2, <2>3, <2>4, StepCases
<1> QED  BY <1>3, <1>4

\* The live template is absent only between the renames of a save with a backup
\* nobody has touched.
LEMMA AbsentStep ==
  ASSUME StoreInvariant, NEW s \in Save, AnyStep(s)
  PROVE  AbsentOnlyMidSwap'
<1> USE DEF StoreInvariant
<1> DEFINE Mid == {"swap", "catch", "restore", "stopped", "unrestored"}
<1> SUFFICES ASSUME ~Exists(Live)'
             PROVE  \E u \in Save : Exists(Backup(u))' /\ u \notin torn' /\ pc'[u] \in Mid
  BY DEF AbsentOnlyMidSwap, Backups, Exists, Live, Backup
<1>1. CASE MoveAside(s)
  BY <1>1, MoveAsideEffects DEF Progress, StoreTypeOK
<1>2. CASE SwapIn(s)
  BY <1>2, SwapInEffects
<1>3. CASE Restore(s)
  BY <1>3, RestoreEffects
<1>4. CASE Quiet(s)
  <2>1. ~Exists(Live)  BY <1>4 DEF Quiet
  <2>2. PICK u \in Save : Exists(Backup(u)) /\ u \notin torn /\ pc[u] \in Mid
    BY <2>1 DEF AbsentOnlyMidSwap, Backups
  <2>3. CASE u # s
    BY <2>2, <2>3, OthersKeepTheirs
  <2>4. CASE u = s
    <3>1. pc[s] \notin {"stopped", "unrestored"}  BY PcEffects DEF Ended
    <3> QED  BY <1>4, <2>1, <2>2, <2>4, <3>1 DEF Quiet
  <2> QED  BY <2>3, <2>4
<1> QED  BY <1>1, <1>2, <1>3, <1>4, StepCases

\* Together: a step of a save keeps the invariant of the store.
LEMMA StorePreserves ==
  ASSUME StoreInvariant, NEW s \in Save, AnyStep(s)
  PROVE  StoreInvariant'
BY TypeStep, StagedWholeStep, ProgressStep, AloneIsLiveStep, CopiesStep, AbsentStep
   DEF StoreInvariant
-----------------------------------------------------------------------------
\* The steps of the editor.

\* A result and the renders that still count are of what is on screen, and a
\* call whose object is being edited still has its files.
PreviewIsOfShown ==
  /\ previewResult = "ok" => workingFiles \notin Broken
  /\ \A r \in renders : r.current => r.files = workingFiles
  /\ \A s \in Save : call[s].same => call[s].files = workingFiles

SentArePreviewed ==
  /\ \A c \in sends : c.files \notin Broken \cup Invalid
  /\ \A s \in Save : call[s].open => call[s].files \notin Broken \cup Invalid

EditorInvariant ==
  /\ EditorTypeOK
  /\ PreviewIsOfShown
  /\ SentArePreviewed
  /\ NoOrphanPending
  /\ WaitHasReason

\* Renders that are superseded are the same renders, none of them current.
LEMMA SupersededFacts ==
  ASSUME NEW R, R \subseteq [files : Triple, current : BOOLEAN]
  PROVE  /\ Superseded(R) \subseteq [files : Triple, current : BOOLEAN]
         /\ \A r \in Superseded(R) : ~r.current /\ \E q \in R : r.files = q.files
BY DEF Superseded

\* A new files object is in no call, and changes nothing else of the calls.
LEMMA NewObjectFacts ==
  ASSUME NEW c \in [Save -> Call]
  PROVE  /\ NewObject(c) \in [Save -> Call]
         /\ \A s \in Save : /\ ~NewObject(c)[s].same
                            /\ NewObject(c)[s].files = c[s].files
                            /\ NewObject(c)[s].open = c[s].open
                            /\ NewObject(c)[s].current = c[s].current
BY DEF NewObject, Call

\* A new template makes every call one of an older generation, and changes nothing
\* else.
LEMMA OldGenerationFacts ==
  ASSUME NEW c \in [Save -> Call]
  PROVE  /\ OldGeneration(c) \in [Save -> Call]
         /\ \A s \in Save : /\ ~OldGeneration(c)[s].current
                            /\ OldGeneration(c)[s].files = c[s].files
                            /\ OldGeneration(c)[s].open = c[s].open
                            /\ OldGeneration(c)[s].same = c[s].same
BY DEF OldGeneration, Call

\* An edit drops the preview and supersedes the renders.
LEMMA EditPreserves ==
  ASSUME EditorInvariant, NEW e \in Edits, Edit(e[1], e[2])
  PROVE  EditorInvariant'
<1> USE DEF EditorInvariant, EditorTypeOK
<1>1. e[1] \in File /\ e[2] \in Version
  BY EditorAssumption
<1>2. workingFiles' \in Triple
  BY <1>1 DEF Edit, Triple
<1>3. /\ call' \in [Save -> Call]
      /\ \A s \in Save : /\ ~call'[s].same /\ call'[s].files = call[s].files
                         /\ call'[s].open = call[s].open /\ call'[s].current = call[s].current
  BY NewObjectFacts DEF Edit
<1>4. /\ renders' \subseteq [files : Triple, current : BOOLEAN]
      /\ \A r \in renders' : ~r.current
  BY SupersededFacts DEF Edit, PreviewEffect
<1>5. EditorTypeOK'
  <2>1. edits' \in 0 .. MaxEdits  BY EditorAssumption DEF Edit
  <2>2. /\ previewResult' = "null" /\ timer' = TRUE /\ echoed' = FALSE
        /\ UNCHANGED <<seedFiles, saveFeedback, sendFeedback, sends, sent>>
    BY DEF Edit, PreviewEffect
  <2> QED  BY <1>2, <1>3, <1>4, <2>1, <2>2
<1>6. PreviewIsOfShown'
  BY <1>3, <1>4 DEF Edit, PreviewEffect, PreviewIsOfShown
<1>7. SentArePreviewed'
  BY <1>3 DEF Edit, SentArePreviewed
<1>8. NoOrphanPending'
  BY <1>3 DEF Edit, NoOrphanPending
<1>9. WaitHasReason'
  BY DEF Edit, PreviewEffect, WaitHasReason
<1> QED  BY <1>5, <1>6, <1>7, <1>8, <1>9

\* The debounce timer starts a render of what is shown.
LEMMA TimerPreserves ==
  ASSUME EditorInvariant, TimerFires
  PROVE  EditorInvariant'
<1> USE DEF EditorInvariant, EditorTypeOK, TimerFires
<1>0. /\ NewRender \in [files : Triple, current : BOOLEAN]
      /\ NewRender.files = workingFiles /\ NewRender.current
  BY DEF NewRender
<1>1. EditorTypeOK'
  <2>1. renders' \subseteq [files : Triple, current : BOOLEAN]
    BY <1>0
  <2>2. /\ timer' = FALSE
        /\ UNCHANGED <<workingFiles, seedFiles, saveFeedback, sendFeedback, previewResult,
                       call, sends, echoed, edits, sent>>
    OBVIOUS
  <2> HIDE DEF TimerFires
  <2> QED  BY <2>1, <2>2
<1>2. PreviewIsOfShown'  BY <1>0 DEF PreviewIsOfShown
<1>3. SentArePreviewed'  BY DEF SentArePreviewed
<1>4. NoOrphanPending'  BY DEF NoOrphanPending
<1>5. WaitHasReason'
  <2>1. NewRender \in renders'  OBVIOUS
  <2> QED  BY <1>0, <2>1 DEF WaitHasReason
<1> QED  BY <1>1, <1>2, <1>3, <1>4, <1>5

\* An answer counts only if its render is current.
LEMMA AnswerPreserves ==
  ASSUME EditorInvariant, NEW r \in renders, RenderAnswers(r)
  PROVE  EditorInvariant'
<1> USE DEF EditorInvariant, EditorTypeOK, RenderAnswers, renderTemplatePreview
<1>1. EditorTypeOK'  OBVIOUS
<1>2. PreviewIsOfShown'  BY DEF PreviewIsOfShown
<1>3. SentArePreviewed'  BY DEF SentArePreviewed
<1>4. NoOrphanPending'  BY DEF NoOrphanPending
<1>5. WaitHasReason'  BY DEF WaitHasReason
<1> QED  BY <1>1, <1>2, <1>3, <1>4, <1>5

\* A save takes the files that were previewed.
LEMMA StartSavePreserves ==
  ASSUME EditorInvariant, NEW s \in Save, StartSave(s)
  PROVE  EditorInvariant'
<1> USE DEF EditorInvariant, EditorTypeOK, StartSave
<1>1. /\ call' \in [Save -> Call]
      /\ call'[s].open /\ call'[s].current /\ call'[s].files = workingFiles
      /\ \A t \in Save \ {s} : call'[t] = call[t]
  BY DEF Call
<1>2. workingFiles \notin Broken \cup Invalid
  BY DEF validationBlocked, HasErrors, PreviewIsOfShown
<1>3. EditorTypeOK'  BY <1>1 DEF Feedback
<1>4. PreviewIsOfShown'  BY <1>1 DEF PreviewIsOfShown
<1>5. SentArePreviewed'  BY <1>1, <1>2 DEF SentArePreviewed
<1>6. NoOrphanPending'  BY <1>1 DEF NoOrphanPending
<1>7. WaitHasReason'  BY DEF WaitHasReason
<1> QED  BY <1>3, <1>4, <1>5, <1>6, <1>7

\* The end of a save changes the baseline only for its own generation.
LEMMA FinishSavePreserves ==
  ASSUME EditorInvariant, NEW s \in Save, NEW ok \in BOOLEAN, FinishSave(s, ok)
  PROVE  EditorInvariant'
<1> USE DEF EditorInvariant, EditorTypeOK, FinishSave
<1>1. /\ call' \in [Save -> Call]
      /\ ~call'[s].open /\ call'[s].files = call[s].files /\ call'[s].same = call[s].same
      /\ \A t \in Save \ {s} : call'[t] = call[t]
  BY DEF Call
<1>2. seedFiles' \in Triple /\ saveFeedback' \in Feedback
  <2>1. call[s].files \in Triple  BY DEF Call
  <2> QED  BY <2>1 DEF Feedback, SavedFiles
<1>3. EditorTypeOK'  BY <1>1, <1>2
<1>4. PreviewIsOfShown'  BY <1>1 DEF PreviewIsOfShown
<1>5. SentArePreviewed'  BY <1>1 DEF SentArePreviewed
<1>6. NoOrphanPending'
  <2>1. CASE call[s].current
    BY <2>1 DEF NoOrphanPending
  <2>2. CASE ~call[s].current
    BY <1>1, <2>2 DEF NoOrphanPending
  <2> QED  BY <2>1, <2>2
<1>7. WaitHasReason'  BY DEF WaitHasReason
<1> QED  BY <1>3, <1>4, <1>5, <1>6, <1>7

\* What could not be serialized ends as a failure, with no call.
LEMMA SerializeFailsPreserves ==
  ASSUME EditorInvariant, SerializeFails
  PROVE  EditorInvariant'
<1> USE DEF EditorInvariant, SerializeFails
<1>1. EditorTypeOK'  BY DEF EditorTypeOK, Feedback
<1>2. PreviewIsOfShown' /\ SentArePreviewed'
  BY DEF PreviewIsOfShown, SentArePreviewed
<1>3. NoOrphanPending' /\ WaitHasReason'
  BY DEF NoOrphanPending, WaitHasReason
<1> QED  BY <1>1, <1>2, <1>3

\* A test send takes what was previewed.
LEMMA StartSendTestPreserves ==
  ASSUME EditorInvariant, StartSendTest
  PROVE  EditorInvariant'
<1> USE DEF EditorInvariant, EditorTypeOK, StartSendTest
<1>1. workingFiles \notin Broken \cup Invalid
  BY DEF validationBlocked, HasErrors, PreviewIsOfShown
<1> DEFINE c == [files |-> workingFiles, current |-> TRUE]
<1>2. /\ c \in sends' /\ c.current /\ c.files = workingFiles /\ sends' = sends \cup {c}
      /\ c \in [files : Triple, current : BOOLEAN]
  OBVIOUS
<1> HIDE DEF c
<1>3. EditorTypeOK'
  <2>1. sent' \in 0 .. MaxSends  BY EditorAssumption
  <2>2. sends' \subseteq [files : Triple, current : BOOLEAN]  BY <1>2
  <2>3. /\ sendFeedback' \in Feedback
        /\ UNCHANGED <<workingFiles, seedFiles, saveFeedback, previewResult, timer, renders,
                       call, echoed, edits>>
    BY DEF Feedback
  <2> HIDE DEF StartSendTest
  <2> QED  BY <2>1, <2>2, <2>3
<1>4. PreviewIsOfShown'  BY DEF PreviewIsOfShown
<1>5. SentArePreviewed'  BY <1>1, <1>2 DEF SentArePreviewed
<1>6. NoOrphanPending'  BY <1>2 DEF NoOrphanPending
<1>7. WaitHasReason'  BY DEF WaitHasReason
<1> QED  BY <1>3, <1>4, <1>5, <1>6, <1>7

\* The end of a test send clears its own wait.
LEMMA FinishSendTestPreserves ==
  ASSUME EditorInvariant, NEW c \in sends, NEW ok \in BOOLEAN, FinishSendTest(c, ok)
  PROVE  EditorInvariant'
<1> USE DEF EditorInvariant, EditorTypeOK, FinishSendTest
<1>1. EditorTypeOK'  BY DEF Feedback
<1>2. PreviewIsOfShown'  BY DEF PreviewIsOfShown
<1>3. SentArePreviewed'  BY DEF SentArePreviewed
<1>4. NoOrphanPending'  BY DEF NoOrphanPending
<1>5. WaitHasReason'  BY DEF WaitHasReason
<1> QED  BY <1>1, <1>2, <1>3, <1>4, <1>5

\* A new template starts a new generation, without preview or waits.
LEMMA ArrivalPreserves ==
  ASSUME EditorInvariant, NEW f \in Triple, TemplateArrives(f)
  PROVE  EditorInvariant'
<1> USE DEF EditorInvariant, EditorTypeOK
<1> DEFINE old == OldGeneration(call)
<1>1. /\ old \in [Save -> Call]
      /\ \A s \in Save : old[s].files = call[s].files /\ old[s].open = call[s].open
  BY OldGenerationFacts
<1> HIDE DEF old
<1>2. /\ call' \in [Save -> Call]
      /\ \A s \in Save : ~call'[s].same /\ call'[s].files = old[s].files
                         /\ call'[s].open = old[s].open
  BY <1>1, NewObjectFacts DEF TemplateArrives, old
<1>3. /\ renders' \subseteq [files : Triple, current : BOOLEAN]
      /\ \A r \in renders' : ~r.current
  BY SupersededFacts DEF TemplateArrives, PreviewEffect
<1>4. /\ sends' \subseteq [files : Triple, current : BOOLEAN]
      /\ \A c \in sends' : \E q \in sends : c.files = q.files
  BY SupersededFacts DEF TemplateArrives, NextGeneration
<1>5. EditorTypeOK'
  BY <1>2, <1>3, <1>4 DEF TemplateArrives, NextGeneration, PreviewEffect, Feedback
<1>6. PreviewIsOfShown'
  BY <1>2, <1>3 DEF TemplateArrives, PreviewEffect, PreviewIsOfShown
<1>7. SentArePreviewed'
  BY <1>1, <1>2, <1>4 DEF SentArePreviewed
<1>8. NoOrphanPending'
  BY DEF TemplateArrives, NextGeneration, NoOrphanPending
<1>9. WaitHasReason'
  BY DEF TemplateArrives, PreviewEffect, WaitHasReason
<1> QED  BY <1>5, <1>6, <1>7, <1>8, <1>9

\* So does the object that was given to onSave, when it comes back.
LEMMA EchoPreserves ==
  ASSUME EditorInvariant, NEW s \in Save, TemplateEchoed(s)
  PROVE  EditorInvariant'
<1> USE DEF EditorInvariant, EditorTypeOK
<1>1. call[s].files \in Triple /\ workingFiles' = call[s].files /\ seedFiles' = call[s].files
  BY DEF TemplateEchoed, Call
<1>2. /\ sends' \subseteq [files : Triple, current : BOOLEAN]
      /\ \A c \in sends' : \E q \in sends : c.files = q.files
  BY SupersededFacts DEF TemplateEchoed, NextGeneration
<1>3. NoOrphanPending'
  BY DEF TemplateEchoed, NextGeneration, NoOrphanPending
<1>4. CASE call[s].same
  <2>1. /\ call' \in [Save -> Call]
        /\ \A t \in Save : /\ call'[t].files = call[t].files /\ call'[t].open = call[t].open
                           /\ call'[t].same = call[t].same
    BY <1>4, OldGenerationFacts DEF TemplateEchoed
  <2>2. workingFiles' = workingFiles /\ renders' = renders
    BY <1>1, <1>4 DEF PreviewIsOfShown, TemplateEchoed
  <2>3. EditorTypeOK'
    BY <1>1, <1>2, <1>4, <2>1 DEF TemplateEchoed, NextGeneration, Feedback
  <2>4. PreviewIsOfShown'
    BY <1>4, <2>1, <2>2 DEF TemplateEchoed, PreviewIsOfShown
  <2>5. SentArePreviewed'
    BY <1>2, <2>1 DEF SentArePreviewed
  <2>6. WaitHasReason'
    BY <1>4 DEF TemplateEchoed, WaitHasReason
  <2> QED  BY <1>3, <2>3, <2>4, <2>5, <2>6
<1>5. CASE ~call[s].same
  <2> DEFINE mid == [NewObject(call) EXCEPT ![s].same = TRUE]
  <2>1. /\ mid \in [Save -> Call]
        /\ \A t \in Save : /\ mid[t].files = call[t].files /\ mid[t].open = call[t].open
                           /\ mid[t].same => t = s
    <3> DEFINE n == NewObject(call)
    <3>1. /\ n \in [Save -> Call]
          /\ \A t \in Save : ~n[t].same /\ n[t].files = call[t].files /\ n[t].open = call[t].open
      BY NewObjectFacts
    <3> HIDE DEF n
    <3>2. \A t \in Save : mid[t] = IF t = s THEN [n[t] EXCEPT !.same = TRUE] ELSE n[t]
      BY <3>1 DEF n
    <3>3. mid \in [Save -> Call]
      BY <3>1 DEF n, Call
    <3> QED  BY <3>1, <3>2, <3>3 DEF Call
  <2>0. call' = OldGeneration(mid)  BY <1>5 DEF TemplateEchoed
  <2> HIDE DEF mid
  <2>2. /\ call' \in [Save -> Call]
        /\ \A t \in Save : /\ call'[t].files = mid[t].files /\ call'[t].open = mid[t].open
                           /\ call'[t].same = mid[t].same
    BY <2>0, <2>1, OldGenerationFacts
  <2>3. /\ renders' \subseteq [files : Triple, current : BOOLEAN]
        /\ \A r \in renders' : ~r.current
        /\ previewResult' = "null" /\ timer' = TRUE
    BY <1>5, SupersededFacts DEF TemplateEchoed, PreviewEffect
  <2>4. EditorTypeOK'
    BY <1>1, <1>2, <1>5, <2>2, <2>3 DEF TemplateEchoed, NextGeneration, Feedback
  <2>5. PreviewIsOfShown'
    BY <1>1, <2>1, <2>2, <2>3 DEF PreviewIsOfShown
  <2>6. SentArePreviewed'
    BY <1>2, <2>1, <2>2 DEF SentArePreviewed
  <2>7. WaitHasReason'
    BY <2>3 DEF WaitHasReason
  <2> QED  BY <1>3, <2>4, <2>5, <2>6, <2>7
<1> QED  BY <1>4, <1>5
-----------------------------------------------------------------------------
\* The two together.

\* The store works on what the calls of onSave were given.
CallsMatch ==
  /\ \A s \in Save \ Others :
       call[s].open => pc[s] # "unborn" /\ content[s] = call[s].files
  /\ \A s \in Others : ~call[s].open

AdminInvariant ==
  /\ EditorInvariant
  /\ StoreInvariant
  /\ CallsMatch
  /\ SuccessIsStored

\* A load changes nothing the invariant of the store speaks of.
LEMMA LoadPreserves ==
  ASSUME StoreInvariant, LoadStep \/ LoadReturns
  PROVE  StoreInvariant'
<1> USE DEF StoreInvariant, StoreTypeOK
<1>1. UNCHANGED <<tree, pc, content, placed, torn>>
  BY DEF LoadStep, ReadFile, LoadFails, LoadReturns
<1>2. copy' \in Partial
  <2>1. CASE LoadFails \/ LoadReturns
    BY <2>1, EmptyIsPartial DEF LoadFails, LoadReturns
  <2>2. ASSUME NEW i \in 1 .. 3, ReadFile(i) PROVE copy' \in Partial
    <3> DEFINE f == SOURCE_FILES[i]
    <3>1. f \in File  BY DEF File
    <3>2. tree[Live] \in Partial /\ f \in DOMAIN tree[Live] /\ copy' = With(copy, f, tree[Live][f])
      BY <2>2 DEF ReadFile, Exists
    <3> HIDE DEF f
    <3>3. tree[Live][f] \in Version  BY <3>2, PartialFacts
    <3>4. DOMAIN copy \subseteq File /\ copy \in [DOMAIN copy -> Version]
      BY PartialFacts
    <3> DEFINE w == With(copy, f, tree[Live][f])
    <3>5. DOMAIN w = DOMAIN copy \cup {f} /\ w \in [DOMAIN copy \cup {f} -> Version]
      BY <3>3, <3>4 DEF With
    <3> HIDE DEF w
    <3>6. w \in Partial  BY <3>1, <3>4, <3>5, PartialFacts
    <3> QED  BY <3>2, <3>6 DEF w
  <2> QED  BY <2>1, <2>2 DEF LoadStep
<1>3. Name' = Name /\ Partial' = Partial
  BY DEF Name, Partial, Live, Staging, Backup, File
<1>4. StoreTypeOK'
  <2> USE <1>1, <1>2, <1>3
  <2> QED  BY Zenon DEF Ended
<1>5. /\ StagedWhole' /\ Progress' /\ AloneIsLive' /\ CopiesAreWhole' /\ AbsentOnlyMidSwap'
  BY <1>1 DEF StagedWhole, Progress, AloneIsLive, Alone, CopiesAreWhole, TornPutBack, Early, Whole,
              AbsentOnlyMidSwap, Backups, Exists, Live, Staging, Backup, File
<1> QED  BY <1>4, <1>5

\* A copy that is whole is a template.
LEMMA CopiedIsTriple ==
  ASSUME copy \in Partial, Whole(copy)
  PROVE  copy \in Triple
BY PartialFacts DEF Whole, Triple

\* The store starts in its invariant.
LEMMA StoreStarts ==
  ASSUME StoreInit PROVE StoreInvariant
<1>1. /\ tree \in [{Live} -> Triple]
      /\ pc = [s \in Save |-> "unborn"]
      /\ \E c \in Triple : content = [s \in Save |-> c]
      /\ placed = {} /\ torn = {}
      /\ copy = [f \in {} |-> 0]
  BY Zenon DEF StoreInit
<1>2. DOMAIN tree = {Live} /\ \A n \in DOMAIN tree : tree[n] \in Triple
  BY <1>1
<1>3. \A s \in Save : ~Exists(Backup(s)) /\ pc[s] = "unborn"
  BY <1>1, <1>2, NamesDiffer DEF Exists
<1>4. \A n \in DOMAIN tree : tree[n] \in Partial /\ Whole(tree[n])
  BY <1>2, TriplesArePartial
<1>5. content \in [Save -> Triple]  BY <1>1
<1>6. StoreTypeOK
  <2>1. DOMAIN tree \subseteq Name  BY <1>2, NamesDiffer
  <2>2. pc \in [Save -> Ended \cup {"stage", "aside", "swap", "tidy", "catch", "restore", "discard"}]
    BY <1>1 DEF Ended
  <2>3. copy \in Partial  BY <1>1, EmptyIsPartial
  <2> QED  BY <1>1, <1>4, <1>5, <2>1, <2>2, <2>3, Zenon DEF StoreTypeOK
<1>7. StagedWhole /\ Progress
  BY <1>1, <1>3 DEF StagedWhole, Progress
<1>8. AloneIsLive /\ CopiesAreWhole /\ AbsentOnlyMidSwap
  BY <1>1, <1>3, <1>4 DEF AloneIsLive, CopiesAreWhole, AbsentOnlyMidSwap, Backups, Exists
<1> QED  BY <1>6, <1>7, <1>8 DEF StoreInvariant

\* So does the editor.
LEMMA EditorStarts ==
  ASSUME EditorInit PROVE EditorInvariant
<1> USE DEF EditorInit
<1>1. EditorTypeOK
  <2>1. call \in [Save -> Call]  BY DEF Call
  <2>2. edits \in 0 .. MaxEdits /\ sent \in 0 .. MaxSends  BY EditorAssumption
  <2> QED  BY <2>1, <2>2 DEF EditorTypeOK, Feedback
<1>2. PreviewIsOfShown  BY DEF PreviewIsOfShown
<1>3. SentArePreviewed  BY DEF SentArePreviewed
<1>4. NoOrphanPending /\ WaitHasReason  BY DEF NoOrphanPending, WaitHasReason
<1> QED  BY <1>1, <1>2, <1>3, <1>4 DEF EditorInvariant

\* So does their composition.
LEMMA AdminStarts ==
  ASSUME AdminInit PROVE AdminInvariant
<1>1. EditorInvariant /\ StoreInvariant
  BY EditorStarts, StoreStarts DEF AdminInit
<1>2. CallsMatch /\ SuccessIsStored
  BY AdminAssumption DEF AdminInit, EditorInit, CallsMatch, SuccessIsStored
<1> QED  BY <1>1, <1>2 DEF AdminInvariant

\* Every step of the editor alone keeps its invariant.
LEMMA EditorStepPreserves ==
  ASSUME EditorInvariant, EditorStep PROVE EditorInvariant'
BY EditPreserves, TimerPreserves, AnswerPreserves, SerializeFailsPreserves, StartSendTestPreserves,
   FinishSendTestPreserves, EchoPreserves DEF EditorStep

\* A step elsewhere keeps the invariant of the editor.
LEMMA UnchangedEditor ==
  ASSUME EditorInvariant, UNCHANGED editorVars PROVE EditorInvariant'
BY DEF editorVars, EditorInvariant, EditorTypeOK, PreviewIsOfShown, SentArePreviewed,
       NoOrphanPending, WaitHasReason

\* A step elsewhere keeps the invariant of the store.
LEMMA UnchangedStore ==
  ASSUME StoreInvariant, UNCHANGED storeVars PROVE StoreInvariant'
<1>1. UNCHANGED <<tree, pc, content, placed, torn, copy>>  BY DEF storeVars
<1> QED
  BY <1>1 DEF StoreInvariant, StoreTypeOK, StagedWhole, Progress, AloneIsLive, Alone,
              CopiesAreWhole, TornPutBack, Early, Whole, AbsentOnlyMidSwap, Backups, Exists,
              Live, Staging, Backup, File, Name, Partial, Triple, Ended

\* An editor step keeps the payloads of the calls under way, and ends the
\* message of a save or leaves it with its seed.
LEMMA EditorStepEffects ==
  ASSUME EditorTypeOK, EditorStep \/ \E f \in Triple : TemplateArrives(f)
  PROVE  /\ \A s \in Save : /\ call'[s].open = call[s].open
                            /\ call'[s].files = call[s].files
         /\ saveFeedback' = "success" => saveFeedback = "success" /\ seedFiles' = seedFiles
<1> USE DEF EditorTypeOK
<1>1. ASSUME NEW e \in Edits, Edit(e[1], e[2])
      PROVE  /\ \A s \in Save : call'[s].open = call[s].open /\ call'[s].files = call[s].files
             /\ UNCHANGED <<saveFeedback, seedFiles>>
  BY <1>1, NewObjectFacts DEF Edit
<1>2. CASE TimerFires  BY <1>2 DEF TimerFires
<1>3. CASE \E r \in renders : RenderAnswers(r)  BY <1>3 DEF RenderAnswers
<1>4. CASE SerializeFails \/ StartSendTest  BY <1>4 DEF SerializeFails, StartSendTest
<1>5. CASE \E c \in sends, ok \in BOOLEAN : FinishSendTest(c, ok)  BY <1>5 DEF FinishSendTest
<1> DEFINE old == OldGeneration(call)
           new == NewObject(call)
<1>6. /\ old \in [Save -> Call]
      /\ \A s \in Save : old[s].open = call[s].open /\ old[s].files = call[s].files
  BY OldGenerationFacts
<1>7. ASSUME NEW f \in Triple, TemplateArrives(f)
      PROVE  /\ \A s \in Save : call'[s].open = call[s].open /\ call'[s].files = call[s].files
             /\ saveFeedback' = "idle"
  <2>1. call' = NewObject(old) /\ saveFeedback' = "idle"
    BY <1>7 DEF TemplateArrives, NextGeneration
  <2> HIDE DEF old
  <2> QED  BY <1>6, <2>1, NewObjectFacts
<1>8. ASSUME NEW s \in Save, TemplateEchoed(s)
      PROVE  /\ \A t \in Save : call'[t].open = call[t].open /\ call'[t].files = call[t].files
             /\ saveFeedback' = "idle"
  <2>1. saveFeedback' = "idle"  BY <1>8 DEF TemplateEchoed, NextGeneration
  <2>2. CASE call[s].same
    BY <1>6, <1>8, <2>1, <2>2 DEF TemplateEchoed
  <2>3. CASE ~call[s].same
    <3> DEFINE mid == [new EXCEPT ![s].same = TRUE]
    <3>1. /\ new \in [Save -> Call]
          /\ \A t \in Save : new[t].open = call[t].open /\ new[t].files = call[t].files
      BY NewObjectFacts
    <3>2. call' = OldGeneration(mid)  BY <1>8, <2>3 DEF TemplateEchoed
    <3> HIDE DEF new
    <3>3. mid \in [Save -> Call]  BY <3>1 DEF Call
    <3>4. \A t \in Save : mid[t].open = new[t].open /\ mid[t].files = new[t].files
      BY <3>1 DEF Call
    <3> HIDE DEF mid
    <3> QED  BY <2>1, <3>1, <3>2, <3>3, <3>4, OldGenerationFacts
  <2> QED  BY <2>2, <2>3
<1> QED  BY <1>1, <1>2, <1>3, <1>4, <1>5, <1>7, <1>8 DEF EditorStep

\* A step of the store leaves a save that has succeeded as it is.
LEMMA StoreStepEffects ==
  ASSUME StoreInvariant, NEW s \in Save, SaveStep(s)
  PROVE  /\ \A t \in Save : pc[t] # "unborn" => pc'[t] # "unborn" /\ content'[t] = content[t]
         /\ \A t \in placed : pc[t] = "saved" => t \in placed' /\ pc'[t] = "saved"
         /\ pc[s] # "unborn"
<1>1. AnyStep(s)  BY DEF AnyStep
<1>2. /\ placed \subseteq placed'
      /\ \A t \in Save \ {s} : pc'[t] = pc[t] /\ content'[t] = content[t]
      /\ pc[s] # "unborn" => content'[s] = content[s]
      /\ pc'[s] # "unborn" /\ pc[s] \notin Ended \ {"unborn"}
  BY <1>1, PcEffects DEF StoreInvariant
<1>3. pc[s] # "unborn"
  BY DEF SaveStep, Throw, Stage, MoveAside, SwapIn, Tidy, TidyFails, Catch, Restore, Discard,
         CleanupFails, Stop, Ended
<1> QED  BY <1>2, <1>3 DEF Ended, StoreInvariant, StoreTypeOK

\* A save begins with its content, and the others are as they were.
LEMMA BeginEffects ==
  ASSUME StoreInvariant, NEW s \in Save, NEW c \in Triple, Begin(s, c)
  PROVE  /\ pc'[s] # "unborn" /\ content'[s] = c /\ pc[s] = "unborn"
         /\ \A t \in Save \ {s} : pc'[t] = pc[t] /\ content'[t] = content[t]
         /\ placed' = placed
<1>1. AnyStep(s)  BY DEF AnyStep
<1>2. /\ pc'[s] # "unborn"
      /\ \A t \in Save \ {s} : pc'[t] = pc[t] /\ content'[t] = content[t]
  BY <1>1, PcEffects DEF StoreInvariant
<1> QED  BY <1>2 DEF Begin, StoreInvariant, StoreTypeOK

\* Every step of the composition keeps both halves, and calls and saves in step.
LEMMA AdminPreserves ==
  ASSUME AdminInvariant, [AdminNext]_adminVars
  PROVE  AdminInvariant'
<1> USE DEF AdminInvariant
<1>1. ASSUME EditorStep \/ (\E f \in Triple : TemplateArrives(f)),
             pc' = pc, content' = content, placed' = placed
      PROVE  CallsMatch' /\ SuccessIsStored'
  <2>1. /\ \A s \in Save : call'[s].open = call[s].open /\ call'[s].files = call[s].files
        /\ saveFeedback' = "success" => saveFeedback = "success" /\ seedFiles' = seedFiles
    BY <1>1, EditorStepEffects DEF EditorInvariant
  <2>2. CallsMatch'  BY <1>1, <2>1, AdminAssumption DEF CallsMatch
  <2>3. SuccessIsStored'
    BY <1>1, <2>1 DEF SuccessIsStored, StoreInvariant, StoreTypeOK
  <2> QED  BY <2>2, <2>3
<1>2. ASSUME UNCHANGED editorVars, pc' = pc, content' = content, placed' = placed
      PROVE  CallsMatch' /\ SuccessIsStored'
  BY <1>2 DEF editorVars, CallsMatch, SuccessIsStored
<1>3. CASE EditorStep /\ UNCHANGED <<storeVars, loads>>
  <2>1. EditorInvariant' /\ StoreInvariant'
    BY <1>3, EditorStepPreserves, UnchangedStore
  <2> QED  BY <1>1, <1>3, <2>1 DEF storeVars
<1>4. CASE SaveSteps /\ UNCHANGED <<editorVars, loads>>
  <2>1. PICK s \in Save : SaveStep(s)  BY <1>4 DEF SaveSteps
  <2>2. EditorInvariant' /\ StoreInvariant'
    BY <1>4, <2>1, UnchangedEditor, StorePreserves DEF AnyStep
  <2>3. CallsMatch' /\ SuccessIsStored'
    <3>1. call' = call /\ saveFeedback' = saveFeedback /\ seedFiles' = seedFiles
      BY <1>4 DEF editorVars
    <3>2. /\ \A t \in Save : pc[t] # "unborn" => pc'[t] # "unborn" /\ content'[t] = content[t]
          /\ \A t \in placed : pc[t] = "saved" => t \in placed' /\ pc'[t] = "saved"
      BY <2>1, StoreStepEffects
    <3>3. CallsMatch'  BY <3>1, <3>2 DEF CallsMatch
    <3>4. SuccessIsStored'
      BY <3>1, <3>2 DEF SuccessIsStored, StoreInvariant, StoreTypeOK
    <3> QED  BY <3>3, <3>4
  <2> QED  BY <2>2, <2>3
<1>5. CASE LoadStep /\ UNCHANGED <<editorVars, loads>>
  <2>1. EditorInvariant' /\ StoreInvariant'
    BY <1>5, UnchangedEditor, LoadPreserves
  <2>2. pc' = pc /\ content' = content /\ placed' = placed
    BY <1>5 DEF LoadStep, ReadFile, LoadFails
  <2> QED  BY <1>2, <1>5, <2>1, <2>2
<1>6. ASSUME NEW s \in Save \ Others, SaveClicked(s)
      PROVE  AdminInvariant'
  <2>1. workingFiles \in Triple /\ StartSave(s) /\ Begin(s, workingFiles)
    BY <1>6 DEF SaveClicked, EditorInvariant, EditorTypeOK
  <2>2. EditorInvariant' /\ StoreInvariant'
    BY <2>1, StartSavePreserves, StorePreserves DEF AnyStep
  <2>3. /\ pc'[s] # "unborn" /\ content'[s] = workingFiles
        /\ \A t \in Save \ {s} : pc'[t] = pc[t] /\ content'[t] = content[t]
    BY <2>1, BeginEffects
  <2>4. call'[s].files = workingFiles /\ (\A t \in Save \ {s} : call'[t] = call[t])
        /\ saveFeedback' = "pending"
    BY <2>1 DEF StartSave, EditorInvariant, EditorTypeOK
  <2>5. CallsMatch'  BY <2>3, <2>4, AdminAssumption DEF CallsMatch
  <2>6. SuccessIsStored'  BY <2>4 DEF SuccessIsStored
  <2> QED  BY <2>2, <2>5, <2>6
<1>7. ASSUME NEW s \in Save \ Others, SaveAnswered(s)
      PROVE  AdminInvariant'
  <2>1. FinishSave(s, pc[s] = "saved") /\ UNCHANGED storeVars
    BY <1>7 DEF SaveAnswered
  <2>2. EditorInvariant' /\ StoreInvariant'
    <3> DEFINE ok == pc[s] = "saved"
    <3>1. ok \in BOOLEAN /\ FinishSave(s, ok)  BY <2>1
    <3> HIDE DEF ok
    <3> QED  BY <2>1, <3>1, FinishSavePreserves, UnchangedStore
  <2>3. pc' = pc /\ content' = content /\ placed' = placed  BY <2>1 DEF storeVars
  <2>4. call[s].open /\ ~call'[s].open /\ (\A t \in Save \ {s} : call'[t] = call[t])
    BY <2>1 DEF FinishSave, EditorInvariant, EditorTypeOK, Call
  <2>5. CallsMatch'  BY <2>3, <2>4, AdminAssumption DEF CallsMatch
  <2>6. SuccessIsStored'
    <3>1. CASE call[s].current
      <4> SUFFICES ASSUME saveFeedback' = "success"
                   PROVE  s \in placed /\ pc[s] = "saved" /\ content[s] = seedFiles'
        BY <2>3, <2>4 DEF SuccessIsStored
      <4>1. pc[s] = "saved" /\ seedFiles' = call[s].files
        BY <2>1, <3>1 DEF FinishSave, SavedFiles
      <4> QED  BY <2>4, <4>1 DEF CallsMatch, StoreInvariant, Progress
    <3>2. CASE ~call[s].current
      <4>1. saveFeedback' = saveFeedback /\ seedFiles' = seedFiles
        BY <2>1, <3>2 DEF FinishSave
      <4> QED  BY <2>3, <2>4, <4>1 DEF SuccessIsStored, StoreInvariant, StoreTypeOK
    <3> QED  BY <3>1, <3>2
  <2> QED  BY <2>2, <2>5, <2>6
<1>8. ASSUME NEW s \in Others, NEW c \in Theirs, OtherSaves(s, c)
      PROVE  AdminInvariant'
  <2>1. s \in Save /\ c \in Triple /\ Begin(s, c) /\ UNCHANGED editorVars
    BY <1>8, AdminAssumption DEF OtherSaves
  <2>2. EditorInvariant' /\ StoreInvariant'
    BY <2>1, UnchangedEditor, StorePreserves DEF AnyStep
  <2>3. /\ pc[s] = "unborn" /\ placed' = placed
        /\ \A t \in Save \ {s} : pc'[t] = pc[t] /\ content'[t] = content[t]
    BY <2>1, BeginEffects
  <2>4. call' = call /\ saveFeedback' = saveFeedback /\ seedFiles' = seedFiles
    BY <2>1 DEF editorVars
  <2>5. CallsMatch'  BY <1>8, <2>3, <2>4 DEF CallsMatch
  <2>6. SuccessIsStored'
    BY <2>3, <2>4 DEF SuccessIsStored, StoreInvariant, StoreTypeOK
  <2> QED  BY <2>2, <2>5, <2>6
<1>9. CASE Loaded
  <2>1. copy \in Triple /\ LoadReturns
    BY <1>9, CopiedIsTriple DEF Loaded, LoadReturns, StoreInvariant, StoreTypeOK
  <2>2. StoreInvariant' /\ pc' = pc /\ content' = content /\ placed' = placed
    BY <2>1, LoadPreserves DEF LoadReturns
  <2>3. TemplateArrives(copy) \/ UNCHANGED editorVars
    BY <1>9 DEF Loaded
  <2> QED  BY <1>1, <1>2, <2>1, <2>2, <2>3, ArrivalPreserves, UnchangedEditor
<1>10. CASE UNCHANGED adminVars
  <2>1. UNCHANGED editorVars /\ UNCHANGED storeVars  BY <1>10 DEF adminVars
  <2>2. EditorInvariant' /\ StoreInvariant'
    BY <2>1, UnchangedEditor, UnchangedStore
  <2> QED  BY <1>2, <2>1, <2>2 DEF storeVars
<1> QED  BY <1>3, <1>4, <1>5, <1>6, <1>7, <1>8, <1>9, <1>10 DEF AdminNext
-----------------------------------------------------------------------------
\* Both halves hold in every behaviour.
LEMMA AdminInvariance == AdminSpec => []AdminInvariant
BY AdminStarts, AdminPreserves, PTL DEF AdminSpec

(***************************************************************************)
(* The state of the store and of the editor has its type.                  *)
(***************************************************************************)
THEOREM AdminTypeCorrect == AdminSpec => [](StoreTypeOK /\ EditorTypeOK)
<1>1. AdminInvariant => StoreTypeOK /\ EditorTypeOK
  BY DEF AdminInvariant, StoreInvariant, EditorInvariant
<1> QED  BY <1>1, AdminInvariance, PTL

(***************************************************************************)
(* A complete copy of the template is on the disk, live or in a backup,    *)
(* whichever calls of node:fs fail and wherever processes stop, but after  *)
(* a half-way removal whose leftovers were put back beside another save.   *)
(***************************************************************************)
THEOREM CopySurvives == AdminSpec => []CompleteCopySurvives
<1>1. StoreInvariant => CompleteCopySurvives
  <2> SUFFICES ASSUME StoreInvariant, ~TornPutBack
               PROVE  \E n \in {Live} \cup {Backup(s) : s \in Backups} : Exists(n) /\ Whole(tree[n])
    BY DEF CompleteCopySurvives
  <2>1. /\ Exists(Live) => Whole(tree[Live])
        /\ \A s \in Save \ torn : Exists(Backup(s)) => Whole(tree[Backup(s)])
    BY DEF StoreInvariant, CopiesAreWhole
  <2>2. CASE Exists(Live)
    BY <2>1, <2>2
  <2>3. CASE ~Exists(Live)
    <3>1. PICK s \in Backups \ torn : TRUE
      BY <2>3 DEF StoreInvariant, AbsentOnlyMidSwap
    <3> QED  BY <2>1, <3>1 DEF Backups
  <2> QED  BY <2>2, <2>3
<1> QED  BY <1>1, AdminInvariance, PTL DEF AdminInvariant

(***************************************************************************)
(* The template is missing from the list, absent or incomplete, only       *)
(* between the two renames of a save, after a save that ended there with   *)
(* its backup in full, or when the live directory is what was left of a    *)
(* backup that a save failed to remove and put back beside another.        *)
(***************************************************************************)
THEOREM UnlistedIsMidSwap == AdminSpec => []UnlistedOnlyMidSwap
<1>1. StoreInvariant => UnlistedOnlyMidSwap
  <2> SUFFICES ASSUME StoreInvariant, ~Listed
               PROVE  IF Exists(Live)
                      THEN TornPutBack
                      ELSE \E s \in Backups \ torn :
                             pc[s] \in {"swap", "catch", "restore", "stopped", "unrestored"}
    BY DEF UnlistedOnlyMidSwap
  <2>1. CASE Exists(Live)
    BY <2>1 DEF Listed, StoreInvariant, CopiesAreWhole
  <2>2. CASE ~Exists(Live)
    BY <2>2 DEF StoreInvariant, AbsentOnlyMidSwap
  <2> QED  BY <2>1, <2>2
<1> QED  BY <1>1, AdminInvariance, PTL DEF AdminInvariant

(***************************************************************************)
(* The live directory is swapped for a whole triple or put back, and a     *)
(* save replaces no live directory that has files.                         *)
(***************************************************************************)
THEOREM OnlyWholeSwaps == AdminSpec => SwapsAreWhole
<1> DEFINE Swapped ==
      Exists(Live)' /\ (Exists(Live) => tree'[Live] # tree[Live]) =>
        /\ Exists(Live) => DOMAIN tree[Live] = {}
        /\ \E s \in Save : \/ pc[s] = "swap" /\ tree'[Live] = content[s]
                           \/ /\ pc[s] = "restore" /\ tree'[Live] = tree[Backup(s)]
                              /\ Whole(tree'[Live]) \/ TornPutBack'
<1>1. ASSUME StoreInvariant, NEW s \in Save, AnyStep(s) PROVE Swapped
  <2> USE <1>1 DEF StoreInvariant
  <2>1. CASE MoveAside(s)  BY <2>1, MoveAsideEffects
  <2>2. CASE SwapIn(s)
    <3>1. tree[Staging(s)] = content[s]  BY <2>2, SwapInEffects DEF StagedWhole
    <3> QED  BY <2>2, <3>1, SwapInEffects
  <2>3. CASE Restore(s)
    <3>1. Whole(tree'[Live]) \/ TornPutBack'
      BY <2>3, RestoreEffects, CopiesStep DEF CopiesAreWhole, Whole, Exists, Live, File
    <3> QED  BY <2>3, <3>1, RestoreEffects
  <2>4. CASE Quiet(s)  BY <2>4 DEF Quiet
  <2> QED  BY <2>1, <2>2, <2>3, <2>4, StepCases
<1>2. ASSUME tree' = tree PROVE Swapped
  BY <1>2 DEF Exists, Live
<1>3. AdminInvariant /\ [AdminNext]_adminVars => [Swapped]_storeVars
  <2> SUFFICES ASSUME AdminInvariant, [AdminNext]_adminVars, tree' # tree
               PROVE  \E s \in Save : AnyStep(s)
    BY <1>1, <1>2 DEF AdminInvariant, Exists, Live
  <2>1. ASSUME NEW s \in Save, SaveClicked(s) PROVE AnyStep(s)
    BY <2>1 DEF SaveClicked, Begin, storeVars
  <2>2. ASSUME NEW s \in Others, NEW c \in Theirs, OtherSaves(s, c) PROVE AnyStep(s)
    BY <2>2, AdminAssumption DEF OtherSaves, AnyStep
  <2>3. ASSUME NEW s \in Save, SaveAnswered(s) PROVE FALSE
    BY <2>3 DEF SaveAnswered, storeVars
  <2>4. ~Loaded /\ ~LoadStep
    BY DEF Loaded, LoadReturns, LoadStep, ReadFile, LoadFails
  <2> QED
    BY <2>1, <2>2, <2>3, <2>4, AdminAssumption
       DEF AdminNext, SaveSteps, AnyStep, storeVars, adminVars
<1> QED  BY <1>3, AdminInvariance, PTL DEF AdminSpec, SwapsAreWhole

(***************************************************************************)
(* What onSave and onSendTest get was rendered without an error itself.    *)
(***************************************************************************)
THEOREM PreviewedLeaves == AdminSpec => []OnlyPreviewedLeaves
<1>1. AdminInvariant => OnlyPreviewedLeaves
  BY DEF AdminInvariant, EditorInvariant, SentArePreviewed, OnlyPreviewedLeaves
<1> QED  BY <1>1, AdminInvariance, PTL

(***************************************************************************)
(* A pending message has a call that will end it.                          *)
(***************************************************************************)
THEOREM PendingIsUnderWay == AdminSpec => []NoOrphanPending
<1>1. AdminInvariant => NoOrphanPending  BY DEF AdminInvariant, EditorInvariant
<1> QED  BY <1>1, AdminInvariance, PTL

(***************************************************************************)
(* The controls wait for a preview only while one is on its way, or after  *)
(* an echo of the object being edited.                                     *)
(***************************************************************************)
THEOREM WaitingEnds == AdminSpec => []WaitHasReason
<1>1. AdminInvariant => WaitHasReason  BY DEF AdminInvariant, EditorInvariant
<1> QED  BY <1>1, AdminInvariance, PTL

(***************************************************************************)
(* "Saved." is true of the store: what the editor takes for saved was put  *)
(* in place.                                                               *)
(***************************************************************************)
THEOREM SavedIsStored == AdminSpec => []SuccessIsStored
<1>1. AdminInvariant => SuccessIsStored  BY DEF AdminInvariant
<1> QED  BY <1>1, AdminInvariance, PTL
=============================================================================
