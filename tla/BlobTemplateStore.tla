------------------------- MODULE BlobTemplateStore -------------------------
(***************************************************************************)
(* The API's view of the published templates while runs of the publisher   *)
(* change them: BlobTemplateStore.load reads the html and the metadata of  *)
(* one template by two parallel downloads, BlobTemplateStore.list reads    *)
(* the listing and then the metadata of each listed key, one by one.       *)
(***************************************************************************)
EXTENDS Publisher

CONSTANTS
  Reader,     \* calls of load and list
  NoKey

ASSUME ReaderAssumption == NoKey \notin Template

VARIABLES
  doing,      \* what each call is at
  key,        \* the key of a load, or of the download that ended a list
  got,        \* blobs a load has downloaded
  listed,     \* keys a list has still to download
  items,      \* rows a list has so far
  result,     \* what the call returned
  basis,      \* history: settled, when the call began
  available   \* history: the keys with html and metadata when the call began

readerVars == <<doing, key, got, listed, items, result, basis, available>>
vars == <<publisherVars, readerVars>>

\* Both not_found and row_not_found are TEMPLATE_NOT_FOUND: of a load, and of a whole list.
Result == {"none", "loaded", "listed", "not_found", "row_not_found", "failed"}
Loadable(t) == store[t]["html"] # NoBlob /\ store[t]["metadata"] # NoBlob

RecordHistory(c) ==
  /\ basis' = [basis EXCEPT ![c] = settled]
  /\ available' = [available EXCEPT ![c] = {u \in Template : Loadable(u)}]

Finish(c, outcome) ==
  /\ doing' = [doing EXCEPT ![c] = "done"]
  /\ result' = [result EXCEPT ![c] = outcome]
-----------------------------------------------------------------------------
(***************************************************************************)
(* load: Promise.all over the two downloads, either may be served first.   *)
(***************************************************************************)
BeginLoad(c, t) ==
  /\ doing[c] = "idle"
  /\ doing' = [doing EXCEPT ![c] = "load"]
  /\ key' = [key EXCEPT ![c] = t]
  /\ RecordHistory(c)
  /\ UNCHANGED <<got, listed, items, result, publisherVars>>

\* Mutated form of OtherArrived: the first download to arrive is enough.
NoneAwaited(c, p) == TRUE
OtherArrived(c, p) == \A q \in {"html", "metadata"} \ {p} : got[c][q] # NoBlob

Download(c, p) ==
  /\ doing[c] = "load"
  /\ p \in {"html", "metadata"} /\ got[c][p] = NoBlob
  /\ got' = [got EXCEPT ![c][p] = store[key[c]][p]]
  /\ IF store[key[c]][p] = NoBlob THEN Finish(c, "not_found")
     ELSE IF OtherArrived(c, p) THEN Finish(c, "loaded")
     ELSE UNCHANGED <<doing, result>>
  /\ UNCHANGED <<key, listed, items, basis, available, publisherVars>>

(***************************************************************************)
(* list: the keys that have a metadata.json, then the metadata of each.    *)
(***************************************************************************)
\* Mutated form of ListedKeys: a key is listed as soon as it has any blob.
KeysWithAnyBlob == {t \in Template : PartsOf(t) # {}}
ListedKeys == {t \in Template : store[t]["metadata"] # NoBlob}

BeginList(c) ==
  /\ doing[c] = "idle"
  /\ doing' = [doing EXCEPT ![c] = "list"]
  /\ listed' = [listed EXCEPT ![c] = ListedKeys]
  /\ RecordHistory(c)
  /\ UNCHANGED <<key, got, items, result, publisherVars>>

Gone(t) == store[t]["metadata"] = NoBlob

DownloadRow(c) ==
  /\ doing[c] = "list" /\ listed[c] # {}
  /\ LET t == First(listed[c]) IN
       /\ listed' = [listed EXCEPT ![c] = @ \ {t}]
       /\ IF Gone(t)
          THEN /\ Finish(c, "row_not_found")
               /\ key' = [key EXCEPT ![c] = t]
               /\ UNCHANGED items
          ELSE /\ items' = [items EXCEPT ![c] = @ \cup {<<t, store[t]["metadata"]>>}]
               /\ UNCHANGED <<doing, result, key>>
  /\ UNCHANGED <<got, basis, available, publisherVars>>

ReturnItems(c) ==
  /\ doing[c] = "list" /\ listed[c] = {}
  /\ Finish(c, "listed")
  /\ UNCHANGED <<key, got, listed, items, basis, available, publisherVars>>

\* A storage request of the call fails for another reason than 404.
FailRead(c) ==
  /\ doing[c] \in {"load", "list"}
  /\ Finish(c, "failed")
  /\ UNCHANGED <<key, got, listed, items, basis, available, publisherVars>>

ReadStep(c) ==
  \/ \E t \in Template : BeginLoad(c, t)
  \/ \E p \in Part : Download(c, p)
  \/ BeginList(c) \/ DownloadRow(c) \/ ReturnItems(c)
  \/ FailRead(c)
-----------------------------------------------------------------------------
Init ==
  /\ PublisherInit
  /\ doing = [c \in Reader |-> "idle"]
  /\ key = [c \in Reader |-> NoKey]
  /\ got = [c \in Reader |-> [p \in Part |-> NoBlob]]
  /\ listed = [c \in Reader |-> {}]
  /\ items = [c \in Reader |-> {}]
  /\ result = [c \in Reader |-> "none"]
  /\ basis = [c \in Reader |-> {}]
  /\ available = [c \in Reader |-> {}]

Next ==
  \/ \E r \in Run : RunStep(r) /\ UNCHANGED readerVars
  \/ \E c \in Reader : ReadStep(c)

Spec == Init /\ [][Next]_vars
-----------------------------------------------------------------------------
\* Types of the publisher's and the readers' variables.
TypeOK ==
  /\ PublisherTypeOK
  /\ doing \in [Reader -> {"idle", "load", "list", "done"}]
  /\ key \in [Reader -> Template \cup {NoKey}]
  /\ got \in [Reader -> [Part -> Stored]]
  /\ listed \in [Reader -> SUBSET Template]
  /\ items \in [Reader -> SUBSET (Template \X Version)]
  /\ result \in [Reader -> Result]
  /\ basis \in [Reader -> SUBSET Run]
  /\ available \in [Reader -> SUBSET Template]

(***************************************************************************)
(* A run that ends with success leaves every template of its tree whole,   *)
(* in the content of that tree, whatever interrupted runs left before it   *)
(* ("re-running a fixed publish is safe and idempotent"); with --prune it  *)
(* leaves nothing else, the remains of an interrupted prune included.      *)
(* Asked of a run that no other was under way with, and until the next has *)
(* compiled its tree; runs before it may have overlapped.                  *)
(***************************************************************************)
SuccessfulRunSettles ==
  \A r \in settled :
    /\ \A t \in Compiled(r), p \in Part : store[t][p] = options[r].tree[t]
    /\ options[r].prune => \A t \in Template \ Compiled(r) : PartsOf(t) = {}

(***************************************************************************)
(* A load or list that begins after a successful run, and ends before the  *)
(* next run has compiled, serves exactly what that run published: no mixed *)
(* pair of html and metadata, no template missing from it.                 *)
(***************************************************************************)
ServesPublished(c, r) ==
  /\ result[c]' = "loaded" =>
       (key[c] \in Compiled(r) =>
          \A p \in {"html", "metadata"} : got[c][p]' = options[r].tree[key[c]])
  /\ result[c]' \in {"not_found", "row_not_found"} => key[c]' \notin Compiled(r)
  /\ result[c]' = "listed" =>
       \A t \in Compiled(r) : <<t, options[r].tree[t]>> \in items[c]'

ReadsServePublished ==
  [][\A c \in Reader : result[c]' # result[c] =>
       \A r \in basis[c] \cap settled : ServesPublished(c, r)]_vars

(***************************************************************************)
(* Uploading leaves no gap: a template that was whole when a call began is *)
(* reported missing (and so fails a whole list) only where a run with      *)
(* --prune whose tree lacks it, no dry run, has started by then; how far   *)
(* that run came is not asked.  Holds for overlapping runs as well.        *)
(***************************************************************************)
MissOnlyByPrune ==
  \A c \in Reader : result[c] \in {"not_found", "row_not_found"} =>
    \/ result[c] = "not_found" /\ key[c] \notin available[c]
    \/ \E r \in Run : /\ status[r] # "new"
                      /\ options[r].prune /\ ~options[r].dryRun
                      /\ key[c] \notin Compiled(r)

(***************************************************************************)
(* A run started with --dry-run changes no blob, nor does one that fails   *)
(* to compile; a run without --prune deletes none; and a run never deletes *)
(* a blob of a template it has itself compiled.                            *)
(***************************************************************************)
MayWrite(r, t) == Active(r) /\ ~options[r].dryRun /\ at[r] # "compile" /\ t \in Compiled(r)
MayDelete(r, t) == Active(r) /\ ~options[r].dryRun /\ options[r].prune /\ t \notin Compiled(r)

WritesAreAuthorised ==
  [][\A t \in Template, p \in Part : store[t][p]' # store[t][p] =>
       \E r \in Run : IF store[t][p]' = NoBlob THEN MayDelete(r, t) ELSE MayWrite(r, t)]_vars
=============================================================================
