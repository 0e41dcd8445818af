---------------------------- MODULE IndexLifecycle ----------------------------
(***************************************************************************)
(* The life of an index under the commands of moon (bin/moon.rs).          *)
(* Interactive: documents are added to memory (/a), saved (/s) as a new    *)
(* index or, when there is one, as its delta, and the delta is merged (/m) *)
(* into it. Batch (-file, -dir): index_path gives the files their IDs      *)
(* beforehand, and saves and merges them batch by batch; files that cannot *)
(* be read, or are empty, are passed over and leave their ID unused.       *)
(* The commands run the operations of IndexContext (AddDocument, Build,    *)
(* SaveIndex, Merge, LoadIndex, LoadDeltaIndex); the process may be        *)
(* killed, or leave with an error, between any two changes of the files.   *)
(*                                                                         *)
(* A document is a number; ids gives the ID AddDocument assigned to it,    *)
(* which is the ID its postings carry. A sequence of documents stands for  *)
(* an index with its DocData: record i belongs to the ID of the first      *)
(* record plus i (DocDataFirstDocId), and is 0 for an unused ID.           *)
(***************************************************************************)
EXTENDS Integers, Sequences, FiniteSetsExt, SequencesExt

CONSTANTS
  MaxDocs,      \* bound on the documents added
  MaxCrashes,   \* bound on the crashes
  MaxFiles,     \* bound on the files of a batch command, 0 for no such command
  BatchSize     \* the option -b

ASSUME LifecycleAssumption ==
  /\ MaxDocs \in Nat /\ MaxCrashes \in Nat
  /\ MaxFiles \in Nat /\ BatchSize \in Nat \ {0}

VARIABLES
  base, deltaFile,   \* the index file and the file at DeltaIndexPath
  tmp,               \* what Merge has written to its temporary file
  mem,               \* m_DocData with the tables of the context, <<>> for none
  built, loaded,     \* m_Built, m_LoadedFromDisk
  delta,             \* the DocData of m_DeltaContext, <<>> for none
  store,             \* m_Store, in the order of the IDs
  write,             \* m_WriteDocData with the other m_Write fields
  writeBuilt,        \* m_WriteBuilt
  ctl,               \* where the process is
  target,            \* the file SaveIndex writes
  job,               \* the batch command: files left, the next ID, its batch
  ids,               \* the ID each document was given
  crashes,           \* how often the process has crashed
  past               \* what has happened: "skip" a file was passed over,
                     \* "publish" a session has saved a delta

files   == <<base, deltaFile, tmp>>
context == <<mem, built, loaded, delta, store, write, writeBuilt>>
history == <<ids, crashes, past>>
vars    == <<files, context, ctl, target, job, history>>

(***************************************************************************)
(* none   missing, or without the magic number: a zeroed header, or a      *)
(*        write that was cut off in its first bytes                        *)
(* torn   the magic number is there, the rest is not: IsValidIndex accepts *)
(*        it and LoadIndex does not                                        *)
(***************************************************************************)
File == [kind : {"none", "torn", "index"}, docs : Seq(0 .. MaxDocs)]

NoFile        == [kind |-> "none", docs |-> <<>>]
TornFile      == [kind |-> "torn", docs |-> <<>>]

\* Fault: an index without documents is given the magic number.
IndexFileAlways(ds) == [kind |-> "index", docs |-> ds]

IndexFile(ds) == IF ds = <<>> THEN NoFile ELSE [kind |-> "index", docs |-> ds]
IsValidIndex(f) == f.kind # "none"
Readable(f)     == f.kind = "index"

\* No batch command is running; its next ID is not known before it has merged
\* the delta it found.
Unassigned == -1
NoJob == [left |-> 0, id |-> Unassigned, batch |-> <<>>]

Init ==
  /\ base = NoFile /\ deltaFile = NoFile /\ tmp = <<>>
  /\ mem = <<>> /\ built = FALSE /\ loaded = FALSE
  /\ delta = <<>> /\ store = <<>> /\ write = <<>> /\ writeBuilt = FALSE
  /\ ctl = "shell" /\ target = "base" /\ job = NoJob
  /\ ids = <<>> /\ crashes = 0 /\ past = {}

-----------------------------------------------------------------------------

FirstDocId(ds) == IF ds = <<>> THEN 0 ELSE ids[Head(ds)]     \* DocDataFirstDocId

\* Fault: the delta's documents are forgotten.
AllocateWithoutDelta ==
  Max({FirstDocId(mem) + Len(mem)} \cup {ids[d] + 1 : d \in ToSet(store)})

AllocateDocumentID ==
  Max({FirstDocId(mem) + Len(mem), FirstDocId(delta) + Len(delta)}
        \cup {ids[d] + 1 : d \in ToSet(store)})

\* LoadDeltaIndex: a file that cannot be read, or holds no document, is no delta.
LoadDeltaIndex == delta' = deltaFile.docs

\* LoadIndex of documents that can be read.
LoadIndex(docs) ==
  /\ mem' = docs /\ built' = TRUE /\ loaded' = TRUE
  /\ store' = <<>>
  /\ LoadDeltaIndex

\* Build of a context without documents, the only one it finds: moon calls it before
\* the first command of a vector session, and it keeps what a file has loaded.
Build == built' = TRUE /\ loaded' = FALSE

\* IndexContext::with_path: a failed load leaves an empty context.
Open ==
  /\ ctl = "shell"
  /\ ctl' = "ready"
  /\ write' = <<>> /\ writeBuilt' = FALSE
  /\ \/ Readable(base) /\ LoadIndex(base.docs)
     \/ /\ ~Readable(base)
        /\ mem' = <<>> /\ delta' = <<>> /\ store' = <<>>
        /\ Build \/ (built' = FALSE /\ loaded' = FALSE)
  /\ UNCHANGED <<files, target, job, history>>

\* Fault: the tables of the last save are taken for those of the store.
AddDocumentStillBuilt ==
  /\ ctl = "ready"
  /\ Len(ids) < MaxDocs
  /\ ids'   = Append(ids, AllocateDocumentID)
  /\ store' = Append(store, Len(ids) + 1)
  /\ built' = (built /\ loaded)
  /\ UNCHANGED <<files, mem, loaded, delta, write, writeBuilt, ctl, target, job, crashes, past>>

\* /a: AddDocument with an allocated ID.
AddDocument ==
  /\ ctl = "ready"
  /\ Len(ids) < MaxDocs
  /\ ids'   = Append(ids, AllocateDocumentID)
  /\ store' = Append(store, Len(ids) + 1)
  /\ writeBuilt' = FALSE
  /\ built' = (built /\ loaded)
  /\ UNCHANGED <<files, mem, loaded, delta, write, ctl, target, job, crashes, past>>

-----------------------------------------------------------------------------
(* /s: SaveIndex, to the delta path when the index is valid *)

\* Up to File::create and the first writes of IndexSerializer::Save.
BeginSave ==
  /\ ctl = "ready"
  /\ target' = IF IsValidIndex(base) THEN "delta" ELSE "base"
  /\ write' = IF writeBuilt \/ store = <<>> THEN write ELSE store
  /\ writeBuilt' = TRUE
  /\ IF target' = "base" /\ loaded
     THEN mem' = <<>> /\ built' = FALSE /\ loaded' = FALSE
     ELSE UNCHANGED <<mem, built, loaded>>
  /\ \E partial \in {NoFile} \cup (IF write' = <<>> THEN {} ELSE {TornFile}) :
       IF target' = "base" THEN base' = partial /\ UNCHANGED deltaFile
                           ELSE deltaFile' = partial /\ UNCHANGED base
  /\ ctl' = "saving"
  /\ UNCHANGED <<tmp, delta, store, job, history>>

\* The delta is complete and becomes m_DeltaContext; the store keeps its documents.
EndSaveDelta ==
  /\ ctl = "saving"
  /\ target = "delta"
  /\ deltaFile' = IndexFile(write)
  /\ delta' = write
  /\ write' = <<>> /\ writeBuilt' = FALSE
  /\ past' = past \cup {"publish"}
  /\ ctl' = "ready"
  /\ UNCHANGED <<base, tmp, mem, built, loaded, store, target, job, ids, crashes>>

\* The index is complete and moon loads it; loading an empty one fails, and moon leaves.
EndSaveBase ==
  /\ ctl = "saving"
  /\ target = "base"
  /\ base' = IndexFile(write)
  /\ UNCHANGED deltaFile
  /\ \/ write # <<>> /\ LoadIndex(write) /\ ctl' = "ready"
     \/ write = <<>> /\ ctl' = "shell" /\ UNCHANGED <<mem, built, loaded, delta, store>>
  /\ UNCHANGED <<tmp, write, writeBuilt, target, job, history>>

-----------------------------------------------------------------------------
(* Merge, of /m and of a batch *)

\* /m does nothing without a delta; a batch merges the one it has put there.
MergeCalled == (ctl = "ready" /\ delta # <<>>) \/ ctl = "merge"

\* Fault: the delta is not required to follow the index.
MergeAnyDelta == built /\ mem # <<>> /\ delta # <<>>

MergeAllowed == built /\ mem # <<>> /\ delta # <<>> /\ FirstDocId(delta) = Len(mem)

\* Fault: the delta's records come first.
WriteMergedDeltaFirst ==
  /\ MergeCalled
  /\ MergeAllowed
  /\ tmp' = delta \o mem
  /\ mem' = <<>> /\ built' = FALSE /\ loaded' = FALSE /\ delta' = <<>>
  /\ ctl' = "merged"
  /\ UNCHANGED <<base, deltaFile, store, write, writeBuilt, target, job, history>>

\* Merge, up to the complete temporary file and ResetLoadedRuntimeState.
WriteMerged ==
  /\ MergeCalled
  /\ MergeAllowed
  /\ tmp' = mem \o delta
  /\ mem' = <<>> /\ built' = FALSE /\ loaded' = FALSE /\ delta' = <<>>
  /\ ctl' = "merged"
  /\ UNCHANGED <<base, deltaFile, store, write, writeBuilt, target, job, history>>

\* Merge returns an error and moon leaves.
MergeFails ==
  /\ MergeCalled
  /\ ~MergeAllowed
  /\ ctl' = "shell" /\ job' = NoJob
  /\ UNCHANGED <<files, context, target, history>>

RemoveOutput ==
  /\ ctl = "merged"
  /\ base' = NoFile
  /\ ctl' = "removed"
  /\ UNCHANGED <<deltaFile, tmp, context, target, job, history>>

RenameMerged ==
  /\ ctl = "removed"
  /\ base' = IndexFile(tmp)
  /\ tmp' = <<>>
  /\ ctl' = "renamed"
  /\ UNCHANGED <<deltaFile, context, target, job, history>>

\* The interactive session loads the index again, a batch command goes on.
RemoveDelta ==
  /\ ctl = "renamed"
  /\ deltaFile' = NoFile
  /\ ctl' = IF job = NoJob THEN "cleaned" ELSE "batch"
  /\ UNCHANGED <<base, tmp, context, target, job, history>>

Reload ==
  /\ ctl = "cleaned"
  /\ LoadIndex(base.docs)
  /\ ctl' = "ready"
  /\ UNCHANGED <<files, write, writeBuilt, target, job, history>>

-----------------------------------------------------------------------------

(* index_path *)

\* IndexContext::with_path of a new context.
LoadBoth(dfile) ==
  /\ store' = <<>> /\ write' = <<>> /\ writeBuilt' = FALSE
  /\ mem' = base.docs /\ built' = Readable(base) /\ loaded' = Readable(base)
  /\ delta' = IF Readable(base) THEN dfile.docs ELSE <<>>

\* The command is called with some files; a delta left over is merged first.
BeginBatches ==
  /\ ctl = "shell"
  /\ \E n \in 1 .. MaxFiles :
       /\ Len(ids) + n <= MaxDocs
       /\ job' = [NoJob EXCEPT !.left = n]
  /\ IF IsValidIndex(base) /\ IsValidIndex(deltaFile)
     THEN ctl' = "merge" /\ LoadBoth(deltaFile)
     ELSE ctl' = "batch" /\ UNCHANGED context
  /\ UNCHANGED <<files, target, history>>

\* Fault: the IDs do not go on after those of the index.
NextIdFromZero == 0

NextId == IF Readable(base) THEN FirstDocId(base.docs) + Len(base.docs) ELSE 0

AssignIds ==
  /\ ctl = "batch" /\ job.id = Unassigned
  /\ job' = [job EXCEPT !.id = NextId]
  /\ UNCHANGED <<files, context, ctl, target, history>>

\* The index of the documents that follow those of ids and have the IDs in read: a
\* record for every ID from the first to the last, 0 for an ID no document has.
BatchRecords(read) ==
  [i \in 1 .. read[Len(read)] - read[1] + 1 |->
     IF \E k \in DOMAIN read : read[k] = read[1] + i - 1
     THEN Len(ids) + CHOOSE k \in DOMAIN read : read[k] = read[1] + i - 1
     ELSE 0]

\* The next batch: the files with a text have the IDs in read, which follow the order
\* of the files; they are saved to a file of their own. Without one the command fails.
AddBatch ==
  /\ ctl = "batch" /\ job.id # Unassigned /\ job.left > 0
  /\ LET size == IF BatchSize < job.left THEN BatchSize ELSE job.left
     IN  \E n \in 0 .. size : \E read \in [1 .. n -> job.id .. job.id + size - 1] :
           /\ \A i, j \in 1 .. n : i < j => read[i] < read[j]
           /\ ids' = ids \o read
           /\ past' = IF read = [i \in 1 .. size |-> job.id + i - 1] THEN past
                      ELSE past \cup {"skip"}
           /\ IF n = 0 THEN ctl' = "shell" /\ job' = NoJob
              ELSE /\ ctl' = "place"
                   /\ job' = [left |-> job.left - size, id |-> job.id + size,
                              batch |-> BatchRecords(read)]
  /\ UNCHANGED <<files, context, target, crashes>>

\* The batch becomes the index, or the old delta is removed to make room.
PlaceBatch ==
  /\ ctl = "place"
  /\ IF IsValidIndex(base)
     THEN deltaFile' = NoFile /\ ctl' = "cleared" /\ UNCHANGED <<base, job>>
     ELSE /\ base' = IndexFile(job.batch) /\ ctl' = "batch"
          /\ job' = [job EXCEPT !.batch = <<>>] /\ UNCHANGED deltaFile
  /\ UNCHANGED <<tmp, context, target, history>>

\* The batch becomes the delta, to be merged.
RenameBatch ==
  /\ ctl = "cleared"
  /\ deltaFile' = IndexFile(job.batch) /\ job' = [job EXCEPT !.batch = <<>>]
  /\ LoadBoth(deltaFile')
  /\ ctl' = "merge"
  /\ UNCHANGED <<base, tmp, target, history>>

EndBatches ==
  /\ ctl = "batch" /\ job.id # Unassigned /\ job.left = 0
  /\ ctl' = "shell" /\ job' = NoJob
  /\ UNCHANGED <<files, context, target, history>>

-----------------------------------------------------------------------------

Quit ==
  /\ ctl = "ready"
  /\ ctl' = "shell"
  /\ UNCHANGED <<files, context, target, job, history>>

\* A kill, a power failure, or an I/O error that makes moon leave.
Crash ==
  /\ ctl # "shell"
  /\ crashes < MaxCrashes
  /\ crashes' = crashes + 1
  /\ ctl' = "shell" /\ job' = NoJob
  /\ UNCHANGED <<files, context, target, ids, past>>

Next ==
  \/ Open \/ AddDocument \/ BeginSave \/ EndSaveDelta \/ EndSaveBase
  \/ WriteMerged \/ MergeFails \/ RemoveOutput \/ RenameMerged \/ RemoveDelta \/ Reload
  \/ BeginBatches \/ AssignIds \/ AddBatch \/ PlaceBatch \/ RenameBatch \/ EndBatches
  \/ Quit \/ Crash

Spec == Init /\ [][Next]_vars

-----------------------------------------------------------------------------
(* Properties *)

\* The types of the files and of the context; a readable index has documents.
TypeOK ==
  /\ \A f \in {base, deltaFile} : f \in File /\ (f.kind = "index" <=> f.docs # <<>>)
  /\ \A ds \in {tmp, mem, delta} : ds \in Seq(0 .. MaxDocs)
  /\ job \in [left : Nat, id : Nat \cup {Unassigned}, batch : Seq(0 .. MaxDocs)]
  /\ \A ds \in {store, write} : ds \in Seq(1 .. MaxDocs)
  /\ built \in BOOLEAN /\ loaded \in BOOLEAN /\ writeBuilt \in BOOLEAN
  /\ ctl \in {"shell", "ready", "saving", "merge", "merged", "removed", "renamed", "cleaned",
              "batch", "place", "cleared"}
  /\ target \in {"base", "delta"} /\ past \subseteq {"skip", "publish"}
  /\ ids \in Seq(Nat) /\ Len(ids) <= MaxDocs
  /\ crashes \in 0 .. MaxCrashes

\* The record of a document is where its ID says, and the first is in use.
Positional(ds) ==
  ds # <<>> => /\ Head(ds) # 0
               /\ \A i \in DOMAIN ds : ds[i] # 0 => ids[ds[i]] = FirstDocId(ds) + i - 1

\* Whatever is saved, merged, lost or left behind by a crash, the DocData of every index
\* agrees with its postings: GetDocDataEntry(id) finds the document that has this ID.
\* Merge concatenates DocData by position and compares the start of the delta with the
\* number of records of the index, not with the end of its IDs: an index whose first file
\* was passed over can take a delta that a crash has left from an older index.
IdsStayPositional ==
  (crashes > 0 => "skip" \notin past) =>
  \A ds \in {base.docs, deltaFile.docs, tmp, mem, delta, store, write, job.batch} : Positional(ds)

Visible == (ToSet(mem) \cup ToSet(delta) \cup ToSet(store)) \ {0}

\* Without a crash, no two documents a session can see, or has yet to save, share an ID.
IdsUnique ==
  ctl = "ready" /\ crashes = 0 => \A d, e \in Visible : ids[d] = ids[e] => d = e

\* The documents of the index; between the removal and the rename, those of its successor.
Indexed == IF ctl = "removed" THEN tmp ELSE base.docs

\* Without a crash, documents that reached the index file stay in it, in their place,
\* whatever is added, saved and merged in this session and in later ones, and by batches
\* with files that cannot be read.
IndexKeepsDocuments == [][crashes' = 0 => IsPrefix(Indexed, Indexed')]_vars

\* When a save ends, every addition that was pending is in the file it has written: the
\* tables kept from an earlier save (m_WriteBuilt) never stand for a store that has grown.
SaveTakesPending ==
  [][ctl = "saving" /\ ctl' = "ready" =>
       ToSet(store) \subseteq ToSet(base'.docs) \cup ToSet(deltaFile'.docs)]_vars

\* A batch command whose files can all be read does not fail: unless a session has
\* published a delta, or the process was killed before, each batch follows the index.
BatchesMerge ==
  [][ctl = "merge" /\ ctl' = "shell" => crashes' > 0 \/ past # {}]_vars

\* "/m  Merge delta and reload": a delta that /s has published can be merged.
PublishedDeltaMerges == ctl = "ready" /\ delta # <<>> => MergeAllowed
=============================================================================
