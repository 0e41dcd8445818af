------------------------- MODULE IndexLifecycleProofs -------------------------
(***************************************************************************)
(* Proofs about IndexLifecycle: the inductive invariant of the files, the  *)
(* context and the batch command, and the types and properties that        *)
(* follow from it, for every number of documents, crashes and files.       *)
(***************************************************************************)
EXTENDS IndexLifecycle, SequenceLemmas

\* The first ID of an index, the ID after its last record, and the place of its records,
\* with the IDs as a parameter.
First(I, ds) == IF ds = <<>> THEN 0 ELSE I[Head(ds)]
End(I, ds)   == First(I, ds) + Len(ds)
Placed(I, ds) ==
  ds # <<>> => /\ Head(ds) # 0
               /\ \A i \in DOMAIN ds : ds[i] # 0 => I[ds[i]] = First(I, ds) + i - 1

\* The documents of d come after those of b, or d is a copy of the start of b, which is
\* an index that a session has created.
Copies(I, b, d)  == First(I, b) = 0 /\ IsPrefix(d, b)
Follows(I, b, d) == b = <<>> \/ d = <<>> \/ First(I, d) >= End(I, b) \/ Copies(I, b, d)

Seqs == {base.docs, deltaFile.docs, tmp, mem, delta, store, write, job.batch}

\* The records of ds are 0 or documents of I, and the first is a document.
Fits(I, ds) ==
  /\ ds \in Seq(0 .. MaxDocs)
  /\ \A i \in DOMAIN ds : ds[i] \in 0 .. Len(I)
  /\ ds # <<>> => Head(ds) # 0

Known == \A ds \in Seqs : Fits(ids, ds)

NoSkip == "skip" \notin past

\* The context is that of the index file.
SessionInv ==
  /\ ctl \in {"ready", "saving", "merge"} => mem = base.docs
  /\ ctl = "merge" => base.kind # "none" /\ (built <=> base.kind = "index") /\ write = <<>>
  /\ ctl = "saving" /\ target = "base" => base.docs = <<>> /\ delta = <<>> /\ First(ids, write) = 0
  /\ ctl = "saving" /\ target = "delta" => base.kind # "none"
  /\ ctl = "ready" /\ base.kind = "none" => delta = <<>> /\ write = <<>> /\ First(ids, store) = 0
  /\ ctl = "merged" => IsPrefix(base.docs, tmp)
  /\ ctl \in {"merged", "removed"} => tmp # <<>>
  /\ ctl \in {"renamed", "cleaned"} => base.kind = "index"

\* What the write tables hold: the store, or the index they were saved to.
WriteInv ==
  /\ ctl = "ready" /\ writeBuilt => store = <<>>
  /\ ctl = "saving" => store = <<>> \/ write = store
  /\ ctl = "ready" => write = <<>> \/ Copies(ids, mem, write)
  /\ ctl \in {"merged", "removed"} => write = <<>> \/ Copies(ids, tmp, write)
  /\ ctl \in {"renamed", "cleaned"} => write = <<>> \/ Copies(ids, base.docs, write)
  /\ ctl = "saving" => Follows(ids, mem, write)

\* The store's documents follow the index, and follow or extend the delta.
StoreInv ==
  /\ Placed(ids, store)
  /\ ctl \in {"ready", "saving"} /\ store # <<>> =>
       /\ First(ids, store) >= End(ids, mem)
       /\ First(ids, store) >= End(ids, delta) \/ IsPrefix(delta, store)

\* s ends where the batch command goes on, or before it when files were passed over.
EndsAtJob(s) == End(ids, s) <= job.id /\ (NoSkip => End(ids, s) = job.id)

\* d starts where b ends, or after it when files were passed over.
StartsAt(b, d) ==
  /\ d # <<>>
  /\ First(ids, d) >= End(ids, b)
  /\ NoSkip => First(ids, d) = End(ids, b)

\* The IDs of the batch command go on after those of the index.
JobInv ==
  /\ ctl \in {"shell", "ready", "saving", "cleaned"} => job = NoJob
  /\ Len(ids) + job.left <= MaxDocs
  /\ ctl \in {"place", "cleared"} =>
       job.id # Unassigned /\ StartsAt(base.docs, job.batch) /\ EndsAtJob(job.batch)
  /\ ctl = "cleared" => base.kind # "none"
  /\ job.id # Unassigned =>
       /\ ctl \in {"batch", "renamed"} => EndsAtJob(base.docs)
       /\ ctl = "merge" /\ base.kind = "index" => StartsAt(mem, delta) /\ EndsAtJob(delta)
       /\ ctl \in {"merged", "removed"} => EndsAtJob(tmp)

\* Without a file passed over, an index starts with ID 0.
ZeroInv == NoSkip => First(ids, base.docs) = 0 /\ First(ids, tmp) = 0

\* Without a crash, the file at the delta path belongs to the index file.
CrashFreeInv ==
  crashes = 0 =>
  /\ base.kind = "torn" => ctl = "saving" /\ target = "base"
  /\ base.docs = <<>> /\ ctl # "removed" => deltaFile.docs = <<>>
  /\ ctl # "renamed" => Follows(ids, base.docs, deltaFile.docs)
  /\ ctl \in {"ready", "saving", "merge"} => Follows(ids, mem, delta)
  /\ past = {} /\ (ctl = "saving" => target = "base")
       /\ ctl \notin {"merge", "merged", "removed", "renamed"} => deltaFile.kind = "none"
  /\ past = {} /\ ctl = "merge" => job.id # Unassigned

PlacedInv == (crashes > 0 => NoSkip) => \A ds \in Seqs : Placed(ids, ds)

LifeInv ==
  /\ TypeOK /\ Known /\ SessionInv /\ WriteInv /\ StoreInv
  /\ JobInv /\ ZeroInv /\ CrashFreeInv /\ PlacedInv

-----------------------------------------------------------------------------
(* First, End, Placed *)

LEMMA FirstDocIdIs == \A ds : FirstDocId(ds) = First(ids, ds)
  BY DEF FirstDocId, First

LEMMA EmptyFirst ==
  ASSUME NEW I
  PROVE  /\ First(I, <<>>) = 0 /\ End(I, <<>>) = 0 /\ Placed(I, <<>>)
         /\ Fits(I, <<>>)
  BY DEF First, End, Placed, Fits

LEMMA FirstTypes ==
  ASSUME NEW I \in Seq(Nat), NEW ds, Fits(I, ds)
  PROVE  /\ First(I, ds) \in Nat /\ Len(ds) \in Nat
         /\ End(I, ds) \in Nat /\ End(I, ds) = First(I, ds) + Len(ds)
         /\ ds # <<>> => Len(ds) > 0
<1>1. Len(ds) \in Nat /\ (ds # <<>> => Len(ds) > 0)
  BY DEF Fits
<1>2. First(I, ds) \in Nat
  <2>1. CASE ds = <<>>
    BY <2>1 DEF First
  <2>2. CASE ds # <<>>
    <3>1. Head(ds) = ds[1] /\ 1 \in DOMAIN ds
      BY <2>2 DEF Fits
    <3>2. Head(ds) \in 1 .. Len(I)
      BY <2>2, <3>1 DEF Fits
    <3>3. I[Head(ds)] \in Nat
      BY <3>2
    <3>4. QED
      BY <2>2, <3>3 DEF First
  <2>3. QED
    BY <2>1, <2>2
<1>3. QED
  BY <1>1, <1>2 DEF End

\* More IDs do not change what is known of the documents there are.
LEMMA GrowKeeps ==
  ASSUME NEW I \in Seq(Nat), NEW J \in Seq(Nat), Len(I) <= Len(J),
         \A k \in 1 .. Len(I) : J[k] = I[k], NEW ds, Fits(I, ds)
  PROVE  /\ Fits(J, ds) /\ First(J, ds) = First(I, ds) /\ End(J, ds) = End(I, ds)
         /\ Placed(I, ds) => Placed(J, ds)
<1>1. Fits(J, ds)
  BY DEF Fits
<1>2. First(J, ds) = First(I, ds)
  <2>1. CASE ds = <<>>
    BY <2>1 DEF First
  <2>2. CASE ds # <<>>
    <3>1. Head(ds) = ds[1] /\ 1 \in DOMAIN ds
      BY <2>2 DEF Fits
    <3>2. Head(ds) \in 1 .. Len(I)
      BY <2>2, <3>1 DEF Fits
    <3>3. QED
      BY <2>2, <3>2 DEF First
  <2>3. QED
    BY <2>1, <2>2
<1>3. ASSUME Placed(I, ds) PROVE Placed(J, ds)
  <2>1. \A i \in DOMAIN ds : ds[i] # 0 => ds[i] \in 1 .. Len(I)
    BY DEF Fits
  <2>2. QED
    BY <1>2, <1>3, <2>1 DEF Placed
<1>4. QED
  BY <1>1, <1>2, <1>3 DEF End

LEMMA ConcatFits ==
  ASSUME NEW I \in Seq(Nat), NEW b, NEW d, Fits(I, b), Fits(I, d), b # <<>>
  PROVE  /\ Fits(I, b \o d) /\ b \o d # <<>> /\ Len(b \o d) = Len(b) + Len(d)
         /\ First(I, b \o d) = First(I, b)
         /\ Placed(I, b) /\ Placed(I, d) /\ First(I, d) = First(I, b) + Len(b) => Placed(I, b \o d)
<1>1. /\ b \in Seq(0 .. MaxDocs) /\ d \in Seq(0 .. MaxDocs) /\ b \o d \in Seq(0 .. MaxDocs)
      /\ Len(b \o d) = Len(b) + Len(d) /\ Len(b) \in Nat /\ Len(d) \in Nat /\ Len(b) > 0
      /\ DOMAIN b = 1 .. Len(b) /\ DOMAIN d = 1 .. Len(d) /\ DOMAIN (b \o d) = 1 .. Len(b) + Len(d)
  BY DEF Fits
<1>2. b \o d # <<>> /\ Head(b \o d) = Head(b) /\ Head(b) = b[1] /\ Head(b) # 0
  BY <1>1 DEF Fits
<1>3. \A i \in 1 .. Len(b) + Len(d) :
         \/ i \in 1 .. Len(b) /\ (b \o d)[i] = b[i]
         \/ i - Len(b) \in 1 .. Len(d) /\ (b \o d)[i] = d[i - Len(b)]
  BY <1>1
<1>4. Fits(I, b \o d)
  BY <1>1, <1>2, <1>3 DEF Fits
<1>5. First(I, b \o d) = First(I, b)
  BY <1>2 DEF First
<1>6. ASSUME Placed(I, b), Placed(I, d), First(I, d) = First(I, b) + Len(b)
      PROVE  Placed(I, b \o d)
  <2>1. ASSUME NEW i \in 1 .. Len(b) + Len(d), (b \o d)[i] # 0
        PROVE  I[(b \o d)[i]] = First(I, b) + i - 1
    <3>1. CASE i \in 1 .. Len(b) /\ (b \o d)[i] = b[i]
      BY <1>1, <1>6, <2>1, <3>1 DEF Placed
    <3>2. CASE i - Len(b) \in 1 .. Len(d) /\ (b \o d)[i] = d[i - Len(b)]
      <4>1. d # <<>>
        BY <1>1, <3>2
      <4>2. I[d[i - Len(b)]] = First(I, d) + (i - Len(b)) - 1
        BY <1>1, <1>6, <2>1, <3>2, <4>1 DEF Placed
      <4>3. First(I, b) \in Nat
        BY FirstTypes
      <4>4. QED
        BY <1>1, <1>6, <3>2, <4>2, <4>3
    <3>3. QED
      BY <1>3, <3>1, <3>2
  <2>2. QED
    BY <1>1, <1>2, <1>5, <2>1 DEF Placed
<1>7. QED
  BY <1>1, <1>2, <1>4, <1>5, <1>6

LEMMA PrefixFirst ==
  ASSUME NEW I, NEW b, NEW d, Fits(I, b), Fits(I, d), IsPrefix(d, b), d # <<>>
  PROVE  b # <<>> /\ First(I, d) = First(I, b) /\ Len(d) <= Len(b)
<1>1. b \in Seq(0 .. MaxDocs) /\ d \in Seq(0 .. MaxDocs)
  BY DEF Fits
<1>2. b # <<>> /\ Head(d) = Head(b) /\ Len(d) <= Len(b)
  BY <1>1, PrefixFacts, PrefixMeans
<1>3. QED
  BY <1>2 DEF First

-----------------------------------------------------------------------------
(* Files, and steps that only move documents *)

LEMMA FileFacts ==
  /\ NoFile \in File /\ NoFile.kind = "none" /\ NoFile.docs = <<>>
  /\ TornFile \in File /\ TornFile.kind = "torn" /\ TornFile.docs = <<>>
  /\ \A ds \in Seq(0 .. MaxDocs) :
       /\ IndexFile(ds) \in File /\ IndexFile(ds).docs = ds
       /\ ds = <<>> => IndexFile(ds).kind = "none"
       /\ ds # <<>> => IndexFile(ds).kind = "index"
<1>1. <<>> \in Seq(0 .. MaxDocs)
  BY SeqTypes
<1>2. \A k \in {"none", "torn", "index"}, ds \in Seq(0 .. MaxDocs) :
        /\ [kind |-> k, docs |-> ds] \in File
        /\ [kind |-> k, docs |-> ds].kind = k /\ [kind |-> k, docs |-> ds].docs = ds
  BY DEF File
<1>3. /\ NoFile \in File /\ NoFile.kind = "none" /\ NoFile.docs = <<>>
      /\ TornFile \in File /\ TornFile.kind = "torn" /\ TornFile.docs = <<>>
  BY <1>1, <1>2 DEF NoFile, TornFile
<1>4. ASSUME NEW ds \in Seq(0 .. MaxDocs)
      PROVE  /\ IndexFile(ds) \in File /\ IndexFile(ds).docs = ds
             /\ ds = <<>> => IndexFile(ds).kind = "none"
             /\ ds # <<>> => IndexFile(ds).kind = "index"
  <2>1. CASE ds = <<>>
    BY <1>3, <2>1 DEF IndexFile
  <2>2. CASE ds # <<>>
    BY <1>2, <2>2 DEF IndexFile
  <2>3. QED
    BY <2>1, <2>2
<1>5. QED
  BY <1>3, <1>4

JobType == [left : Nat, id : Nat \cup {Unassigned}, batch : Seq(0 .. MaxDocs)]

LEMMA JobFacts ==
  /\ NoJob \in JobType /\ NoJob.left = 0 /\ NoJob.id = Unassigned /\ NoJob.batch = <<>>
  /\ \A n \in Nat :
       /\ [NoJob EXCEPT !.left = n] \in JobType /\ [NoJob EXCEPT !.left = n].left = n
       /\ [NoJob EXCEPT !.left = n].id = Unassigned /\ [NoJob EXCEPT !.left = n].batch = <<>>
  /\ \A j \in JobType :
       /\ j.left \in Nat /\ j.id \in Nat \cup {Unassigned} /\ j.batch \in Seq(0 .. MaxDocs)
       /\ \A n \in Nat : /\ [j EXCEPT !.id = n] \in JobType /\ [j EXCEPT !.id = n].left = j.left
                         /\ [j EXCEPT !.id = n].id = n /\ [j EXCEPT !.id = n].batch = j.batch
       /\ [j EXCEPT !.batch = <<>>] \in JobType /\ [j EXCEPT !.batch = <<>>].left = j.left
       /\ [j EXCEPT !.batch = <<>>].id = j.id /\ [j EXCEPT !.batch = <<>>].batch = <<>>
<1>1. <<>> \in Seq(0 .. MaxDocs)
  BY SeqTypes
<1>2. NoJob \in JobType /\ NoJob.left = 0 /\ NoJob.id = Unassigned /\ NoJob.batch = <<>>
  BY <1>1 DEF NoJob, JobType
<1>3. ASSUME NEW j \in JobType
      PROVE  j.left \in Nat /\ j.id \in Nat \cup {Unassigned} /\ j.batch \in Seq(0 .. MaxDocs)
  BY DEF JobType
<1>4. ASSUME NEW j \in JobType, NEW n \in Nat
      PROVE  /\ [j EXCEPT !.id = n] \in JobType /\ [j EXCEPT !.id = n].left = j.left
             /\ [j EXCEPT !.id = n].id = n /\ [j EXCEPT !.id = n].batch = j.batch
  BY DEF JobType
<1>5. ASSUME NEW j \in JobType
      PROVE  /\ [j EXCEPT !.batch = <<>>] \in JobType /\ [j EXCEPT !.batch = <<>>].left = j.left
             /\ [j EXCEPT !.batch = <<>>].id = j.id /\ [j EXCEPT !.batch = <<>>].batch = <<>>
  BY <1>1 DEF JobType
<1>6. ASSUME NEW n \in Nat
      PROVE  /\ [NoJob EXCEPT !.left = n] \in JobType /\ [NoJob EXCEPT !.left = n].left = n
             /\ [NoJob EXCEPT !.left = n].id = Unassigned /\ [NoJob EXCEPT !.left = n].batch = <<>>
  BY <1>1 DEF NoJob, JobType
<1>7. QED
  BY <1>2, <1>3, <1>4, <1>5, <1>6

\* The types by kind of variable: each kind is for one of the provers.
FileOK(f) == f \in File /\ (f.kind = "index" <=> f.docs # <<>>)
FileTypes == FileOK(base) /\ FileOK(deltaFile)
FlagTypes == built \in BOOLEAN /\ loaded \in BOOLEAN /\ writeBuilt \in BOOLEAN
ControlTypes ==
  /\ ctl \in {"shell", "ready", "saving", "merge", "merged", "removed", "renamed", "cleaned",
              "batch", "place", "cleared"}
  /\ target \in {"base", "delta"} /\ past \subseteq {"skip", "publish"}
StoreTypes == store \in Seq(1 .. MaxDocs) /\ write \in Seq(1 .. MaxDocs)
CountTypes == ids \in Seq(Nat) /\ Len(ids) <= MaxDocs /\ crashes \in 0 .. MaxCrashes
SeqTypesOK == tmp \in Seq(0 .. MaxDocs) /\ mem \in Seq(0 .. MaxDocs) /\ delta \in Seq(0 .. MaxDocs)

LEMMA TypeParts ==
  TypeOK <=> /\ FileTypes /\ FlagTypes /\ ControlTypes /\ StoreTypes /\ CountTypes /\ SeqTypesOK
             /\ job \in JobType
  BY DEF TypeOK, FileOK, FileTypes, FlagTypes, ControlTypes, StoreTypes, CountTypes, SeqTypesOK, JobType

LEMMA TypesNext ==
  ASSUME /\ FileTypes' /\ FlagTypes' /\ ControlTypes' /\ StoreTypes' /\ CountTypes' /\ SeqTypesOK'
         /\ job' \in JobType
  PROVE  TypeOK'
  BY DEF TypeOK, FileOK, FileTypes, FlagTypes, ControlTypes, StoreTypes, CountTypes, SeqTypesOK, JobType

LEMMA StoredTypes ==
  ASSUME TypeOK
  PROVE  /\ base.docs \in Seq(0 .. MaxDocs) /\ deltaFile.docs \in Seq(0 .. MaxDocs)
         /\ tmp \in Seq(0 .. MaxDocs) /\ mem \in Seq(0 .. MaxDocs) /\ delta \in Seq(0 .. MaxDocs)
         /\ store \in Seq(0 .. MaxDocs) /\ write \in Seq(0 .. MaxDocs)
         /\ job \in JobType /\ job.batch \in Seq(0 .. MaxDocs)
<1>1. base.docs \in Seq(0 .. MaxDocs) /\ deltaFile.docs \in Seq(0 .. MaxDocs)
  <2>1. base \in File /\ deltaFile \in File
    BY DEF TypeOK
  <2>2. QED
    BY <2>1 DEF File
<1>2. job \in JobType
  BY DEF TypeOK, JobType
<1>3. \A s \in Seq(1 .. MaxDocs) : s \in Seq(0 .. MaxDocs)
  <2>1. 1 .. MaxDocs \subseteq 0 .. MaxDocs
    OBVIOUS
  <2>2. QED
    BY <2>1, SeqSubset
<1>4. QED
  BY <1>1, <1>2, <1>3, JobFacts DEF TypeOK

\* Steps that leave the IDs alone and only move documents from one place to another.
Moves ==
  \/ Open \/ BeginSave \/ EndSaveDelta \/ EndSaveBase \/ MergeFails
  \/ RemoveOutput \/ RenameMerged \/ RemoveDelta \/ Reload
  \/ BeginBatches \/ AssignIds \/ PlaceBatch \/ RenameBatch \/ EndBatches
  \/ Quit \/ Crash

Moved == ids' = ids /\ \A ds \in Seqs' : ds \in Seqs \cup {<<>>}

LEMMA MovesMove ==
  ASSUME TypeOK, Moves
  PROVE  Moved
<1> USE StoredTypes, FileFacts, JobFacts
<1> USE DEF Moved, Seqs, files, context, history
<1>1. ASSUME Open PROVE Moved
  BY <1>1 DEF Open, LoadIndex, LoadDeltaIndex, Build
<1>2. ASSUME BeginSave PROVE Moved
  BY <1>2 DEF BeginSave
<1>3. ASSUME EndSaveDelta PROVE Moved
  BY <1>3 DEF EndSaveDelta
<1>4. ASSUME EndSaveBase PROVE Moved
  BY <1>4 DEF EndSaveBase, LoadIndex, LoadDeltaIndex
<1>5. ASSUME MergeFails PROVE Moved
  BY <1>5 DEF MergeFails
<1>6. ASSUME RemoveOutput PROVE Moved
  BY <1>6 DEF RemoveOutput
<1>7. ASSUME RenameMerged PROVE Moved
  BY <1>7 DEF RenameMerged
<1>8. ASSUME RemoveDelta PROVE Moved
  BY <1>8 DEF RemoveDelta
<1>9. ASSUME Reload PROVE Moved
  BY <1>9 DEF Reload, LoadIndex, LoadDeltaIndex
<1>10. ASSUME BeginBatches PROVE Moved
  BY <1>10 DEF BeginBatches, LoadBoth
<1>11. ASSUME AssignIds PROVE Moved
  BY <1>11 DEF AssignIds
<1>12. ASSUME PlaceBatch PROVE Moved
  <2>1. CASE IsValidIndex(base)
    BY <1>12, <2>1 DEF PlaceBatch
  <2>2. CASE ~IsValidIndex(base)
    <3>1. base'.docs = job.batch /\ job'.batch = <<>>
      BY <1>12, <2>2 DEF PlaceBatch
    <3>2. QED
      BY <1>12, <2>2, <3>1 DEF PlaceBatch
  <2>3. QED
    BY <2>1, <2>2
<1>13. ASSUME RenameBatch PROVE Moved
  BY <1>13 DEF RenameBatch, LoadBoth
<1>14. ASSUME EndBatches PROVE Moved
  BY <1>14 DEF EndBatches
<1>15. ASSUME Quit PROVE Moved
  BY <1>15 DEF Quit
<1>16. ASSUME Crash PROVE Moved
  BY <1>16 DEF Crash
<1>17. QED
  BY <1>1, <1>2, <1>3, <1>4, <1>5, <1>6, <1>7, <1>8, <1>9, <1>10, <1>11, <1>12, <1>13, <1>14, <1>15, <1>16 DEF Moves

LEMMA MovesFiles ==
  ASSUME TypeOK, Moves
  PROVE  FileTypes'
<1> USE StoredTypes, TypeParts, FileFacts, JobFacts
<1> USE DEF FileTypes, FileOK, files, context, history
<1>1. ASSUME Open PROVE FileTypes'
  BY <1>1 DEF Open, LoadIndex, LoadDeltaIndex, Build
<1>2. ASSUME BeginSave PROVE FileTypes'
  BY <1>2 DEF BeginSave
<1>3. ASSUME EndSaveDelta PROVE FileTypes'
  BY <1>3 DEF EndSaveDelta
<1>4. ASSUME EndSaveBase PROVE FileTypes'
  BY <1>4 DEF EndSaveBase, LoadIndex, LoadDeltaIndex
<1>5. ASSUME MergeFails PROVE FileTypes'
  BY <1>5 DEF MergeFails
<1>6. ASSUME RemoveOutput PROVE FileTypes'
  BY <1>6 DEF RemoveOutput
<1>7. ASSUME RenameMerged PROVE FileTypes'
  BY <1>7 DEF RenameMerged
<1>8. ASSUME RemoveDelta PROVE FileTypes'
  BY <1>8 DEF RemoveDelta
<1>9. ASSUME Reload PROVE FileTypes'
  BY <1>9 DEF Reload, LoadIndex, LoadDeltaIndex
<1>10. ASSUME BeginBatches PROVE FileTypes'
  BY <1>10 DEF BeginBatches, LoadBoth
<1>11. ASSUME AssignIds PROVE FileTypes'
  BY <1>11 DEF AssignIds
<1>12. ASSUME PlaceBatch PROVE FileTypes'
  BY <1>12 DEF PlaceBatch
<1>13. ASSUME RenameBatch PROVE FileTypes'
  BY <1>13 DEF RenameBatch, LoadBoth
<1>14. ASSUME EndBatches PROVE FileTypes'
  BY <1>14 DEF EndBatches
<1>15. ASSUME Quit PROVE FileTypes'
  BY <1>15 DEF Quit
<1>16. ASSUME Crash PROVE FileTypes'
  BY <1>16 DEF Crash
<1>17. QED
  BY <1>1, <1>2, <1>3, <1>4, <1>5, <1>6, <1>7, <1>8, <1>9, <1>10, <1>11, <1>12, <1>13, <1>14, <1>15, <1>16 DEF Moves

LEMMA MovesFlags ==
  ASSUME TypeOK, Moves
  PROVE  FlagTypes'
<1> USE TypeParts
<1> USE DEF FlagTypes, files, context, history
<1>1. ASSUME Open PROVE FlagTypes'
  BY <1>1 DEF Open, LoadIndex, LoadDeltaIndex, Build
<1>2. ASSUME BeginSave PROVE FlagTypes'
  BY <1>2 DEF BeginSave
<1>3. ASSUME EndSaveDelta PROVE FlagTypes'
  BY <1>3 DEF EndSaveDelta
<1>4. ASSUME EndSaveBase PROVE FlagTypes'
  BY <1>4 DEF EndSaveBase, LoadIndex, LoadDeltaIndex
<1>5. ASSUME MergeFails PROVE FlagTypes'
  BY <1>5 DEF MergeFails
<1>6. ASSUME RemoveOutput PROVE FlagTypes'
  BY <1>6 DEF RemoveOutput
<1>7. ASSUME RenameMerged PROVE FlagTypes'
  BY <1>7 DEF RenameMerged
<1>8. ASSUME RemoveDelta PROVE FlagTypes'
  BY <1>8 DEF RemoveDelta
<1>9. ASSUME Reload PROVE FlagTypes'
  BY <1>9 DEF Reload, LoadIndex, LoadDeltaIndex
<1>10. ASSUME BeginBatches PROVE FlagTypes'
  BY <1>10 DEF BeginBatches, LoadBoth, Readable
<1>11. ASSUME AssignIds PROVE FlagTypes'
  BY <1>11 DEF AssignIds
<1>12. ASSUME PlaceBatch PROVE FlagTypes'
  BY <1>12 DEF PlaceBatch
<1>13. ASSUME RenameBatch PROVE FlagTypes'
  BY <1>13 DEF RenameBatch, LoadBoth, Readable
<1>14. ASSUME EndBatches PROVE FlagTypes'
  BY <1>14 DEF EndBatches
<1>15. ASSUME Quit PROVE FlagTypes'
  BY <1>15 DEF Quit
<1>16. ASSUME Crash PROVE FlagTypes'
  BY <1>16 DEF Crash
<1>17. QED
  BY <1>1, <1>2, <1>3, <1>4, <1>5, <1>6, <1>7, <1>8, <1>9, <1>10, <1>11, <1>12, <1>13, <1>14, <1>15, <1>16 DEF Moves

LEMMA MovesControl ==
  ASSUME TypeOK, Moves
  PROVE  ControlTypes'
<1> USE TypeParts
<1> USE DEF ControlTypes, files, context, history
<1>1. ASSUME Open PROVE ControlTypes'
  BY <1>1 DEF Open, LoadIndex, LoadDeltaIndex, Build
<1>2. ASSUME BeginSave PROVE ControlTypes'
  BY <1>2 DEF BeginSave
<1>3. ASSUME EndSaveDelta PROVE ControlTypes'
  BY <1>3 DEF EndSaveDelta
<1>4. ASSUME EndSaveBase PROVE ControlTypes'
  BY <1>4 DEF EndSaveBase, LoadIndex, LoadDeltaIndex
<1>5. ASSUME MergeFails PROVE ControlTypes'
  BY <1>5 DEF MergeFails
<1>6. ASSUME RemoveOutput PROVE ControlTypes'
  BY <1>6 DEF RemoveOutput
<1>7. ASSUME RenameMerged PROVE ControlTypes'
  BY <1>7 DEF RenameMerged
<1>8. ASSUME RemoveDelta PROVE ControlTypes'
  BY <1>8 DEF RemoveDelta
<1>9. ASSUME Reload PROVE ControlTypes'
  BY <1>9 DEF Reload, LoadIndex, LoadDeltaIndex
<1>10. ASSUME BeginBatches PROVE ControlTypes'
  BY <1>10 DEF BeginBatches, LoadBoth
<1>11. ASSUME AssignIds PROVE ControlTypes'
  BY <1>11 DEF AssignIds
<1>12. ASSUME PlaceBatch PROVE ControlTypes'
  BY <1>12 DEF PlaceBatch
<1>13. ASSUME RenameBatch PROVE ControlTypes'
  BY <1>13 DEF RenameBatch, LoadBoth
<1>14. ASSUME EndBatches PROVE ControlTypes'
  BY <1>14 DEF EndBatches
<1>15. ASSUME Quit PROVE ControlTypes'
  BY <1>15 DEF Quit
<1>16. ASSUME Crash PROVE ControlTypes'
  BY <1>16 DEF Crash
<1>17. QED
  BY <1>1, <1>2, <1>3, <1>4, <1>5, <1>6, <1>7, <1>8, <1>9, <1>10, <1>11, <1>12, <1>13, <1>14, <1>15, <1>16 DEF Moves

LEMMA MovesStore ==
  ASSUME TypeOK, Moves
  PROVE  StoreTypes'
<1> USE TypeParts, SeqTypes
<1> USE DEF StoreTypes, files, context, history
<1>1. ASSUME Open PROVE StoreTypes'
  BY <1>1 DEF Open, LoadIndex, LoadDeltaIndex, Build
<1>2. ASSUME BeginSave PROVE StoreTypes'
  BY <1>2 DEF BeginSave
<1>3. ASSUME EndSaveDelta PROVE StoreTypes'
  BY <1>3 DEF EndSaveDelta
<1>4. ASSUME EndSaveBase PROVE StoreTypes'
  BY <1>4 DEF EndSaveBase, LoadIndex, LoadDeltaIndex
<1>5. ASSUME MergeFails PROVE StoreTypes'
  BY <1>5 DEF MergeFails
<1>6. ASSUME RemoveOutput PROVE StoreTypes'
  BY <1>6 DEF RemoveOutput
<1>7. ASSUME RenameMerged PROVE StoreTypes'
  BY <1>7 DEF RenameMerged
<1>8. ASSUME RemoveDelta PROVE StoreTypes'
  BY <1>8 DEF RemoveDelta
<1>9. ASSUME Reload PROVE StoreTypes'
  BY <1>9 DEF Reload, LoadIndex, LoadDeltaIndex
<1>10. ASSUME BeginBatches PROVE StoreTypes'
  <2>1. (store' = <<>> /\ write' = <<>>) \/ (store' = store /\ write' = write)
    BY <1>10 DEF BeginBatches, LoadBoth
  <2>2. QED
    BY <2>1
<1>11. ASSUME AssignIds PROVE StoreTypes'
  BY <1>11 DEF AssignIds
<1>12. ASSUME PlaceBatch PROVE StoreTypes'
  BY <1>12 DEF PlaceBatch
<1>13. ASSUME RenameBatch PROVE StoreTypes'
  BY <1>13 DEF RenameBatch, LoadBoth
<1>14. ASSUME EndBatches PROVE StoreTypes'
  BY <1>14 DEF EndBatches
<1>15. ASSUME Quit PROVE StoreTypes'
  BY <1>15 DEF Quit
<1>16. ASSUME Crash PROVE StoreTypes'
  BY <1>16 DEF Crash
<1>17. QED
  BY <1>1, <1>2, <1>3, <1>4, <1>5, <1>6, <1>7, <1>8, <1>9, <1>10, <1>11, <1>12, <1>13, <1>14, <1>15, <1>16 DEF Moves

LEMMA MovesCounts ==
  ASSUME TypeOK, Moves
  PROVE  CountTypes'
<1> USE TypeParts, LifecycleAssumption
<1> USE DEF CountTypes, files, context, history
<1>1. ASSUME Open PROVE CountTypes'
  BY <1>1 DEF Open, LoadIndex, LoadDeltaIndex, Build
<1>2. ASSUME BeginSave PROVE CountTypes'
  BY <1>2 DEF BeginSave
<1>3. ASSUME EndSaveDelta PROVE CountTypes'
  BY <1>3 DEF EndSaveDelta
<1>4. ASSUME EndSaveBase PROVE CountTypes'
  BY <1>4 DEF EndSaveBase, LoadIndex, LoadDeltaIndex
<1>5. ASSUME MergeFails PROVE CountTypes'
  BY <1>5 DEF MergeFails
<1>6. ASSUME RemoveOutput PROVE CountTypes'
  BY <1>6 DEF RemoveOutput
<1>7. ASSUME RenameMerged PROVE CountTypes'
  BY <1>7 DEF RenameMerged
<1>8. ASSUME RemoveDelta PROVE CountTypes'
  BY <1>8 DEF RemoveDelta
<1>9. ASSUME Reload PROVE CountTypes'
  BY <1>9 DEF Reload, LoadIndex, LoadDeltaIndex
<1>10. ASSUME BeginBatches PROVE CountTypes'
  BY <1>10 DEF BeginBatches, LoadBoth
<1>11. ASSUME AssignIds PROVE CountTypes'
  BY <1>11 DEF AssignIds
<1>12. ASSUME PlaceBatch PROVE CountTypes'
  BY <1>12 DEF PlaceBatch
<1>13. ASSUME RenameBatch PROVE CountTypes'
  BY <1>13 DEF RenameBatch, LoadBoth
<1>14. ASSUME EndBatches PROVE CountTypes'
  BY <1>14 DEF EndBatches
<1>15. ASSUME Quit PROVE CountTypes'
  BY <1>15 DEF Quit
<1>16. ASSUME Crash PROVE CountTypes'
  BY <1>16 DEF Crash
<1>17. QED
  BY <1>1, <1>2, <1>3, <1>4, <1>5, <1>6, <1>7, <1>8, <1>9, <1>10, <1>11, <1>12, <1>13, <1>14, <1>15, <1>16 DEF Moves

LEMMA MovesJob ==
  ASSUME TypeOK, Known, Moves
  PROVE  job' \in JobType
<1> USE StoredTypes, JobFacts
<1> USE DEF files, context, history
<1>1. ASSUME Open PROVE job' \in JobType
  BY <1>1 DEF Open, LoadIndex, LoadDeltaIndex, Build
<1>2. ASSUME BeginSave PROVE job' \in JobType
  BY <1>2 DEF BeginSave
<1>3. ASSUME EndSaveDelta PROVE job' \in JobType
  BY <1>3 DEF EndSaveDelta
<1>4. ASSUME EndSaveBase PROVE job' \in JobType
  BY <1>4 DEF EndSaveBase, LoadIndex, LoadDeltaIndex
<1>5. ASSUME MergeFails PROVE job' \in JobType
  BY <1>5 DEF MergeFails
<1>6. ASSUME RemoveOutput PROVE job' \in JobType
  BY <1>6 DEF RemoveOutput
<1>7. ASSUME RenameMerged PROVE job' \in JobType
  BY <1>7 DEF RenameMerged
<1>8. ASSUME RemoveDelta PROVE job' \in JobType
  BY <1>8 DEF RemoveDelta
<1>9. ASSUME Reload PROVE job' \in JobType
  BY <1>9 DEF Reload, LoadIndex, LoadDeltaIndex
<1>10. ASSUME BeginBatches PROVE job' \in JobType
  <2>1. PICK n \in 1 .. MaxFiles : job' = [NoJob EXCEPT !.left = n]
    BY <1>10 DEF BeginBatches
  <2>2. n \in Nat
    BY LifecycleAssumption
  <2>3. QED
    BY <2>1, <2>2
<1>11. ASSUME AssignIds PROVE job' \in JobType
  <2>1. NextId \in Nat
    <3>1. Fits(ids, base.docs) /\ ids \in Seq(Nat)
      BY DEF Known, Seqs, TypeOK
    <3>2. QED
      BY <3>1, FirstTypes, FirstDocIdIs DEF NextId
  <2>2. QED
    BY <1>11, <2>1 DEF AssignIds
<1>12. ASSUME PlaceBatch PROVE job' \in JobType
  BY <1>12 DEF PlaceBatch
<1>13. ASSUME RenameBatch PROVE job' \in JobType
  BY <1>13 DEF RenameBatch, LoadBoth
<1>14. ASSUME EndBatches PROVE job' \in JobType
  BY <1>14 DEF EndBatches
<1>15. ASSUME Quit PROVE job' \in JobType
  BY <1>15 DEF Quit
<1>16. ASSUME Crash PROVE job' \in JobType
  BY <1>16 DEF Crash
<1>17. QED
  BY <1>1, <1>2, <1>3, <1>4, <1>5, <1>6, <1>7, <1>8, <1>9, <1>10, <1>11, <1>12, <1>13, <1>14, <1>15, <1>16 DEF Moves

LEMMA MovedKnown ==
  ASSUME Known, Moved
  PROVE  Known'
  BY EmptyFirst DEF Known, Moved

LEMMA FollowsFacts ==
  ASSUME NEW I, NEW b, NEW d
  PROVE  /\ Follows(I, <<>>, d) /\ Follows(I, b, <<>>)
         /\ First(I, d) >= End(I, b) => Follows(I, b, d)
         /\ Copies(I, b, d) => Follows(I, b, d)
         /\ b \in Seq(0 .. MaxDocs) /\ First(I, b) = 0 => Copies(I, b, b)
<1>1. b \in Seq(0 .. MaxDocs) => IsPrefix(b, b)
  BY PrefixReflexive
<1>2. QED
  BY <1>1 DEF Follows, Copies

LEMMA Bounds ==
  ASSUME TypeOK, Known
  PROVE  \A ds \in Seqs : /\ First(ids, ds) \in Nat /\ Len(ds) \in Nat /\ End(ids, ds) \in Nat
                          /\ End(ids, ds) = First(ids, ds) + Len(ds)
                          /\ ds # <<>> => Len(ds) > 0
  BY FirstTypes DEF Known, TypeOK

LEMMA MovesSession ==
  ASSUME TypeOK, Known, SessionInv, WriteInv, JobInv, Moves
  PROVE  SessionInv'
<1> USE StoredTypes, TypeParts, FileFacts, EmptyFirst
<1> USE DEF SessionInv, JobInv, FileTypes, FileOK, Readable, IsValidIndex, files, context, history
<1>1. ASSUME Open PROVE SessionInv'
  BY <1>1 DEF Open, LoadIndex, LoadDeltaIndex, Build
<1>2. ASSUME BeginSave PROVE SessionInv'
  BY <1>2 DEF BeginSave
<1>3. ASSUME EndSaveDelta PROVE SessionInv'
  BY <1>3 DEF EndSaveDelta
<1>4. ASSUME EndSaveBase PROVE SessionInv'
  BY <1>4 DEF EndSaveBase, LoadIndex, LoadDeltaIndex
<1>5. ASSUME MergeFails PROVE SessionInv'
  BY <1>5 DEF MergeFails
<1>6. ASSUME RemoveOutput PROVE SessionInv'
  BY <1>6 DEF RemoveOutput
<1>7. ASSUME RenameMerged PROVE SessionInv'
  BY <1>7 DEF RenameMerged
<1>8. ASSUME RemoveDelta PROVE SessionInv'
  BY <1>8 DEF RemoveDelta
<1>9. ASSUME Reload PROVE SessionInv'
  BY <1>9 DEF Reload, LoadIndex, LoadDeltaIndex
<1>10. ASSUME BeginBatches PROVE SessionInv'
  BY <1>10 DEF BeginBatches, LoadBoth
<1>11. ASSUME AssignIds PROVE SessionInv'
  BY <1>11 DEF AssignIds
<1>12. ASSUME PlaceBatch PROVE SessionInv'
  BY <1>12 DEF PlaceBatch
<1>13. ASSUME RenameBatch PROVE SessionInv'
  BY <1>13 DEF RenameBatch, LoadBoth
<1>14. ASSUME EndBatches PROVE SessionInv'
  BY <1>14 DEF EndBatches
<1>15. ASSUME Quit PROVE SessionInv'
  BY <1>15 DEF Quit
<1>16. ASSUME Crash PROVE SessionInv'
  BY <1>16 DEF Crash
<1>17. QED
  BY <1>1, <1>2, <1>3, <1>4, <1>5, <1>6, <1>7, <1>8, <1>9, <1>10, <1>11, <1>12, <1>13, <1>14, <1>15, <1>16 DEF Moves

LEMMA MovesWrite ==
  ASSUME TypeOK, Known, SessionInv, WriteInv, StoreInv, Moves
  PROVE  WriteInv'
<1> USE StoredTypes, TypeParts, FileFacts, EmptyFirst, FollowsFacts
<1> USE DEF SessionInv, WriteInv, StoreInv, FileTypes, FileOK, Readable, IsValidIndex, files, context, history
<1>1. ASSUME Open PROVE WriteInv'
  BY <1>1 DEF Open, LoadIndex, LoadDeltaIndex, Build
<1>2. ASSUME BeginSave PROVE WriteInv'
  BY <1>2 DEF BeginSave
<1>3. ASSUME EndSaveDelta PROVE WriteInv'
  BY <1>3 DEF EndSaveDelta
<1>4. ASSUME EndSaveBase PROVE WriteInv'
  BY <1>4 DEF EndSaveBase, LoadIndex, LoadDeltaIndex
<1>5. ASSUME MergeFails PROVE WriteInv'
  BY <1>5 DEF MergeFails
<1>6. ASSUME RemoveOutput PROVE WriteInv'
  BY <1>6 DEF RemoveOutput
<1>7. ASSUME RenameMerged PROVE WriteInv'
  BY <1>7 DEF RenameMerged
<1>8. ASSUME RemoveDelta PROVE WriteInv'
  BY <1>8 DEF RemoveDelta
<1>9. ASSUME Reload PROVE WriteInv'
  BY <1>9 DEF Reload, LoadIndex, LoadDeltaIndex
<1>10. ASSUME BeginBatches PROVE WriteInv'
  BY <1>10 DEF BeginBatches, LoadBoth
<1>11. ASSUME AssignIds PROVE WriteInv'
  BY <1>11 DEF AssignIds
<1>12. ASSUME PlaceBatch PROVE WriteInv'
  BY <1>12 DEF PlaceBatch
<1>13. ASSUME RenameBatch PROVE WriteInv'
  BY <1>13 DEF RenameBatch, LoadBoth
<1>14. ASSUME EndBatches PROVE WriteInv'
  BY <1>14 DEF EndBatches
<1>15. ASSUME Quit PROVE WriteInv'
  BY <1>15 DEF Quit
<1>16. ASSUME Crash PROVE WriteInv'
  BY <1>16 DEF Crash
<1>17. QED
  BY <1>1, <1>2, <1>3, <1>4, <1>5, <1>6, <1>7, <1>8, <1>9, <1>10, <1>11, <1>12, <1>13, <1>14, <1>15, <1>16 DEF Moves

LEMMA MovesStoreInv ==
  ASSUME TypeOK, Known, SessionInv, WriteInv, StoreInv, Moves
  PROVE  StoreInv'
<1> USE StoredTypes, TypeParts, FileFacts, EmptyFirst, Bounds
<1> USE DEF SessionInv, WriteInv, StoreInv, Seqs, FileTypes, FileOK, Readable, IsValidIndex, files, context, history
<1>1. ASSUME Open PROVE StoreInv'
  BY <1>1 DEF Open, LoadIndex, LoadDeltaIndex, Build
<1>2. ASSUME BeginSave PROVE StoreInv'
  BY <1>2 DEF BeginSave
<1>3. ASSUME EndSaveDelta PROVE StoreInv'
  <2>1. /\ store' = store /\ delta' = write /\ mem' = mem /\ ids' = ids
        /\ store = <<>> \/ write = store
    BY <1>3 DEF EndSaveDelta
  <2>2. IsPrefix(store, store)
    BY PrefixReflexive
  <2>3. QED
    BY <1>3, <2>1, <2>2 DEF EndSaveDelta
<1>4. ASSUME EndSaveBase PROVE StoreInv'
  BY <1>4 DEF EndSaveBase, LoadIndex, LoadDeltaIndex
<1>5. ASSUME MergeFails PROVE StoreInv'
  BY <1>5 DEF MergeFails
<1>6. ASSUME RemoveOutput PROVE StoreInv'
  BY <1>6 DEF RemoveOutput
<1>7. ASSUME RenameMerged PROVE StoreInv'
  BY <1>7 DEF RenameMerged
<1>8. ASSUME RemoveDelta PROVE StoreInv'
  BY <1>8 DEF RemoveDelta
<1>9. ASSUME Reload PROVE StoreInv'
  BY <1>9 DEF Reload, LoadIndex, LoadDeltaIndex
<1>10. ASSUME BeginBatches PROVE StoreInv'
  BY <1>10 DEF BeginBatches, LoadBoth
<1>11. ASSUME AssignIds PROVE StoreInv'
  BY <1>11 DEF AssignIds
<1>12. ASSUME PlaceBatch PROVE StoreInv'
  BY <1>12 DEF PlaceBatch
<1>13. ASSUME RenameBatch PROVE StoreInv'
  BY <1>13 DEF RenameBatch, LoadBoth
<1>14. ASSUME EndBatches PROVE StoreInv'
  BY <1>14 DEF EndBatches
<1>15. ASSUME Quit PROVE StoreInv'
  BY <1>15 DEF Quit
<1>16. ASSUME Crash PROVE StoreInv'
  BY <1>16 DEF Crash
<1>17. QED
  BY <1>1, <1>2, <1>3, <1>4, <1>5, <1>6, <1>7, <1>8, <1>9, <1>10, <1>11, <1>12, <1>13, <1>14, <1>15, <1>16 DEF Moves

LEMMA MovesZero ==
  ASSUME TypeOK, Known, SessionInv, ZeroInv, JobInv, Moves
  PROVE  ZeroInv'
<1> USE StoredTypes, TypeParts, FileFacts, EmptyFirst
<1> USE DEF ZeroInv, NoSkip, FileTypes, FileOK, Readable, IsValidIndex, files, context, history
<1>1. ASSUME Open PROVE ZeroInv'
  BY <1>1 DEF Open, LoadIndex, LoadDeltaIndex, Build
<1>2. ASSUME BeginSave PROVE ZeroInv'
  <2>1. /\ base'.docs = <<>> \/ base' = base
        /\ tmp' = tmp /\ ids' = ids /\ past' = past
    BY <1>2 DEF BeginSave
  <2>2. QED
    BY <2>1
<1>3. ASSUME EndSaveDelta PROVE ZeroInv'
  BY <1>3 DEF EndSaveDelta
<1>4. ASSUME EndSaveBase PROVE ZeroInv'
  BY <1>4 DEF EndSaveBase, SessionInv
<1>5. ASSUME MergeFails PROVE ZeroInv'
  BY <1>5 DEF MergeFails
<1>6. ASSUME RemoveOutput PROVE ZeroInv'
  <2>1. base'.docs = <<>> /\ tmp' = tmp /\ ids' = ids /\ past' = past
    BY <1>6 DEF RemoveOutput
  <2>2. QED
    BY <2>1
<1>7. ASSUME RenameMerged PROVE ZeroInv'
  BY <1>7 DEF RenameMerged
<1>8. ASSUME RemoveDelta PROVE ZeroInv'
  BY <1>8 DEF RemoveDelta
<1>9. ASSUME Reload PROVE ZeroInv'
  BY <1>9 DEF Reload, LoadIndex, LoadDeltaIndex
<1>10. ASSUME BeginBatches PROVE ZeroInv'
  BY <1>10 DEF BeginBatches, LoadBoth
<1>11. ASSUME AssignIds PROVE ZeroInv'
  BY <1>11 DEF AssignIds
<1>12. ASSUME PlaceBatch PROVE ZeroInv'
  <2>1. tmp' = tmp /\ ids' = ids /\ past' = past /\ ctl = "place"
    BY <1>12 DEF PlaceBatch
  <2>2. base' = base \/ (base.docs = <<>> /\ base'.docs = job.batch)
    BY <1>12 DEF PlaceBatch
  <2>3. NoSkip => First(ids, job.batch) = End(ids, base.docs)
    BY <2>1 DEF JobInv, StartsAt
  <2>4. QED
    BY <2>1, <2>2, <2>3
<1>13. ASSUME RenameBatch PROVE ZeroInv'
  BY <1>13 DEF RenameBatch, LoadBoth
<1>14. ASSUME EndBatches PROVE ZeroInv'
  BY <1>14 DEF EndBatches
<1>15. ASSUME Quit PROVE ZeroInv'
  BY <1>15 DEF Quit
<1>16. ASSUME Crash PROVE ZeroInv'
  BY <1>16 DEF Crash
<1>17. QED
  BY <1>1, <1>2, <1>3, <1>4, <1>5, <1>6, <1>7, <1>8, <1>9, <1>10, <1>11, <1>12, <1>13, <1>14, <1>15, <1>16 DEF Moves

LEMMA IdleJob ==
  ASSUME TypeOK, ids' = ids, job' = NoJob, ctl' \in {"shell", "ready", "saving", "cleaned"}
  PROVE  JobInv'
<1>1. Len(ids) + 0 <= MaxDocs
  BY LifecycleAssumption DEF TypeOK
<1>2. QED
  BY <1>1, JobFacts DEF JobInv

\* A batch that found its files all readable can be merged into the index.
LEMMA BatchFollows ==
  ASSUME TypeOK, Known, SessionInv, JobInv, ZeroInv, CrashFreeInv,
         crashes = 0, past = {}, ctl = "merge"
  PROVE  MergeAllowed
<1>1. base.kind = "index" /\ base.docs # <<>> /\ mem = base.docs /\ built
  BY TypeParts DEF SessionInv, CrashFreeInv, FileTypes, FileOK, File
<1>2. StartsAt(mem, delta) /\ NoSkip
  BY <1>1 DEF CrashFreeInv, JobInv, NoSkip
<1>3. First(ids, mem) = 0 /\ First(ids, delta) = End(ids, mem)
  BY <1>1, <1>2 DEF ZeroInv, StartsAt
<1>4. First(ids, delta) = Len(mem)
  BY <1>3, Bounds DEF Seqs
<1>5. QED
  BY <1>1, <1>2, <1>4, FirstDocIdIs DEF MergeAllowed, StartsAt

LEMMA MovesJobInv ==
  ASSUME TypeOK, Known, SessionInv, JobInv, Moves
  PROVE  JobInv'
<1> USE StoredTypes, TypeParts, FileFacts, EmptyFirst, JobFacts
<1> USE DEF NoSkip, SessionInv, JobInv, StartsAt, EndsAtJob, Seqs, FileTypes, FileOK, Readable, IsValidIndex, files, context, history
<1>1. ASSUME Open PROVE JobInv'
  BY <1>1 DEF Open, LoadIndex, LoadDeltaIndex, Build
<1>2. ASSUME BeginSave PROVE JobInv'
  BY <1>2 DEF BeginSave
<1>3. ASSUME EndSaveDelta PROVE JobInv'
  BY <1>3 DEF EndSaveDelta
<1>4. ASSUME EndSaveBase PROVE JobInv'
  BY <1>4 DEF EndSaveBase, LoadIndex, LoadDeltaIndex
<1>5. ASSUME MergeFails PROVE JobInv'
  BY <1>5, IdleJob DEF MergeFails
<1>6. ASSUME RemoveOutput PROVE JobInv'
  BY <1>6 DEF RemoveOutput
<1>7. ASSUME RenameMerged PROVE JobInv'
  BY <1>7 DEF RenameMerged
<1>8. ASSUME RemoveDelta PROVE JobInv'
  BY <1>8 DEF RemoveDelta
<1>9. ASSUME Reload PROVE JobInv'
  BY <1>9 DEF Reload, LoadIndex, LoadDeltaIndex
<1>10. ASSUME BeginBatches PROVE JobInv'
  <2>1. PICK n \in 1 .. MaxFiles : Len(ids) + n <= MaxDocs /\ job' = [NoJob EXCEPT !.left = n]
    BY <1>10 DEF BeginBatches
  <2>2. n \in Nat
    BY LifecycleAssumption
  <2>3. job'.left = n /\ job'.id = Unassigned
    BY <2>1, <2>2
  <2>4. ids' = ids /\ ctl' \in {"merge", "batch"}
    BY <1>10 DEF BeginBatches
  <2>5. QED
    BY <2>1, <2>3, <2>4 DEF JobInv
<1>11. ASSUME AssignIds PROVE JobInv'
  <2>1. NextId = End(ids, base.docs) /\ NextId \in Nat
    <3>1. /\ First(ids, base.docs) + Len(base.docs) = End(ids, base.docs)
          /\ End(ids, base.docs) \in Nat
      BY Bounds
    <3>2. ~Readable(base) => base.docs = <<>>
      OBVIOUS
    <3>3. QED
      BY <3>1, <3>2, FirstDocIdIs DEF NextId
  <2>2. job'.id = NextId /\ job'.left = job.left
    BY <1>11, <2>1 DEF AssignIds
  <2>3. ids' = ids /\ base' = base /\ ctl' = "batch"
    BY <1>11 DEF AssignIds
  <2>4. QED
    BY <2>1, <2>2, <2>3
<1>12. ASSUME PlaceBatch PROVE JobInv'
  <2>1. CASE IsValidIndex(base)
    <3>1. base' = base /\ job' = job /\ ids' = ids /\ past' = past /\ ctl' = "cleared" /\ ctl = "place"
      BY <1>12, <2>1 DEF PlaceBatch
    <3>2. QED
      BY <2>1, <3>1
  <2>2. CASE ~IsValidIndex(base)
    <3>1. ids' = ids /\ past' = past /\ ctl' = "batch" /\ ctl = "place"
      BY <1>12, <2>2 DEF PlaceBatch
    <3>2. base'.docs = job.batch /\ job'.id = job.id /\ job'.left = job.left
      BY <1>12, <2>2 DEF PlaceBatch
    <3>3. QED
      BY <3>1, <3>2
  <2>3. QED
    BY <2>1, <2>2
<1>13. ASSUME RenameBatch PROVE JobInv'
  BY <1>13 DEF RenameBatch, LoadBoth
<1>14. ASSUME EndBatches PROVE JobInv'
  BY <1>14, IdleJob DEF EndBatches
<1>15. ASSUME Quit PROVE JobInv'
  BY <1>15, IdleJob DEF Quit
<1>16. ASSUME Crash PROVE JobInv'
  BY <1>16, IdleJob DEF Crash
<1>17. QED
  BY <1>1, <1>2, <1>3, <1>4, <1>5, <1>6, <1>7, <1>8, <1>9, <1>10, <1>11, <1>12, <1>13, <1>14, <1>15, <1>16 DEF Moves

LEMMA MovesCrashFree ==
  ASSUME TypeOK, Known, SessionInv, WriteInv, JobInv, ZeroInv, CrashFreeInv, Moves
  PROVE  CrashFreeInv'
<1> USE StoredTypes, TypeParts, FileFacts, EmptyFirst, FollowsFacts, JobFacts
<1> USE DEF SessionInv, CrashFreeInv, FileTypes, FileOK, Readable, IsValidIndex, files, context, history
<1>1. ASSUME Open PROVE CrashFreeInv'
  BY <1>1 DEF Open, LoadIndex, LoadDeltaIndex, Build
<1>2. ASSUME BeginSave PROVE CrashFreeInv'
  BY <1>2 DEF BeginSave
<1>3. ASSUME EndSaveDelta PROVE CrashFreeInv'
  <2>1. /\ base' = base /\ mem' = mem /\ ids' = ids /\ crashes' = crashes /\ ctl' = "ready"
        /\ delta' = write /\ deltaFile'.docs = write /\ past' # {}
    BY <1>3 DEF EndSaveDelta
  <2>2. ctl = "saving" /\ target = "delta" /\ mem = base.docs /\ Follows(ids, mem, write)
    BY <1>3 DEF EndSaveDelta, WriteInv
  <2>3. crashes = 0 => base.kind = "index" /\ base.docs # <<>>
    BY <2>2 DEF File
  <2>4. QED
    BY <2>1, <2>2, <2>3
<1>4. ASSUME EndSaveBase PROVE CrashFreeInv'
  BY <1>4 DEF EndSaveBase, LoadIndex, LoadDeltaIndex
<1>5. ASSUME MergeFails PROVE CrashFreeInv'
  <2>1. /\ base' = base /\ deltaFile' = deltaFile /\ ids' = ids /\ crashes' = crashes
        /\ past' = past /\ ctl' = "shell" /\ ctl \in {"ready", "merge"}
    BY <1>5 DEF MergeFails, MergeCalled
  <2>2. crashes = 0 /\ past = {} => ctl = "ready"
    BY <1>5, <2>1, BatchFollows DEF MergeFails
  <2>3. QED
    BY <2>1, <2>2
<1>6. ASSUME RemoveOutput PROVE CrashFreeInv'
  BY <1>6 DEF RemoveOutput
<1>7. ASSUME RenameMerged PROVE CrashFreeInv'
  BY <1>7 DEF RenameMerged
<1>8. ASSUME RemoveDelta PROVE CrashFreeInv'
  BY <1>8 DEF RemoveDelta
<1>9. ASSUME Reload PROVE CrashFreeInv'
  BY <1>9 DEF Reload, LoadIndex, LoadDeltaIndex
<1>10. ASSUME BeginBatches PROVE CrashFreeInv'
  <2>1. /\ base' = base /\ deltaFile' = deltaFile /\ ids' = ids /\ crashes' = crashes
        /\ past' = past /\ ctl = "shell" /\ ctl' \in {"batch", "merge"}
    BY <1>10 DEF BeginBatches
  <2>2. ctl' = "merge" => /\ IsValidIndex(deltaFile) /\ mem' = base.docs
                          /\ delta' = deltaFile.docs \/ delta' = <<>>
    BY <1>10 DEF BeginBatches, LoadBoth
  <2>3. QED
    BY <2>1, <2>2
<1>11. ASSUME AssignIds PROVE CrashFreeInv'
  BY <1>11 DEF AssignIds
<1>12. ASSUME PlaceBatch PROVE CrashFreeInv'
  BY <1>12 DEF PlaceBatch
<1>13. ASSUME RenameBatch PROVE CrashFreeInv'
  <2>1. /\ base' = base /\ ids' = ids /\ crashes' = crashes /\ past' = past
        /\ ctl = "cleared" /\ ctl' = "merge"
    BY <1>13 DEF RenameBatch
  <2>2. /\ deltaFile'.docs = job.batch /\ job'.id = job.id /\ mem' = base.docs
        /\ delta' = job.batch \/ delta' = <<>>
    BY <1>13 DEF RenameBatch, LoadBoth
  <2>3. job.id # Unassigned /\ base.kind # "none" /\ Follows(ids, base.docs, job.batch)
    BY <2>1 DEF JobInv, StartsAt
  <2>4. crashes = 0 => base.kind = "index" /\ base.docs # <<>>
    BY <2>1, <2>3 DEF File
  <2>5. QED
    BY <2>1, <2>2, <2>3, <2>4
<1>14. ASSUME EndBatches PROVE CrashFreeInv'
  BY <1>14 DEF EndBatches
<1>15. ASSUME Quit PROVE CrashFreeInv'
  BY <1>15 DEF Quit
<1>16. ASSUME Crash PROVE CrashFreeInv'
  <2>1. crashes' # 0
    BY <1>16 DEF Crash, CountTypes
  <2>2. QED
    BY <2>1
<1>17. QED
  BY <1>1, <1>2, <1>3, <1>4, <1>5, <1>6, <1>7, <1>8, <1>9, <1>10, <1>11, <1>12, <1>13, <1>14, <1>15, <1>16 DEF Moves

LEMMA MovesHistory ==
  ASSUME TypeOK, Moves
  PROVE  past \subseteq past' /\ crashes <= crashes'
<1> USE TypeParts
<1> USE DEF CountTypes, files, context, history
<1>1. ASSUME Open PROVE past \subseteq past' /\ crashes <= crashes'
  BY <1>1 DEF Open, LoadIndex, LoadDeltaIndex, Build
<1>2. ASSUME BeginSave PROVE past \subseteq past' /\ crashes <= crashes'
  BY <1>2 DEF BeginSave
<1>3. ASSUME EndSaveDelta PROVE past \subseteq past' /\ crashes <= crashes'
  BY <1>3 DEF EndSaveDelta
<1>4. ASSUME EndSaveBase PROVE past \subseteq past' /\ crashes <= crashes'
  BY <1>4 DEF EndSaveBase, LoadIndex, LoadDeltaIndex
<1>5. ASSUME MergeFails PROVE past \subseteq past' /\ crashes <= crashes'
  BY <1>5 DEF MergeFails
<1>6. ASSUME RemoveOutput PROVE past \subseteq past' /\ crashes <= crashes'
  BY <1>6 DEF RemoveOutput
<1>7. ASSUME RenameMerged PROVE past \subseteq past' /\ crashes <= crashes'
  BY <1>7 DEF RenameMerged
<1>8. ASSUME RemoveDelta PROVE past \subseteq past' /\ crashes <= crashes'
  BY <1>8 DEF RemoveDelta
<1>9. ASSUME Reload PROVE past \subseteq past' /\ crashes <= crashes'
  BY <1>9 DEF Reload, LoadIndex, LoadDeltaIndex
<1>10. ASSUME BeginBatches PROVE past \subseteq past' /\ crashes <= crashes'
  BY <1>10 DEF BeginBatches, LoadBoth
<1>11. ASSUME AssignIds PROVE past \subseteq past' /\ crashes <= crashes'
  BY <1>11 DEF AssignIds
<1>12. ASSUME PlaceBatch PROVE past \subseteq past' /\ crashes <= crashes'
  BY <1>12 DEF PlaceBatch
<1>13. ASSUME RenameBatch PROVE past \subseteq past' /\ crashes <= crashes'
  BY <1>13 DEF RenameBatch, LoadBoth
<1>14. ASSUME EndBatches PROVE past \subseteq past' /\ crashes <= crashes'
  BY <1>14 DEF EndBatches
<1>15. ASSUME Quit PROVE past \subseteq past' /\ crashes <= crashes'
  BY <1>15 DEF Quit
<1>16. ASSUME Crash PROVE past \subseteq past' /\ crashes <= crashes'
  BY <1>16 DEF Crash
<1>17. QED
  BY <1>1, <1>2, <1>3, <1>4, <1>5, <1>6, <1>7, <1>8, <1>9, <1>10, <1>11, <1>12, <1>13, <1>14, <1>15, <1>16 DEF Moves

LEMMA MovesPlaced ==
  ASSUME TypeOK, TypeOK', PlacedInv, Moved, past \subseteq past', crashes <= crashes'
  PROVE  PlacedInv'
<1>1. (crashes' > 0 => NoSkip') => (crashes > 0 => NoSkip)
  BY LifecycleAssumption DEF NoSkip, TypeOK
<1>2. QED
  BY <1>1, EmptyFirst DEF PlacedInv, Moved

\* A step that only moves documents keeps the invariant.
LEMMA MovesKeep ==
  ASSUME LifeInv, Moves
  PROVE  LifeInv'
<1> USE DEF LifeInv
<1>1. Moved
  BY MovesMove
<1>2. Known'
  BY <1>1, MovedKnown
<1>3. SeqTypesOK'
  BY <1>2 DEF Known, Seqs, Fits, SeqTypesOK
<1>4. TypeOK'
  <2>1. /\ FileTypes' /\ FlagTypes' /\ ControlTypes' /\ StoreTypes' /\ CountTypes'
        /\ job' \in JobType
    BY MovesFiles, MovesFlags, MovesControl, MovesStore, MovesCounts, MovesJob
  <2>2. QED
    BY <1>3, <2>1, TypesNext
<1>5. SessionInv' /\ WriteInv' /\ StoreInv'
  BY MovesSession, MovesWrite, MovesStoreInv
<1>6. JobInv' /\ ZeroInv' /\ CrashFreeInv'
  BY MovesJobInv, MovesZero, MovesCrashFree
<1>7. PlacedInv'
  BY <1>1, <1>4, MovesHistory, MovesPlaced
<1>8. QED
  BY <1>2, <1>4, <1>5, <1>6, <1>7

-----------------------------------------------------------------------------
(* New IDs *)

\* The IDs there are stay as they are.
Grown ==
  \A ds \in Seqs : /\ Fits(ids', ds)
                   /\ First(ids', ds) = First(ids, ds) /\ End(ids', ds) = End(ids, ds)
                   /\ Placed(ids, ds) => Placed(ids', ds)

LEMMA NewIdsGrow ==
  ASSUME TypeOK, Known, ids' \in Seq(Nat), Len(ids) <= Len(ids'),
         \A k \in 1 .. Len(ids) : ids'[k] = ids[k]
  PROVE  Grown
<1>1. ids \in Seq(Nat)
  BY DEF TypeOK
<1>2. QED
  BY <1>1, GrowKeeps DEF Known, Grown

\* What Grown says of the relations between two indexes.
LEMMA GrownFollows ==
  ASSUME Grown, NEW b \in Seqs, NEW d \in Seqs
  PROVE  /\ Copies(ids, b, d) => Copies(ids', b, d)
         /\ Follows(ids, b, d) => Follows(ids', b, d)
  BY DEF Grown, Copies, Follows

\* A new document behind the others, with the ID that follows theirs.
LEMMA AppendPlaced ==
  ASSUME NEW I \in Seq(Nat), NEW s \in Seq(1 .. MaxDocs), NEW a \in Nat,
         Fits(I, s), Placed(I, s), Len(I) < MaxDocs, s # <<>> => a = End(I, s)
  PROVE  LET J == Append(I, a)
             t == Append(s, Len(I) + 1)
         IN  /\ t \in Seq(1 .. MaxDocs) /\ t # <<>> /\ Fits(J, t) /\ Placed(J, t)
             /\ s = <<>> => First(J, t) = a
             /\ s # <<>> => First(J, t) = First(I, s)
<1> DEFINE J == Append(I, a)
           t == Append(s, Len(I) + 1)
<1>1. /\ Len(I) \in Nat /\ Len(s) \in Nat /\ MaxDocs \in Nat
      /\ J \in Seq(Nat) /\ Len(J) = Len(I) + 1
      /\ J[Len(I) + 1] = a /\ \A k \in 1 .. Len(I) : J[k] = I[k]
  BY LifecycleAssumption
<1>2. Len(I) + 1 \in 1 .. MaxDocs
  BY <1>1
<1>3. /\ t \in Seq(1 .. MaxDocs) /\ t # <<>> /\ Len(t) = Len(s) + 1 /\ DOMAIN t = 1 .. Len(s) + 1
      /\ t[Len(s) + 1] = Len(I) + 1 /\ \A i \in 1 .. Len(s) : t[i] = s[i]
      /\ Head(t) = t[1] /\ DOMAIN s = 1 .. Len(s)
  BY <1>1, <1>2
<1> HIDE DEF J, t
<1>4. \A i \in 1 .. Len(s) : s[i] \in 1 .. Len(I)
  <2>1. ASSUME NEW i \in 1 .. Len(s) PROVE s[i] \in 1 .. Len(I)
    <3>1. s[i] \in 1 .. MaxDocs
      BY SeqElements
    <3>2. s[i] \in 0 .. Len(I)
      BY <1>3 DEF Fits
    <3>3. QED
      BY <1>1, <3>1, <3>2
  <2>2. QED
    BY <2>1
<1>5. \A i \in 1 .. Len(s) + 1 :
         \/ i \in 1 .. Len(s) /\ t[i] = s[i] /\ J[t[i]] = I[s[i]]
         \/ i = Len(s) + 1 /\ t[i] = Len(I) + 1 /\ J[t[i]] = a
  <2>1. ASSUME NEW i \in 1 .. Len(s) + 1 PROVE i \in 1 .. Len(s) \/ i = Len(s) + 1
    BY <1>1
  <2>2. ASSUME NEW i \in 1 .. Len(s) PROVE t[i] = s[i] /\ J[t[i]] = I[s[i]]
    <3>1. s[i] \in 1 .. Len(I)
      BY <1>4
    <3>2. t[i] = s[i]
      BY <1>3
    <3>3. J[s[i]] = I[s[i]]
      BY <1>1, <3>1
    <3>4. QED
      BY <3>2, <3>3
  <2>3. t[Len(s) + 1] = Len(I) + 1 /\ J[t[Len(s) + 1]] = a
    BY <1>1, <1>3
  <2>4. QED
    BY <2>1, <2>2, <2>3
<1>6. Fits(J, t)
  <2>1. t \in Seq(0 .. MaxDocs)
    <3>1. 1 .. MaxDocs \subseteq 0 .. MaxDocs
      BY <1>1
    <3>2. QED
      BY <1>3, <3>1, SeqSubset
  <2>2. ASSUME NEW i \in 1 .. Len(s) + 1 PROVE t[i] \in 0 .. Len(I) + 1 /\ t[i] # 0
    <3>1. t[i] \in 1 .. Len(I) \/ t[i] = Len(I) + 1
      BY <1>4, <1>5
    <3>2. QED
      BY <1>1, <3>1
  <2>3. Head(t) # 0 /\ 0 .. Len(J) = 0 .. Len(I) + 1
    <3>1. 1 \in 1 .. Len(s) + 1
      BY <1>1
    <3>2. QED
      BY <1>1, <1>3, <2>2, <3>1
  <2>4. QED
    BY <1>3, <2>1, <2>2, <2>3 DEF Fits
<1>7. CASE s = <<>>
  <2>1. Len(s) = 0 /\ Len(s) + 1 = 1 /\ DOMAIN t = 1 .. 1 /\ \A i \in 1 .. 1 : i = 1 /\ a = a + i - 1
    BY <1>3, <1>7
  <2>2. J[t[1]] = a /\ t[1] # 0
    <3>1. 1 \in 1 .. Len(s) + 1 /\ 1 \notin 1 .. Len(s)
      BY <2>1
    <3>2. QED
      BY <1>1, <1>5, <3>1
  <2>3. First(J, t) = a
    BY <1>3, <2>2 DEF First
  <2>4. Placed(J, t)
    <3>1. \A i \in DOMAIN t : J[t[i]] = First(J, t) + i - 1
      BY <2>1, <2>2, <2>3
    <3>2. QED
      BY <1>3, <2>2, <3>1 DEF Placed
  <2>5. QED
    BY <1>3, <1>6, <1>7, <2>3, <2>4 DEF J, t
<1>8. CASE s # <<>>
  <2>1. Len(s) > 0 /\ Head(t) = s[1] /\ Head(s) = s[1] /\ J[s[1]] = I[s[1]]
    <3>1. Len(s) > 0 /\ Head(s) = s[1]
      BY <1>8, SeqElements
    <3>2. 1 \in 1 .. Len(s) /\ 1 \in 1 .. Len(s) + 1 /\ 1 # Len(s) + 1
      BY <1>1, <3>1
    <3>3. QED
      BY <1>3, <1>5, <3>1, <3>2
  <2>2. First(J, t) = First(I, s)
    BY <1>3, <1>8, <2>1 DEF First
  <2>3. First(I, s) \in Nat /\ a = First(I, s) + Len(s)
    BY <1>8, FirstTypes
  <2>4. \A i \in 1 .. Len(s) : I[s[i]] = First(I, s) + i - 1
    <3>1. \A i \in 1 .. Len(s) : s[i] # 0
      BY <1>1, <1>4
    <3>2. QED
      BY <1>3, <1>8, <3>1 DEF Placed
  <2>5. First(I, s) + (Len(s) + 1) - 1 = a
    BY <1>1, <2>3
  <2>6. \A i \in 1 .. Len(s) + 1 : J[t[i]] = First(I, s) + i - 1
    BY <1>5, <2>4, <2>5
  <2>7. Placed(J, t)
    BY <1>3, <1>6, <2>2, <2>6 DEF Placed, Fits
  <2>8. QED
    BY <1>3, <1>6, <1>8, <2>2, <2>7 DEF J, t
<1>9. QED
  BY <1>7, <1>8 DEF J, t

-----------------------------------------------------------------------------
(* AddDocument *)

LEMMA MaxIs ==
  ASSUME NEW S \in SUBSET Int, NEW m \in S, \A x \in S : m >= x
  PROVE  Max(S) = m
<1>1. \A x \in S : (\A y \in S : x >= y) => x = m
  OBVIOUS
<1>2. QED
  BY <1>1 DEF Max

\* The ID of a new document is the one after the index, the delta and the store.
LEMMA AllocatedIs ==
  ASSUME TypeOK, Known, StoreInv, ctl = "ready"
  PROVE  /\ AllocateDocumentID \in Nat
         /\ AllocateDocumentID >= End(ids, mem) /\ AllocateDocumentID >= End(ids, delta)
         /\ store = <<>> => AllocateDocumentID \in {End(ids, mem), End(ids, delta)}
         /\ store # <<>> => AllocateDocumentID = End(ids, store)
<1> DEFINE S == {End(ids, mem), End(ids, delta)} \cup {ids[d] + 1 : d \in ToSet(store)}
<1>1. AllocateDocumentID = Max(S)
  <2>1. FirstDocId(mem) + Len(mem) = End(ids, mem) /\ FirstDocId(delta) + Len(delta) = End(ids, delta)
    BY FirstDocIdIs DEF End
  <2>2. QED
    BY <2>1 DEF AllocateDocumentID
<1> HIDE DEF S
<1>2. /\ First(ids, store) \in Nat /\ Len(store) \in Nat /\ End(ids, store) = First(ids, store) + Len(store)
      /\ End(ids, mem) \in Nat /\ End(ids, delta) \in Nat /\ (store # <<>> => Len(store) > 0)
  BY Bounds DEF Seqs
<1>3. CASE store = <<>>
  <2>1. S = {End(ids, mem), End(ids, delta)}
    BY <1>3, EmptyElements DEF S
  <2>2. CASE End(ids, mem) >= End(ids, delta)
    <3>1. \A x \in S : x \in Int /\ End(ids, mem) >= x
      BY <1>2, <2>1, <2>2
    <3>2. Max(S) = End(ids, mem)
      BY <2>1, <3>1, MaxIs
    <3>3. QED
      BY <1>1, <1>2, <1>3, <2>2, <3>2
  <2>3. CASE End(ids, delta) >= End(ids, mem)
    <3>1. \A x \in S : x \in Int /\ End(ids, delta) >= x
      BY <1>2, <2>1, <2>3
    <3>2. Max(S) = End(ids, delta)
      BY <2>1, <3>1, MaxIs
    <3>3. QED
      BY <1>1, <1>2, <1>3, <2>3, <3>2
  <2>4. QED
    BY <1>2, <2>2, <2>3
<1>4. CASE store # <<>>
  <2>1. \A i \in 1 .. Len(store) : ids[store[i]] + 1 = First(ids, store) + i
    <3>1. \A i \in 1 .. Len(store) : store[i] # 0
      <4>1. store \in Seq(1 .. MaxDocs)
        BY DEF TypeOK
      <4>2. \A i \in 1 .. Len(store) : store[i] \in 1 .. MaxDocs
        BY <4>1, SeqElements
      <4>3. QED
        BY <4>2
    <3>2. DOMAIN store = 1 .. Len(store)
      BY DEF TypeOK
    <3>3. \A i \in 1 .. Len(store) : ids[store[i]] = First(ids, store) + i - 1
      BY <1>4, <3>1, <3>2 DEF StoreInv, Placed
    <3>4. QED
      BY <1>2, <3>3
  <2>2. \A d \in ToSet(store) : \E i \in 1 .. Len(store) : d = store[i]
    BY DEF ToSet, TypeOK
  <2>3. \A d \in ToSet(store) : ids[d] + 1 \in Nat /\ ids[d] + 1 <= End(ids, store)
    BY <1>2, <2>1, <2>2
  <2>4. End(ids, mem) <= End(ids, store) /\ End(ids, delta) <= End(ids, store)
    <3>1. First(ids, store) >= End(ids, mem)
      BY <1>4 DEF StoreInv
    <3>2. CASE First(ids, store) >= End(ids, delta)
      BY <1>2, <3>1, <3>2
    <3>3. CASE IsPrefix(delta, store)
      <4>1. delta # <<>> => First(ids, delta) = First(ids, store) /\ Len(delta) <= Len(store)
        BY <3>3, PrefixFirst DEF Known, Seqs
      <4>2. End(ids, delta) = First(ids, delta) + Len(delta) /\ Len(delta) \in Nat
        BY Bounds DEF Seqs
      <4>3. QED
        BY <1>2, <3>1, <4>1, <4>2, EmptyFirst
    <3>4. QED
      BY <1>4, <3>2, <3>3 DEF StoreInv
  <2>5. End(ids, store) \in S
    <3>1. Len(store) \in 1 .. Len(store)
      BY <1>2, <1>4
    <3>2. store[Len(store)] \in ToSet(store)
      BY <3>1 DEF ToSet, TypeOK
    <3>3. QED
      BY <1>2, <2>1, <3>1, <3>2 DEF S
  <2>6. S \in SUBSET Int /\ \A x \in S : End(ids, store) >= x
    BY <1>2, <2>3, <2>4 DEF S
  <2>7. Max(S) = End(ids, store)
    BY <2>5, <2>6, MaxIs
  <2>8. QED
    BY <1>1, <1>2, <1>4, <2>4, <2>7
<1>5. QED
  BY <1>3, <1>4

\* The store after AddDocument, and the IDs before it.
LEMMA AddDocumentGrows ==
  ASSUME LifeInv, AddDocument
  PROVE  /\ Grown /\ ids' \in Seq(Nat) /\ Len(ids') = Len(ids) + 1
         /\ store' \in Seq(1 .. MaxDocs) /\ store' # <<>>
         /\ Fits(ids', store') /\ Placed(ids', store')
         /\ store = <<>> => First(ids', store') = AllocateDocumentID
         /\ store # <<>> => First(ids', store') = First(ids, store) /\ IsPrefix(store, store')
<1> USE DEF LifeInv
<1>1. /\ ids \in Seq(Nat) /\ store \in Seq(1 .. MaxDocs) /\ Len(ids) \in Nat /\ MaxDocs \in Nat
  BY LifecycleAssumption DEF TypeOK
<1>2. /\ ctl = "ready" /\ Len(ids) < MaxDocs
      /\ ids' = Append(ids, AllocateDocumentID) /\ store' = Append(store, Len(ids) + 1)
  BY DEF AddDocument
<1>3. AllocateDocumentID \in Nat /\ (store # <<>> => AllocateDocumentID = End(ids, store))
  BY <1>2, AllocatedIs
<1>4. /\ ids' \in Seq(Nat) /\ Len(ids') = Len(ids) + 1 /\ \A k \in 1 .. Len(ids) : ids'[k] = ids[k]
  BY <1>1, <1>2, <1>3
<1>5. Grown
  BY <1>1, <1>4, NewIdsGrow
<1>6. Fits(ids, store) /\ Placed(ids, store)
  BY DEF Known, Seqs, StoreInv
<1>7. /\ store' \in Seq(1 .. MaxDocs) /\ store' # <<>>
      /\ Fits(ids', store') /\ Placed(ids', store')
      /\ store = <<>> => First(ids', store') = AllocateDocumentID
      /\ store # <<>> => First(ids', store') = First(ids, store)
  BY <1>1, <1>2, <1>3, <1>6, AppendPlaced
<1>8. IsPrefix(store, store')
  <2>1. Len(ids) + 1 \in 1 .. MaxDocs
    BY <1>1, <1>2
  <2>2. QED
    BY <1>1, <1>2, <2>1, PrefixReflexive, PrefixFacts
<1>9. QED
  BY <1>4, <1>5, <1>7, <1>8

LEMMA AddDocumentKeeps ==
  ASSUME LifeInv, AddDocument
  PROVE  LifeInv'
<1> USE DEF LifeInv
<1>1. /\ files' = files /\ mem' = mem /\ loaded' = loaded /\ delta' = delta /\ write' = write
      /\ ctl' = ctl /\ target' = target /\ job' = job /\ crashes' = crashes /\ past' = past
      /\ writeBuilt' = FALSE /\ built' = (built /\ loaded) /\ ctl = "ready" /\ Len(ids) < MaxDocs
  BY DEF AddDocument, files
<1>2. base' = base /\ deltaFile' = deltaFile /\ tmp' = tmp
  BY <1>1 DEF files
<1>3. /\ Grown /\ ids' \in Seq(Nat) /\ Len(ids') = Len(ids) + 1
      /\ store' \in Seq(1 .. MaxDocs) /\ store' # <<>> /\ Fits(ids', store') /\ Placed(ids', store')
      /\ store = <<>> => First(ids', store') = AllocateDocumentID
      /\ store # <<>> => First(ids', store') = First(ids, store) /\ IsPrefix(store, store')
  BY AddDocumentGrows
<1>4. \A ds \in Seqs' : ds = store' \/ ds \in Seqs
  BY <1>1, <1>2 DEF Seqs
<1>5. Known'
  BY <1>3, <1>4 DEF Known, Grown
<1>6. TypeOK'
  <2>1. FileTypes' /\ SeqTypesOK' /\ job' \in JobType
    BY <1>1, <1>2, TypeParts DEF FileTypes, FileOK, SeqTypesOK
  <2>2. FlagTypes'
    BY <1>1, TypeParts DEF FlagTypes
  <2>3. ControlTypes' /\ StoreTypes'
    BY <1>1, <1>3, TypeParts DEF ControlTypes, StoreTypes
  <2>4. CountTypes'
    BY <1>1, <1>3, TypeParts, LifecycleAssumption DEF CountTypes
  <2>5. QED
    BY <2>1, <2>2, <2>3, <2>4, TypesNext
<1>7. SessionInv'
  <2>1. ASSUME base.kind = "none"
        PROVE  delta = <<>> /\ write = <<>> /\ First(ids', store') = 0
    <3>1. delta = <<>> /\ write = <<>> /\ mem = <<>> /\ First(ids, store) = 0
      BY <1>1, <2>1, TypeParts DEF SessionInv, FileTypes, FileOK
    <3>2. store = <<>> => AllocateDocumentID = 0
      BY <1>1, <3>1, AllocatedIs, EmptyFirst
    <3>3. QED
      BY <1>3, <3>1, <3>2
  <2>2. QED
    BY <1>1, <1>2, <2>1 DEF SessionInv
<1>8. WriteInv'
  <2>1. write = <<>> \/ Copies(ids', mem, write)
    BY <1>1, <1>3, GrownFollows DEF WriteInv, Seqs
  <2>2. QED
    BY <1>1, <2>1 DEF WriteInv
<1>9. StoreInv'
  <2>1. End(ids', mem) = End(ids, mem) /\ End(ids', delta) = End(ids, delta)
    BY <1>3 DEF Grown, Seqs
  <2>2. CASE store = <<>>
    <3>1. First(ids', store') >= End(ids, mem) /\ First(ids', store') >= End(ids, delta)
      BY <1>1, <1>3, <2>2, AllocatedIs
    <3>2. QED
      BY <1>1, <1>3, <2>1, <3>1 DEF StoreInv
  <2>3. CASE store # <<>>
    <3>1. IsPrefix(delta, store) => IsPrefix(delta, store')
      <4>1. Len(ids) + 1 \in 0 .. MaxDocs
        BY <1>1, LifecycleAssumption DEF TypeOK
      <4>2. store' = Append(store, Len(ids) + 1)
        BY DEF AddDocument
      <4>3. QED
        BY <4>1, <4>2, StoredTypes, PrefixFacts
    <3>2. QED
      BY <1>1, <1>3, <2>1, <2>3, <3>1 DEF StoreInv
  <2>4. QED
    BY <2>2, <2>3
<1>10. JobInv'
  <2>1. job = NoJob
    BY <1>1 DEF JobInv
  <2>2. Len(ids') + 0 <= MaxDocs
    BY <1>1, <1>3, LifecycleAssumption DEF TypeOK
  <2>3. QED
    BY <1>1, <2>1, <2>2, JobFacts DEF JobInv
<1>11. ZeroInv'
  <2>1. First(ids', base.docs) = First(ids, base.docs) /\ First(ids', tmp) = First(ids, tmp)
    BY <1>3 DEF Grown, Seqs
  <2>2. QED
    BY <1>1, <1>2, <2>1 DEF ZeroInv, NoSkip
<1>12. CrashFreeInv'
  <2>1. /\ Follows(ids, base.docs, deltaFile.docs) => Follows(ids', base.docs, deltaFile.docs)
        /\ Follows(ids, mem, delta) => Follows(ids', mem, delta)
    BY <1>3, GrownFollows DEF Seqs
  <2>2. QED
    BY <1>1, <1>2, <2>1 DEF CrashFreeInv
<1>13. PlacedInv'
  BY <1>1, <1>3, <1>4 DEF PlacedInv, Grown, NoSkip
<1>14. QED
  BY <1>5, <1>6, <1>7, <1>8, <1>9, <1>10, <1>11, <1>12, <1>13

-----------------------------------------------------------------------------
(* WriteMerged *)

\* The delta that Merge accepts starts where the index ends.
LEMMA MergedPlaced ==
  ASSUME LifeInv, MergeCalled, MergeAllowed, crashes > 0 => NoSkip
  PROVE  First(ids, mem) = 0 /\ First(ids, delta) = End(ids, mem)
<1> USE DEF LifeInv
<1>1. First(ids, delta) = Len(mem) /\ mem # <<>> /\ delta # <<>>
  BY FirstDocIdIs DEF MergeAllowed
<1>2. ctl \in {"ready", "merge"} /\ mem = base.docs
  BY DEF MergeCalled, SessionInv
<1>3. First(ids, mem) \in Nat /\ Len(mem) \in Nat /\ End(ids, mem) = First(ids, mem) + Len(mem)
  BY Bounds DEF Seqs
<1>4. CASE NoSkip
  BY <1>1, <1>2, <1>3, <1>4 DEF ZeroInv
<1>5. CASE crashes = 0
  <2>1. Follows(ids, mem, delta)
    BY <1>2, <1>5 DEF CrashFreeInv
  <2>2. First(ids, delta) >= End(ids, mem) \/ First(ids, mem) = 0
    BY <1>1, <2>1 DEF Follows, Copies
  <2>3. QED
    BY <1>1, <1>3, <2>2
<1>6. QED
  BY <1>4, <1>5, LifecycleAssumption DEF TypeOK

LEMMA WriteMergedKeeps ==
  ASSUME LifeInv, WriteMerged
  PROVE  LifeInv'
<1> USE DEF LifeInv
<1>1. /\ base' = base /\ deltaFile' = deltaFile /\ store' = store /\ write' = write
      /\ writeBuilt' = writeBuilt /\ target' = target /\ job' = job
      /\ ids' = ids /\ crashes' = crashes /\ past' = past
      /\ tmp' = mem \o delta /\ mem' = <<>> /\ delta' = <<>> /\ ctl' = "merged"
      /\ built' = FALSE /\ loaded' = FALSE
  BY DEF WriteMerged, history
<1>2. MergeCalled /\ MergeAllowed
  BY DEF WriteMerged
<1>3. /\ ctl \in {"ready", "merge"} /\ mem = base.docs /\ mem # <<>> /\ delta # <<>>
      /\ First(ids, delta) = Len(mem)
  BY <1>2, FirstDocIdIs DEF MergeCalled, MergeAllowed, SessionInv
<1>4. /\ Fits(ids, tmp') /\ tmp' # <<>> /\ Len(tmp') = Len(mem) + Len(delta)
      /\ First(ids, tmp') = First(ids, mem)
      /\ Placed(ids, mem) /\ Placed(ids, delta) /\ First(ids, delta) = First(ids, mem) + Len(mem)
           => Placed(ids, tmp')
  <2>1. ids \in Seq(Nat) /\ Fits(ids, mem) /\ Fits(ids, delta)
    BY DEF TypeOK, Known, Seqs
  <2>2. QED
    BY <1>1, <1>3, <2>1, ConcatFits
<1>5. \A ds \in Seqs' : ds = tmp' \/ ds = <<>> \/ ds \in Seqs
  BY <1>1 DEF Seqs
<1>6. Known'
  BY <1>1, <1>4, <1>5, EmptyFirst DEF Known
<1>7. TypeOK'
  <2>1. FileTypes' /\ StoreTypes' /\ CountTypes' /\ job' \in JobType
    BY <1>1, TypeParts DEF FileTypes, FileOK, StoreTypes, CountTypes
  <2>2. SeqTypesOK'
    BY <1>6 DEF Known, Seqs, Fits, SeqTypesOK
  <2>3. FlagTypes' /\ ControlTypes'
    BY <1>1, TypeParts DEF FlagTypes, ControlTypes
  <2>4. QED
    BY <2>1, <2>2, <2>3, TypesNext
<1>8. IsPrefix(mem, tmp') /\ \A d \in Seq(0 .. MaxDocs) : IsPrefix(d, mem) => IsPrefix(d, tmp')
  <2>1. 0 \in 0 .. MaxDocs
    BY LifecycleAssumption
  <2>2. QED
    BY <1>1, <2>1, StoredTypes, PrefixFacts
<1>9. SessionInv'
  BY <1>1, <1>3, <1>4, <1>8 DEF SessionInv
<1>10. WriteInv'
  <2>1. write = <<>> \/ Copies(ids, mem, write)
    BY <1>3 DEF SessionInv, WriteInv
  <2>2. write = <<>> \/ Copies(ids, tmp', write)
    BY <1>4, <1>8, <2>1, StoredTypes DEF Copies
  <2>3. QED
    BY <1>1, <2>2 DEF WriteInv
<1>11. StoreInv'
  BY <1>1 DEF StoreInv
<1>12. JobInv'
  <2>1. ASSUME job.id # Unassigned PROVE EndsAtJob(tmp)'
    <3>1. ctl = "merge" /\ base.kind = "index"
      BY <1>3, <2>1, JobFacts, TypeParts DEF JobInv, FileTypes, FileOK
    <3>2. First(ids, delta) >= End(ids, mem) /\ EndsAtJob(delta)
      BY <2>1, <3>1 DEF JobInv, StartsAt
    <3>3. /\ First(ids, mem) \in Nat /\ Len(mem) \in Nat /\ End(ids, mem) = First(ids, mem) + Len(mem)
          /\ First(ids, delta) \in Nat /\ Len(delta) \in Nat
          /\ End(ids, delta) = First(ids, delta) + Len(delta)
      BY Bounds DEF Seqs
    <3>4. First(ids, tmp') + Len(tmp') = First(ids, delta) + Len(delta)
      BY <1>3, <1>4, <3>2, <3>3
    <3>5. End(ids, tmp') = End(ids, delta)
      BY <3>4 DEF End
    <3>6. QED
      BY <1>1, <3>2, <3>5 DEF EndsAtJob, NoSkip
  <2>2. QED
    BY <1>1, <2>1 DEF JobInv
<1>13. ZeroInv'
  BY <1>1, <1>3, <1>4 DEF ZeroInv, NoSkip
<1>14. CrashFreeInv'
  <2>1. base.kind = "index"
    BY <1>3, TypeParts DEF FileTypes, FileOK
  <2>2. QED
    BY <1>1, <1>3, <2>1 DEF CrashFreeInv
<1>15. PlacedInv'
  <2>1. ASSUME crashes > 0 => NoSkip PROVE \A ds \in Seqs' : Placed(ids, ds)
    <3>1. \A ds \in Seqs : Placed(ids, ds)
      BY <2>1 DEF PlacedInv
    <3>2. First(ids, delta) = First(ids, mem) + Len(mem)
      BY <1>2, <2>1, MergedPlaced DEF End
    <3>3. Placed(ids, tmp')
      BY <1>4, <3>1, <3>2 DEF Seqs
    <3>4. QED
      BY <1>5, <3>1, <3>3, EmptyFirst
  <2>2. QED
    BY <1>1, <2>1 DEF PlacedInv, NoSkip
<1>16. QED
  BY <1>6, <1>7, <1>9, <1>10, <1>11, <1>12, <1>13, <1>14, <1>15

-----------------------------------------------------------------------------
(* AddBatch *)

\* The index of a batch: a record for every ID from the first to the last.
LEMMA BatchPlaced ==
  ASSUME NEW n \in Nat \ {0}, NEW lo \in Nat, NEW hi \in Nat,
         NEW read \in [1 .. n -> lo .. hi],
         \A i, j \in 1 .. n : i < j => read[i] < read[j],
         ids \in Seq(Nat), Len(ids) + n <= MaxDocs
  PROVE  LET J == ids \o read
             R == BatchRecords(read)
         IN  /\ R # <<>> /\ Fits(J, R) /\ Placed(J, R)
             /\ First(J, R) = read[1] /\ End(J, R) = read[n] + 1
<1> DEFINE J == ids \o read
           m == read[n] - read[1] + 1
           Has(i, k) == read[k] = read[1] + i - 1
           R == BatchRecords(read)
<1>1. ids \in Seq(Nat) /\ read \in Seq(Nat) /\ Len(read) = n /\ DOMAIN read = 1 .. n
  <2>1. \A k \in 1 .. n : read[k] \in Nat
    OBVIOUS
  <2>2. QED
    BY <2>1
<1>2. Len(ids) \in Nat /\ MaxDocs \in Nat /\ Len(ids) + n \in Nat
  BY LifecycleAssumption
<1>3. Len(J) = Len(ids) + n /\ \A k \in 1 .. n : J[Len(ids) + k] = read[k]
  <2>1. Len(J) = Len(ids) + n
    BY <1>1
  <2>2. ASSUME NEW k \in 1 .. n PROVE J[Len(ids) + k] = read[k]
    <3>1. k \in 1 .. Len(read)
      BY <1>1
    <3>2. QED
      BY <1>1, <3>1, ConcatElements
  <2>3. QED
    BY <2>1, <2>2
<1>4. /\ read[1] \in Nat /\ read[n] \in Nat /\ read[1] <= read[n] /\ m \in Nat \ {0}
      /\ read[1] + m = read[n] + 1
  <2>1. 1 \in 1 .. n /\ n \in 1 .. n /\ (1 < n \/ 1 = n)
    OBVIOUS
  <2>2. read[1] \in Nat /\ read[n] \in Nat
    BY <2>1
  <2>3. read[1] <= read[n]
    BY <2>1, <2>2
  <2>4. QED
    BY <2>2, <2>3
<1>5. R = [i \in 1 .. m |-> IF \E k \in 1 .. n : Has(i, k)
                            THEN Len(ids) + CHOOSE k \in 1 .. n : Has(i, k) ELSE 0]
  BY <1>1 DEF BatchRecords
<1> HIDE DEF J, m, Has, R
<1>6. ASSUME NEW i \in 1 .. m
      PROVE  R[i] = 0 \/ \E k \in 1 .. n : R[i] = Len(ids) + k /\ Has(i, k)
  <2>1. CASE \E k \in 1 .. n : Has(i, k)
    <3>1. PICK k \in 1 .. n : k = CHOOSE j \in 1 .. n : Has(i, j)
      BY <2>1
    <3>2. Has(i, k)
      BY <2>1, <3>1
    <3>3. R[i] = Len(ids) + k
      BY <1>5, <2>1, <3>1
    <3>4. QED
      BY <3>2, <3>3
  <2>2. CASE ~ \E k \in 1 .. n : Has(i, k)
    BY <1>5, <2>2
  <2>3. QED
    BY <2>1, <2>2
<1>7. ASSUME NEW i \in 1 .. m
      PROVE  R[i] \in 0 .. Len(ids) + n /\ (R[i] # 0 => J[R[i]] = read[1] + i - 1)
  <2>1. CASE R[i] = 0
    BY <1>2, <2>1
  <2>2. CASE \E k \in 1 .. n : R[i] = Len(ids) + k /\ Has(i, k)
    <3>1. PICK k \in 1 .. n : R[i] = Len(ids) + k /\ Has(i, k)
      BY <2>2
    <3>2. R[i] \in 0 .. Len(ids) + n
      BY <1>2, <3>1
    <3>3. J[R[i]] = read[k]
      BY <1>3, <3>1
    <3>4. QED
      BY <3>1, <3>2, <3>3 DEF Has
  <2>3. QED
    BY <1>6, <2>1, <2>2
<1>8. R[1] # 0
  <2>1. 1 \in 1 .. m /\ 1 \in 1 .. n
    BY <1>4
  <2>2. Has(1, 1)
    BY <1>4 DEF Has
  <2>3. PICK k \in 1 .. n : k = CHOOSE j \in 1 .. n : Has(1, j)
    BY <2>1, <2>2
  <2>4. R[1] = Len(ids) + k
    BY <1>5, <2>1, <2>2, <2>3
  <2>5. QED
    BY <1>2, <2>4
<1>9. R \in Seq(0 .. MaxDocs) /\ Len(R) = m /\ DOMAIN R = 1 .. m /\ R # <<>> /\ Head(R) = R[1]
  <2>1. \A i \in 1 .. m : R[i] \in 0 .. MaxDocs
    BY <1>2, <1>7
  <2>2. R \in [1 .. m -> 0 .. MaxDocs]
    BY <1>5, <2>1
  <2>3. R \in Seq(0 .. MaxDocs) /\ Len(R) = m
    BY <1>4, <2>2, FunctionIsSeq
  <2>4. QED
    BY <1>4, <2>3
<1>10. First(J, R) = read[1]
  <2>1. 1 \in 1 .. m /\ read[1] + 1 - 1 = read[1]
    BY <1>4
  <2>2. J[R[1]] = read[1]
    BY <1>7, <1>8, <2>1
  <2>3. QED
    BY <1>9, <2>2 DEF First
<1>11. Fits(J, R)
  BY <1>3, <1>7, <1>8, <1>9 DEF Fits
<1>12. Placed(J, R)
  BY <1>7, <1>8, <1>9, <1>10 DEF Placed
<1>13. End(J, R) = read[n] + 1
  BY <1>4, <1>9, <1>10 DEF End
<1>14. QED
  BY <1>9, <1>10, <1>11, <1>12, <1>13 DEF J, R

LEMMA AddBatchKeeps ==
  ASSUME LifeInv, AddBatch
  PROVE  LifeInv'
<1> USE DEF LifeInv
<1> DEFINE size == IF BatchSize < job.left THEN BatchSize ELSE job.left
           all  == [i \in 1 .. size |-> job.id + i - 1]
           Added(n, read) ==
             /\ \A i, j \in 1 .. n : i < j => read[i] < read[j]
             /\ ids' = ids \o read
             /\ past' = IF read = all THEN past ELSE past \cup {"skip"}
             /\ IF n = 0 THEN ctl' = "shell" /\ job' = NoJob
                ELSE /\ ctl' = "place"
                     /\ job' = [left |-> job.left - size, id |-> job.id + size,
                                batch |-> BatchRecords(read)]
<1>1. /\ base' = base /\ deltaFile' = deltaFile /\ tmp' = tmp /\ mem' = mem /\ delta' = delta
      /\ store' = store /\ write' = write /\ target' = target /\ crashes' = crashes
      /\ built' = built /\ loaded' = loaded /\ writeBuilt' = writeBuilt /\ ctl = "batch"
  BY DEF AddBatch, files, context
<1>2. PICK n \in 0 .. size : \E read \in [1 .. n -> job.id .. job.id + size - 1] : Added(n, read)
  BY DEF AddBatch
<1>3. PICK read \in [1 .. n -> job.id .. job.id + size - 1] : Added(n, read)
  BY <1>2
<1>4. job.id # Unassigned /\ job.left > 0
  BY DEF AddBatch
<1>5. /\ job.id \in Nat /\ job.left \in Nat /\ size \in Nat /\ size > 0 /\ size <= job.left
      /\ ids \in Seq(Nat) /\ Len(ids) \in Nat /\ MaxDocs \in Nat /\ Len(ids) + job.left <= MaxDocs
  <2>1. job.left \in Nat /\ job.id \in Nat \cup {Unassigned}
    BY StoredTypes, JobFacts
  <2>2. ids \in Seq(Nat) /\ Len(ids) + job.left <= MaxDocs
    BY DEF TypeOK, JobInv
  <2>3. QED
    BY <1>4, <2>1, <2>2, LifecycleAssumption
<1> HIDE DEF size, all
<1>6. n \in Nat /\ n <= size /\ Len(ids) + n <= MaxDocs
  BY <1>5
<1>7. /\ read \in Seq(Nat) /\ Len(read) = n /\ DOMAIN read = 1 .. n
      /\ \A k \in 1 .. n : read[k] \in Nat /\ job.id <= read[k] /\ read[k] <= job.id + size - 1
  <2>1. \A k \in 1 .. n : read[k] \in job.id .. job.id + size - 1
    OBVIOUS
  <2>2. \A k \in 1 .. n : read[k] \in Nat /\ job.id <= read[k] /\ read[k] <= job.id + size - 1
    BY <1>5, <2>1
  <2>3. QED
    BY <1>6, <2>2
<1>8. /\ ids' \in Seq(Nat) /\ Len(ids') = Len(ids) + n
      /\ \A k \in 1 .. Len(ids) : ids'[k] = ids[k]
  BY <1>3, <1>5, <1>7, ConcatElements
<1>9. Grown
  BY <1>5, <1>6, <1>8, NewIdsGrow
<1>10. past \subseteq past' /\ (NoSkip' => NoSkip /\ read = all)
  BY <1>3 DEF NoSkip
<1>11. ASSUME n # 0
       PROVE  LET R == BatchRecords(read)
              IN  /\ R # <<>> /\ Fits(ids', R) /\ Placed(ids', R)
                  /\ First(ids', R) = read[1] /\ End(ids', R) = read[n] + 1
  <2>1. PICK hi \in Nat : hi = job.id + size - 1
    BY <1>5
  <2>2. /\ n \in Nat \ {0} /\ ids' = ids \o read
        /\ \A i, j \in 1 .. n : i < j => read[i] < read[j]
        /\ read \in [1 .. n -> job.id .. hi]
        /\ job.id \in Nat /\ ids \in Seq(Nat) /\ Len(ids) + n <= MaxDocs
    BY <1>3, <1>5, <1>6, <1>11, <2>1
  <2>3. LET J == ids \o read
            R == BatchRecords(read)
        IN  /\ R # <<>> /\ Fits(J, R) /\ Placed(J, R)
            /\ First(J, R) = read[1] /\ End(J, R) = read[n] + 1
    BY <2>2, BatchPlaced
  <2>4. QED
    BY <2>2, <2>3
<1>12. Fits(ids', job'.batch) /\ Placed(ids', job'.batch)
  <2>1. CASE n = 0
    BY <1>3, <2>1, JobFacts, EmptyFirst
  <2>2. CASE n # 0
    <3>1. job'.batch = BatchRecords(read)
      BY <1>3, <2>2
    <3>2. QED
      BY <1>11, <2>2, <3>1
  <2>3. QED
    BY <2>1, <2>2
<1>13. \A ds \in Seqs' : ds = job'.batch \/ ds \in Seqs
  BY <1>1 DEF Seqs
<1>14. Known'
  BY <1>9, <1>12, <1>13 DEF Known, Grown
<1>15. TypeOK'
  <2>1. FileTypes' /\ StoreTypes' /\ SeqTypesOK'
    BY <1>1, TypeParts DEF FileTypes, FileOK, StoreTypes, SeqTypesOK
  <2>2. FlagTypes'
    BY <1>1, TypeParts DEF FlagTypes
  <2>3. CountTypes'
    BY <1>1, <1>5, <1>6, <1>8, TypeParts DEF CountTypes
  <2>4. ControlTypes'
    BY <1>1, <1>3, TypeParts DEF ControlTypes
  <2>5. job' \in JobType
    <3>1. CASE n = 0
      BY <1>3, <3>1, JobFacts
    <3>2. CASE n # 0
      <4>1. job.left - size \in Nat /\ job.id + size \in Nat
        BY <1>5
      <4>2. BatchRecords(read) \in Seq(0 .. MaxDocs)
        BY <1>11, <3>2 DEF Fits
      <4>3. QED
        BY <1>3, <3>2, <4>1, <4>2 DEF JobType
    <3>3. QED
      BY <3>1, <3>2
  <2>6. QED
    BY <2>1, <2>2, <2>3, <2>4, <2>5, TypesNext
<1>16. ctl' \in {"shell", "place"}
  BY <1>3
<1>17. SessionInv' /\ WriteInv'
  BY <1>16 DEF SessionInv, WriteInv
<1>18. StoreInv'
  <2>1. Placed(ids', store)
    BY <1>9 DEF Grown, Seqs, StoreInv
  <2>2. QED
    BY <1>1, <1>16, <2>1 DEF StoreInv
<1>19. JobInv'
  <2>1. CASE n = 0
    <3>1. ctl' = "shell" /\ job' = NoJob /\ Len(ids') + 0 <= MaxDocs
      BY <1>3, <1>5, <1>6, <1>8, <2>1
    <3>2. QED
      BY <3>1, JobFacts DEF JobInv
  <2>2. CASE n # 0
    <3>1. /\ ctl' = "place" /\ job'.left = job.left - size /\ job'.id = job.id + size
          /\ job'.batch = BatchRecords(read)
      BY <1>3, <2>2
    <3>2. Len(ids') + job'.left <= MaxDocs /\ job'.id # Unassigned
      BY <1>5, <1>6, <1>8, <3>1 DEF Unassigned
    <3>3. 1 \in 1 .. n /\ n \in 1 .. n
      BY <1>6, <2>2
    <3>4. /\ End(ids', base.docs) = End(ids, base.docs) /\ End(ids, base.docs) \in Nat
      BY <1>9, Bounds DEF Grown, Seqs
    <3>5. End(ids, base.docs) <= job.id /\ (NoSkip => End(ids, base.docs) = job.id)
      BY <1>1, <1>4 DEF JobInv, EndsAtJob
    <3>6. NoSkip' => read[1] = job.id /\ read[n] + 1 = job.id + size
      <4>1. SUFFICES ASSUME NoSkip' PROVE read[1] = job.id /\ read[n] + 1 = job.id + size
        OBVIOUS
      <4>2. read = [i \in 1 .. size |-> job.id + i - 1]
        BY <1>10, <4>1 DEF all
      <4>3. 1 .. n = 1 .. size
        BY <1>7, <4>2
      <4>4. n = size
        BY <1>5, <1>6, <3>3, <4>3
      <4>5. QED
        BY <1>5, <3>3, <4>2, <4>4
    <3>7. StartsAt(base.docs, job.batch)'
      <4>1. read[1] >= End(ids, base.docs)
        BY <1>5, <1>7, <3>3, <3>4, <3>5
      <4>2. NoSkip' => read[1] = End(ids, base.docs)
        BY <1>10, <3>5, <3>6
      <4>3. QED
        BY <1>1, <1>11, <2>2, <3>1, <3>4, <4>1, <4>2 DEF StartsAt
    <3>8. EndsAtJob(job.batch)'
      <4>1. read[n] + 1 <= job.id + size
        BY <1>5, <1>7, <3>3
      <4>2. QED
        BY <1>11, <2>2, <3>1, <3>6, <4>1 DEF EndsAtJob
    <3>9. QED
      BY <3>1, <3>2, <3>7, <3>8 DEF JobInv
  <2>3. QED
    BY <2>1, <2>2
<1>20. ZeroInv'
  <2>1. First(ids', base.docs) = First(ids, base.docs) /\ First(ids', tmp) = First(ids, tmp)
    BY <1>9 DEF Grown, Seqs
  <2>2. QED
    BY <1>1, <1>10, <2>1 DEF ZeroInv
<1>21. CrashFreeInv'
  <2>1. Follows(ids, base.docs, deltaFile.docs) => Follows(ids', base.docs, deltaFile.docs)
    BY <1>9, GrownFollows DEF Seqs
  <2>2. past' = {} => past = {}
    BY <1>10
  <2>3. QED
    BY <1>1, <1>16, <2>1, <2>2 DEF CrashFreeInv
<1>22. PlacedInv'
  BY <1>1, <1>9, <1>10, <1>12, <1>13 DEF PlacedInv, Grown
<1>23. QED
  BY <1>14, <1>15, <1>17, <1>18, <1>19, <1>20, <1>21, <1>22

-----------------------------------------------------------------------------
(* The invariant *)

LEMMA InitLife ==
  ASSUME Init
  PROVE  LifeInv
<1>1. /\ base = NoFile /\ deltaFile = NoFile /\ tmp = <<>> /\ mem = <<>> /\ delta = <<>>
      /\ store = <<>> /\ write = <<>> /\ built = FALSE /\ loaded = FALSE /\ writeBuilt = FALSE
      /\ ctl = "shell" /\ target = "base" /\ job = NoJob /\ ids = <<>> /\ crashes = 0 /\ past = {}
  BY DEF Init
<1>2. \A ds \in Seqs : ds = <<>>
  BY <1>1, FileFacts, JobFacts DEF Seqs
<1>3. Known /\ PlacedInv
  BY <1>2, EmptyFirst DEF Known, PlacedInv
<1>4. TypeOK
  <2>1. <<>> \in Seq(0 .. MaxDocs) /\ <<>> \in Seq(1 .. MaxDocs) /\ <<>> \in Seq(Nat)
    BY SeqTypes
  <2>2. FileTypes /\ SeqTypesOK /\ StoreTypes /\ job \in JobType
    BY <1>1, <2>1, FileFacts, JobFacts DEF FileTypes, FileOK, SeqTypesOK, StoreTypes
  <2>3. FlagTypes
    BY <1>1 DEF FlagTypes
  <2>4. ControlTypes
    BY <1>1 DEF ControlTypes
  <2>5. CountTypes
    BY <1>1, <2>1, LifecycleAssumption DEF CountTypes
  <2>6. QED
    BY <2>2, <2>3, <2>4, <2>5, TypeParts
<1>5. SessionInv /\ WriteInv
  BY <1>1 DEF SessionInv, WriteInv
<1>6. StoreInv /\ ZeroInv
  BY <1>1, FileFacts, EmptyFirst DEF StoreInv, ZeroInv
<1>7. JobInv
  <2>1. Len(ids) + 0 <= MaxDocs
    BY <1>1, LifecycleAssumption
  <2>2. QED
    BY <1>1, <2>1, JobFacts DEF JobInv
<1>8. CrashFreeInv
  BY <1>1, FileFacts, FollowsFacts DEF CrashFreeInv
<1>9. QED
  BY <1>3, <1>4, <1>5, <1>6, <1>7, <1>8 DEF LifeInv

LEMMA StutterLife ==
  ASSUME LifeInv, UNCHANGED vars
  PROVE  LifeInv'
<1>1. /\ base' = base /\ deltaFile' = deltaFile /\ tmp' = tmp /\ mem' = mem /\ delta' = delta
      /\ store' = store /\ write' = write /\ writeBuilt' = writeBuilt /\ built' = built
      /\ loaded' = loaded /\ ctl' = ctl /\ target' = target /\ job' = job
      /\ ids' = ids /\ crashes' = crashes /\ past' = past
  BY DEF vars, files, context, history
<1>2. TypeOK' /\ Known' /\ PlacedInv'
  BY <1>1 DEF LifeInv, TypeOK, Known, PlacedInv, Seqs, NoSkip
<1>3. SessionInv' /\ WriteInv' /\ StoreInv' /\ ZeroInv'
  BY <1>1 DEF LifeInv, SessionInv, WriteInv, StoreInv, ZeroInv, NoSkip
<1>4. JobInv' /\ CrashFreeInv'
  BY <1>1 DEF LifeInv, JobInv, CrashFreeInv, StartsAt, EndsAtJob, NoSkip
<1>5. QED
  BY <1>2, <1>3, <1>4 DEF LifeInv

\* The files, the context and the batch command agree in every reachable state (LifeInv).
THEOREM LifeInvariant == Spec => []LifeInv
<1>1. Init => LifeInv
  BY InitLife
<1>2. LifeInv /\ [Next]_vars => LifeInv'
  <2>1. SUFFICES ASSUME LifeInv, [Next]_vars PROVE LifeInv'
    OBVIOUS
  <2>2. CASE AddDocument
    BY <2>1, <2>2, AddDocumentKeeps
  <2>3. CASE WriteMerged
    BY <2>1, <2>3, WriteMergedKeeps
  <2>4. CASE AddBatch
    BY <2>1, <2>4, AddBatchKeeps
  <2>5. CASE Moves
    BY <2>1, <2>5, MovesKeep
  <2>6. CASE UNCHANGED vars
    BY <2>1, <2>6, StutterLife
  <2>7. QED
    BY <2>1, <2>2, <2>3, <2>4, <2>5, <2>6 DEF Next, Moves
<1>3. QED
  BY <1>1, <1>2, PTL DEF Spec

\* The files and the context have their types, and a readable index has documents.
THEOREM IndexTypeCorrect == Spec => []TypeOK
<1>1. LifeInv => TypeOK
  BY DEF LifeInv
<1>2. QED
  BY <1>1, LifeInvariant, PTL

\* Whatever is saved, merged, lost or left behind by a crash, the record of every document
\* is where GetDocDataEntry looks for its ID, in every index file and table.
THEOREM IdsArePositional == Spec => []IdsStayPositional
<1>1. LifeInv => IdsStayPositional
  <2>1. \A ds : Positional(ds) <=> Placed(ids, ds)
    BY FirstDocIdIs DEF Positional, Placed
  <2>2. QED
    BY <2>1 DEF LifeInv, PlacedInv, IdsStayPositional, Seqs, NoSkip
<1>2. QED
  BY <1>1, LifeInvariant, PTL

-----------------------------------------------------------------------------
(* IdsUnique *)

\* Documents of an index and of one behind it, or of one that repeats its start.
LEMMA IdsApart ==
  ASSUME NEW I \in Seq(Nat), NEW b, NEW d, Fits(I, b), Fits(I, d), Placed(I, b), Placed(I, d),
         First(I, d) >= End(I, b) \/ IsPrefix(d, b),
         NEW x \in ToSet(b) \ {0}, NEW y \in ToSet(d) \ {0}, I[x] = I[y]
  PROVE  x = y
<1>1. b \in Seq(0 .. MaxDocs) /\ d \in Seq(0 .. MaxDocs)
  BY DEF Fits
<1>2. PICK i \in 1 .. Len(b) : x = b[i]
  BY <1>1 DEF ToSet
<1>3. PICK j \in 1 .. Len(d) : y = d[j]
  BY <1>1 DEF ToSet
<1>4. /\ Len(b) \in Nat /\ Len(d) \in Nat /\ DOMAIN b = 1 .. Len(b) /\ DOMAIN d = 1 .. Len(d)
      /\ b # <<>> /\ d # <<>>
  BY <1>1, <1>2, <1>3
<1>5. First(I, b) \in Nat /\ First(I, d) \in Nat /\ End(I, b) = First(I, b) + Len(b)
  BY FirstTypes
<1>6. I[x] = First(I, b) + i - 1 /\ I[y] = First(I, d) + j - 1
  BY <1>2, <1>3, <1>4 DEF Placed
<1>7. First(I, b) + i = First(I, d) + j
  BY <1>2, <1>3, <1>4, <1>5, <1>6
<1>8. IsPrefix(d, b)
  BY <1>2, <1>3, <1>4, <1>5, <1>7
<1>9. First(I, d) = First(I, b) /\ i = j
  <2>1. First(I, d) = First(I, b)
    BY <1>4, <1>8, PrefixFirst
  <2>2. QED
    BY <1>2, <1>3, <1>4, <1>5, <1>7, <2>1
<1>10. d[j] = b[j]
  BY <1>1, <1>8, PrefixMeans
<1>11. QED
  BY <1>2, <1>3, <1>9, <1>10

\* Without a crash, the documents of the index, the delta and the store of a session have
\* IDs of their own.
THEOREM IdsAreUnique == Spec => []IdsUnique
<1>1. LifeInv => IdsUnique
  <2>1. SUFFICES ASSUME LifeInv, ctl = "ready", crashes = 0,
                        NEW d \in Visible, NEW e \in Visible, ids[d] = ids[e]
                 PROVE  d = e
    BY DEF IdsUnique
  <2>2. /\ ids \in Seq(Nat) /\ Fits(ids, mem) /\ Fits(ids, delta) /\ Fits(ids, store)
        /\ Placed(ids, mem) /\ Placed(ids, delta) /\ Placed(ids, store)
    BY <2>1 DEF LifeInv, TypeOK, Known, PlacedInv, Seqs
  <2>3. IsPrefix(mem, mem) /\ IsPrefix(delta, delta) /\ IsPrefix(store, store)
    BY <2>2, PrefixReflexive DEF Fits
  <2>4. /\ mem # <<>> /\ delta # <<>> => First(ids, delta) >= End(ids, mem) \/ IsPrefix(delta, mem)
        /\ store # <<>> => First(ids, store) >= End(ids, mem)
        /\ store # <<>> => First(ids, store) >= End(ids, delta) \/ IsPrefix(delta, store)
    BY <2>1 DEF LifeInv, CrashFreeInv, StoreInv, Follows, Copies
  <2>5. \A s \in {mem, delta, store} : ToSet(s) # {} => s # <<>>
    BY EmptyElements
  <2>6. \A x, y \in ToSet(mem) \ {0} : ids[x] = ids[y] => x = y
    BY <2>2, <2>3, IdsApart
  <2>7. \A x, y \in ToSet(delta) \ {0} : ids[x] = ids[y] => x = y
    BY <2>2, <2>3, IdsApart
  <2>8. \A x, y \in ToSet(store) \ {0} : ids[x] = ids[y] => x = y
    BY <2>2, <2>3, IdsApart
  <2>9. \A x \in ToSet(mem) \ {0}, y \in ToSet(delta) \ {0} : ids[x] = ids[y] => x = y
    BY <2>2, <2>4, <2>5, IdsApart
  <2>10. \A x \in ToSet(mem) \ {0}, y \in ToSet(store) \ {0} : ids[x] = ids[y] => x = y
    BY <2>2, <2>4, <2>5, IdsApart
  <2>11. \A x \in ToSet(delta) \ {0}, y \in ToSet(store) \ {0} : ids[x] = ids[y] => x = y
    BY <2>2, <2>4, <2>5, IdsApart
  <2>12. QED
    BY <2>1, <2>6, <2>7, <2>8, <2>9, <2>10, <2>11 DEF Visible
<1>2. QED
  BY <1>1, LifeInvariant, PTL

-----------------------------------------------------------------------------
(* What no step does *)

\* Without a crash, a step leaves the documents of the index file in their place: a save
\* never overwrites an index, and Merge replaces one only by an index that starts with it.
THEOREM IndexIsKept == Spec => IndexKeepsDocuments
<1>1. LifeInv /\ [Next]_vars => [crashes' = 0 => IsPrefix(Indexed, Indexed')]_vars
  <2>1. SUFFICES ASSUME LifeInv, Next, crashes' = 0 PROVE IsPrefix(Indexed, Indexed')
    OBVIOUS
  <2> USE DEF Indexed
  <2>2. /\ IsPrefix(base.docs, base.docs) /\ IsPrefix(tmp, tmp)
    BY <2>1, StoredTypes, PrefixReflexive DEF LifeInv
  <2>3. Known' /\ TypeOK'
    <3>1. LifeInv'
      BY <2>1, AddDocumentKeeps, WriteMergedKeeps, AddBatchKeeps, MovesKeep DEF Next, Moves
    <3>2. QED
      BY <3>1 DEF LifeInv
  <2>4. base.docs = <<>> /\ ctl # "removed" => IsPrefix(Indexed, Indexed')
    <3>1. base'.docs \in Seq(0 .. MaxDocs) /\ tmp' \in Seq(0 .. MaxDocs)
      BY <2>3 DEF Known, Seqs, Fits
    <3>2. IsPrefix(<<>>, base'.docs) /\ IsPrefix(<<>>, tmp')
      BY <3>1, PrefixReflexive
    <3>3. QED
      BY <3>2
  <2>5. base' = base /\ ctl # "removed" /\ ctl' # "removed" => IsPrefix(Indexed, Indexed')
    BY <2>2
  <2>6. ASSUME Open \/ AddDocument \/ EndSaveDelta \/ WriteMerged \/ MergeFails PROVE IsPrefix(Indexed, Indexed')
    BY <2>5, <2>6 DEF Open, AddDocument, EndSaveDelta, WriteMerged, MergeFails, MergeCalled, files
  <2>7. ASSUME RemoveDelta \/ Reload \/ BeginBatches \/ AssignIds PROVE IsPrefix(Indexed, Indexed')
    BY <2>5, <2>7 DEF RemoveDelta, Reload, BeginBatches, AssignIds, files
  <2>8. ASSUME AddBatch \/ RenameBatch \/ EndBatches \/ Quit PROVE IsPrefix(Indexed, Indexed')
    BY <2>5, <2>8 DEF AddBatch, RenameBatch, EndBatches, Quit, files
  <2>9. ASSUME BeginSave PROVE IsPrefix(Indexed, Indexed')
    <3>1. ctl = "ready" /\ ctl' = "saving" /\ (base' = base \/ base.kind = "none")
      BY <2>9 DEF BeginSave, IsValidIndex
    <3>2. base.kind = "none" => base.docs = <<>>
      BY <2>1, TypeParts DEF LifeInv, FileTypes, FileOK
    <3>3. QED
      BY <2>4, <2>5, <3>1, <3>2
  <2>10. ASSUME EndSaveBase PROVE IsPrefix(Indexed, Indexed')
    <3>1. ctl = "saving" /\ base.docs = <<>>
      BY <2>1, <2>10 DEF EndSaveBase, LifeInv, SessionInv
    <3>2. QED
      BY <2>4, <3>1
  <2>11. ASSUME RemoveOutput PROVE IsPrefix(Indexed, Indexed')
    BY <2>1, <2>11 DEF RemoveOutput, LifeInv, SessionInv
  <2>12. ASSUME RenameMerged PROVE IsPrefix(Indexed, Indexed')
    <3>1. ctl = "removed" /\ ctl' = "renamed" /\ base'.docs = tmp
      BY <2>1, <2>12, StoredTypes, FileFacts DEF RenameMerged, LifeInv
    <3>2. QED
      BY <2>2, <3>1
  <2>13. ASSUME PlaceBatch PROVE IsPrefix(Indexed, Indexed')
    <3>1. ctl = "place" /\ ctl' # "removed" /\ (base' = base \/ base.kind = "none")
      BY <2>13 DEF PlaceBatch, IsValidIndex
    <3>2. base.kind = "none" => base.docs = <<>>
      BY <2>1, TypeParts DEF LifeInv, FileTypes, FileOK
    <3>3. QED
      BY <2>4, <2>5, <3>1, <3>2
  <2>14. ASSUME Crash PROVE FALSE
    BY <2>1, <2>14, TypeParts DEF Crash, LifeInv, CountTypes
  <2>15. QED
    BY <2>1, <2>6, <2>7, <2>8, <2>9, <2>10, <2>11, <2>12, <2>13, <2>14 DEF Next
<1>2. QED
  BY <1>1, LifeInvariant, PTL DEF Spec, IndexKeepsDocuments

\* When a save ends, the file it has written holds every addition that was pending.
THEOREM PendingIsSaved == Spec => SaveTakesPending
<1>1. LifeInv /\ [Next]_vars =>
        [ctl = "saving" /\ ctl' = "ready" =>
           ToSet(store) \subseteq ToSet(base'.docs) \cup ToSet(deltaFile'.docs)]_vars
  <2>1. SUFFICES ASSUME LifeInv, Next, ctl = "saving", ctl' = "ready"
                 PROVE  ToSet(store) \subseteq ToSet(base'.docs) \cup ToSet(deltaFile'.docs)
    OBVIOUS
  <2>2. EndSaveDelta \/ EndSaveBase
    BY <2>1 DEF Next, Open, AddDocument, BeginSave, WriteMerged, MergeFails, MergeCalled, RemoveOutput,
                RenameMerged, RemoveDelta, Reload, BeginBatches, AssignIds, AddBatch, PlaceBatch,
                RenameBatch, EndBatches, Quit, Crash
  <2>3. base'.docs = write \/ deltaFile'.docs = write
    BY <2>1, <2>2, StoredTypes, FileFacts DEF LifeInv, EndSaveDelta, EndSaveBase
  <2>4. store = <<>> \/ write = store
    BY <2>1 DEF LifeInv, WriteInv
  <2>5. QED
    BY <2>3, <2>4, EmptyElements
<1>2. QED
  BY <1>1, LifeInvariant, PTL DEF Spec, SaveTakesPending

\* Without a crash, a file passed over or a published delta, Merge accepts every batch.
THEOREM BatchesAreMerged == Spec => BatchesMerge
<1>1. LifeInv /\ [Next]_vars => [ctl = "merge" /\ ctl' = "shell" => crashes' > 0 \/ past # {}]_vars
  <2>1. SUFFICES ASSUME LifeInv, Next, ctl = "merge", ctl' = "shell", past = {} PROVE crashes' > 0
    OBVIOUS
  <2>2. MergeFails \/ Crash
    BY <2>1 DEF Next, Open, AddDocument, BeginSave, EndSaveDelta, EndSaveBase, WriteMerged, RemoveOutput,
                RenameMerged, RemoveDelta, Reload, BeginBatches, AssignIds, AddBatch, PlaceBatch,
                RenameBatch, EndBatches, Quit
  <2>3. crashes \in Nat
    BY <2>1, LifecycleAssumption, TypeParts DEF LifeInv, CountTypes
  <2>4. CASE MergeFails
    <3>1. crashes' = crashes /\ ~MergeAllowed
      BY <2>4 DEF MergeFails, history
    <3>2. crashes # 0
      BY <2>1, <3>1, BatchFollows DEF LifeInv
    <3>3. QED
      BY <2>3, <3>1, <3>2
  <2>5. CASE Crash
    BY <2>3, <2>5 DEF Crash
  <2>6. QED
    BY <2>2, <2>4, <2>5
<1>2. QED
  BY <1>1, LifeInvariant, PTL DEF Spec, BatchesMerge
=============================================================================
