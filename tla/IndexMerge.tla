----------------------------- MODULE IndexMerge -----------------------------
(***************************************************************************)
(* IndexContext.Merge. The records of the documents of base and delta are  *)
(* joined (DocPaths). Then two cursors (LeafTermBlockView) walk the leaf   *)
(* blocks of the two in key order, the posting lists of equal keys are     *)
(* joined byte by byte, and a third view of limited size collects the      *)
(* merged blocks; when it is full, DumpBatch appends it to the temporary   *)
(* files and the loop tries the term again. Any block read may fail (a     *)
(* read error, or a pool that refuses).                                    *)
(* The indexes merged are the ones the program builds: postings of         *)
(* arbitrary terms, the documents of the delta above those of the base.    *)
(***************************************************************************)
EXTENDS PostingBlocks, DocPaths

CONSTANTS
  Docs,              \* the document IDs of the two sides, a function of Side
  Tfs,               \* the term frequencies of the two sides
  MaxPostings,       \* bound on the postings of each side, a function of Side
  MergedLeafLimit,   \* MERGED_LEAF_BLOCK_LIMIT
  MergedIndexLimit,  \* MERGED_INDEX_BLOCK_LIMIT
  ScratchBytes,      \* POSTING_SCRATCH_BYTES
  MaxFailures        \* bound on the reads that fail

Side == {"base", "delta"}

ASSUME IndexMergeAssumption ==
  /\ \A b \in Docs["base"], d \in Docs["delta"] : b < d
  /\ \A s \in Side : Docs[s] \subseteq Nat /\ MaxPostings[s] \in Nat
  /\ \A s \in Side : Docs[s] \subseteq Range(HashOrder)
  \* a posting, 11 bytes at most, fits into a continuation block
  /\ \A s \in Side : \A d \in Docs[s] : Len(vb_write(d)) < PageSize - ContinuationHeader
  /\ MergedLeafLimit \in Nat \ {0}
  /\ MergedIndexLimit \in Nat \ {0} /\ MergedIndexLimit < U16
  /\ ScratchBytes \in Nat /\ MaxFailures \in Nat

VARIABLES
  phase,      \* "fill", "merge", "ok" or "err" (InvalidFormat)
  store,      \* the postings added to each side
  docData,    \* the DocData of each side, and the one Merge writes
  table,      \* the index built from each side
  cur,        \* baseCursor and deltaCursor
  out,        \* mergedCursor
  file,       \* what DumpBatch has written
  failures    \* the reads that failed

vars == <<phase, store, docData, table, cur, out, file, failures>>

---------------------------------------------------------------------------
(* LeafTermBlockView as a cursor. A leaf that cannot be read ends it.      *)

\* The state after GoCurrent has to load leaf l; readable: the load succeeds.
CursorAt(t, l, readable) ==
  [leaf |-> l, entry |-> 0, dead |-> l < Len(t.leaf) /\ ~readable]

AtEnd(t, c)   == c.dead \/ c.leaf >= Len(t.leaf)
Current(t, c) == LeafEntry(t.leaf[c.leaf + 1], c.entry)

LoadsLeaf(t, c) == c.entry + 1 = Len(t.leaf[c.leaf + 1]) /\ c.leaf + 1 < Len(t.leaf)

Advance(t, c, readable) ==
  IF c.entry + 1 < Len(t.leaf[c.leaf + 1]) THEN [c EXCEPT !.entry = @ + 1]
  ELSE CursorAt(t, c.leaf + 1, readable)

PostingBytes(t, entry) ==
  LET first == SubSeq(PageAt(t, entry.block).data, entry.offset + 1,
                      entry.offset + entry.length)
      part(i) == LET page == PageAt(t, entry.block + i)
                 IN  SubSeq(page.data, ContinuationHeader + 1, ContinuationHeader + page.len)
  IN  first \o FlattenSeq([i \in 1 .. entry.cont |-> part(i)])

---------------------------------------------------------------------------
(* LeafTermBlockView as the batch being written. *)

EmptyOut(base) ==
  [leaf |-> <<>>, used |-> 0, index |-> [i \in 1 .. MergedIndexLimit |-> EmptyPage],
   block |-> 0, offset |-> 0, has |-> FALSE, base |-> base]

NeedsLeaf(o, key) ==
  o.leaf = <<>> \/ LeafIsFull(Len(Last(o.leaf)), o.used, key)

\* Fault: the number of leaves is not limited.
CanAddAnyEntry(o, key) == byte_len(key) <= LeafBytes

CanAddLeafTermEntry(o, key) ==
  /\ byte_len(key) <= LeafBytes
  /\ Len(o.leaf) + (IF NeedsLeaf(o, key) THEN 1 ELSE 0) <= MergedLeafLimit

\* Where the parts that follow the first one end in the bytes.
ContinuationEnds(bytes, first) ==
  Iterates([from \in 0 .. Len(bytes) |->
              from + PostingSplitLength(SubSeq(bytes, from + 1, Len(bytes)),
                                        PageSize - ContinuationHeader)], first, Len(bytes))

\* Where AddIndexBytes puts the bytes: the block, the offset in it, the length
\* of the first part, the ends of the others and their number; length 0 when
\* they do not fit.
Placement(o, bytes) ==
  LET Counts(end) == {n \in 0 .. Len(bytes) : end[n] = Len(bytes)}
      Result(block, offset, length, end) ==
        LET count == Min(Counts(end))
            fits  == length > 0 /\ Counts(end) # {} /\ 1 + count <= MergedIndexLimit - block
        IN  [block |-> block, offset |-> offset, length |-> IF fits THEN length ELSE 0,
             end |-> end, count |-> IF fits THEN count ELSE 0]
      From(block, offset, length) ==
        Result(block, offset, length, ContinuationEnds(bytes, length))
      First(here) == IF here = 0 THEN From(o.block + 1, 0, PostingSplitLength(bytes, PageSize))
                                 ELSE From(o.block, o.offset, here)
  IN  First(PostingSplitLength(bytes, PageSize - o.offset))

\* Fault: a list that ends in a continuation block leaves the offset behind its
\* first part.
NextOffsetInFirst(at) == at.offset + at.length

\* Where the next list may begin: not in a block that continues a list.
NextOffset(at) == IF at.count = 0 THEN at.offset + at.length ELSE PageSize

Part(bytes, at, i) == SubSeq(bytes, at.end[i - 1] + 1, at.end[i])

AddIndexBytes(o, bytes, at) ==
  LET Page(p, i) ==
        IF i = 0 THEN WriteBytes(o.index[p], at.offset, SubSeq(bytes, 1, at.length))
        ELSE IF i \in 1 .. at.count
        THEN WriteHeader(WriteBytes(o.index[p], ContinuationHeader, Part(bytes, at, i)),
                         MergeMaxDocIDInPairs(Part(bytes, at, i)), Len(Part(bytes, at, i)))
        ELSE o.index[p]
  IN  [o EXCEPT !.index  = [p \in 1 .. MergedIndexLimit |-> Page(p, p - 1 - at.block)],
                !.block  = at.block + at.count,
                !.offset = NextOffset(at),
                !.has    = TRUE]

\* Fault: the block number is not shifted by the blocks already dumped.
MergedEntryUnshifted(o, key, df, at) ==
  [key |-> key, df |-> df, block |-> at.block, offset |-> at.offset,
   length |-> at.length, cont |-> at.count % U16]

MergedEntry(o, key, df, at) ==
  [key |-> key, df |-> df, block |-> o.base + at.block, offset |-> at.offset,
   length |-> at.length, cont |-> at.count % U16]

AddLeafTermEntry(o, entry) ==
  IF NeedsLeaf(o, entry.key)
  THEN [o EXCEPT !.leaf = Append(@, <<entry>>), !.used = byte_len(entry.key)]
  ELSE [o EXCEPT !.leaf[Len(o.leaf)] = Append(@, entry), !.used = @ + byte_len(entry.key)]

UsedIndexBlockCount(o) == IF o.has THEN o.block + 1 ELSE 0

NothingToDump(o) == o.leaf = <<>> /\ UsedIndexBlockCount(o) = 0

DumpBatch(f, o) ==
  [head  |-> f.head \o [i \in DOMAIN o.leaf |-> [first |-> o.leaf[i][1].key,
                                                 block |-> Len(f.head) + i - 1]],
   leaf  |-> f.leaf \o o.leaf,
   index |-> f.index \o SubSeq(o.index, 1, UsedIndexBlockCount(o))]

\* What DumpBatch leaves in memory, with f the files it has written.
ResetWrite(o, f) == IF NothingToDump(o) THEN o ELSE EmptyOut(Len(f.index))

---------------------------------------------------------------------------
(* The specification *)

Init ==
  /\ phase = "fill"
  /\ store = [s \in Side |-> EmptyStore]
  /\ docData = [s \in Side \cup {"merged"} |-> NoRecords]
  /\ table = [s \in Side |-> EmptyTable]
  /\ cur = [s \in Side |-> CursorAt(EmptyTable, 0, TRUE)]
  /\ out = EmptyOut(0) /\ file = EmptyTable
  /\ failures = 0

PostingCount(st) == Cardinality(UNION {{k} \X DOMAIN st[k] : k \in Keys})

\* A document is written to the store of its side, in any order of documents.
Write(s, key, doc, tf) ==
  /\ phase = "fill"
  /\ \/ PostingCount(store[s]) < MaxPostings[s]
     \/ \E i \in DOMAIN store[s][key] : store[s][key][i].doc = doc
  /\ store' = [store EXCEPT ![s] = AddPosting(@, key, doc, tf)]
  /\ UNCHANGED <<phase, docData, table, cur, out, file, failures>>

DocsOf(st) == {e.doc : e \in UNION {Range(st[k]) : k \in Keys}}

\* bad: the sides whose next block read fails.
CanFail(bad) == failures + Cardinality(bad) <= MaxFailures

\* Both sides are built and saved, and Merge opens its cursors; it refuses a
\* side without documents.
BeginMerge ==
  \E bad \in SUBSET Side :
    /\ phase = "fill" /\ CanFail(bad)
    /\ \A s \in Side : store[s] # EmptyStore
    /\ \A s \in bad : BuildBlocks(store[s]).leaf # <<>>
    /\ phase' = "merge"
    /\ LET base == EncodeDocPaths(DocsOf(store["base"]))
           delta == EncodeDocPaths(DocsOf(store["delta"]))
       IN  docData' = [base |-> base, delta |-> delta, merged |-> MergeDocData(base, delta)]
    /\ table' = [s \in Side |-> BuildBlocks(store[s])]
    /\ cur' = [s \in Side |-> CursorAt(table'[s], 0, s \notin bad)]
    /\ failures' = failures + Cardinality(bad)
    /\ UNCHANGED <<store, out, file>>

Live == {s \in Side : ~AtEnd(table[s], cur[s])}

\* Fault: equal keys are taken one after the other.
TakeOne == {s \in Live : \A r \in Live :
              /\ Current(table[s], cur[s]).key <= Current(table[r], cur[r]).key
              /\ s = "delta" /\ r = "base" =>
                   Current(table[s], cur[s]).key < Current(table[r], cur[r]).key}

\* takeBase, takeDelta: the sides at the least key.
Take == {s \in Live : \A r \in Live :
           Current(table[s], cur[s]).key <= Current(table[r], cur[r]).key}

TermKey    == Current(table[CHOOSE s \in Take : TRUE], cur[CHOOSE s \in Take : TRUE]).key
SideBytes(s) == IF s \in Take THEN PostingBytes(table[s], Current(table[s], cur[s])) ELSE <<>>
SideFreq(s)  == IF s \in Take THEN Current(table[s], cur[s]).df ELSE 0

TermBytes == SideBytes("base") \o SideBytes("delta")
TermPlace == Placement(out, TermBytes)

\* What AddIndex or AddIndexPair and the test before it need.
Fits == /\ CanAddLeafTermEntry(out, TermKey)
        /\ Len(TermBytes) <= ScratchBytes
        /\ TermPlace.length > 0

\* One turn of the loop that takes a term; bad: the cursors whose next leaf
\* cannot be read.
MergeTerm ==
  \E bad \in SUBSET Take :
    /\ phase = "merge" /\ Live # {} /\ Fits /\ CanFail(bad)
    /\ \A s \in bad : LoadsLeaf(table[s], cur[s])
    /\ out' = AddLeafTermEntry(AddIndexBytes(out, TermBytes, TermPlace),
                MergedEntry(out, TermKey, SideFreq("base") + SideFreq("delta"), TermPlace))
    /\ cur' = [s \in Side |-> IF s \in Take THEN Advance(table[s], cur[s], s \notin bad)
                                            ELSE cur[s]]
    /\ failures' = failures + Cardinality(bad)
    /\ UNCHANGED <<phase, store, docData, table, file>>

\* Fault: the batch is written but not reset.
DumpWithoutReset(n) ==
  /\ phase = "merge" /\ Live # {}
  /\ IF n = 0 THEN ~Fits ELSE failures < MaxFailures
  /\ phase' = IF NothingToDump(out) THEN "err" ELSE "merge"
  /\ file' = DumpBatch(file, out)
  /\ failures' = failures + n
  /\ UNCHANGED <<store, docData, table, cur, out>>

\* Fault: a full batch is an error.
FailWhenFull(n) ==
  /\ phase = "merge" /\ Live # {}
  /\ IF n = 0 THEN ~Fits ELSE failures < MaxFailures
  /\ phase' = "err"
  /\ failures' = failures + n
  /\ UNCHANGED <<store, docData, table, cur, out, file>>

\* One turn that does not: no room, or an index block that cannot be read.
\* The batch is dumped; an error if there is none.
DumpAndRetry(n) ==
  /\ phase = "merge" /\ Live # {}
  /\ IF n = 0 THEN ~Fits ELSE failures < MaxFailures
  /\ phase' = IF NothingToDump(out) THEN "err" ELSE "merge"
  /\ file' = DumpBatch(file, out)
  /\ out' = ResetWrite(out, file')
  /\ failures' = failures + n
  /\ UNCHANGED <<store, docData, table, cur>>

EndMerge ==
  /\ phase = "merge" /\ Live = {}
  /\ phase' = "ok"
  /\ file' = DumpBatch(file, out)
  /\ out' = ResetWrite(out, file')
  /\ UNCHANGED <<store, docData, table, cur, failures>>

Done == phase \in {"ok", "err"} /\ UNCHANGED vars

MergeStep == MergeTerm \/ (\E n \in 0 .. 1 : DumpAndRetry(n)) \/ EndMerge

Next ==
  \/ \E s \in Side, k \in Keys : \E d \in Docs[s], tf \in Tfs[s] : Write(s, k, d, tf)
  \/ BeginMerge
  \/ MergeStep
  \/ Done

Spec == Init /\ [][Next]_vars

---------------------------------------------------------------------------
(* What is written so far, and what has been passed over. *)

\* The index that the files and the batch make.
Written == DumpBatch(file, out)

Positions(t) == UNION {{l} \X DOMAIN t.leaf[l] : l \in DOMAIN t.leaf}
EntryAt(t, p) == t.leaf[p[1]][p[2]]

\* The positions a cursor has left behind.
Behind(c, p) == \/ p[1] <= c.leaf
                \/ p[1] = c.leaf + 1 /\ p[2] <= c.entry

Passed(s) == {p \in Positions(table[s]) : Behind(cur[s], p)}

\* The entry, if any, that a cursor has left behind under a key.
PassedEntries(s, key) ==
  {e \in {EntryAt(table[s], p) : p \in Passed(s)} : e.key = key}

PassedBytes(s, key) ==
  IF PassedEntries(s, key) = {} THEN <<>>
  ELSE PostingBytes(table[s], CHOOSE e \in PassedEntries(s, key) : TRUE)

PassedFreq(s, key) ==
  IF PassedEntries(s, key) = {} THEN 0
  ELSE (CHOOSE e \in PassedEntries(s, key) : TRUE).df

---------------------------------------------------------------------------
(* Properties *)

TypeOK ==
  /\ phase \in {"fill", "merge", "ok", "err"}
  /\ failures \in 0 .. MaxFailures
  /\ \A s \in Side : /\ cur[s].leaf \in 0 .. Len(table[s].leaf)
                     /\ PostingCount(store[s]) <= MaxPostings[s]
  /\ Len(out.leaf) <= MergedLeafLimit
  /\ out.block < MergedIndexLimit /\ out.offset <= PageSize
  /\ Len(file.head) = Len(file.leaf)

\* The lists in memory: every document once, in the order of the IDs, whatever
\* the order in which they were added.
SortedList(list) == \A i, j \in DOMAIN list : i < j => list[i].doc < list[j].doc

\* The term directory of an index: no key twice, the keys ascending in a leaf
\* and from leaf to leaf, no empty leaf, and a head entry for each leaf that
\* has its first key and its number.
SortedDirectory(t) ==
  /\ t.head = [l \in DOMAIN t.leaf |-> [first |-> t.leaf[l][1].key, block |-> l - 1]]
  /\ \A l \in DOMAIN t.leaf : t.leaf[l] # <<>>
  /\ \A p, q \in Positions(t) :
       (p[1] < q[1] \/ (p[1] = q[1] /\ p[2] < q[2])) => EntryAt(t, p).key < EntryAt(t, q).key

\* The orders that lookup, readers and cursors rely on: those of the lists that
\* AddPosting fills, and those of the directories of the two sides and, at every
\* moment of the merge and over all its batches, of the merged one.
IndexSorted ==
  /\ \A s \in Side, k \in Keys : SortedList(store[s][k])
  /\ \A t \in {table["base"], table["delta"], Written} : SortedDirectory(t)

\* BuildBlocks writes every list whole: under each key that has postings and is
\* not too long there is an entry, and the bytes read under it, over the block
\* it shares with other lists and all its continuation blocks, are the encoded
\* list. LTE_ContinuationBlockCount has to be able to count the blocks.
BuiltLists ==
  phase # "fill" =>
    \A s \in Side, k \in Keys :
      LET list    == store[s][k]
          entries == {x \in {EntryAt(table[s], p) : p \in Positions(table[s])} : x.key = k}
      IN  /\ entries = {} <=> TermLength[k] > HeadTermKeyMax \/ list = <<>>
          /\ \A x \in entries :
               /\ x.df = Len(list)
               /\ (Len(table[s].index) < U16 \/ Len(encode(list)) < U16) =>
                    PostingBytes(table[s], x) = encode(list)

\* No byte of a list is lost, doubled or overwritten: at every moment the terms
\* written are those the cursors have passed, and the bytes read under each,
\* over all its blocks, are those of the base followed by those of the delta,
\* with the sum of the two document frequencies. Batches that were dumped and
\* the blocks that several lists share are in this.
MergedLists ==
  LET entries == {EntryAt(Written, p) : p \in Positions(Written)}
  IN  /\ \A s \in Side : \A p \in Passed(s) :
           \E x \in entries : x.key = EntryAt(table[s], p).key
      /\ \A x \in entries :
           /\ \E s \in Side : PassedEntries(s, x.key) # {}
           /\ PostingBytes(Written, x) = PassedBytes("base", x.key) \o PassedBytes("delta", x.key)
           /\ x.df = PassedFreq("base", x.key) + PassedFreq("delta", x.key)

\* A merge that reports success, and that met no unreadable leaf, has written
\* every list of both sides: under each key the encoded list of the base, then
\* that of the delta, with the number of postings of the two.
MergedWhole ==
  (phase = "ok" /\ \A s \in Side : ~cur[s].dead /\ Len(table[s].index) < U16) =>
    \A k \in Keys :
      LET base    == store["base"][k]
          delta   == store["delta"][k]
          entries == {x \in {EntryAt(file, p) : p \in Positions(file)} : x.key = k}
      IN  /\ entries = {} <=> TermLength[k] > HeadTermKeyMax \/ (base = <<>> /\ delta = <<>>)
          /\ \A x \in entries : /\ x.df = Len(base) + Len(delta)
                                /\ PostingBytes(file, x) = encode(base) \o encode(delta)

\* A merge fails only for a cause: a block that could not be read, or a list
\* that does not fit into an empty batch. A full batch is dumped and the term
\* tried again.
MergeFailsForCause ==
  phase = "err" =>
    \/ failures > 0
    \/ Len(TermBytes) > ScratchBytes
    \/ Placement(EmptyOut(0), TermBytes).length = 0

\* The path of every document can be read from its side and, after the merge,
\* from the merged index: the numbers of the directories are those of the table
\* they are read with. A stable path is read as it was given; another one as its
\* halves are put together again (once for the side, once more for the merged
\* index). Only a directory for which the table has no room is lost.
PathsArrive ==
  phase # "fill" =>
    \A s \in Side : \A d \in DocsOf(store[s]) :
      /\ Arrived(docData[s], d, PathOf[d])
      /\ Arrived(docData.merged, d, PathIn(docData[s], d))

\* The merge ends: a turn of the loop takes a term, or empties a batch that
\* holds something so that the term can be tried again, or leaves the loop.
TermsLeft == Cardinality(UNION {{s} \X (Positions(table[s]) \ Passed(s)) : s \in Live})

MergeProgress ==
  [][phase = "merge" =>
       \/ phase' # "merge"
       \/ TermsLeft' < TermsLeft
       \/ TermsLeft' = TermsLeft /\ ~NothingToDump(out) /\ NothingToDump(out')]_vars
============================================================================
