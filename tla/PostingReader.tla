--------------------------- MODULE PostingReader ---------------------------
(***************************************************************************)
(* From the blocks of an index file back to postings: the decoder of one   *)
(* block (UnifiedDecoder), the lookup of a term (FindTermDataHeadLeaf) and *)
(* the reader of its list over all its blocks (AdvancedIndexReader).       *)
(***************************************************************************)
EXTENDS PostingBlocks

---------------------------------------------------------------------------
(* UnifiedDecoder: a position in the data of one block. *)

Closed == [data |-> <<>>, ptr |-> 0, end |-> 0, doc |-> 0, tf |-> 0, has |-> FALSE]

\* A range that leaves the block is read as an empty one.
OpenRaw(data, offset, len) ==
  LET end == IF offset + len <= Len(data) THEN offset + len ELSE 0
  IN  [data |-> data, ptr |-> Min({offset, end}), end |-> end,
       doc |-> 0, tf |-> 0, has |-> FALSE]

\* One pair; the end of the range inside a pair ends the list.
DecodeNext(d) ==
  LET bytes == SubSeq(d.data, 1, d.end)
      AfterId(id) ==
        CASE d.ptr >= d.end -> [d EXCEPT !.has = FALSE]
          [] d.ptr < d.end /\ id = Fail -> [d EXCEPT !.has = FALSE, !.ptr = d.end]
          [] d.ptr < d.end /\ id = d.end ->
               [d EXCEPT !.has = FALSE, !.ptr = id, !.doc = VbValue(bytes, d.ptr, id)]
          [] OTHER -> [d EXCEPT !.has = TRUE, !.ptr = id + 1,
                                !.doc = VbValue(bytes, d.ptr, id), !.tf = bytes[id + 1]]
  IN  AfterId(readOne(bytes, d.ptr))

RECURSIVE DecoderSkip(_, _)
DecoderSkip(d, target) ==
  LET From(next) == IF next.has /\ next.doc < target THEN DecoderSkip(next, target) ELSE next
  IN  From(DecodeNext(d))

DecoderGoUntil(d, target) ==
  IF d.has /\ d.doc >= target THEN d ELSE DecoderSkip(d, target)
---------------------------------------------------------------------------
(* FindTermData: the head entry whose leaf may hold the key, and a binary  *)
(* search in that leaf. No index has the perfect hash (TermMphf).          *)

NoLocation == [df |-> 0, block |-> 0, offset |-> 0, length |-> 0, cont |-> 0]

\* The first entry in left .. right - 1 that is not below the key, else right.
RECURSIVE LowerBound(_, _, _, _)
LowerBound(leaf, key, left, right) ==
  LET mid == left + (right - left) \div 2
  IN  IF left >= right THEN left
      ELSE IF LeafEntry(leaf, mid).key < key THEN LowerBound(leaf, key, mid + 1, right)
      ELSE LowerBound(leaf, key, left, mid)

\* partition_point over the sorted head entries.
HeadPosition(table, key) ==
  Cardinality({i \in DOMAIN table.head : table.head[i].first <= key})

FindTermDataHeadLeaf(table, key) ==
  LET At(leaf, left) ==
        IF left = Len(leaf) \/ LeafEntry(leaf, left).key # key THEN NoLocation
        ELSE [f \in DOMAIN NoLocation |-> LeafEntry(leaf, left)[f]]
      In(leaf)  == At(leaf, LowerBound(leaf, key, 0, Len(leaf)))
      Found(pos) == IF table.head = <<>> \/ TermLength[key] > HeadTermKeyMax \/ pos = 0
                   THEN NoLocation ELSE In(table.leaf[table.head[pos].block + 1])
  IN  Found(HeadPosition(table, key))

---------------------------------------------------------------------------
(* AdvancedIndexReader: seq and rem are m_BlockSeqNumber and               *)
(* m_RemainingContinuationBlocks, dec the decoder with its block.          *)

HasPage(table, seq) == seq < Len(table.index)

OpenContinuation(page) == OpenRaw(page.data, ContinuationHeader, page.len)

LoadContinuation(table, r) ==
  [r EXCEPT !.seq = @ + 1, !.rem = @ - 1,
            !.dec = OpenContinuation(PageAt(table, r.seq + 1))]

RECURSIVE NextBlocks(_, _)
NextBlocks(table, r) ==
  IF r.dec.has \/ r.rem = 0 \/ ~HasPage(table, r.seq + 1) THEN r
  ELSE NextBlocks(table, [LoadContinuation(table, r) EXCEPT !.dec = DecodeNext(@)])

CloseAtEnd(r) == IF ~r.dec.has /\ r.rem = 0 THEN [r EXCEPT !.dec = Closed] ELSE r

LeafGoNext(table, r) ==
  CloseAtEnd(NextBlocks(table, [r EXCEPT !.dec = DecodeNext(@)]))

LeafOpen(table, key) ==
  LET Reader(at) ==
        [seq |-> at.block, rem |-> at.cont, df |-> at.df,
         dec |-> IF at.length > 0 /\ HasPage(table, at.block)
                 THEN OpenRaw(PageAt(table, at.block).data, at.offset, at.length) ELSE Closed]
  IN  LeafGoNext(table, Reader(FindTermDataHeadLeaf(table, key)))

\* Fault: a block whose last document is the target is passed over.
SkipsContinuationAtMax(target, page) == target >= page.max

SkipsContinuation(target, page) == target > page.max

\* The blocks whose header ends below the target are passed over undecoded.
RECURSIVE UntilBlocks(_, _, _)
UntilBlocks(table, r, target) ==
  LET page       == PageAt(table, r.seq + 1)
      Opened(o)  == IF o.dec.has THEN UntilBlocks(table, o, target) ELSE o
      Passed(at) == [at EXCEPT !.seq = @ + 1, !.rem = @ - 1]
      Past(at)   ==
        IF at.dec.has \/ at.rem = 0 \/ ~HasPage(table, r.seq + 1) THEN at
        ELSE IF SkipsContinuation(target, page) THEN UntilBlocks(table, Passed(at), target)
        ELSE Opened([Passed(at) EXCEPT !.dec = DecodeNext(OpenContinuation(page))])
  IN  Past([r EXCEPT !.dec = DecoderGoUntil(@, target)])

LeafGoUntil(table, r, target) == CloseAtEnd(UntilBlocks(table, r, target))

\* All that a reader delivers, from where it stands.
RECURSIVE ReadAll(_, _)
ReadAll(table, r) ==
  IF ~r.dec.has THEN <<>>
  ELSE <<[doc |-> r.dec.doc, tf |-> r.dec.tf]>> \o ReadAll(table, LeafGoNext(table, r))
============================================================================
