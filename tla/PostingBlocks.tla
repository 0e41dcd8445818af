--------------------------- MODULE PostingBlocks ---------------------------
(***************************************************************************)
(* From postings in memory to the term directory and the index blocks of   *)
(* an index file: PostingStore.AddPosting and BuildBlocks.                 *)
(* A stream key is its rank in the byte order of the keys; TermLength      *)
(* gives its number of bytes. A page is its bytes and, when it continues   *)
(* a list, the header that fills its first ContinuationHeader bytes.       *)
(***************************************************************************)
EXTENDS PostingBytes

CONSTANTS
  PageSize,             \* PAGE_SIZE, of index blocks and of leaf blocks
  ContinuationHeader,   \* INDEX_BLOCK_CONTINUATION_HEADER_SIZE
  LeafDirectory,        \* LEAF_TERM_DIRECTORY_COUNT - 1, the entries of a leaf
  LeafBytes,            \* PAGE_SIZE - LEAF_TERM_DATA_OFFSET
  LeafEntrySize,        \* LEAF_TERM_ENTRY_SIZE
  HeadTermKeyMax,       \* HEAD_TERM_KEY_MAX
  TermLength,           \* bytes of each key
  U16                   \* 2^16, the width of LTE_ContinuationBlockCount

Keys == DOMAIN TermLength

ASSUME PostingBlocksAssumption ==
  /\ PageSize \in Nat /\ ContinuationHeader \in 1 .. PageSize - 1
  /\ {LeafDirectory, LeafBytes, LeafEntrySize, HeadTermKeyMax} \subseteq Nat
  /\ LeafEntrySize + HeadTermKeyMax <= LeafBytes
  /\ U16 \in Nat \ {0}
  /\ IsFiniteSet(Keys) /\ Keys = 1 .. Cardinality(Keys)
  /\ TermLength \in [Keys -> Nat \ {0}]

---------------------------------------------------------------------------
(* PostingStore *)

EmptyStore == [k \in Keys |-> <<>>]

\* Fault: a document below the last one is appended like the others.
AddPostingAtEnd(store, key, doc, tf) ==
  [store EXCEPT ![key] = Append(@, [doc |-> doc, tf |-> tf])]

\* Append, overwrite, or insert at the place a binary search finds.
AddPosting(store, key, doc, tf) ==
  LET list  == store[key]
      entry == [doc |-> doc, tf |-> tf]
      same  == {i \in DOMAIN list : list[i].doc = doc}
      below == Max({0} \cup {i \in DOMAIN list : list[i].doc < doc})
  IN  [store EXCEPT ![key] =
         IF same = {} THEN InsertAt(list, below + 1, entry)
                      ELSE [list EXCEPT ![Min(same)] = entry]]

---------------------------------------------------------------------------
(* BuildBlocks *)

EmptyPage == [max |-> 0, len |-> 0, data |-> [i \in 1 .. PageSize |-> 0]]

WriteBytes(page, offset, bytes) ==
  [page EXCEPT !.data =
     [i \in 1 .. PageSize |-> IF i - offset \in DOMAIN bytes THEN bytes[i - offset]
                                                              ELSE @[i]]]

WriteHeader(page, max, len) == [page EXCEPT !.max = max, !.len = len]

\* index, cur and wptr are the index blocks and the one being filled; leaf,
\* term and used the leaf blocks and the one being filled.
EmptyBuild == [index |-> <<>>, cur |-> EmptyPage, wptr |-> 0, cont |-> 0,
               head |-> <<>>, leaf |-> <<>>, term |-> <<>>, used |-> 0]

flush_index_block(b) ==
  [b EXCEPT !.index = Append(@, b.cur), !.cur = EmptyPage, !.wptr = 0]

flush_leaf_block(b) ==
  IF b.term = <<>> THEN b
  ELSE [b EXCEPT !.head = Append(@, [first |-> b.term[1].key, block |-> Len(b.leaf)]),
                 !.leaf = Append(@, b.term), !.term = <<>>, !.used = 0]

byte_len(key) == LeafEntrySize + TermLength[key]

LeafIsFull(count, used, key) ==
  count > 0 /\ (count >= LeafDirectory \/ used + byte_len(key) > LeafBytes)

AddLeafEntry(b, entry) ==
  LET room == IF LeafIsFull(Len(b.term), b.used, entry.key)
              THEN flush_leaf_block(b) ELSE b
  IN  [room EXCEPT !.term = Append(@, entry), !.used = @ + byte_len(entry.key)]

\* The rest of a list is cut into whole pairs for pages of their own: where
\* each page ends in the bytes, until not even one pair fits.
BlockEnds(bytes) ==
  Iterates([from \in 0 .. Len(bytes) |->
              from + PostingPrefixBytes(SubSeq(bytes, from + 1, Len(bytes)),
                                        PageSize - ContinuationHeader)], 0, Len(bytes))

ContinuationPage(part) ==
  WriteHeader(WriteBytes(EmptyPage, ContinuationHeader, part), MaxDocIDInPairs(part), Len(part))

\* The pages of the rest of a list, after the open page was flushed; the last
\* one stays open for the next term.
AddContinuations(b, bytes) ==
  LET end   == BlockEnds(bytes)
      all   == end[Len(bytes)]
      count == Min({n \in 0 .. Len(bytes) : end[n] = all})
      pages == [i \in 1 .. count |->
                  ContinuationPage(SubSeq(bytes, end[i - 1] + 1, end[i]))]
      open  == all = Len(bytes)
  IN  [b EXCEPT !.index = @ \o (IF open THEN Front(pages) ELSE pages),
                !.cur   = IF open THEN Last(pages) ELSE EmptyPage,
                !.wptr  = IF open THEN ContinuationHeader + Last(pages).len ELSE 0,
                !.cont  = count]

\* Fault: a new page only when the open one is full to its end.
OpenPageWhenFull(b, bytes) == IF b.wptr >= PageSize THEN flush_index_block(b) ELSE b

\* A new page when not even one pair fits where the previous term ended.
OpenPage(b, bytes) ==
  IF b.wptr >= PageSize \/ PostingPrefixBytes(bytes, PageSize - b.wptr) = 0
  THEN flush_index_block(b) ELSE b

\* The first here bytes on the open page, the others on pages of their own.
WriteList(open, bytes, here) ==
  LET first == [open EXCEPT !.cur  = WriteBytes(@, open.wptr, SubSeq(bytes, 1, here)),
                            !.wptr = @ + here, !.cont = 0]
  IN  IF here = Len(bytes) THEN first
      ELSE AddContinuations(flush_index_block(first), SubSeq(bytes, here + 1, Len(bytes)))

\* One term.
AddTerm(b, key, list) ==
  LET Directory(done, open, here) ==
        AddLeafEntry(done, [key |-> key, df |-> Len(list), block |-> Len(open.index),
                            offset |-> open.wptr, length |-> here, cont |-> done.cont % U16])
      Put(open, bytes, here) ==
        IF here = 0 THEN open ELSE Directory(WriteList(open, bytes, here), open, here)
      On(open, bytes) == Put(open, bytes, PostingPrefixBytes(bytes, PageSize - open.wptr))
      Encoded(bytes)  == On(OpenPage(b, bytes), bytes)
  IN  IF TermLength[key] > HeadTermKeyMax \/ list = <<>> THEN b ELSE Encoded(encode(list))

TableOf(b) == [head |-> b.head, leaf |-> b.leaf, index |-> b.index]

\* The state after each term, in the order of the keys.
Built(store) ==
  LET built[k \in 0 .. Cardinality(Keys)] ==
        IF k = 0 THEN EmptyBuild ELSE AddTerm(built[k - 1], k, store[k])
  IN  built

BuildBlocks(store) ==
  LET Closing(b) == flush_leaf_block(IF b.wptr > 0 THEN flush_index_block(b) ELSE b)
  IN  TableOf(Closing(Built(store)[Cardinality(Keys)]))

EmptyTable == [head |-> <<>>, leaf |-> <<>>, index |-> <<>>]

---------------------------------------------------------------------------
(* What is read of the blocks *)

\* LeafTermBlock.entry, of a block as AddLeafEntry has written it.
LeafEntry(leaf, i) == leaf[i + 1]

PageAt(table, seq) == table.index[seq + 1]
============================================================================
