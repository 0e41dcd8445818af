----------------------------- MODULE MergeLemmas -----------------------------
(***************************************************************************)
(* What the operators of PostingBytes, PostingBlocks and IndexMerge give:  *)
(* where posting bytes are cut, what a page keeps when it is written, how  *)
(* a directory grows, and that BuildBlocks makes a table that can be read  *)
(* and in which every list is whole.                                       *)
(***************************************************************************)
EXTENDS IndexMerge, SequenceLemmas, FiniteSetTheorems, TLAPS

IteratesOk(g, f, x, n) == g = [i \in 0 .. n |-> IF i = 0 THEN x ELSE f[g[i - 1]]]

LEMMA IteratesExists ==
  ASSUME NEW f, NEW x
  PROVE  \A n \in Nat : \E g : IteratesOk(g, f, x, n)
<1> DEFINE S == {n \in Nat : \E g : IteratesOk(g, f, x, n)}
<1>1. 0 \in S
  <2>1. IteratesOk([i \in 0 .. 0 |-> x], f, x, 0)
    BY DEF IteratesOk
  <2>2. QED
    BY <2>1
<1>2. ASSUME NEW n \in Nat, n \in S PROVE n + 1 \in S
  <2>1. PICK g : IteratesOk(g, f, x, n)
    BY <1>2
  <2> DEFINE h == [i \in 0 .. n + 1 |-> IF i = n + 1 THEN f[g[n]] ELSE g[i]]
  <2>2. \A i \in 0 .. n + 1 : h[i] = IF i = 0 THEN x ELSE f[h[i - 1]]
    BY <2>1 DEF IteratesOk
  <2>3. IteratesOk(h, f, x, n + 1)
    BY <2>2 DEF IteratesOk
  <2>4. QED
    BY <2>3
<1> HIDE DEF S
<1>3. \A n \in Nat : n \in S
  BY <1>1, <1>2, NatSetInduction
<1>4. QED
  BY <1>3 DEF S

\* g is x, f[x], f[f[x]] and so on, all in S.
Loop(g, S, f, x, n) ==
  /\ \A i \in 0 .. n : g[i] \in S
  /\ g[0] = x
  /\ \A i \in 1 .. n : g[i] = f[g[i - 1]]

LEMMA IteratesSteps ==
  ASSUME NEW S, NEW f \in [S -> S], NEW x \in S, NEW n \in Nat
  PROVE  Loop(Iterates(f, x, n), S, f, x, n)
<1> DEFINE g == Iterates(f, x, n)
<1>1. IteratesOk(g, f, x, n)
  <2>1. \E h : IteratesOk(h, f, x, n)
    BY IteratesExists
  <2>2. QED
    BY <2>1, Zenon DEF Iterates, IteratesOk
<1> HIDE DEF g
<1>2. g[0] = x /\ \A i \in 1 .. n : g[i] = f[g[i - 1]]
  BY <1>1 DEF IteratesOk
<1> DEFINE I == {i \in Nat : i <= n => g[i] \in S}
<1>3. 0 \in I
  BY <1>2
<1>4. ASSUME NEW i \in Nat, i \in I PROVE i + 1 \in I
  <2>1. SUFFICES ASSUME i + 1 <= n PROVE g[i + 1] \in S
    OBVIOUS
  <2>2. g[i] \in S /\ i + 1 \in 1 .. n /\ (i + 1) - 1 = i
    BY <1>4, <2>1
  <2>3. g[i + 1] = f[g[i]]
    BY <2>2, <1>2
  <2>4. QED
    BY <2>2, <2>3
<1> HIDE DEF I
<1>5. \A i \in Nat : i \in I
  BY <1>3, <1>4, NatSetInduction
<1>6. \A i \in 0 .. n : g[i] \in S
  BY <1>5 DEF I
<1>7. QED
  BY <1>2, <1>6 DEF g, Loop

---------------------------------------------------------------------------
(* Where posting bytes are cut *)

LEMMA ReadOneInside ==
  ASSUME NEW data \in Seq(Nat), NEW offset \in Nat
  PROVE  \/ readOne(data, offset) = Fail
         \/ readOne(data, offset) \in offset + 1 .. Len(data)
<1> DEFINE ends == {p \in offset + 1 .. Len(data) : ~More(data[p])}
<1>1. CASE ends = {}
  BY <1>1 DEF readOne
<1>2. CASE ends # {}
  <2>1. ends \in SUBSET Nat
    OBVIOUS
  <2>2. Min(ends) \in ends
    BY <1>2, <2>1, MinOfNaturals
  <2>3. readOne(data, offset) = Min(ends)
    BY <1>2 DEF readOne
  <2>4. QED
    BY <2>2, <2>3
<1>3. QED
  BY <1>1, <1>2

LEMMA PairEndInside ==
  ASSUME NEW data \in Seq(Nat), NEW offset \in Nat
  PROVE  /\ \/ ReadVbcPairEnd(data, offset) = Fail
            \/ ReadVbcPairEnd(data, offset) \in offset + 1 .. Len(data)
         /\ \/ ReadVbPairEnd(data, offset) = Fail
            \/ ReadVbPairEnd(data, offset) \in offset + 1 .. Len(data)
<1>1. Len(data) \in Nat
  OBVIOUS
<1>2. \/ readOne(data, offset) = Fail
      \/ readOne(data, offset) \in offset + 1 .. Len(data)
  BY ReadOneInside
<1>3. \/ ReadVbcPairEnd(data, offset) = Fail
      \/ ReadVbcPairEnd(data, offset) \in offset + 1 .. Len(data)
  BY <1>1, <1>2 DEF ReadVbcPairEnd
<1>4. ASSUME readOne(data, offset) # Fail
      PROVE  \/ readOne(data, readOne(data, offset)) = Fail
             \/ readOne(data, readOne(data, offset)) \in readOne(data, offset) + 1 .. Len(data)
  <2>1. readOne(data, offset) \in Nat
    BY <1>1, <1>2, <1>4
  <2>2. QED
    BY <2>1, ReadOneInside
<1>5. \/ ReadVbPairEnd(data, offset) = Fail
      \/ ReadVbPairEnd(data, offset) \in offset + 1 .. Len(data)
  <2>1. CASE readOne(data, offset) = Fail
    BY <2>1 DEF ReadVbPairEnd
  <2>2. CASE readOne(data, offset) # Fail
    BY <2>2, <1>1, <1>2, <1>4 DEF ReadVbPairEnd
  <2>3. QED
    BY <2>1, <2>2
<1>6. QED
  BY <1>3, <1>5

LEMMA PrefixInside ==
  ASSUME NEW data \in Seq(Nat), NEW limit \in Nat
  PROVE  RawPrefix(data, limit) \in 0 .. limit /\ VbPrefix(data, limit) \in 0 .. limit
<1> DEFINE Pair(cursor, end) == IF end = Fail \/ end > limit THEN cursor ELSE end
           raw == [cursor \in 0 .. limit |-> Pair(cursor, ReadVbcPairEnd(data, cursor))]
           vb  == [cursor \in 0 .. limit |-> Pair(cursor, ReadVbPairEnd(data, cursor))]
<1>1. ASSUME NEW cursor \in 0 .. limit
      PROVE  /\ Pair(cursor, ReadVbcPairEnd(data, cursor)) \in 0 .. limit
             /\ Pair(cursor, ReadVbPairEnd(data, cursor)) \in 0 .. limit
  BY PairEndInside
<1>2. raw \in [0 .. limit -> 0 .. limit] /\ vb \in [0 .. limit -> 0 .. limit]
  BY <1>1
<1>3. 0 \in 0 .. limit /\ limit \in 0 .. limit
  OBVIOUS
<1>4. RawPrefix(data, limit) = Iterates(raw, 0, limit)[limit]
  BY DEF RawPrefix
<1>5. VbPrefix(data, limit) = Iterates(vb, 0, limit)[limit]
  BY DEF VbPrefix
<1> HIDE DEF raw, vb
<1>6. Loop(Iterates(raw, 0, limit), 0 .. limit, raw, 0, limit)
  BY <1>2, <1>3, IteratesSteps
<1>7. Loop(Iterates(vb, 0, limit), 0 .. limit, vb, 0, limit)
  BY <1>2, <1>3, IteratesSteps
<1>8. QED
  BY <1>3, <1>4, <1>5, <1>6, <1>7 DEF Loop

LEMMA CutInside ==
  ASSUME NEW data \in Seq(Nat), NEW capacity \in Nat
  PROVE  /\ PostingPrefixBytes(data, capacity) \in 0 .. capacity
         /\ PostingPrefixBytes(data, capacity) <= Len(data)
         /\ PostingSplitLength(data, capacity) \in 0 .. capacity
         /\ PostingSplitLength(data, capacity) <= Len(data)
<1> DEFINE least == Min({Len(data), capacity})
<1>1. Len(data) \in Nat
  OBVIOUS
<1>2. least \in {Len(data), capacity} /\ \A y \in {Len(data), capacity} : least <= y
  BY <1>1, MinOfNaturals
<1>3. least \in Nat /\ least <= Len(data) /\ least <= capacity
  BY <1>1, <1>2
<1>4. PostingPrefixBytes(data, capacity) = RawPrefix(data, least)
  BY DEF PostingPrefixBytes
<1> HIDE DEF least
<1>5. RawPrefix(data, least) \in 0 .. least
  BY <1>3, PrefixInside
<1>6. CASE Len(data) <= capacity
  BY <1>1, <1>3, <1>4, <1>5, <1>6 DEF PostingSplitLength
<1>7. CASE ~(Len(data) <= capacity)
  <2>1. PostingSplitLength(data, capacity) = VbPrefix(data, capacity)
    BY <1>7 DEF PostingSplitLength
  <2>2. VbPrefix(data, capacity) \in 0 .. capacity
    BY PrefixInside
  <2>3. QED
    BY <1>1, <1>3, <1>4, <1>5, <1>7, <2>1, <2>2
<1>8. QED
  BY <1>6, <1>7

---------------------------------------------------------------------------
(* The bytes of a list *)

LEMMA QuotientSmaller ==
  ASSUME NEW n \in Nat, n >= Radix
  PROVE  n \div Radix \in Nat /\ n \div Radix < n /\ n % Radix \in Nat
<1>1. Radix \in Nat /\ Radix >= 2
  BY PostingBytesAssumption
<1>2. n \div Radix \in Nat /\ n % Radix \in 0 .. Radix - 1
      /\ n = Radix * (n \div Radix) + (n % Radix)
  BY <1>1
<1>3. ASSUME NEW q \in Nat, NEW r \in Nat, n = Radix * q + r PROVE q < n \/ n = 0
  BY <1>1, <1>3
<1>4. QED
  BY <1>1, <1>2, <1>3

LastByte(n) == <<n>>
Byte(n, more) == <<(n % Radix) + Radix>> \o more

VbOk(g, v) ==
  g = [n \in 0 .. v |-> IF n < Radix THEN LastByte(n) ELSE Byte(n, g[n \div Radix])]

LEMMA VbExists == \A v \in Nat : \E g : VbOk(g, v)
<1> DEFINE S == {v \in Nat : \E g : VbOk(g, v)}
<1>0. Radix \in Nat /\ Radix >= 2
  BY PostingBytesAssumption
<1>1. 0 \in S
  <2>1. VbOk([n \in 0 .. 0 |-> LastByte(n)], 0)
    BY <1>0 DEF VbOk
  <2>2. QED
    BY <2>1
<1>2. ASSUME NEW v \in Nat, v \in S PROVE v + 1 \in S
  <2>1. PICK g : VbOk(g, v)
    BY <1>2
  <2> DEFINE Step(n) == IF n < Radix THEN LastByte(n)
                        ELSE Byte(n, g[n \div Radix])
             h == [n \in 0 .. v + 1 |-> IF n <= v THEN g[n] ELSE Step(n)]
  <2>2. ASSUME NEW n \in 0 .. v + 1
        PROVE  h[n] = IF n < Radix THEN LastByte(n)
                      ELSE Byte(n, h[n \div Radix])
    <3>1. h[n] = Step(n)
      BY <2>1 DEF VbOk
    <3>2. CASE n < Radix
      BY <3>1, <3>2
    <3>3. CASE ~(n < Radix)
      <4>1. n \div Radix \in Nat /\ n \div Radix < n
        BY <3>3, <1>0, QuotientSmaller
      <4>2. n \div Radix \in 0 .. v
        BY <4>1
      <4>3. h[n \div Radix] = g[n \div Radix]
        BY <4>2
      <4>4. QED
        BY <3>1, <3>3, <4>3
    <3>4. QED
      BY <3>2, <3>3
  <2>3. VbOk(h, v + 1)
    BY <2>2 DEF VbOk
  <2>4. QED
    BY <2>3
<1> HIDE DEF S
<1>3. \A v \in Nat : v \in S
  BY <1>1, <1>2, NatSetInduction
<1>4. QED
  BY <1>3 DEF S

LEMMA VbWriteType ==
  ASSUME NEW v \in Nat
  PROVE  vb_write(v) \in Seq(Nat)
<1>0. Radix \in Nat /\ Radix >= 2
  BY PostingBytesAssumption
<1> DEFINE g == CHOOSE h : VbOk(h, v)
<1>1. VbOk(g, v)
  <2>1. \E h : VbOk(h, v)
    BY VbExists
  <2>2. QED
    BY <2>1, Zenon
<1>2. vb_write(v) = g[v]
  BY Zenon DEF vb_write, VbOk, LastByte, Byte
<1> HIDE DEF g
<1>3. \A n \in 0 .. v : g[n] = IF n < Radix THEN LastByte(n)
                              ELSE Byte(n, g[n \div Radix])
  BY <1>1 DEF VbOk
<1> DEFINE I == {n \in Nat : \A m \in 0 .. n : m <= v => g[m] \in Seq(Nat)}
<1>4. 0 \in I
  <2>1. g[0] = LastByte(0)
    BY <1>0, <1>3
  <2>2. g[0] \in Seq(Nat)
    BY <2>1 DEF LastByte
  <2>3. QED
    BY <2>2
<1>5. ASSUME NEW n \in Nat, n \in I PROVE n + 1 \in I
  <2>1. SUFFICES ASSUME n + 1 <= v PROVE g[n + 1] \in Seq(Nat)
    BY <1>5
  <2>2. CASE n + 1 < Radix
    <3>1. g[n + 1] = LastByte(n + 1)
      BY <1>3, <2>1, <2>2
    <3>2. QED
      BY <3>1 DEF LastByte
  <2>3. CASE ~(n + 1 < Radix)
    <3>1. (n + 1) \div Radix \in 0 .. n /\ (n + 1) % Radix \in Nat
      BY <2>3, <1>0, QuotientSmaller
    <3>2. g[(n + 1) \div Radix] \in Seq(Nat)
      BY <3>1, <1>5, <2>1
    <3>3. g[n + 1] = Byte(n + 1, g[(n + 1) \div Radix])
      BY <1>3, <2>1, <2>3
    <3>4. <<((n + 1) % Radix) + Radix>> \in Seq(Nat)
      BY <3>1, <1>0
    <3>5. QED
      BY <3>2, <3>3, <3>4 DEF Byte
  <2>4. QED
    BY <2>2, <2>3
<1> HIDE DEF I
<1>6. \A n \in Nat : n \in I
  BY <1>4, <1>5, NatSetInduction
<1>7. v \in I
  BY <1>6
<1>8. g[v] \in Seq(Nat)
  BY <1>7 DEF I
<1>9. QED
  BY <1>2, <1>8

LEMMA Tf8Type ==
  ASSUME NEW tf
  PROVE  tf8_encode(tf) \in Nat
<1> DEFINE S == {k \in 1 .. 2 * Radix - 1 : 2 ^ (2 * k - 1) <= (1 + tf) ^ (2 * TfScale)}
<1>1. 2 * Radix - 1 \in Int
  BY PostingBytesAssumption
<1>2. IsFiniteSet(1 .. 2 * Radix - 1)
  BY <1>1, FS_Interval
<1>3. S \in SUBSET (1 .. 2 * Radix - 1)
  BY Zenon
<1> HIDE DEF S
<1>4. IsFiniteSet(S)
  BY <1>2, <1>3, FS_Subset
<1>5. Cardinality(S) \in Nat
  BY <1>4, FS_CardinalityType
<1>6. QED
  BY <1>5, Zenon DEF tf8_encode, S

LEMMA EncodeType ==
  ASSUME NEW T, NEW list \in Seq([doc : Nat, tf : T])
  PROVE  encode(list) \in Seq(Nat)
<1> DEFINE part == [i \in DOMAIN list |-> vb_write(list[i].doc) \o <<tf8_encode(list[i].tf)>>]
<1>1. Len(list) \in Nat /\ DOMAIN list = 1 .. Len(list)
  OBVIOUS
<1>2. ASSUME NEW i \in DOMAIN list
      PROVE  vb_write(list[i].doc) \o <<tf8_encode(list[i].tf)>> \in Seq(Nat)
  <2>0. list[i] \in [doc : Nat, tf : T]
    BY <1>1, SeqElements, Zenon
  <2>1. list[i].doc \in Nat
    BY <2>0
  <2>2. vb_write(list[i].doc) \in Seq(Nat) /\ tf8_encode(list[i].tf) \in Nat
    BY <2>1, VbWriteType, Tf8Type
  <2>3. QED
    BY <2>2
<1>3. part \in Seq(Seq(Nat))
  <2>1. part \in [1 .. Len(list) -> Seq(Nat)]
    BY <1>1, <1>2
  <2> HIDE DEF part
  <2>2. QED
    BY <1>1, <2>1, FunctionIsSeq
<1>4. encode(list) = FlattenSeq(part)
  BY DEF encode
<1> HIDE DEF part
<1>5. QED
  BY <1>3, <1>4, FlattenType

---------------------------------------------------------------------------
(* Pages *)

MaxIds == {0} \cup {MaxDocIDInPairs(d) : d \in Seq(Nat)}
              \cup {MergeMaxDocIDInPairs(d) : d \in Seq(Nat)}

PageData == [1 .. PageSize -> Nat]
Page == [max : MaxIds, len : 0 .. PageSize - ContinuationHeader, data : PageData]

LEMMA PageConstants ==
  /\ PageSize \in Nat /\ ContinuationHeader \in Nat /\ 0 < ContinuationHeader /\ ContinuationHeader < PageSize
  /\ PageSize - ContinuationHeader \in Nat
  BY PostingBlocksAssumption

LEMMA EmptyPageType == EmptyPage \in Page
  BY PageConstants DEF EmptyPage, Page, PageData, MaxIds

LEMMA WriteBytesKeeps ==
  ASSUME NEW page \in Page, NEW offset \in Nat, NEW bytes \in Seq(Nat)
  PROVE  /\ WriteBytes(page, offset, bytes) \in Page
         /\ WriteBytes(page, offset, bytes).len = page.len
         /\ \A i \in 1 .. PageSize :
              i <= offset => WriteBytes(page, offset, bytes).data[i] = page.data[i]
         /\ \A i \in 1 .. Len(bytes) :
              offset + i <= PageSize => WriteBytes(page, offset, bytes).data[offset + i] = bytes[i]
<1> DEFINE data == [i \in 1 .. PageSize |-> IF i - offset \in DOMAIN bytes THEN bytes[i - offset]
                                            ELSE page.data[i]]
<1>1. Len(bytes) \in Nat /\ DOMAIN bytes = 1 .. Len(bytes) /\ \A i \in 1 .. Len(bytes) : bytes[i] \in Nat
  OBVIOUS
<1>2. page.data \in PageData /\ page = [max |-> page.max, len |-> page.len, data |-> page.data]
  BY DEF Page
<1>3. data \in PageData
  BY <1>1, <1>2 DEF PageData
<1>4. WriteBytes(page, offset, bytes) = [page EXCEPT !.data = data]
  BY Zenon DEF WriteBytes
<1>5. \A i \in 1 .. PageSize : i <= offset => data[i] = page.data[i]
  BY <1>1
<1>6. ASSUME NEW i \in 1 .. Len(bytes), offset + i <= PageSize PROVE data[offset + i] = bytes[i]
  <2>1. offset + i \in 1 .. PageSize /\ (offset + i) - offset = i
    BY <1>1, <1>6, PageConstants
  <2>2. QED
    BY <2>1, <1>1
<1> HIDE DEF data
<1>7. [page EXCEPT !.data = data] \in Page /\ [page EXCEPT !.data = data].data = data
      /\ [page EXCEPT !.data = data].len = page.len
  BY <1>2, <1>3 DEF Page
<1>8. QED
  BY <1>4, <1>5, <1>6, <1>7

LEMMA WriteHeaderKeeps ==
  ASSUME NEW page \in Page, NEW max \in MaxIds, NEW len \in 0 .. PageSize - ContinuationHeader
  PROVE  /\ WriteHeader(page, max, len) \in Page
         /\ WriteHeader(page, max, len).data = page.data
         /\ WriteHeader(page, max, len).len = len
  BY DEF WriteHeader, Page

LEMMA PageReads ==
  ASSUME NEW data \in PageData, NEW a \in Nat, NEW b \in Nat, a <= b, b <= PageSize
  PROVE  /\ SubSeq(data, a + 1, b) \in Seq(Nat) /\ Len(SubSeq(data, a + 1, b)) = b - a
         /\ \A i \in 1 .. b - a : SubSeq(data, a + 1, b)[i] = data[a + i]
<1>1. data \in Seq(Nat) /\ Len(data) = PageSize
  BY PageConstants DEF PageData
<1>2. QED
  BY <1>1, SubSeqElements

\* What was written is what is read.
LEMMA PageReadsBack ==
  ASSUME NEW page \in Page, NEW offset \in Nat, NEW bytes \in Seq(Nat),
         offset + Len(bytes) <= PageSize
  PROVE  SubSeq(WriteBytes(page, offset, bytes).data, offset + 1, offset + Len(bytes)) = bytes
<1> DEFINE data == WriteBytes(page, offset, bytes).data
           end  == offset + Len(bytes)
           read == SubSeq(data, offset + 1, end)
<1>1. /\ Len(bytes) \in Nat /\ end \in Nat /\ end <= PageSize
      /\ offset <= end /\ end - offset = Len(bytes)
  OBVIOUS
<1>2. data \in PageData /\ \A i \in 1 .. Len(bytes) : offset + i <= PageSize => data[offset + i] = bytes[i]
  BY WriteBytesKeeps DEF Page
<1>4. \A i \in 1 .. Len(bytes) : offset + i <= PageSize
  BY <1>1, PageConstants
<1> HIDE DEF data, end
<1>3. /\ read \in Seq(Nat) /\ Len(read) = end - offset
      /\ \A i \in 1 .. end - offset : read[i] = data[offset + i]
  BY <1>1, <1>2, PageReads
<1> HIDE DEF read
<1>5. Len(read) = Len(bytes) /\ \A i \in 1 .. Len(read) : read[i] = bytes[i]
  BY <1>1, <1>2, <1>3, <1>4
<1>6. read = bytes
  BY <1>3, <1>5, SeqEqual
<1>7. QED
  BY <1>6 DEF read, data, end

\* A piece of a page is the same when the bytes of the page up to there are.
LEMMA PageReadsSame ==
  ASSUME NEW data \in PageData, NEW other \in PageData, NEW a \in Nat, NEW b \in Nat,
         a <= b, b <= PageSize, \A i \in 1 .. PageSize : i <= b => data[i] = other[i]
  PROVE  SubSeq(data, a + 1, b) = SubSeq(other, a + 1, b)
<1> DEFINE r == SubSeq(data, a + 1, b)
           s == SubSeq(other, a + 1, b)
<1>1. /\ r \in Seq(Nat) /\ Len(r) = b - a
      /\ \A i \in 1 .. b - a : r[i] = data[a + i]
  BY PageReads
<1>2. /\ s \in Seq(Nat) /\ Len(s) = b - a
      /\ \A i \in 1 .. b - a : s[i] = other[a + i]
  BY PageReads
<1>3. \A i \in 1 .. b - a : data[a + i] = other[a + i]
  BY PageConstants
<1> HIDE DEF r, s
<1>4. Len(r) = Len(s) /\ \A i \in 1 .. Len(r) : r[i] = s[i]
  BY <1>1, <1>2, <1>3
<1>5. r = s
  BY <1>1, <1>2, <1>4, SeqEqual
<1>6. QED
  BY <1>5 DEF r, s

---------------------------------------------------------------------------
(* Directories: leaves of entries with ascending keys *)

Entry == [key : Keys, df : Nat, block : Nat, offset : Nat, length : Nat, cont : Nat]
Leaf == Seq(Entry) \ {<<>>}

InDir(d, x) == \E l \in 1 .. Len(d) : \E i \in 1 .. Len(d[l]) : d[l][i] = x

Ascending(d) ==
  /\ \A l \in 1 .. Len(d) : \A i, j \in 1 .. Len(d[l]) : i < j => d[l][i].key < d[l][j].key
  /\ \A l, m \in 1 .. Len(d) : l < m =>
       \A i \in 1 .. Len(d[l]), j \in 1 .. Len(d[m]) : d[l][i].key < d[m][j].key

HeadOf(d) == [l \in DOMAIN d |-> [first |-> d[l][1].key, block |-> l - 1]]

LEMMA KeysAreNumbers == Cardinality(Keys) \in Nat /\ Keys \subseteq Nat
<1>1. Cardinality(Keys) \in Nat
  BY PostingBlocksAssumption, FS_CardinalityType
<1>2. QED
  BY <1>1, PostingBlocksAssumption

LEMMA LeafFacts ==
  ASSUME NEW leaf \in Leaf
  PROVE  /\ Len(leaf) \in Nat /\ Len(leaf) > 0 /\ leaf # <<>> /\ DOMAIN leaf = 1 .. Len(leaf)
         /\ \A i \in 1 .. Len(leaf) : leaf[i] \in Entry
<1> HIDE DEF Entry
<1>1. leaf \in Seq(Entry) /\ leaf # <<>>
  BY DEF Leaf
<1>2. QED
  BY <1>1, SeqElements

LEMMA LeafGrows ==
  ASSUME NEW leaf \in Seq(Entry), NEW e \in Entry
  PROVE  /\ Append(leaf, e) \in Leaf /\ Len(Append(leaf, e)) = Len(leaf) + 1
         /\ \A i \in 1 .. Len(leaf) : Append(leaf, e)[i] = leaf[i]
         /\ Append(leaf, e)[Len(leaf) + 1] = e
         /\ <<e>> \in Leaf /\ Len(<<e>>) = 1 /\ <<e>>[1] = e
  BY DEF Leaf

LEMMA EntryKey ==
  ASSUME NEW e \in Entry
  PROVE  e.key \in Keys /\ e.key \in Nat
  BY KeysAreNumbers DEF Entry

\* A directory with one more leaf.
LEMMA DirNewLeaf ==
  ASSUME NEW d \in Seq(Leaf), Ascending(d), NEW e \in Entry,
         \A x : InDir(d, x) => x.key < e.key
  PROVE  /\ Append(d, <<e>>) \in Seq(Leaf) /\ Ascending(Append(d, <<e>>))
         /\ \A x : InDir(Append(d, <<e>>), x) <=> InDir(d, x) \/ x = e
<1> DEFINE n == Len(d)
           g == Append(d, <<e>>)
<1>1. <<e>> \in Leaf /\ Len(<<e>>) = 1 /\ <<e>>[1] = e
  <2>1. <<>> \in Seq(Entry)
    OBVIOUS
  <2>2. QED
    BY <2>1, LeafGrows
<1> DEFINE one == <<e>>
<1> HIDE DEF one
<1>2. n \in Nat /\ g \in Seq(Leaf) /\ Len(g) = n + 1 /\ g[n + 1] = one
      /\ \A l \in 1 .. n : g[l] = d[l]
  <2> HIDE DEF Leaf
  <2>1. one \in Leaf /\ Append(d, one) = g
    BY <1>1 DEF one
  <2>2. /\ n \in Nat /\ Append(d, one) \in Seq(Leaf) /\ Len(Append(d, one)) = n + 1
        /\ Append(d, one)[n + 1] = one /\ \A l \in 1 .. n : Append(d, one)[l] = d[l]
    BY <2>1
  <2>3. QED
    BY <2>1, <2>2
<1> HIDE DEF g
<1>3. Len(one) = 1 /\ one[1] = e
  BY <1>1 DEF one
<1>4. \A l \in 1 .. n : \A i \in 1 .. Len(d[l]) : d[l][i].key < e.key
  BY DEF InDir
<1>5. Ascending(g)
  <2>1. ASSUME NEW l \in 1 .. n + 1, NEW i \in 1 .. Len(g[l]), NEW j \in 1 .. Len(g[l]), i < j
        PROVE  g[l][i].key < g[l][j].key
    <3>1. CASE l = n + 1
      BY <3>1, <1>2, <1>3, <2>1
    <3>2. CASE l # n + 1
      BY <3>2, <1>2, <2>1 DEF Ascending
    <3>3. QED
      BY <3>1, <3>2
  <2>2. ASSUME NEW l \in 1 .. n + 1, NEW m \in 1 .. n + 1, l < m,
               NEW i \in 1 .. Len(g[l]), NEW j \in 1 .. Len(g[m])
        PROVE  g[l][i].key < g[m][j].key
    <3>0. l \in 1 .. n /\ g[l] = d[l]
      BY <2>2, <1>2
    <3>1. CASE m = n + 1
      BY <3>0, <3>1, <1>2, <1>3, <1>4, <2>2
    <3>2. CASE m # n + 1
      <4>1. m \in 1 .. n /\ g[m] = d[m]
        BY <3>2, <1>2
      <4>2. QED
        BY <3>0, <4>1, <2>2 DEF Ascending
    <3>3. QED
      BY <3>1, <3>2
  <2>3. QED
    BY <1>2, <2>1, <2>2 DEF Ascending
<1>6. ASSUME NEW x PROVE InDir(g, x) <=> InDir(d, x) \/ x = e
  <2>1. ASSUME InDir(g, x) PROVE InDir(d, x) \/ x = e
    <3>1. PICK l \in 1 .. n + 1 : \E i \in 1 .. Len(g[l]) : g[l][i] = x
      BY <2>1, <1>2 DEF InDir
    <3>2. PICK i \in 1 .. Len(g[l]) : g[l][i] = x
      BY <3>1
    <3>3. CASE l = n + 1
      BY <3>2, <3>3, <1>2, <1>3
    <3>4. CASE l # n + 1
      <4>1. l \in 1 .. n /\ g[l] = d[l]
        BY <3>4, <1>2
      <4>2. QED
        BY <3>2, <4>1 DEF InDir
    <3>5. QED
      BY <3>3, <3>4
  <2>2. ASSUME InDir(d, x) PROVE InDir(g, x)
    <3>1. PICK l \in 1 .. n : \E i \in 1 .. Len(d[l]) : d[l][i] = x
      BY <2>2 DEF InDir
    <3>2. l \in 1 .. n + 1 /\ g[l] = d[l]
      BY <1>2
    <3>3. QED
      BY <3>1, <3>2, <1>2 DEF InDir
  <2>3. InDir(g, e)
    <3>1. n + 1 \in 1 .. Len(g) /\ 1 \in 1 .. Len(g[n + 1]) /\ g[n + 1][1] = e
      BY <1>2, <1>3
    <3>2. QED
      BY <3>1 DEF InDir
  <2>4. QED
    BY <2>1, <2>2, <2>3
<1>7. QED
  BY <1>2, <1>5, <1>6 DEF g

\* A directory with one more entry in its last leaf.
LEMMA DirNewEntry ==
  ASSUME NEW d \in Seq(Leaf), Ascending(d), NEW e \in Entry, d # <<>>,
         \A x : InDir(d, x) => x.key < e.key
  PROVE  LET g == [d EXCEPT ![Len(d)] = Append(d[Len(d)], e)]
         IN  /\ g \in Seq(Leaf) /\ Ascending(g) /\ Len(g) = Len(d)
             /\ \A l \in 1 .. Len(d) : g[l][1] = d[l][1]
             /\ \A x : InDir(g, x) <=> InDir(d, x) \/ x = e
<1> DEFINE n == Len(d)
           g == [d EXCEPT ![Len(d)] = Append(d[Len(d)], e)]
           last == d[n]
           longer == Append(last, e)
<1>1. n \in Nat /\ n > 0 /\ last \in Leaf /\ \A l \in 1 .. n : d[l] \in Leaf
  <2> HIDE DEF Leaf
  <2>1. QED
    OBVIOUS
<1>2. last \in Seq(Entry) /\ Len(last) \in Nat /\ Len(last) > 0
  BY <1>1, LeafFacts DEF Leaf
<1>3. /\ longer \in Leaf /\ Len(longer) = Len(last) + 1 /\ longer[Len(last) + 1] = e
      /\ \A i \in 1 .. Len(last) : longer[i] = last[i]
  BY <1>2, LeafGrows
<1>4. g \in Seq(Leaf) /\ Len(g) = n /\ g[n] = longer /\ \A l \in 1 .. n - 1 : g[l] = d[l]
  <2> HIDE DEF Leaf, longer
  <2>1. g = [d EXCEPT ![n] = longer]
    BY DEF longer
  <2> HIDE DEF g, last
  <2>2. n \in 1 .. n /\ d \in [1 .. n -> Leaf]
    BY <1>1
  <2>3. g \in [1 .. n -> Leaf] /\ g[n] = longer /\ \A l \in 1 .. n - 1 : g[l] = d[l]
    BY <2>1, <2>2, <1>1, <1>3
  <2>4. g \in Seq(Leaf) /\ Len(g) = n
    BY <2>3, <1>1, FunctionIsSeq
  <2>5. QED
    BY <2>3, <2>4
<1> HIDE DEF g, longer, last
<1>5. \A l \in 1 .. n : \A i \in 1 .. Len(d[l]) : d[l][i].key < e.key
  BY DEF InDir
<1>6. Ascending(g)
  <2>1. ASSUME NEW l \in 1 .. n, NEW i \in 1 .. Len(g[l]), NEW j \in 1 .. Len(g[l]), i < j
        PROVE  g[l][i].key < g[l][j].key
    <3>1. CASE l = n
      <4>1. g[l] = longer /\ i \in 1 .. Len(last) /\ longer[i] = last[i] /\ last = d[n]
        BY <3>1, <1>2, <1>3, <1>4, <2>1 DEF last
      <4>2. CASE j = Len(last) + 1
        BY <4>1, <4>2, <1>1, <1>3, <1>5
      <4>3. CASE j # Len(last) + 1
        <5>1. j \in 1 .. Len(last) /\ longer[j] = last[j]
          BY <4>1, <4>3, <1>2, <1>3
        <5>2. last[i].key < last[j].key
          BY <4>1, <5>1, <1>1, <2>1 DEF Ascending
        <5>3. QED
          BY <4>1, <5>1, <5>2
      <4>4. QED
        BY <4>2, <4>3
    <3>2. CASE l # n
      BY <3>2, <1>1, <1>4, <2>1 DEF Ascending
    <3>3. QED
      BY <3>1, <3>2
  <2>2. ASSUME NEW l \in 1 .. n, NEW m \in 1 .. n, l < m,
               NEW i \in 1 .. Len(g[l]), NEW j \in 1 .. Len(g[m])
        PROVE  g[l][i].key < g[m][j].key
    <3>0. l \in 1 .. n - 1 /\ g[l] = d[l]
      BY <2>2, <1>4
    <3>1. CASE m = n
      <4>1. g[m] = longer /\ last = d[n]
        BY <3>1, <1>4 DEF last
      <4>2. CASE j = Len(last) + 1
        BY <3>0, <4>1, <4>2, <1>3, <1>5, <2>2
      <4>3. CASE j # Len(last) + 1
        <5>1. j \in 1 .. Len(last) /\ longer[j] = last[j]
          BY <4>1, <4>3, <1>2, <1>3
        <5>2. d[l][i].key < d[n][j].key
          BY <3>0, <3>1, <4>1, <5>1, <2>2 DEF Ascending
        <5>3. QED
          BY <3>0, <4>1, <5>1, <5>2
      <4>4. QED
        BY <4>2, <4>3
    <3>2. CASE m # n
      BY <3>0, <3>2, <1>4, <2>2 DEF Ascending
    <3>3. QED
      BY <3>1, <3>2
  <2>3. QED
    BY <1>1, <1>4, <2>1, <2>2 DEF Ascending
<1>7. ASSUME NEW l \in 1 .. n PROVE g[l][1] = d[l][1]
  <2>1. CASE l = n
    <3>1. longer[1] = last[1]
      BY <1>2, <1>3
    <3>2. QED
      BY <2>1, <3>1, <1>4 DEF last
  <2>2. CASE l # n
    BY <2>2, <1>1, <1>4
  <2>3. QED
    BY <2>1, <2>2
<1>8. ASSUME NEW x PROVE InDir(g, x) <=> InDir(d, x) \/ x = e
  <2>1. ASSUME InDir(g, x) PROVE InDir(d, x) \/ x = e
    <3>1. PICK l \in 1 .. n : \E i \in 1 .. Len(g[l]) : g[l][i] = x
      BY <2>1, <1>4 DEF InDir
    <3>2. PICK i \in 1 .. Len(g[l]) : g[l][i] = x
      BY <3>1
    <3>3. CASE l = n
      <4>1. g[l] = longer /\ last = d[n]
        BY <3>3, <1>4 DEF last
      <4>2. CASE i = Len(last) + 1
        BY <3>2, <4>1, <4>2, <1>3
      <4>3. CASE i # Len(last) + 1
        <5>1. i \in 1 .. Len(d[n]) /\ d[n][i] = x /\ n \in 1 .. Len(d)
          BY <3>2, <4>1, <4>3, <1>1, <1>2, <1>3
        <5>2. QED
          BY <5>1 DEF InDir
      <4>4. QED
        BY <4>2, <4>3
    <3>4. CASE l # n
      BY <3>2, <3>4, <1>1, <1>4 DEF InDir
    <3>5. QED
      BY <3>3, <3>4
  <2>2. ASSUME InDir(d, x) PROVE InDir(g, x)
    <3>1. PICK l \in 1 .. n : \E i \in 1 .. Len(d[l]) : d[l][i] = x
      BY <2>2 DEF InDir
    <3>2. PICK i \in 1 .. Len(d[l]) : d[l][i] = x
      BY <3>1
    <3>3. CASE l = n
      BY <3>2, <3>3, <1>1, <1>2, <1>3, <1>4 DEF InDir, last
    <3>4. CASE l # n
      BY <3>2, <3>4, <1>1, <1>4 DEF InDir
    <3>5. QED
      BY <3>3, <3>4
  <2>3. InDir(g, e)
    BY <1>1, <1>2, <1>3, <1>4 DEF InDir
  <2>4. QED
    BY <2>1, <2>2, <2>3
<1>9. QED
  BY <1>4, <1>6, <1>7, <1>8 DEF g

---------------------------------------------------------------------------
(* BuildBlocks *)

HeadEntry == [first : Keys, block : Nat]
Build == [index : Seq(Page), cur : Page, wptr : 0 .. PageSize, cont : Nat,
          head : Seq(HeadEntry), leaf : Seq(Leaf), term : Seq(Entry), used : Nat]

LEMMA BuildFields ==
  ASSUME NEW b \in Build
  PROVE  /\ b = [index |-> b.index, cur |-> b.cur, wptr |-> b.wptr, cont |-> b.cont,
                 head |-> b.head, leaf |-> b.leaf, term |-> b.term, used |-> b.used]
         /\ b.index \in Seq(Page) /\ b.cur \in Page /\ b.wptr \in Nat /\ b.wptr <= PageSize
         /\ b.cont \in Nat /\ b.head \in Seq(HeadEntry) /\ b.leaf \in Seq(Leaf)
         /\ b.term \in Seq(Entry) /\ b.used \in Nat
  BY PageConstants DEF Build

\* The directory and the number of blocks do not depend on how a list is cut.
SameDir(r, b) == r.head = b.head /\ r.leaf = b.leaf /\ r.term = b.term /\ r.used = b.used

LEMMA FlushIndex ==
  ASSUME NEW b \in Build
  PROVE  LET r == flush_index_block(b)
         IN  r \in Build /\ SameDir(r, b) /\ Len(r.index) = Len(b.index) + 1 /\ r.wptr = 0
<1> DEFINE index == Append(b.index, b.cur)
<1>1. /\ b = [index |-> b.index, cur |-> b.cur, wptr |-> b.wptr, cont |-> b.cont,
              head |-> b.head, leaf |-> b.leaf, term |-> b.term, used |-> b.used]
      /\ b.index \in Seq(Page) /\ b.cur \in Page
  BY BuildFields
<1>2. index \in Seq(Page) /\ Len(index) = Len(b.index) + 1
  BY <1>1
<1>3. flush_index_block(b) = [b EXCEPT !.index = index, !.cur = EmptyPage, !.wptr = 0]
  BY <1>1 DEF flush_index_block
<1> HIDE DEF index
<1>4. flush_index_block(b) = [b EXCEPT !.index = index, !.cur = EmptyPage, !.wptr = 0,
                                       !.cont = b.cont]
  BY <1>1, <1>3
<1>5. 0 \in 0 .. PageSize /\ b.cont \in Nat /\ EmptyPage \in Page
  BY PageConstants, EmptyPageType, BuildFields
<1> DEFINE r == flush_index_block(b)
<1>6. r \in Build /\ SameDir(r, b) /\ r.index = index /\ r.wptr = 0
  BY <1>2, <1>4, <1>5 DEF SameDir, Build
<1> HIDE DEF r
<1>7. Len(r.index) = Len(b.index) + 1
  BY <1>2, <1>6
<1>8. QED
  BY <1>6, <1>7 DEF r

\* What the next continuation block takes.
NextBlock(bytes, from) ==
  PostingPrefixBytes(SubSeq(bytes, from + 1, Len(bytes)), PageSize - ContinuationHeader)

LEMMA BlockEndsSteps ==
  ASSUME NEW bytes \in Seq(Nat)
  PROVE  /\ \A i \in 0 .. Len(bytes) : BlockEnds(bytes)[i] \in 0 .. Len(bytes)
         /\ BlockEnds(bytes)[0] = 0
         /\ \A i \in 1 .. Len(bytes) :
              /\ BlockEnds(bytes)[i - 1] <= BlockEnds(bytes)[i]
              /\ BlockEnds(bytes)[i] - BlockEnds(bytes)[i - 1] <= PageSize - ContinuationHeader
              /\ BlockEnds(bytes)[i] = BlockEnds(bytes)[i - 1] + NextBlock(bytes, BlockEnds(bytes)[i - 1])
<1> DEFINE n == Len(bytes)
           Cut(from) == NextBlock(bytes, from)
           f == [from \in 0 .. Len(bytes) |-> from + Cut(from)]
<1>1. n \in Nat /\ 0 \in 0 .. n
  OBVIOUS
<1>2. ASSUME NEW from \in 0 .. n
      PROVE  Cut(from) \in 0 .. PageSize - ContinuationHeader /\ from + Cut(from) \in 0 .. n
  <2>1. SubSeq(bytes, from + 1, n) \in Seq(Nat) /\ Len(SubSeq(bytes, from + 1, n)) = n - from
    BY <1>1, SubSeqElements
  <2>2. /\ Cut(from) \in 0 .. PageSize - ContinuationHeader
        /\ Cut(from) <= Len(SubSeq(bytes, from + 1, n))
    BY <2>1, CutInside, PageConstants DEF NextBlock
  <2> HIDE DEF Cut
  <2>3. QED
    BY <2>1, <2>2, <1>1, PageConstants
<1> HIDE DEF Cut
<1>3. f \in [0 .. n -> 0 .. n]
  BY <1>2
<1>4. BlockEnds(bytes) = Iterates(f, 0, n)
  BY DEF BlockEnds, Cut, NextBlock
<1> DEFINE e == BlockEnds(bytes)
<1> HIDE DEF e, n
<1>5. /\ \A i \in 0 .. n : e[i] \in 0 .. n
      /\ e[0] = 0
      /\ \A i \in 1 .. n : e[i] = f[e[i - 1]]
  <2>1. e = Iterates(f, 0, n)
    BY <1>4 DEF e
  <2> HIDE DEF f
  <2>2. Loop(Iterates(f, 0, n), 0 .. n, f, 0, n)
    BY <1>1, <1>3, IteratesSteps
  <2>3. QED
    BY <2>1, <2>2 DEF Loop
<1>6. ASSUME NEW i \in 1 .. n
      PROVE  e[i - 1] <= e[i] /\ e[i] - e[i - 1] <= PageSize - ContinuationHeader
             /\ e[i] = e[i - 1] + Cut(e[i - 1])
  <2>1. i - 1 \in 0 .. n /\ e[i - 1] \in 0 .. n
    BY <1>1, <1>5
  <2>2. e[i] = e[i - 1] + Cut(e[i - 1])
    BY <2>1, <1>5 DEF n
  <2>3. Cut(e[i - 1]) \in 0 .. PageSize - ContinuationHeader
    BY <2>1, <1>2
  <2>4. QED
    BY <2>1, <2>2, <2>3, PageConstants
<1>7. QED
  BY <1>5, <1>6 DEF e, n, Cut

LEMMA ContinuationPageType ==
  ASSUME NEW part \in Seq(Nat), Len(part) <= PageSize - ContinuationHeader
  PROVE  ContinuationPage(part) \in Page /\ ContinuationPage(part).len = Len(part)
<1> DEFINE page == WriteBytes(EmptyPage, ContinuationHeader, part)
<1>1. page \in Page
  BY EmptyPageType, PageConstants, WriteBytesKeeps
<1>2. MaxDocIDInPairs(part) \in MaxIds /\ Len(part) \in 0 .. PageSize - ContinuationHeader
  BY PageConstants DEF MaxIds
<1>3. ContinuationPage(part) = WriteHeader(page, MaxDocIDInPairs(part), Len(part))
  BY DEF ContinuationPage
<1> HIDE DEF page
<1>4. QED
  BY <1>1, <1>2, <1>3, WriteHeaderKeeps

LEMMA AddContinuationsKeeps ==
  ASSUME NEW b \in Build, NEW bytes \in Seq(Nat), bytes # <<>>
  PROVE  LET r == AddContinuations(b, bytes)
         IN  /\ r \in Build /\ SameDir(r, b)
             /\ \/ Len(r.index) = Len(b.index) + r.cont
                \/ Len(r.index) + 1 = Len(b.index) + r.cont /\ r.wptr > 0
<1> DEFINE n == Len(bytes)
           end == BlockEnds(bytes)
           all == end[n]
           counts == {m \in 0 .. n : end[m] = all}
           count == Min(counts)
           Cut(i) == SubSeq(bytes, end[i - 1] + 1, end[i])
           pages == [i \in 1 .. count |-> ContinuationPage(Cut(i))]
<1>1. n \in Nat /\ n > 0 /\ n \in 0 .. n /\ 0 \in 0 .. n
  OBVIOUS
<1>2. /\ \A i \in 0 .. n : end[i] \in 0 .. n
      /\ end[0] = 0
      /\ \A i \in 1 .. n : /\ end[i - 1] <= end[i]
                           /\ end[i] - end[i - 1] <= PageSize - ContinuationHeader
  BY BlockEndsSteps
<1>3. count \in 0 .. n /\ end[count] = all
  <2>1. n \in counts /\ counts \in SUBSET Nat
    BY <1>1
  <2> HIDE DEF counts
  <2>2. count \in counts
    BY <2>1, MinOfNaturals
  <2>3. QED
    BY <2>2 DEF counts
<1>4. AddContinuations(b, bytes) =
        [b EXCEPT !.index = @ \o (IF all = n THEN Front(pages) ELSE pages),
                  !.cur   = IF all = n THEN Last(pages) ELSE EmptyPage,
                  !.wptr  = IF all = n THEN ContinuationHeader + Last(pages).len ELSE 0,
                  !.cont  = count]
  BY Zenon DEF AddContinuations
<1> HIDE DEF end, all, count
<1>5. ASSUME NEW i \in 1 .. count
      PROVE  ContinuationPage(Cut(i)) \in Page
  <2>1. i - 1 \in 0 .. n /\ i \in 1 .. n /\ i \in 0 .. n
    BY <1>1, <1>3
  <2>2. end[i - 1] \in Nat /\ end[i] \in Nat /\ end[i] <= n /\ end[i - 1] <= end[i]
        /\ end[i] - end[i - 1] <= PageSize - ContinuationHeader
    BY <2>1, <1>2
  <2>3. Cut(i) \in Seq(Nat) /\ Len(Cut(i)) = end[i] - end[i - 1]
    <3>1. \A a, c \in Nat : a <= c /\ c <= n =>
            SubSeq(bytes, a + 1, c) \in Seq(Nat) /\ Len(SubSeq(bytes, a + 1, c)) = c - a
      BY SubSeqElements
    <3>2. QED
      BY <2>2, <3>1
  <2>4. QED
    BY <2>2, <2>3, ContinuationPageType
<1> HIDE DEF Cut
<1>6. pages \in Seq(Page) /\ Len(pages) = count /\ \A i \in 1 .. count : pages[i] \in Page
  <2>1. count \in Nat /\ pages \in [1 .. count -> Page]
    BY <1>3, <1>5
  <2> HIDE DEF pages
  <2>2. pages \in Seq(Page) /\ Len(pages) = count
    BY <2>1, FunctionIsSeq
  <2>3. QED
    BY <2>1, <2>2
<1> HIDE DEF pages
<1>7. b.index \in Seq(Page) /\ Len(b.index) \in Nat
  BY BuildFields
<1>8. CASE all = n
  <2>1. count # 0
    BY <1>1, <1>2, <1>3, <1>8
  <2>2. Front(pages) \in Seq(Page) /\ Len(Front(pages)) = count - 1 /\ Last(pages) \in Page
    BY <2>1, <1>3, <1>6 DEF Front, Last
  <2> DEFINE index == b.index \o Front(pages)
             page == Last(pages)
  <2>3. index \in Seq(Page) /\ Len(index) = Len(b.index) + (count - 1)
    <3>1. \A x, y \in Seq(Page) : x \o y \in Seq(Page) /\ Len(x \o y) = Len(x) + Len(y)
      BY ConcatElements
    <3>2. QED
      BY <2>2, <1>7, <3>1
  <2>4. page.len \in 0 .. PageSize - ContinuationHeader /\ page \in Page
    BY <2>2 DEF Page
  <2>5. AddContinuations(b, bytes) =
          [b EXCEPT !.index = index, !.cur = page, !.wptr = ContinuationHeader + page.len,
                    !.cont = count]
    BY <1>4, <1>8
  <2> HIDE DEF index, page
  <2>6. ContinuationHeader + page.len \in 0 .. PageSize /\ ContinuationHeader + page.len > 0
    BY <2>4, PageConstants
  <2>7. QED
    <3> DEFINE r == AddContinuations(b, bytes)
    <3>1. count \in Nat
      BY <1>3
    <3>2. /\ r \in Build /\ SameDir(r, b) /\ r.index = index /\ r.cont = count
          /\ r.wptr = ContinuationHeader + page.len
      BY <3>1, <2>3, <2>4, <2>5, <2>6 DEF SameDir, Build
    <3> HIDE DEF r
    <3>3. Len(r.index) + 1 = Len(b.index) + r.cont /\ r.wptr > 0
      BY <3>1, <3>2, <2>3, <2>6, <1>7
    <3>4. QED
      BY <3>2, <3>3 DEF r
<1>9. CASE all # n
  <2> DEFINE index == b.index \o pages
  <2>1. index \in Seq(Page) /\ Len(index) = Len(b.index) + count
    BY <1>6, <1>7, ConcatElements
  <2>2. AddContinuations(b, bytes) =
          [b EXCEPT !.index = index, !.cur = EmptyPage, !.wptr = 0, !.cont = count]
    BY <1>4, <1>9
  <2> HIDE DEF index
  <2>3. QED
    <3> DEFINE r == AddContinuations(b, bytes)
    <3>1. count \in Nat /\ EmptyPage \in Page /\ 0 \in 0 .. PageSize
      BY <1>3, EmptyPageType, PageConstants
    <3>2. r \in Build /\ SameDir(r, b) /\ r.index = index /\ r.cont = count
      BY <3>1, <2>1, <2>2 DEF SameDir, Build
    <3> HIDE DEF r
    <3>3. Len(r.index) = Len(b.index) + r.cont
      BY <3>2, <2>1
    <3>4. QED
      BY <3>2, <3>3 DEF r
<1>10. QED
  BY <1>8, <1>9

\* r is o with a list written to it from its open page on.
Wrote(r, o) ==
  /\ r \in Build /\ SameDir(r, o)
  /\ \/ Len(o.index) + r.cont < Len(r.index)
     \/ Len(o.index) + r.cont = Len(r.index) /\ r.wptr > 0

LEMMA WriteListWrites ==
  ASSUME NEW o \in Build, NEW bytes \in Seq(Nat), NEW here \in 1 .. Len(bytes),
         here <= PageSize - o.wptr
  PROVE  Wrote(WriteList(o, bytes, here), o)
<1> DEFINE n == Len(bytes)
           page == WriteBytes(o.cur, o.wptr, SubSeq(bytes, 1, here))
           first == [o EXCEPT !.cur = page, !.wptr = o.wptr + here, !.cont = 0]
<1>1. o.wptr \in Nat /\ o.wptr <= PageSize /\ o.cur \in Page /\ Len(o.index) \in Nat /\ o.index \in Seq(Page)
  BY BuildFields
<1>2. n \in Nat /\ here \in Nat /\ 0 < here /\ here <= n /\ o.wptr + here \in 0 .. PageSize
  BY <1>1, PageConstants
<1>3. SubSeq(bytes, 1, here) \in Seq(Nat) /\ SubSeq(bytes, here + 1, n) \in Seq(Nat)
      /\ Len(SubSeq(bytes, here + 1, n)) = n - here
  <2>1. \A a, c \in Nat : a <= c /\ c <= n =>
          SubSeq(bytes, a + 1, c) \in Seq(Nat) /\ Len(SubSeq(bytes, a + 1, c)) = c - a
    BY SubSeqElements
  <2>2. SubSeq(bytes, 0 + 1, here) \in Seq(Nat) /\ 0 + 1 = 1
    BY <2>1, <1>2
  <2>3. QED
    BY <2>1, <2>2, <1>2
<1>4. page \in Page
  BY <1>1, <1>3, WriteBytesKeeps
<1>5. WriteList(o, bytes, here) =
        IF here = n THEN first
        ELSE AddContinuations(flush_index_block(first), SubSeq(bytes, here + 1, n))
  <2>1. first = [o EXCEPT !.cur = WriteBytes(@, o.wptr, SubSeq(bytes, 1, here)),
                          !.wptr = @ + here, !.cont = 0]
    OBVIOUS
  <2>2. QED
    BY <2>1 DEF WriteList
<1> HIDE DEF page
<1>6. /\ first \in Build /\ SameDir(first, o) /\ first.index = o.index /\ first.cont = 0
      /\ first.wptr = o.wptr + here
  BY <1>2, <1>4 DEF Build, SameDir
<1> HIDE DEF first
<1>7. CASE here = n
  BY <1>1, <1>2, <1>5, <1>6, <1>7 DEF Wrote
<1>8. CASE here # n
  <2> DEFINE rest == SubSeq(bytes, here + 1, n)
             flushed == flush_index_block(first)
             r == AddContinuations(flushed, rest)
  <2>1. rest \in Seq(Nat) /\ rest # <<>>
    <3>1. rest \in Seq(Nat) /\ Len(rest) > 0
      BY <1>2, <1>3, <1>8
    <3> HIDE DEF rest
    <3>2. QED
      BY <3>1
  <2>2. flushed \in Build /\ SameDir(flushed, first) /\ Len(flushed.index) = Len(first.index) + 1
    BY <1>6, FlushIndex
  <2> HIDE DEF rest, flushed
  <2>3. /\ r \in Build /\ SameDir(r, flushed)
        /\ \/ Len(r.index) = Len(flushed.index) + r.cont
           \/ Len(r.index) + 1 = Len(flushed.index) + r.cont /\ r.wptr > 0
    BY <2>1, <2>2, AddContinuationsKeeps
  <2>4. WriteList(o, bytes, here) = r
    BY <1>5, <1>8 DEF rest, flushed
  <2> HIDE DEF r
  <2>5. Len(r.index) \in Nat /\ r.cont \in Nat
    BY <2>3, BuildFields
  <2>6. SameDir(r, o)
    BY <1>6, <2>2, <2>3 DEF SameDir
  <2>7. Len(flushed.index) = Len(o.index) + 1
    BY <1>6, <2>2
  <2>8. \/ Len(o.index) + r.cont < Len(r.index)
        \/ Len(o.index) + r.cont = Len(r.index) /\ r.wptr > 0
    <3> DEFINE a == Len(o.index)
               c == Len(flushed.index)
               m == Len(r.index)
               k == r.cont
    <3>1. a \in Nat /\ c = a + 1 /\ m \in Nat /\ k \in Nat
      BY <1>1, <2>5, <2>7
    <3>2. m = c + k \/ (m + 1 = c + k /\ r.wptr > 0)
      BY <2>3
    <3> HIDE DEF a, c, m, k
    <3>3. a + k < m \/ (a + k = m /\ r.wptr > 0)
      BY <3>1, <3>2
    <3>4. QED
      BY <3>3 DEF a, m, k
  <2>9. QED
    BY <2>3, <2>4, <2>6, <2>8 DEF Wrote
<1>9. QED
  BY <1>7, <1>8

LEMMA OpenPageKeeps ==
  ASSUME NEW b \in Build, NEW bytes
  PROVE  LET o == OpenPage(b, bytes)
         IN  /\ o \in Build /\ SameDir(o, b)
             /\ o = b \/ Len(o.index) = Len(b.index) + 1
<1>1. CASE OpenPage(b, bytes) = b
  BY <1>1 DEF SameDir
<1>2. CASE OpenPage(b, bytes) = flush_index_block(b)
  BY <1>2, FlushIndex
<1>3. QED
  BY <1>1, <1>2 DEF OpenPage

LEMMA HeadGrows ==
  ASSUME NEW d \in Seq(Leaf), NEW leaf \in Leaf
  PROVE  HeadOf(Append(d, leaf)) = Append(HeadOf(d), [first |-> leaf[1].key, block |-> Len(d)])
<1> DEFINE n == Len(d)
           g == Append(d, leaf)
           last == [first |-> leaf[1].key, block |-> n]
           Of(e, l) == [first |-> e[l][1].key, block |-> l - 1]
           head == [l \in 1 .. n |-> Of(d, l)]
           more == [l \in 1 .. n + 1 |-> Of(g, l)]
           S == {Of(d, l) : l \in 1 .. n} \cup {last}
<1>1. n \in Nat /\ DOMAIN d = 1 .. n /\ Len(g) = n + 1 /\ DOMAIN g = 1 .. n + 1 /\ g[n + 1] = leaf
      /\ \A l \in 1 .. n : g[l] = d[l]
  <2> HIDE DEF Leaf
  <2>1. QED
    OBVIOUS
<1>2. HeadOf(d) = head /\ HeadOf(g) = more
  BY <1>1 DEF HeadOf
<1> HIDE DEF g
<1>3. \A l \in 1 .. n : Of(g, l) = Of(d, l)
  BY <1>1
<1>4. Of(g, n + 1) = last
  BY <1>1
<1> HIDE DEF Of, last
<1>5. head \in [1 .. n -> S] /\ more \in [1 .. n + 1 -> S] /\ last \in S /\ n + 1 \in Nat
  BY <1>1, <1>3, <1>4
<1>6. \A l \in 1 .. n : more[l] = head[l]
  BY <1>1, <1>3
<1>7. more[n + 1] = last
  BY <1>1, <1>4
<1> HIDE DEF more, head, S, n
<1>8. head \in Seq(S) /\ Len(head) = n /\ more \in Seq(S) /\ Len(more) = n + 1
  BY <1>1, <1>5, FunctionIsSeq
<1>9. /\ Append(head, last) \in Seq(S) /\ Len(Append(head, last)) = n + 1
      /\ \A l \in 1 .. n : Append(head, last)[l] = head[l]
      /\ Append(head, last)[n + 1] = last
  BY <1>1, <1>5, <1>8
<1>10. \A l \in 1 .. n + 1 : Append(head, last)[l] = more[l]
  BY <1>1, <1>6, <1>7, <1>9
<1>11. Append(head, last) = more
  BY <1>8, <1>9, <1>10, SeqEqual
<1>12. QED
  BY <1>2, <1>11 DEF g, last, n

\* The leaves, with the one being filled.
Dir(b) == IF b.term = <<>> THEN b.leaf ELSE Append(b.leaf, b.term)

SameIndex(r, b) == r.index = b.index /\ r.cur = b.cur /\ r.wptr = b.wptr /\ r.cont = b.cont

LEMMA DirType ==
  ASSUME NEW b \in Build
  PROVE  Dir(b) \in Seq(Leaf)
<1>1. b.leaf \in Seq(Leaf) /\ b.term \in Seq(Entry)
  BY BuildFields
<1>2. CASE b.term = <<>>
  BY <1>1, <1>2 DEF Dir
<1>3. CASE b.term # <<>>
  <2>1. b.term \in Leaf
    BY <1>1, <1>3 DEF Leaf
  <2>2. QED
    BY <2>1, <1>1, <1>3, SeqTypes DEF Dir
<1>4. QED
  BY <1>2, <1>3

WithDir(b, head, leaf, term, used) ==
  [b EXCEPT !.head = head, !.leaf = leaf, !.term = term, !.used = used]

HasDir(r, b, head, leaf, term) ==
  r \in Build /\ SameIndex(r, b) /\ r.leaf = leaf /\ r.term = term /\ r.head = head

LEMMA BuildWithDir ==
  ASSUME NEW b \in Build, NEW head \in Seq(HeadEntry), NEW leaf \in Seq(Leaf),
         NEW term \in Seq(Entry), NEW used \in Nat
  PROVE  HasDir(WithDir(b, head, leaf, term, used), b, head, leaf, term)
  BY DEF Build, SameIndex, WithDir, HasDir

LEMMA FlushLeaf ==
  ASSUME NEW b \in Build, b.head = HeadOf(b.leaf)
  PROVE  LET r == flush_leaf_block(b)
         IN  /\ r \in Build /\ SameIndex(r, b)
             /\ r.leaf = Dir(b) /\ r.term = <<>> /\ r.head = HeadOf(r.leaf)
<1>1. /\ b = [index |-> b.index, cur |-> b.cur, wptr |-> b.wptr, cont |-> b.cont,
              head |-> b.head, leaf |-> b.leaf, term |-> b.term, used |-> b.used]
      /\ b.leaf \in Seq(Leaf) /\ b.term \in Seq(Entry) /\ b.head \in Seq(HeadEntry)
      /\ Len(b.leaf) \in Nat
  BY BuildFields
<1>2. CASE b.term = <<>>
  BY <1>1, <1>2 DEF flush_leaf_block, SameIndex, Dir
<1>3. CASE b.term # <<>>
  <2> DEFINE last == [first |-> b.term[1].key, block |-> Len(b.leaf)]
             leaf == Append(b.leaf, b.term)
             head == Append(b.head, last)
             none == <<>>
             r == flush_leaf_block(b)
  <2>1. b.term \in Leaf
    BY <1>1, <1>3 DEF Leaf
  <2>2. b.term[1] \in Entry
    BY <2>1, LeafFacts
  <2>3. last \in HeadEntry
    BY <2>2, <1>1, EntryKey DEF HeadEntry
  <2>4. leaf \in Seq(Leaf) /\ head \in Seq(HeadEntry)
    <3> HIDE DEF last
    <3>1. QED
      BY <2>1, <2>3, <1>1, SeqTypes
  <2>5. head = HeadOf(leaf)
    BY <2>1, <1>1, HeadGrows
  <2>6. r = [b EXCEPT !.head = head, !.leaf = leaf, !.term = none, !.used = 0]
    BY <1>1, <1>3 DEF flush_leaf_block
  <2>7. Dir(b) = leaf
    BY <1>3 DEF Dir
  <2>8. none \in Seq(Entry)
    BY SeqTypes
  <2> HIDE DEF leaf, head, none, last
  <2>9. /\ r \in Build /\ SameIndex(r, b) /\ r.leaf = leaf /\ r.term = none /\ r.head = head
    <3> HIDE DEF r
    <3>1. r = WithDir(b, head, leaf, none, 0) /\ 0 \in Nat
      BY <2>6 DEF WithDir
    <3>2. HasDir(WithDir(b, head, leaf, none, 0), b, head, leaf, none)
      BY <2>4, <2>8, <3>1, BuildWithDir
    <3>3. QED
      BY <3>1, <3>2 DEF HasDir
  <2>10. QED
    BY <2>5, <2>7, <2>9 DEF none
<1>4. QED
  BY <1>2, <1>3

\* r is b with one more entry in its directory.
Grown(r, b, e) ==
  /\ r \in Build /\ SameIndex(r, b) /\ r.head = HeadOf(r.leaf)
  /\ Ascending(Dir(r)) /\ \A x : InDir(Dir(r), x) <=> InDir(Dir(b), x) \/ x = e

LEMMA AddLeafEntryGrows ==
  ASSUME NEW b \in Build, b.head = HeadOf(b.leaf), Ascending(Dir(b)), NEW e \in Entry,
         \A x : InDir(Dir(b), x) => x.key < e.key
  PROVE  Grown(AddLeafEntry(b, e), b, e)
<1> DEFINE full == LeafIsFull(Len(b.term), b.used, e.key)
           room == IF full THEN flush_leaf_block(b) ELSE b
           r == AddLeafEntry(b, e)
<1>1. byte_len(e.key) \in Nat
  BY EntryKey, PostingBlocksAssumption DEF byte_len
<1>2. r = [room EXCEPT !.term = Append(@, e), !.used = @ + byte_len(e.key)]
  BY DEF AddLeafEntry
<1>3. /\ room \in Build /\ SameIndex(room, b) /\ room.head = HeadOf(room.leaf)
      /\ \/ room.leaf = Dir(b) /\ room.term = <<>>
         \/ room.leaf = b.leaf /\ room.term = b.term /\ b.term # <<>> /\ Dir(b) = Append(b.leaf, b.term)
  <2>1. CASE full \/ b.term = <<>>
    BY <2>1, FlushLeaf DEF Dir, SameIndex
  <2>2. CASE ~full /\ b.term # <<>>
    BY <2>2 DEF Dir, SameIndex
  <2>3. QED
    BY <2>1, <2>2
<1> DEFINE term == Append(room.term, e)
           used == room.used + byte_len(e.key)
<1> HIDE DEF room
<1>4. room.term \in Seq(Entry) /\ room.used \in Nat /\ room.leaf \in Seq(Leaf)
  BY <1>3, BuildFields
<1>5. term \in Leaf /\ term \in Seq(Entry) /\ term # <<>> /\ used \in Nat
  BY <1>1, <1>4, LeafGrows DEF Leaf
<1>6. r = [room EXCEPT !.term = term, !.used = used]
  BY <1>2, <1>3, BuildFields
<1> HIDE DEF term, used
<1>7. /\ r \in Build /\ SameIndex(r, room) /\ r.head = room.head /\ r.leaf = room.leaf
      /\ r.term = term
  BY <1>3, <1>5, <1>6 DEF Build, SameIndex
<1> HIDE DEF r
<1>8. Dir(r) = Append(room.leaf, term)
  BY <1>5, <1>7 DEF Dir
<1>9. Dir(b) \in Seq(Leaf)
  BY DirType
<1>10. Ascending(Dir(r)) /\ \A x : InDir(Dir(r), x) <=> InDir(Dir(b), x) \/ x = e
  <2>1. CASE room.leaf = Dir(b) /\ room.term = <<>>
    <3>1. term = <<e>>
      BY <2>1 DEF term
    <3>2. QED
      BY <2>1, <3>1, <1>8, <1>9, DirNewLeaf
  <2>2. CASE room.leaf = b.leaf /\ room.term = b.term /\ b.term # <<>> /\ Dir(b) = Append(b.leaf, b.term)
    <3> DEFINE d == Dir(b)
               n == Len(b.leaf)
    <3>1. b.leaf \in Seq(Leaf) /\ b.term \in Leaf /\ n \in Nat
      BY <2>2, <1>4 DEF Leaf
    <3>2. /\ d \in Seq(Leaf) /\ Len(d) = n + 1 /\ d[n + 1] = b.term /\ d # <<>>
          /\ \A l \in 1 .. n : d[l] = b.leaf[l]
      <4> HIDE DEF Leaf
      <4>1. QED
        BY <2>2, <3>1
    <3> DEFINE g == [d EXCEPT ![Len(d)] = Append(d[Len(d)], e)]
               h == Append(b.leaf, term)
    <3>3. term = Append(d[Len(d)], e) /\ Dir(r) = h
      BY <2>2, <3>2, <1>8 DEF term
    <3>4. Ascending(g) /\ (\A x : InDir(g, x) <=> InDir(d, x) \/ x = e)
      BY <3>2, DirNewEntry
    <3>5. g = h
      <4> HIDE DEF Leaf, d
      <4>1. g = [d EXCEPT ![n + 1] = term]
        BY <3>2, <3>3
      <4>2. d \in [1 .. n + 1 -> Leaf] /\ n + 1 \in 1 .. n + 1
        BY <3>1, <3>2
      <4> HIDE DEF g, n
      <4>3. g \in [1 .. n + 1 -> Leaf] /\ g[n + 1] = term /\ \A l \in 1 .. n : g[l] = d[l]
        BY <3>1, <4>1, <4>2, <1>5
      <4>4. n + 1 \in Nat
        BY <3>1
      <4>5. g \in Seq(Leaf) /\ Len(g) = n + 1
        BY <4>3, <4>4, FunctionIsSeq
      <4>6. h \in Seq(Leaf) /\ Len(h) = n + 1 /\ h[n + 1] = term /\ \A l \in 1 .. n : h[l] = b.leaf[l]
        BY <3>1, <1>5 DEF n
      <4> HIDE DEF h
      <4>7. \A l \in 1 .. Len(g) : g[l] = h[l]
        BY <3>1, <3>2, <4>3, <4>5, <4>6 DEF n
      <4>8. QED
        BY <4>5, <4>6, <4>7, SeqEqual
    <3>6. QED
      BY <3>3, <3>4, <3>5
  <2>3. QED
    BY <2>1, <2>2, <1>3
<1>11. QED
  BY <1>3, <1>7, <1>10 DEF Grown, SameIndex, r

\* The blocks of an entry are there, or the last one is the open one.
Reach(b, x) == \/ x.block + x.cont < Len(b.index)
               \/ x.block + x.cont = Len(b.index) /\ b.wptr > 0

EntryOk(x) == TermLength[x.key] <= HeadTermKeyMax /\ x.offset + x.length <= PageSize

\* The state of BuildBlocks after key k.
BuildOk(b, k) ==
  /\ b \in Build /\ b.head = HeadOf(b.leaf) /\ Ascending(Dir(b))
  /\ \A x : InDir(Dir(b), x) => x \in Entry /\ x.key <= k /\ EntryOk(x) /\ Reach(b, x)

\* r has the directory of b and reaches at least as far.
LEMMA ReachGrows ==
  ASSUME NEW b \in Build, NEW r \in Build, NEW k \in Nat, NEW m \in Nat, k <= m,
         BuildOk(b, k), SameDir(r, b),
         \/ Len(b.index) < Len(r.index)
         \/ Len(b.index) = Len(r.index) /\ (b.wptr > 0 => r.wptr > 0)
  PROVE  BuildOk(r, m)
<1>1. Len(b.index) \in Nat /\ Len(r.index) \in Nat /\ b.wptr \in Nat /\ r.wptr \in Nat
  BY BuildFields
<1>2. Dir(r) = Dir(b) /\ r.head = HeadOf(r.leaf)
  BY DEF SameDir, Dir, BuildOk
<1>3. ASSUME NEW x, InDir(Dir(b), x)
      PROVE  x \in Entry /\ x.key <= m /\ EntryOk(x) /\ Reach(r, x)
  <2>1. x \in Entry /\ x.key <= k /\ EntryOk(x) /\ Reach(b, x)
    BY <1>3 DEF BuildOk
  <2>2. x.key \in Nat /\ x.block \in Nat /\ x.cont \in Nat
    BY <2>1, EntryKey DEF Entry
  <2>3. x.key <= m
    BY <2>1, <2>2
  <2> DEFINE top == x.block + x.cont
             a == Len(b.index)
             c == Len(r.index)
  <2>4. top \in Nat /\ a \in Nat /\ c \in Nat
    BY <2>2, <1>1
  <2>5. top < a \/ (top = a /\ b.wptr > 0)
    BY <2>1 DEF Reach
  <2>6. a < c \/ (a = c /\ (b.wptr > 0 => r.wptr > 0))
    OBVIOUS
  <2> HIDE DEF top, a, c
  <2>7. top < c \/ (top = c /\ r.wptr > 0)
    BY <2>4, <2>5, <2>6
  <2>8. QED
    BY <2>1, <2>3, <2>7 DEF Reach, top, c
<1>4. QED
  BY <1>2, <1>3 DEF BuildOk

LEMMA RemainderSmaller ==
  ASSUME NEW m \in Nat, NEW u \in Nat \ {0}
  PROVE  m % u \in Nat /\ m % u < u /\ m % u <= m /\ (m < u => m % u = m)
<1>1. m % u \in 0 .. u - 1
  OBVIOUS
<1>2. ASSUME m < u PROVE m % u = m
  <2>1. m = u * (m \div u) + (m % u) /\ m \div u \in Int
    OBVIOUS
  <2>2. m \div u = 0
    BY <1>2
  <2>3. QED
    BY <2>1, <2>2
<1>3. QED
  BY <1>1, <1>2

LEMMA AddTermKeeps ==
  ASSUME NEW b, NEW k \in Nat, k + 1 \in Keys, BuildOk(b, k),
         NEW T, NEW list \in Seq([doc : Nat, tf : T])
  PROVE  BuildOk(AddTerm(b, k + 1, list), k + 1)
<1> DEFINE key == k + 1
           bytes == encode(list)
           o == OpenPage(b, bytes)
           here == PostingPrefixBytes(bytes, PageSize - o.wptr)
           w == WriteList(o, bytes, here)
           e == [key |-> key, df |-> Len(list), block |-> Len(o.index),
                 offset |-> o.wptr, length |-> here, cont |-> w.cont % U16]
<1>1. AddTerm(b, key, list) =
        IF TermLength[key] > HeadTermKeyMax \/ list = <<>> THEN b
        ELSE IF here = 0 THEN o ELSE AddLeafEntry(w, e)
  BY Zenon DEF AddTerm
<1>2. b \in Build /\ key \in Nat /\ k <= key /\ Len(b.index) \in Nat /\ b.wptr \in Nat
  BY BuildFields DEF BuildOk
<1>3. bytes \in Seq(Nat) /\ Len(list) \in Nat
  <2>1. \A l \in Seq([doc : Nat, tf : T]) : encode(l) \in Seq(Nat)
    BY EncodeType
  <2>2. Len(list) \in Nat
    OBVIOUS
  <2>3. QED
    BY <2>1, <2>2
<1> HIDE DEF bytes
<1>4. o \in Build /\ SameDir(o, b) /\ (o = b \/ Len(o.index) = Len(b.index) + 1)
  BY <1>2, OpenPageKeeps
<1> HIDE DEF o
<1>5. /\ Len(o.index) \in Nat /\ o.wptr \in Nat /\ o.wptr <= PageSize
      /\ PageSize \in Nat /\ PageSize - o.wptr \in Nat
  BY <1>4, BuildFields, PageConstants
<1>6. here \in 0 .. PageSize - o.wptr /\ here <= Len(bytes) /\ Len(bytes) \in Nat
  <2>1. \A d \in Seq(Nat), c \in Nat : /\ PostingPrefixBytes(d, c) \in 0 .. c
                                       /\ PostingPrefixBytes(d, c) <= Len(d)
    BY CutInside
  <2> DEFINE c == PageSize - o.wptr
  <2>2. c \in Nat /\ here = PostingPrefixBytes(bytes, c)
    BY <1>5
  <2> HIDE DEF c, here
  <2>3. here \in 0 .. c /\ here <= Len(bytes)
    BY <2>1, <2>2, <1>3
  <2>4. QED
    BY <2>3, <1>3 DEF c
<1> HIDE DEF here
<1>7. BuildOk(b, key)
  BY <1>2, ReachGrows DEF SameDir
<1>8. BuildOk(o, key) /\ BuildOk(o, k)
  <2>1. \/ Len(b.index) < Len(o.index)
        \/ Len(b.index) = Len(o.index) /\ (b.wptr > 0 => o.wptr > 0)
    BY <1>2, <1>4
  <2>2. QED
    BY <2>1, <1>2, <1>4, ReachGrows
<1>9. ASSUME here # 0, TermLength[key] <= HeadTermKeyMax
      PROVE  BuildOk(AddLeafEntry(w, e), key)
  <2>1. Wrote(w, o)
    <3>1. here \in 1 .. Len(bytes) /\ here <= PageSize - o.wptr
      BY <1>5, <1>6, <1>9
    <3>2. QED
      BY <3>1, <1>3, <1>4, WriteListWrites
  <2> HIDE DEF w
  <2>2. w \in Build /\ SameDir(w, o) /\ Len(w.index) \in Nat /\ w.cont \in Nat /\ w.wptr \in Nat
    BY <2>1, BuildFields DEF Wrote
  <2>3. \/ Len(o.index) + w.cont < Len(w.index)
        \/ Len(o.index) + w.cont = Len(w.index) /\ w.wptr > 0
    BY <2>1 DEF Wrote
  <2>4. BuildOk(w, k)
    <3>1. \/ Len(o.index) < Len(w.index)
          \/ Len(o.index) = Len(w.index) /\ (o.wptr > 0 => w.wptr > 0)
      <4> DEFINE a == Len(o.index)
                 c == Len(w.index)
                 m == w.cont
                 wrote == w.wptr > 0
      <4>1. a \in Nat /\ c \in Nat /\ m \in Nat
        BY <1>5, <2>2
      <4>2. a + m < c \/ (a + m = c /\ wrote)
        BY <2>3
      <4> HIDE DEF a, c, m, wrote
      <4>3. a < c \/ (a = c /\ wrote)
        BY <4>1, <4>2
      <4>4. QED
        BY <4>3 DEF a, c, wrote
    <3>2. QED
      BY <3>1, <2>2, <1>4, <1>8, ReachGrows
  <2>5. w.cont % U16 \in Nat /\ w.cont % U16 <= w.cont
    BY <2>2, RemainderSmaller, PostingBlocksAssumption
  <2>6. e \in Entry /\ e.key = key /\ EntryOk(e)
    <3>1. o.wptr + here <= PageSize
      BY <1>5, <1>6
    <3>2. here \in Nat
      BY <1>6
    <3>3. QED
      BY <3>1, <3>2, <1>3, <1>5, <1>9, <2>5 DEF Entry, EntryOk
  <2>7. Reach(w, e)
    <3> DEFINE a == Len(o.index)
               c == Len(w.index)
               m == w.cont
               t == w.cont % U16
               wrote == w.wptr > 0
    <3>1. a \in Nat /\ c \in Nat /\ m \in Nat /\ t \in Nat /\ t <= m
      BY <1>5, <2>2, <2>5
    <3>2. a + m < c \/ (a + m = c /\ wrote)
      BY <2>3
    <3>3. e.block = a /\ e.cont = t
      OBVIOUS
    <3> HIDE DEF a, c, m, t, wrote, e
    <3>4. a + t < c \/ (a + t = c /\ wrote)
      BY <3>1, <3>2
    <3>5. QED
      BY <3>3, <3>4 DEF Reach, c, wrote
  <2> HIDE DEF e
  <2>8. Grown(AddLeafEntry(w, e), w, e)
    <3>1. \A x : InDir(Dir(w), x) => x.key < e.key
      <4>1. ASSUME NEW x, InDir(Dir(w), x) PROVE x.key < e.key
        <5>1. x \in Entry /\ x.key <= k
          BY <4>1, <2>4 DEF BuildOk
        <5>2. x.key \in Nat
          BY <5>1, EntryKey
        <5>3. QED
          BY <5>1, <5>2, <2>6
      <4>2. QED
        BY <4>1
    <3>2. QED
      BY <3>1, <2>2, <2>4, <2>6, AddLeafEntryGrows DEF BuildOk
  <2> DEFINE r == AddLeafEntry(w, e)
  <2> HIDE DEF r
  <2>9. ASSUME NEW x, InDir(Dir(r), x)
        PROVE  x \in Entry /\ x.key <= key /\ EntryOk(x) /\ Reach(r, x)
    <3>1. InDir(Dir(w), x) \/ x = e
      BY <2>8, <2>9 DEF Grown, r
    <3>2. x \in Entry /\ x.key <= key /\ EntryOk(x) /\ Reach(w, x)
      <4>1. CASE InDir(Dir(w), x)
        <5>1. x \in Entry /\ x.key <= k /\ EntryOk(x) /\ Reach(w, x)
          BY <4>1, <2>4 DEF BuildOk
        <5>2. x.key \in Nat
          BY <5>1, EntryKey
        <5>3. QED
          BY <5>1, <5>2
      <4>2. CASE x = e
        BY <4>2, <2>6, <2>7, <1>2
      <4>3. QED
        BY <3>1, <4>1, <4>2
    <3>3. QED
      BY <3>2, <2>8 DEF Grown, SameIndex, Reach, r
  <2>10. QED
    BY <2>8, <2>9 DEF Grown, BuildOk, r
<1>10. TermLength[key] \in Nat /\ HeadTermKeyMax \in Nat
  BY PostingBlocksAssumption
<1>11. TermLength[key] <= HeadTermKeyMax \/ TermLength[key] > HeadTermKeyMax
  BY <1>10
<1>12. QED
  BY <1>1, <1>7, <1>8, <1>9, <1>11

BuiltOk(g, st, n) ==
  g = [k \in 0 .. n |-> IF k = 0 THEN EmptyBuild ELSE AddTerm(g[k - 1], k, st[k])]

LEMMA BuiltExists ==
  ASSUME NEW st
  PROVE  \A n \in Nat : \E g : BuiltOk(g, st, n)
<1> DEFINE S == {n \in Nat : \E g : BuiltOk(g, st, n)}
<1>1. 0 \in S
  <2>1. BuiltOk([k \in 0 .. 0 |-> EmptyBuild], st, 0)
    BY DEF BuiltOk
  <2>2. QED
    BY <2>1
<1>2. ASSUME NEW n \in Nat, n \in S PROVE n + 1 \in S
  <2>1. PICK g : BuiltOk(g, st, n)
    BY <1>2
  <2> DEFINE h == [k \in 0 .. n + 1 |-> IF k = n + 1 THEN AddTerm(g[n], k, st[k]) ELSE g[k]]
  <2>2. \A k \in 0 .. n + 1 : h[k] = IF k = 0 THEN EmptyBuild ELSE AddTerm(h[k - 1], k, st[k])
    BY <2>1 DEF BuiltOk
  <2>3. BuiltOk(h, st, n + 1)
    BY <2>2 DEF BuiltOk
  <2>4. QED
    BY <2>3
<1> HIDE DEF S
<1>3. \A n \in Nat : n \in S
  BY <1>1, <1>2, NatSetInduction
<1>4. QED
  BY <1>3 DEF S

LEMMA EmptyBuildOk == BuildOk(EmptyBuild, 0)
<1>1. EmptyBuild \in Build
  BY EmptyPageType, PageConstants DEF EmptyBuild, Build
<1>2. Dir(EmptyBuild) = <<>> /\ EmptyBuild.leaf = <<>> /\ EmptyBuild.head = <<>>
  BY DEF Dir, EmptyBuild
<1>3. HeadOf(<<>>) = <<>>
  BY DEF HeadOf
<1>4. Ascending(<<>>) /\ \A x : ~InDir(<<>>, x)
  BY DEF Ascending, InDir
<1>5. QED
  BY <1>1, <1>2, <1>3, <1>4 DEF BuildOk

LEMMA BuiltSteps ==
  ASSUME NEW T, NEW st \in [Keys -> Seq([doc : Nat, tf : T])]
  PROVE  BuildOk(Built(st)[Cardinality(Keys)], Cardinality(Keys))
<1> DEFINE g == Built(st)
           N == Cardinality(Keys)
<1>1. BuiltOk(g, st, N)
  <2>1. \E h : BuiltOk(h, st, N)
    BY BuiltExists, KeysAreNumbers
  <2>2. QED
    BY <2>1, Zenon DEF Built, BuiltOk
<1>2. N \in Nat /\ Keys = 1 .. N
  BY KeysAreNumbers, PostingBlocksAssumption
<1> HIDE DEF g, N
<1> DEFINE I == {k \in Nat : k <= N => BuildOk(g[k], k)}
<1>3. 0 \in I
  <2>1. g[0] = EmptyBuild
    BY <1>1, <1>2 DEF BuiltOk
  <2>2. QED
    BY <2>1, EmptyBuildOk
<1>4. ASSUME NEW k \in Nat, k \in I PROVE k + 1 \in I
  <2>1. SUFFICES ASSUME k + 1 <= N PROVE BuildOk(g[k + 1], k + 1)
    OBVIOUS
  <2>2. BuildOk(g[k], k) /\ k + 1 \in Keys /\ k + 1 \in 0 .. N /\ (k + 1) - 1 = k /\ k + 1 # 0
    BY <1>2, <1>4, <2>1
  <2>3. g[k + 1] = AddTerm(g[k], k + 1, st[k + 1])
    BY <2>2, <1>1 DEF BuiltOk
  <2>4. st[k + 1] \in Seq([doc : Nat, tf : T])
    BY <2>2
  <2>5. BuildOk(AddTerm(g[k], k + 1, st[k + 1]), k + 1)
    BY <2>2, <2>4, AddTermKeeps
  <2>6. QED
    BY <2>3, <2>5
<1> HIDE DEF I
<1>5. \A k \in Nat : k \in I
  BY <1>3, <1>4, NatSetInduction
<1>6. BuildOk(g[N], N)
  BY <1>2, <1>5 DEF I
<1>7. QED
  BY <1>6 DEF g, N

Table == [head : Seq(HeadEntry), leaf : Seq(Leaf), index : Seq(Page)]

\* The blocks of an entry are in the table.
Inside(t, x) == x.offset + x.length <= PageSize /\ x.block + x.cont < Len(t.index)

\* A table that can be read.
TableOk(t) ==
  /\ t \in Table /\ t.head = HeadOf(t.leaf) /\ Ascending(t.leaf)
  /\ \A x : InDir(t.leaf, x) => x \in Entry /\ TermLength[x.key] <= HeadTermKeyMax /\ Inside(t, x)

LEMMA BuildBlocksOk ==
  ASSUME NEW T, NEW st \in [Keys -> Seq([doc : Nat, tf : T])]
  PROVE  TableOk(BuildBlocks(st))
<1> DEFINE N == Cardinality(Keys)
           b == Built(st)[N]
           c == IF b.wptr > 0 THEN flush_index_block(b) ELSE b
           r == flush_leaf_block(c)
<1>1. BuildBlocks(st) = TableOf(r)
  BY Zenon DEF BuildBlocks
<1>2. BuildOk(b, N) /\ N \in Nat
  BY BuiltSteps, KeysAreNumbers
<1> HIDE DEF N, b
<1>3. b \in Build /\ Len(b.index) \in Nat /\ b.wptr \in Nat
  BY <1>2, BuildFields DEF BuildOk
<1>4. c \in Build /\ SameDir(c, b)
      /\ ((c = b /\ b.wptr = 0) \/ Len(b.index) < Len(c.index))
  <2>1. CASE b.wptr > 0
    BY <2>1, <1>3, FlushIndex
  <2>2. CASE ~(b.wptr > 0)
    BY <2>2, <1>3 DEF SameDir
  <2>3. QED
    BY <2>1, <2>2
<1> HIDE DEF c
<1>5. c.head = HeadOf(c.leaf) /\ Dir(c) = Dir(b)
  BY <1>2, <1>4 DEF SameDir, Dir, BuildOk
<1>6. r \in Build /\ SameIndex(r, c) /\ r.leaf = Dir(b) /\ r.head = HeadOf(r.leaf)
  BY <1>4, <1>5, FlushLeaf
<1> HIDE DEF r
<1> DEFINE t == TableOf(r)
<1>7. /\ t \in Table /\ t.head = r.head /\ t.leaf = r.leaf /\ t.index = c.index
  <2>1. r.index \in Seq(Page) /\ r.head \in Seq(HeadEntry) /\ r.leaf \in Seq(Leaf)
    BY <1>6, BuildFields
  <2>2. r.index = c.index
    BY <1>6 DEF SameIndex
  <2>3. QED
    BY <2>1, <2>2 DEF TableOf, Table
<1> HIDE DEF t
<1>8. ASSUME NEW x, InDir(t.leaf, x)
      PROVE  x \in Entry /\ TermLength[x.key] <= HeadTermKeyMax /\ Inside(t, x)
  <2>1. x \in Entry /\ EntryOk(x) /\ Reach(b, x)
    BY <1>2, <1>6, <1>7, <1>8 DEF BuildOk
  <2>2. x.block \in Nat /\ x.cont \in Nat /\ Len(c.index) \in Nat
    BY <2>1, <1>4, BuildFields DEF Entry
  <2>3. x.block + x.cont < Len(c.index)
    <3> DEFINE top == x.block + x.cont
               a == Len(b.index)
               e == Len(c.index)
    <3>1. top \in Nat /\ a \in Nat /\ e \in Nat
      BY <2>2, <1>3
    <3>2. top < a \/ (top = a /\ b.wptr > 0)
      BY <2>1 DEF Reach
    <3>3. (e = a /\ b.wptr = 0) \/ a < e
      BY <1>4
    <3> HIDE DEF top, a, e
    <3>4. top < e
      BY <3>1, <3>2, <3>3, <1>3
    <3>5. QED
      BY <3>4 DEF top, e
  <2>4. QED
    BY <2>1, <2>3, <1>7 DEF EntryOk, Inside
<1>9. TableOk(t)
  BY <1>2, <1>6, <1>7, <1>8 DEF BuildOk, TableOk
<1>10. QED
  BY <1>1, <1>9 DEF t

---------------------------------------------------------------------------
(* Reading the bytes of a list *)

FirstPart(t, e) == SubSeq(PageAt(t, e.block).data, e.offset + 1, e.offset + e.length)
LaterPart(page) == SubSeq(page.data, ContinuationHeader + 1, ContinuationHeader + page.len)

LEMMA PostingBytesParts ==
  ASSUME NEW t, NEW e
  PROVE  PostingBytes(t, e) =
           FirstPart(t, e)
           \o FlattenSeq([i \in 1 .. e.cont |-> LaterPart(PageAt(t, e.block + i))])
  BY DEF PostingBytes, FirstPart, LaterPart

LEMMA LaterPartType ==
  ASSUME NEW page \in Page
  PROVE  LaterPart(page) \in Seq(Nat)
<1> DEFINE top == ContinuationHeader + page.len
<1>1. /\ page.data \in PageData /\ page.len \in Nat /\ page.len <= PageSize - ContinuationHeader
  BY PageConstants DEF Page
<1>2. top \in Nat /\ ContinuationHeader \in Nat /\ ContinuationHeader <= top /\ top <= PageSize
  BY <1>1, PageConstants
<1>3. LaterPart(page) = SubSeq(page.data, ContinuationHeader + 1, top)
  BY DEF LaterPart
<1> HIDE DEF top
<1>4. QED
  BY <1>1, <1>2, <1>3, PageReads

LEMMA PostingBytesType ==
  ASSUME NEW t \in Table, NEW e \in Entry, Inside(t, e)
  PROVE  PostingBytes(t, e) \in Seq(Nat)
<1> DEFINE later == [i \in 1 .. e.cont |-> LaterPart(PageAt(t, e.block + i))]
<1>1. /\ e.block \in Nat /\ e.cont \in Nat /\ e.offset \in Nat /\ e.length \in Nat
      /\ t.index \in Seq(Page) /\ Len(t.index) \in Nat
  BY DEF Entry, Table
<1>2. ASSUME NEW i \in 0 .. e.cont PROVE PageAt(t, e.block + i) \in Page
  <2>1. e.block + i + 1 \in 1 .. Len(t.index)
    BY <1>1 DEF Inside
  <2>2. t.index[e.block + i + 1] \in Page
    BY <2>1, <1>1, SeqElements
  <2>3. QED
    BY <2>2 DEF PageAt
<1>3. FirstPart(t, e) \in Seq(Nat)
  <2> DEFINE top == e.offset + e.length
  <2>1. PageAt(t, e.block) \in Page
    <3>1. e.block + 0 = e.block /\ 0 \in 0 .. e.cont
      BY <1>1
    <3>2. QED
      BY <3>1, <1>2
  <2>2. PageAt(t, e.block).data \in PageData
    BY <2>1 DEF Page
  <2>3. top \in Nat /\ e.offset <= top /\ top <= PageSize
    BY <1>1 DEF Inside
  <2>4. FirstPart(t, e) = SubSeq(PageAt(t, e.block).data, e.offset + 1, top)
    BY DEF FirstPart
  <2> HIDE DEF top
  <2>5. \A data \in PageData : \A a, c \in Nat :
          a <= c /\ c <= PageSize => SubSeq(data, a + 1, c) \in Seq(Nat)
    BY PageReads
  <2>6. QED
    BY <2>2, <2>3, <2>4, <2>5, <1>1
<1>4. \A i \in 1 .. e.cont : LaterPart(PageAt(t, e.block + i)) \in Seq(Nat)
  <2>1. ASSUME NEW i \in 1 .. e.cont PROVE LaterPart(PageAt(t, e.block + i)) \in Seq(Nat)
    <3>1. i \in 0 .. e.cont
      BY <1>1
    <3>2. QED
      BY <3>1, <1>2, LaterPartType
  <2>2. QED
    BY <2>1
<1>5. later \in Seq(Seq(Nat))
  <2>1. later \in [1 .. e.cont -> Seq(Nat)]
    BY <1>4
  <2> HIDE DEF later
  <2>2. QED
    BY <2>1, <1>1, FunctionIsSeq
<1> HIDE DEF later
<1>6. FlattenSeq(later) \in Seq(Nat)
  BY <1>5, FlattenType
<1>7. FirstPart(t, e) \o FlattenSeq(later) \in Seq(Nat)
  BY <1>3, <1>6, ConcatElements
<1>8. QED
  BY <1>7, PostingBytesParts DEF later

LEMMA PostingBytesSame ==
  ASSUME NEW t, NEW u, NEW e, FirstPart(t, e) = FirstPart(u, e),
         \A i \in 1 .. e.cont : LaterPart(PageAt(t, e.block + i)) = LaterPart(PageAt(u, e.block + i))
  PROVE  PostingBytes(t, e) = PostingBytes(u, e)
<1>1. [i \in 1 .. e.cont |-> LaterPart(PageAt(t, e.block + i))]
        = [i \in 1 .. e.cont |-> LaterPart(PageAt(u, e.block + i))]
  OBVIOUS
<1>2. QED
  BY <1>1, PostingBytesParts

---------------------------------------------------------------------------
(* The batch being written *)

Out == [leaf : Seq(Leaf), used : Nat, index : [1 .. MergedIndexLimit -> Page],
        block : 0 .. MergedIndexLimit - 1, offset : 0 .. PageSize, has : BOOLEAN, base : Nat]

LEMMA MergeConstants ==
  /\ MergedIndexLimit \in Nat /\ MergedIndexLimit > 0 /\ MergedIndexLimit < U16 /\ U16 \in Nat \ {0}
  /\ MergedLeafLimit \in Nat /\ MergedLeafLimit > 0
  BY IndexMergeAssumption, PostingBlocksAssumption

LEMMA OutFields ==
  ASSUME NEW o \in Out
  PROVE  /\ o.leaf \in Seq(Leaf) /\ o.used \in Nat
         /\ \A p \in 1 .. MergedIndexLimit : o.index[p] \in Page
         /\ o.block \in Nat /\ o.block < MergedIndexLimit /\ o.offset \in Nat /\ o.offset <= PageSize
         /\ o.has \in BOOLEAN /\ o.base \in Nat
  BY MergeConstants, PageConstants DEF Out

LEMMA EmptyOutType ==
  ASSUME NEW base \in Nat
  PROVE  /\ EmptyOut(base) \in Out /\ EmptyOut(base).leaf = <<>> /\ ~EmptyOut(base).has
         /\ EmptyOut(base).block = 0 /\ EmptyOut(base).offset = 0 /\ EmptyOut(base).base = base
  BY MergeConstants, PageConstants, EmptyPageType DEF EmptyOut, Out

LEMMA ContinuationEndsSteps ==
  ASSUME NEW bytes \in Seq(Nat), NEW first \in 0 .. Len(bytes)
  PROVE  /\ \A i \in 0 .. Len(bytes) : ContinuationEnds(bytes, first)[i] \in 0 .. Len(bytes)
         /\ ContinuationEnds(bytes, first)[0] = first
         /\ \A i \in 1 .. Len(bytes) :
              /\ ContinuationEnds(bytes, first)[i - 1] <= ContinuationEnds(bytes, first)[i]
              /\ ContinuationEnds(bytes, first)[i] - ContinuationEnds(bytes, first)[i - 1]
                   <= PageSize - ContinuationHeader
<1> DEFINE n == Len(bytes)
           Cut(from) == PostingSplitLength(SubSeq(bytes, from + 1, Len(bytes)),
                                           PageSize - ContinuationHeader)
           f == [from \in 0 .. Len(bytes) |-> from + Cut(from)]
<1>1. n \in Nat /\ first \in 0 .. n
  OBVIOUS
<1>2. ASSUME NEW from \in 0 .. n
      PROVE  Cut(from) \in 0 .. PageSize - ContinuationHeader /\ from + Cut(from) \in 0 .. n
  <2>1. SubSeq(bytes, from + 1, n) \in Seq(Nat) /\ Len(SubSeq(bytes, from + 1, n)) = n - from
    BY <1>1, SubSeqElements
  <2>2. /\ Cut(from) \in 0 .. PageSize - ContinuationHeader
        /\ Cut(from) <= Len(SubSeq(bytes, from + 1, n))
    BY <2>1, CutInside, PageConstants
  <2> HIDE DEF Cut
  <2>3. QED
    BY <2>1, <2>2, <1>1, PageConstants
<1> HIDE DEF Cut
<1>3. f \in [0 .. n -> 0 .. n]
  BY <1>2
<1>4. ContinuationEnds(bytes, first) = Iterates(f, first, n)
  BY DEF ContinuationEnds, Cut
<1> DEFINE e == ContinuationEnds(bytes, first)
<1> HIDE DEF e, n
<1>5. /\ \A i \in 0 .. n : e[i] \in 0 .. n
      /\ e[0] = first
      /\ \A i \in 1 .. n : e[i] = f[e[i - 1]]
  <2>1. e = Iterates(f, first, n)
    BY <1>4 DEF e
  <2> HIDE DEF f
  <2>2. Loop(Iterates(f, first, n), 0 .. n, f, first, n)
    BY <1>1, <1>3, IteratesSteps
  <2>3. QED
    BY <2>1, <2>2 DEF Loop
<1>6. ASSUME NEW i \in 1 .. n
      PROVE  e[i - 1] <= e[i] /\ e[i] - e[i - 1] <= PageSize - ContinuationHeader
  <2>1. i - 1 \in 0 .. n /\ e[i - 1] \in 0 .. n
    BY <1>1, <1>5
  <2>2. e[i] = e[i - 1] + Cut(e[i - 1])
    BY <2>1, <1>5 DEF n
  <2>3. Cut(e[i - 1]) \in 0 .. PageSize - ContinuationHeader
    BY <2>1, <1>2
  <2>4. QED
    BY <2>1, <2>2, <2>3, PageConstants
<1>7. QED
  BY <1>5, <1>6 DEF e, n

\* The place is inside the batch, after what is there, and takes all the bytes.
PlaceOk(o, bytes, at) ==
  /\ at.block \in Nat /\ at.offset \in Nat /\ at.length \in 1 .. Len(bytes) /\ at.count \in Nat
  /\ at.block + at.count < MergedIndexLimit /\ at.offset + at.length <= PageSize
  /\ \/ at.block = o.block /\ at.offset = o.offset
     \/ at.block = o.block + 1 /\ at.offset = 0
  /\ \A i \in 0 .. at.count : at.end[i] \in 0 .. Len(bytes)
  /\ \A i \in 1 .. at.count : /\ at.end[i - 1] <= at.end[i]
                              /\ at.end[i] - at.end[i - 1] <= PageSize - ContinuationHeader
  /\ at.end[0] = at.length /\ at.end[at.count] = Len(bytes)

\* Placement, with the names of its definition.
Counts(bytes, end) == {n \in 0 .. Len(bytes) : end[n] = Len(bytes)}
FitsAt(bytes, block, length, end) ==
  /\ length > 0 /\ Counts(bytes, end) # {}
  /\ 1 + Min(Counts(bytes, end)) <= MergedIndexLimit - block
PlaceAt(bytes, block, offset, length, end) ==
  [block |-> block, offset |-> offset, length |-> IF FitsAt(bytes, block, length, end) THEN length ELSE 0,
   end |-> end, count |-> IF FitsAt(bytes, block, length, end) THEN Min(Counts(bytes, end)) ELSE 0]
PlaceFrom(bytes, block, offset, length) ==
  PlaceAt(bytes, block, offset, length, ContinuationEnds(bytes, length))

LEMMA PlacementIs ==
  ASSUME NEW o, NEW bytes
  PROVE  Placement(o, bytes) =
           IF PostingSplitLength(bytes, PageSize - o.offset) = 0
           THEN PlaceFrom(bytes, o.block + 1, 0, PostingSplitLength(bytes, PageSize))
           ELSE PlaceFrom(bytes, o.block, o.offset, PostingSplitLength(bytes, PageSize - o.offset))
  BY Zenon DEF Placement, PlaceFrom, PlaceAt, FitsAt, Counts

LEMMA PlaceFromOk ==
  ASSUME NEW o, NEW bytes \in Seq(Nat), NEW block \in Nat, NEW offset \in Nat, NEW length \in Nat,
         length <= Len(bytes), offset + length <= PageSize,
         (block = o.block /\ offset = o.offset) \/ (block = o.block + 1 /\ offset = 0),
         PlaceFrom(bytes, block, offset, length).length > 0
  PROVE  PlaceOk(o, bytes, PlaceFrom(bytes, block, offset, length))
<1> DEFINE n == Len(bytes)
           end == ContinuationEnds(bytes, length)
           C == Counts(bytes, end)
           count == Min(C)
           at == PlaceFrom(bytes, block, offset, length)
<1>1. n \in Nat /\ length \in 0 .. n
  OBVIOUS
<1>2. /\ \A i \in 0 .. n : end[i] \in 0 .. n
      /\ end[0] = length
      /\ \A i \in 1 .. n : end[i - 1] <= end[i] /\ end[i] - end[i - 1] <= PageSize - ContinuationHeader
  BY <1>1, ContinuationEndsSteps
<1> HIDE DEF end
<1>3. FitsAt(bytes, block, length, end)
  <2>1. ~FitsAt(bytes, block, length, end) => at.length = 0
    BY DEF PlaceFrom, PlaceAt, end
  <2>2. at.length > 0
    OBVIOUS
  <2> HIDE DEF at
  <2>3. QED
    BY <2>1, <2>2
<1>4. at = [block |-> block, offset |-> offset, length |-> length, end |-> end, count |-> count]
  BY <1>3 DEF PlaceFrom, PlaceAt, end
<1>5. length > 0 /\ C # {} /\ 1 + count <= MergedIndexLimit - block
  BY <1>3 DEF FitsAt
<1>6. C \in SUBSET Nat /\ C \in SUBSET (0 .. n) /\ \A c \in C : end[c] = n
  BY <1>1 DEF Counts
<1> HIDE DEF C
<1>7. count \in C
  BY <1>5, <1>6, MinOfNaturals
<1> HIDE DEF count
<1>8. count \in 0 .. n /\ end[count] = n /\ count \in Nat
  BY <1>6, <1>7
<1>9. /\ at.block = block /\ at.offset = offset /\ at.length = length /\ at.end = end
      /\ at.count = count
  BY <1>4
<1>10. block + count < MergedIndexLimit
  BY <1>5, <1>8, MergeConstants
<1> HIDE DEF at, n
<1>11. length \in 1 .. n
  BY <1>1, <1>5
<1>12. /\ \A i \in 0 .. count : end[i] \in 0 .. n
       /\ \A i \in 1 .. count : /\ end[i - 1] <= end[i]
                                /\ end[i] - end[i - 1] <= PageSize - ContinuationHeader
  BY <1>1, <1>2, <1>8
<1>13. QED
  BY <1>2, <1>8, <1>9, <1>10, <1>11, <1>12 DEF PlaceOk, at, n

LEMMA PlacementOk ==
  ASSUME NEW o \in Out, NEW bytes \in Seq(Nat), Placement(o, bytes).length > 0
  PROVE  PlaceOk(o, bytes, Placement(o, bytes))
<1> DEFINE free == PageSize - o.offset
           here == PostingSplitLength(bytes, free)
           whole == PostingSplitLength(bytes, PageSize)
<1>1. /\ o.block \in Nat /\ o.offset \in Nat /\ o.offset <= PageSize /\ PageSize \in Nat
      /\ free \in Nat /\ o.offset + free = PageSize
  BY OutFields, PageConstants
<1>2. /\ Placement(o, bytes) = IF here = 0 THEN PlaceFrom(bytes, o.block + 1, 0, whole)
                               ELSE PlaceFrom(bytes, o.block, o.offset, here)
  BY PlacementIs
<1> HIDE DEF free
<1>3. here \in 0 .. free /\ here <= Len(bytes) /\ whole \in 0 .. PageSize /\ whole <= Len(bytes)
  BY <1>1, CutInside
<1> HIDE DEF here, whole
<1>4. CASE here = 0
  <2>1. Placement(o, bytes) = PlaceFrom(bytes, o.block + 1, 0, whole)
    BY <1>2, <1>4
  <2>2. whole \in Nat /\ 0 + whole <= PageSize /\ o.block + 1 \in Nat /\ 0 \in Nat
    BY <1>1, <1>3
  <2>3. QED
    BY <2>1, <2>2, <1>3, PlaceFromOk
<1>5. CASE here # 0
  <2>1. Placement(o, bytes) = PlaceFrom(bytes, o.block, o.offset, here)
    BY <1>2, <1>5
  <2>2. here \in Nat /\ o.offset + here <= PageSize
    BY <1>1, <1>3
  <2>3. QED
    BY <2>1, <2>2, <1>1, <1>3, PlaceFromOk
<1>6. QED
  BY <1>4, <1>5

\* The pages AddIndexBytes leaves, page p being number i of the list.
NewPage(o, bytes, at, p, i) ==
  IF i = 0 THEN WriteBytes(o.index[p], at.offset, SubSeq(bytes, 1, at.length))
  ELSE IF i \in 1 .. at.count
  THEN WriteHeader(WriteBytes(o.index[p], ContinuationHeader, Part(bytes, at, i)),
                   MergeMaxDocIDInPairs(Part(bytes, at, i)), Len(Part(bytes, at, i)))
  ELSE o.index[p]

NewPages(o, bytes, at) ==
  [p \in 1 .. MergedIndexLimit |-> NewPage(o, bytes, at, p, p - 1 - at.block)]

\* r is o with the bytes at their place; what was there can still be read.
Placed(r, o, bytes, at) ==
  /\ r \in Out /\ r.leaf = o.leaf /\ r.used = o.used /\ r.base = o.base /\ r.has
  /\ r.block = at.block + at.count
  /\ r.offset = IF at.count = 0 THEN at.offset + at.length ELSE PageSize
  /\ \A p \in 1 .. MergedIndexLimit : p <= o.block => r.index[p] = o.index[p]
  /\ r.index[o.block + 1].len = o.index[o.block + 1].len
  /\ \A i \in 1 .. PageSize :
       i <= o.offset => r.index[o.block + 1].data[i] = o.index[o.block + 1].data[i]
  /\ SubSeq(r.index[at.block + 1].data, at.offset + 1, at.offset + at.length) = SubSeq(bytes, 1, at.length)
  /\ \A i \in 1 .. at.count : LaterPart(r.index[at.block + i + 1]) = Part(bytes, at, i)

LEMMA PartType ==
  ASSUME NEW o, NEW bytes \in Seq(Nat), NEW at, PlaceOk(o, bytes, at), NEW i \in 1 .. at.count
  PROVE  /\ Part(bytes, at, i) \in Seq(Nat)
         /\ Len(Part(bytes, at, i)) \in 0 .. PageSize - ContinuationHeader
         /\ MergeMaxDocIDInPairs(Part(bytes, at, i)) \in MaxIds
<1> DEFINE a == at.end[i - 1]
           c == at.end[i]
<1>1. at.count \in Nat /\ Len(bytes) \in Nat
  BY DEF PlaceOk
<1>2. i - 1 \in 0 .. at.count /\ i \in 0 .. at.count
  BY <1>1
<1>3. a \in 0 .. Len(bytes) /\ c \in 0 .. Len(bytes) /\ a <= c /\ c - a <= PageSize - ContinuationHeader
  BY <1>2 DEF PlaceOk
<1>4. Part(bytes, at, i) = SubSeq(bytes, a + 1, c)
  BY DEF Part
<1> HIDE DEF a, c
<1>5. a \in Nat /\ c \in Nat /\ c <= Len(bytes)
  BY <1>1, <1>3
<1>6. SubSeq(bytes, a + 1, c) \in Seq(Nat) /\ Len(SubSeq(bytes, a + 1, c)) = c - a
  BY <1>3, <1>5, SubSeqElements
<1>7. c - a \in 0 .. PageSize - ContinuationHeader
  BY <1>3, <1>5, PageConstants
<1>8. QED
  BY <1>4, <1>6, <1>7 DEF MaxIds

LEMMA FirstBytesType ==
  ASSUME NEW o, NEW bytes \in Seq(Nat), NEW at, PlaceOk(o, bytes, at)
  PROVE  SubSeq(bytes, 1, at.length) \in Seq(Nat) /\ Len(SubSeq(bytes, 1, at.length)) = at.length
<1>1. at.length \in Nat /\ at.length <= Len(bytes) /\ 0 <= at.length /\ at.length - 0 = at.length
  BY DEF PlaceOk
<1>2. SubSeq(bytes, 0 + 1, at.length) \in Seq(Nat)
      /\ Len(SubSeq(bytes, 0 + 1, at.length)) = at.length - 0
  BY <1>1, SubSeqElements
<1>3. 0 + 1 = 1
  OBVIOUS
<1>4. QED
  BY <1>1, <1>2, <1>3

LEMMA ContinuationReadsBack ==
  ASSUME NEW page \in Page, NEW bytes \in Seq(Nat), NEW max \in MaxIds,
         Len(bytes) \in 0 .. PageSize - ContinuationHeader
  PROVE  LET r == WriteHeader(WriteBytes(page, ContinuationHeader, bytes), max, Len(bytes))
         IN  r \in Page /\ LaterPart(r) = bytes
<1> DEFINE w == WriteBytes(page, ContinuationHeader, bytes)
           r == WriteHeader(w, max, Len(bytes))
           n == Len(bytes)
<1>1. w \in Page
  BY PageConstants, WriteBytesKeeps
<1>2. ContinuationHeader + Len(bytes) <= PageSize
  BY PageConstants
<1>3. SubSeq(w.data, ContinuationHeader + 1, ContinuationHeader + Len(bytes)) = bytes
  BY <1>2, PageConstants, PageReadsBack
<1> HIDE DEF w
<1>4. r \in Page /\ r.data = w.data /\ r.len = Len(bytes)
  BY <1>1, WriteHeaderKeeps
<1> HIDE DEF r
<1>5. LaterPart(r) = bytes
  BY <1>3, <1>4 DEF LaterPart
<1>6. QED
  BY <1>4, <1>5 DEF r, w

LEMMA AddIndexBytesPlaces ==
  ASSUME NEW o \in Out, NEW bytes \in Seq(Nat), NEW at, PlaceOk(o, bytes, at)
  PROVE  Placed(AddIndexBytes(o, bytes, at), o, bytes, at)
<1> DEFINE pages == NewPages(o, bytes, at)
           block == at.block + at.count
           offset == IF at.count = 0 THEN at.offset + at.length ELSE PageSize
           r == AddIndexBytes(o, bytes, at)
<1>0. /\ at.block \in Nat /\ at.offset \in Nat /\ at.length \in Nat /\ at.count \in Nat
      /\ at.block + at.count < MergedIndexLimit /\ at.offset + at.length <= PageSize
      /\ o.block \in Nat /\ o.block < MergedIndexLimit /\ MergedIndexLimit \in Nat
      /\ o.offset \in Nat /\ PageSize \in Nat
      /\ \/ at.block = o.block /\ at.offset = o.offset
         \/ at.block = o.block + 1 /\ at.offset = 0
  BY OutFields, MergeConstants, PageConstants DEF PlaceOk
<1>1. r = [o EXCEPT !.index = pages, !.block = block, !.offset = offset, !.has = TRUE]
  BY Zenon DEF AddIndexBytes, NextOffset, NewPages, NewPage
<1>2. ASSUME NEW p \in 1 .. MergedIndexLimit, NEW i \in Int
      PROVE  NewPage(o, bytes, at, p, i) \in Page
  <2>1. o.index[p] \in Page
    BY OutFields
  <2>2. CASE i = 0
    BY <2>1, <2>2, <1>0, FirstBytesType, WriteBytesKeeps DEF NewPage
  <2>3. CASE i \in 1 .. at.count
    <3>1. /\ Part(bytes, at, i) \in Seq(Nat) /\ Len(Part(bytes, at, i)) \in 0 .. PageSize - ContinuationHeader
          /\ MergeMaxDocIDInPairs(Part(bytes, at, i)) \in MaxIds
      BY <2>3, PartType
    <3>2. NewPage(o, bytes, at, p, i) =
            WriteHeader(WriteBytes(o.index[p], ContinuationHeader, Part(bytes, at, i)),
                        MergeMaxDocIDInPairs(Part(bytes, at, i)), Len(Part(bytes, at, i)))
      BY <2>3 DEF NewPage
    <3>3. QED
      BY <2>1, <3>1, <3>2, ContinuationReadsBack
  <2>4. CASE i # 0 /\ i \notin 1 .. at.count
    BY <2>1, <2>4 DEF NewPage
  <2>5. QED
    BY <2>2, <2>3, <2>4
<1>3. pages \in [1 .. MergedIndexLimit -> Page]
  <2>1. \A p \in 1 .. MergedIndexLimit : p - 1 - at.block \in Int
    BY <1>0
  <2>2. QED
    BY <2>1, <1>2 DEF NewPages
<1>4. \A p \in 1 .. MergedIndexLimit : pages[p] = NewPage(o, bytes, at, p, p - 1 - at.block)
  BY DEF NewPages
<1> HIDE DEF pages
<1>5. block \in 0 .. MergedIndexLimit - 1 /\ offset \in 0 .. PageSize
  BY <1>0
<1>6. /\ r \in Out /\ r.leaf = o.leaf /\ r.used = o.used /\ r.base = o.base /\ r.has
      /\ r.block = block /\ r.offset = offset /\ r.index = pages
  <2> HIDE DEF block, offset
  <2>1. QED
    BY <1>1, <1>3, <1>5 DEF Out
<1> HIDE DEF r
<1>7. ASSUME NEW p \in 1 .. MergedIndexLimit, p <= o.block PROVE pages[p] = o.index[p]
  <2>1. p - 1 - at.block # 0 /\ p - 1 - at.block \notin 1 .. at.count
    BY <1>0, <1>7
  <2>2. QED
    BY <2>1, <1>4 DEF NewPage
<1>8. /\ pages[o.block + 1].len = o.index[o.block + 1].len
      /\ \A i \in 1 .. PageSize :
           i <= o.offset => pages[o.block + 1].data[i] = o.index[o.block + 1].data[i]
  <2> DEFINE p == o.block + 1
  <2>1. p \in 1 .. MergedIndexLimit /\ p - 1 - at.block = o.block - at.block
    BY <1>0
  <2>2. o.index[p] \in Page
    BY <2>1, OutFields
  <2>3. CASE at.block = o.block /\ at.offset = o.offset
    <3>1. pages[p] = WriteBytes(o.index[p], o.offset, SubSeq(bytes, 1, at.length))
      <4>1. p - 1 - at.block = 0
        BY <2>1, <2>3, <1>0
      <4>2. QED
        BY <4>1, <2>1, <2>3, <1>4 DEF NewPage
    <3> DEFINE s == SubSeq(bytes, 1, at.length)
               page == o.index[p]
    <3>2. s \in Seq(Nat) /\ page \in Page
      BY <2>2, FirstBytesType
    <3> HIDE DEF s, page
    <3>3. /\ WriteBytes(page, o.offset, s).len = page.len
          /\ \A i \in 1 .. PageSize : i <= o.offset =>
               WriteBytes(page, o.offset, s).data[i] = page.data[i]
      BY <3>2, <1>0, WriteBytesKeeps
    <3>4. QED
      BY <3>1, <3>3 DEF p, s, page
  <2>4. CASE at.block = o.block + 1
    <3>1. p - 1 - at.block # 0 /\ p - 1 - at.block \notin 1 .. at.count
      BY <2>1, <2>4, <1>0
    <3>2. QED
      BY <3>1, <2>1, <1>4 DEF NewPage
  <2>5. QED
    BY <2>3, <2>4, <1>0
<1>9. SubSeq(pages[at.block + 1].data, at.offset + 1, at.offset + at.length) = SubSeq(bytes, 1, at.length)
  <2> DEFINE p == at.block + 1
             s == SubSeq(bytes, 1, at.length)
  <2>1. p \in 1 .. MergedIndexLimit /\ p - 1 - at.block = 0
    BY <1>0
  <2>2. pages[p] = WriteBytes(o.index[p], at.offset, s)
    BY <2>1, <1>4 DEF NewPage
  <2>3. s \in Seq(Nat) /\ Len(s) = at.length /\ o.index[p] \in Page
    BY <2>1, FirstBytesType, OutFields
  <2> HIDE DEF p, s
  <2>4. SubSeq(WriteBytes(o.index[p], at.offset, s).data, at.offset + 1, at.offset + Len(s)) = s
    BY <2>3, <1>0, PageReadsBack
  <2>5. QED
    BY <2>2, <2>3, <2>4 DEF p, s
<1>10. ASSUME NEW i \in 1 .. at.count
       PROVE  LaterPart(pages[at.block + i + 1]) = Part(bytes, at, i)
  <2> DEFINE p == at.block + i + 1
  <2>1. p \in 1 .. MergedIndexLimit /\ p - 1 - at.block = i /\ i # 0
    <3>1. at.block \in Nat /\ at.count \in Nat /\ at.block + at.count < MergedIndexLimit
      BY <1>0
    <3>2. QED
      BY <3>1, MergeConstants
  <2>2. pages[p] = WriteHeader(WriteBytes(o.index[p], ContinuationHeader, Part(bytes, at, i)),
                               MergeMaxDocIDInPairs(Part(bytes, at, i)), Len(Part(bytes, at, i)))
    BY <2>1, <1>4 DEF NewPage
  <2>3. o.index[p] \in Page
    BY <2>1, OutFields
  <2>4. /\ Part(bytes, at, i) \in Seq(Nat) /\ Len(Part(bytes, at, i)) \in 0 .. PageSize - ContinuationHeader
        /\ MergeMaxDocIDInPairs(Part(bytes, at, i)) \in MaxIds
    BY PartType
  <2> HIDE DEF p
  <2>5. LaterPart(pages[p]) = Part(bytes, at, i)
    BY <2>2, <2>3, <2>4, ContinuationReadsBack
  <2>6. QED
    BY <2>5 DEF p
<1>11. QED
  BY <1>6, <1>7, <1>8, <1>9, <1>10 DEF Placed, r

---------------------------------------------------------------------------
(* The files and the batch together *)

LEMMA ConcatAppend ==
  ASSUME NEW S, NEW f \in Seq(S), NEW d \in Seq(S), NEW e \in S
  PROVE  f \o Append(d, e) = Append(f \o d, e)
  OBVIOUS

ReplaceLast(d, e) == [d EXCEPT ![Len(d)] = e]

LEMMA ReplaceLastElements ==
  ASSUME NEW S, NEW d \in Seq(S), NEW e \in S, d # <<>>
  PROVE  /\ ReplaceLast(d, e) \in Seq(S) /\ Len(ReplaceLast(d, e)) = Len(d)
         /\ ReplaceLast(d, e)[Len(d)] = e
         /\ \A i \in 1 .. Len(d) - 1 : ReplaceLast(d, e)[i] = d[i]
  BY DEF ReplaceLast

LEMMA ConcatReplaceLast ==
  ASSUME NEW S, NEW f \in Seq(S), NEW d \in Seq(S), NEW e \in S, d # <<>>
  PROVE  f \o ReplaceLast(d, e) = ReplaceLast(f \o d, e)
<1> DEFINE n == Len(d)
           m == Len(f)
           g == ReplaceLast(d, e)
           h == ReplaceLast(f \o d, e)
<1>1. n \in Nat /\ n > 0 /\ m \in Nat
  OBVIOUS
<1>2. g \in Seq(S) /\ Len(g) = n /\ g[n] = e /\ \A i \in 1 .. n - 1 : g[i] = d[i]
  BY ReplaceLastElements
<1>3. f \o d \in Seq(S) /\ Len(f \o d) = m + n
      /\ (\A i \in 1 .. m : (f \o d)[i] = f[i]) /\ (\A i \in 1 .. n : (f \o d)[m + i] = d[i])
  BY ConcatElements
<1>4. f \o g \in Seq(S) /\ Len(f \o g) = m + n
      /\ (\A i \in 1 .. m : (f \o g)[i] = f[i]) /\ (\A i \in 1 .. n : (f \o g)[m + i] = g[i])
  <2> HIDE DEF g, n
  <2>1. \A a \in Seq(S) :
          /\ f \o a \in Seq(S) /\ Len(f \o a) = m + Len(a)
          /\ (\A i \in 1 .. m : (f \o a)[i] = f[i]) /\ (\A i \in 1 .. Len(a) : (f \o a)[m + i] = a[i])
    BY ConcatElements
  <2>2. QED
    BY <1>2, <2>1
<1>5. h \in Seq(S) /\ Len(h) = m + n /\ h[m + n] = e /\ \A i \in 1 .. m + n - 1 : h[i] = (f \o d)[i]
  <2> DEFINE fd == f \o d
             k == Len(f \o d)
  <2>1. fd \in Seq(S) /\ Len(fd) = k /\ k = m + n /\ k > 0
    BY <1>1, <1>3
  <2> HIDE DEF fd, k
  <2>2. fd # <<>>
    BY <2>1
  <2>3. /\ ReplaceLast(fd, e) \in Seq(S) /\ Len(ReplaceLast(fd, e)) = k
        /\ ReplaceLast(fd, e)[k] = e /\ \A i \in 1 .. k - 1 : ReplaceLast(fd, e)[i] = fd[i]
    <3>1. \A a \in Seq(S) : a # <<>> =>
            /\ ReplaceLast(a, e) \in Seq(S) /\ Len(ReplaceLast(a, e)) = Len(a)
            /\ ReplaceLast(a, e)[Len(a)] = e
            /\ \A i \in 1 .. Len(a) - 1 : ReplaceLast(a, e)[i] = a[i]
      BY ReplaceLastElements
    <3>2. QED
      BY <3>1, <2>1, <2>2
  <2>4. QED
    BY <2>1, <2>3 DEF fd
<1> DEFINE fd == f \o d
           fg == f \o g
<1> HIDE DEF h, g, fd, fg
<1>6. ASSUME NEW i \in 1 .. m + n PROVE fg[i] = h[i]
  <2>1. CASE i <= m
    <3>1. i \in 1 .. m /\ i \in 1 .. m + n - 1
      BY <1>1, <2>1
    <3>2. QED
      BY <3>1, <1>3, <1>4, <1>5 DEF fd, fg
  <2>2. CASE i = m + n
    <3>1. n \in 1 .. n
      BY <1>1
    <3>2. QED
      BY <2>2, <3>1, <1>2, <1>4, <1>5 DEF fg
  <2>3. CASE i > m /\ i < m + n
    <3> DEFINE j == i - m
    <3>1. j \in 1 .. n /\ j \in 1 .. n - 1 /\ m + j = i /\ i \in 1 .. m + n - 1
      BY <1>1, <2>3
    <3> HIDE DEF j
    <3>2. fg[i] = g[j] /\ g[j] = d[j] /\ h[i] = fd[i] /\ fd[i] = d[j]
      BY <3>1, <1>2, <1>3, <1>4, <1>5 DEF fd, fg
    <3>3. QED
      BY <3>2
  <2>4. QED
    BY <1>1, <2>1, <2>2, <2>3
<1>7. fg = h
  BY <1>4, <1>5, <1>6, SeqEqual DEF fg
<1>8. QED
  BY <1>7 DEF fg, h, g

\* r is o with one more entry behind the directory f.
Entered(r, o, f, e) ==
  /\ r \in Out /\ r.index = o.index /\ r.block = o.block /\ r.offset = o.offset
  /\ r.has = o.has /\ r.base = o.base /\ r.leaf # <<>>
  /\ Len(r.leaf) <= Len(o.leaf) + (IF NeedsLeaf(o, e.key) THEN 1 ELSE 0)
  /\ Ascending(f \o r.leaf)
  /\ \A x : InDir(f \o r.leaf, x) <=> InDir(f \o o.leaf, x) \/ x = e

LEMMA AddLeafTermEntryEnters ==
  ASSUME NEW f \in Seq(Leaf), NEW o \in Out, NEW e \in Entry, Ascending(f \o o.leaf),
         \A x : InDir(f \o o.leaf, x) => x.key < e.key
  PROVE  Entered(AddLeafTermEntry(o, e), o, f, e)
<1> DEFINE r == AddLeafTermEntry(o, e)
           d == f \o o.leaf
<1>1. o.leaf \in Seq(Leaf) /\ o.used \in Nat /\ byte_len(e.key) \in Nat /\ Len(o.leaf) \in Nat
  BY OutFields, EntryKey, PostingBlocksAssumption DEF byte_len
<1>2. d \in Seq(Leaf) /\ Len(d) = Len(f) + Len(o.leaf)
  BY <1>1, ConcatElements
<1>3. CASE NeedsLeaf(o, e.key)
  <2> DEFINE one == <<e>>
             leaf == Append(o.leaf, one)
             used == byte_len(e.key)
  <2>1. r = [o EXCEPT !.leaf = leaf, !.used = used]
    BY <1>3 DEF AddLeafTermEntry, Out
  <2>2. one \in Leaf
    <3>1. <<>> \in Seq(Entry)
      BY SeqTypes
    <3>2. QED
      BY <3>1, LeafGrows
  <2>3. Ascending(Append(d, one)) /\ \A x : InDir(Append(d, one), x) <=> InDir(d, x) \/ x = e
    BY <1>2, DirNewLeaf
  <2> HIDE DEF one
  <2>4. leaf \in Seq(Leaf) /\ leaf # <<>> /\ Len(leaf) = Len(o.leaf) + 1
    <3> HIDE DEF Leaf
    <3>1. QED
      BY <2>2, <1>1
  <2>5. f \o leaf = Append(d, one)
    BY <2>2, <1>1, ConcatAppend
  <2> HIDE DEF leaf, d, used
  <2>6. used \in Nat
    BY <1>1 DEF used
  <2>7. /\ r \in Out /\ r.index = o.index /\ r.block = o.block /\ r.offset = o.offset
        /\ r.has = o.has /\ r.base = o.base /\ r.leaf = leaf
    BY <2>1, <2>4, <2>6 DEF Out
  <2> HIDE DEF r
  <2>8. Len(r.leaf) <= Len(o.leaf) + 1
    BY <2>4, <2>7, <1>1
  <2>9. QED
    BY <2>3, <2>4, <2>5, <2>7, <2>8, <1>3 DEF Entered, d, r
<1>4. CASE ~NeedsLeaf(o, e.key)
  <2> DEFINE n == Len(o.leaf)
             last == Append(o.leaf[n], e)
             leaf == [o.leaf EXCEPT ![n] = last]
             used == o.used + byte_len(e.key)
  <2>1. o.leaf # <<>>
    BY <1>4 DEF NeedsLeaf
  <2>2. r = [o EXCEPT !.leaf = leaf, !.used = used]
    BY <1>4 DEF AddLeafTermEntry, Out
  <2>3. n \in 1 .. n /\ o.leaf[n] \in Leaf
    <3> HIDE DEF Leaf
    <3>1. QED
      BY <2>1, <1>1
  <2>4. last \in Leaf
    BY <2>3, LeafGrows DEF Leaf
  <2>5. /\ leaf \in Seq(Leaf) /\ Len(leaf) = n
        /\ f \o leaf = ReplaceLast(f \o o.leaf, last)
    <3> HIDE DEF last
    <3>1. leaf = ReplaceLast(o.leaf, last)
      BY DEF ReplaceLast
    <3>2. ReplaceLast(o.leaf, last) \in Seq(Leaf) /\ Len(ReplaceLast(o.leaf, last)) = n
      BY <2>1, <2>4, <1>1, ReplaceLastElements
    <3>3. f \o ReplaceLast(o.leaf, last) = ReplaceLast(f \o o.leaf, last)
      <4>1. \A a, c \in Seq(Leaf) : \A y \in Leaf :
              c # <<>> => a \o ReplaceLast(c, y) = ReplaceLast(a \o c, y)
        BY ConcatReplaceLast
      <4>2. QED
        BY <4>1, <2>1, <2>4, <1>1
    <3>4. QED
      BY <3>1, <3>2, <3>3
  <2>6. d # <<>> /\ d[Len(d)] = o.leaf[n]
    <3>1. /\ \A k \in 1 .. n : (f \o o.leaf)[Len(f) + k] = o.leaf[k]
          /\ Len(f) \in Nat
      BY <1>1, ConcatElements
    <3>2. d[Len(d)] = o.leaf[n]
      BY <3>1, <2>3, <1>2
    <3> HIDE DEF d
    <3>3. Len(d) > 0
      BY <3>1, <2>3, <1>1, <1>2
    <3>4. QED
      BY <3>2, <3>3
  <2> DEFINE g == [d EXCEPT ![Len(d)] = Append(d[Len(d)], e)]
  <2>7. f \o leaf = g
    BY <2>5, <2>6 DEF ReplaceLast
  <2>8. Ascending(g) /\ (\A x : InDir(g, x) <=> InDir(d, x) \/ x = e)
    <3> HIDE DEF d
    <3>1. Ascending(d) /\ \A x : InDir(d, x) => x.key < e.key
      BY DEF d
    <3>2. QED
      BY <3>1, <2>6, <1>2, DirNewEntry
  <2>9. leaf # <<>>
    <3> HIDE DEF leaf
    <3>1. QED
      BY <2>3, <2>5
  <2> HIDE DEF leaf, g, used
  <2>10. used \in Nat
    BY <1>1 DEF used
  <2>11. /\ r \in Out /\ r.index = o.index /\ r.block = o.block /\ r.offset = o.offset
         /\ r.has = o.has /\ r.base = o.base /\ r.leaf = leaf
    BY <2>2, <2>5, <2>10 DEF Out
  <2> HIDE DEF r
  <2>12. Len(r.leaf) <= Len(o.leaf) + 0
    BY <2>5, <2>11, <1>1
  <2>13. QED
    BY <2>7, <2>8, <2>9, <2>11, <2>12, <1>4 DEF Entered, r
<1>5. QED
  BY <1>3, <1>4

LEMMA HeadJoins ==
  ASSUME NEW f \in Seq(Leaf), NEW d \in Seq(Leaf)
  PROVE  HeadOf(f) \o [i \in DOMAIN d |-> [first |-> d[i][1].key, block |-> Len(HeadOf(f)) + i - 1]]
           = HeadOf(f \o d)
<1> DEFINE m == Len(f)
           n == Len(d)
           fd == f \o d
           Of(e, l) == [first |-> e[l][1].key, block |-> l - 1]
           At(l) == [first |-> d[l][1].key, block |-> m + l - 1]
           a == [l \in 1 .. m |-> Of(f, l)]
           b == [l \in 1 .. n |-> At(l)]
           c == [l \in 1 .. m + n |-> Of(fd, l)]
           S == {Of(fd, l) : l \in 1 .. m + n}
<1>1. m \in Nat /\ n \in Nat /\ DOMAIN f = 1 .. m /\ DOMAIN d = 1 .. n
  OBVIOUS
<1>2. fd \in Seq(Leaf) /\ Len(fd) = m + n
      /\ (\A i \in 1 .. m : fd[i] = f[i]) /\ (\A i \in 1 .. n : fd[m + i] = d[i])
  BY ConcatElements
<1>3. DOMAIN fd = 1 .. m + n
  BY <1>2, SeqElements
<1> HIDE DEF fd
<1>4. \A l \in 1 .. m : Of(f, l) = Of(fd, l) /\ l \in 1 .. m + n
  BY <1>1, <1>2
<1>5. \A l \in 1 .. n : At(l) = Of(fd, m + l) /\ m + l \in 1 .. m + n
  BY <1>1, <1>2
<1>6. HeadOf(f) = a /\ HeadOf(fd) = c
  BY <1>1, <1>3 DEF HeadOf
<1> HIDE DEF Of, At
<1>7. a \in [1 .. m -> S] /\ b \in [1 .. n -> S] /\ c \in [1 .. m + n -> S] /\ m + n \in Nat
  BY <1>1, <1>4, <1>5
<1>8. (\A l \in 1 .. m : a[l] = c[l]) /\ (\A l \in 1 .. n : b[l] = c[m + l])
  BY <1>1, <1>4, <1>5
<1>9. [i \in DOMAIN d |-> [first |-> d[i][1].key, block |-> m + i - 1]] = b
  BY <1>1 DEF At
<1> HIDE DEF a, b, c, S, m, n
<1>10. /\ a \in Seq(S) /\ Len(a) = m /\ b \in Seq(S) /\ Len(b) = n
       /\ c \in Seq(S) /\ Len(c) = m + n
  BY <1>1, <1>7, FunctionIsSeq
<1> DEFINE ab == a \o b
<1>11. /\ ab \in Seq(S) /\ Len(ab) = m + n
       /\ (\A l \in 1 .. m : ab[l] = a[l]) /\ (\A l \in 1 .. n : ab[m + l] = b[l])
  BY <1>10, ConcatElements
<1> HIDE DEF ab
<1>12. ASSUME NEW l \in 1 .. m + n PROVE ab[l] = c[l]
  <2>1. CASE l <= m
    BY <2>1, <1>1, <1>8, <1>11
  <2>2. CASE l > m
    <3> DEFINE j == l - m
    <3>1. j \in 1 .. n /\ m + j = l
      BY <2>2, <1>1
    <3> HIDE DEF j
    <3>2. QED
      BY <3>1, <1>8, <1>11
  <2>3. QED
    BY <2>1, <2>2, <1>1
<1>13. ab = c
  BY <1>10, <1>11, <1>12, SeqEqual
<1>14. QED
  BY <1>6, <1>9, <1>10, <1>13 DEF ab, fd

\* w is what the files f and the batch o make.
Dumped(w, f, o) ==
  /\ w \in Table /\ w.head = HeadOf(w.leaf) /\ w.leaf = f.leaf \o o.leaf
  /\ Len(w.index) = Len(f.index) + UsedIndexBlockCount(o)
  /\ \A p \in 1 .. Len(f.index) : w.index[p] = f.index[p]
  /\ \A p \in 1 .. UsedIndexBlockCount(o) : w.index[Len(f.index) + p] = o.index[p]

LEMMA HeadOfType ==
  ASSUME NEW d \in Seq(Leaf)
  PROVE  HeadOf(d) \in Seq(HeadEntry) /\ Len(HeadOf(d)) = Len(d)
<1> DEFINE n == Len(d)
           h == [l \in 1 .. n |-> [first |-> d[l][1].key, block |-> l - 1]]
<1>1. n \in Nat /\ DOMAIN d = 1 .. n /\ \A l \in 1 .. n : d[l] \in Leaf
  <2> HIDE DEF Leaf
  <2>1. QED
    BY SeqElements
<1>2. ASSUME NEW l \in 1 .. n PROVE [first |-> d[l][1].key, block |-> l - 1] \in HeadEntry
  <2>1. d[l][1] \in Entry
    BY <1>1, LeafFacts
  <2>2. d[l][1].key \in Keys /\ l - 1 \in Nat
    BY <2>1, <1>1, EntryKey
  <2>3. QED
    BY <2>2 DEF HeadEntry
<1>3. HeadOf(d) = h
  BY <1>1 DEF HeadOf
<1>4. h \in [1 .. n -> HeadEntry]
  BY <1>2
<1> HIDE DEF h
<1>5. QED
  BY <1>1, <1>3, <1>4, FunctionIsSeq

LEMMA DumpBatchDumps ==
  ASSUME NEW f \in Table, f.head = HeadOf(f.leaf), NEW o \in Out
  PROVE  Dumped(DumpBatch(f, o), f, o)
<1> DEFINE used == UsedIndexBlockCount(o)
           part == SubSeq(o.index, 1, used)
           index == f.index \o part
           leaf == f.leaf \o o.leaf
           more == [i \in DOMAIN o.leaf |-> [first |-> o.leaf[i][1].key, block |-> Len(f.head) + i - 1]]
           head == f.head \o more
           w == DumpBatch(f, o)
<1>1. f.leaf \in Seq(Leaf) /\ f.index \in Seq(Page) /\ o.leaf \in Seq(Leaf) /\ Len(f.index) \in Nat
  BY OutFields DEF Table
<1>2. used \in Nat /\ used <= MergedIndexLimit
  BY OutFields, MergeConstants DEF UsedIndexBlockCount
<1>3. part \in Seq(Page) /\ Len(part) = used /\ \A p \in 1 .. used : part[p] = o.index[p]
  <2>1. o.index \in [1 .. MergedIndexLimit -> Page]
    BY DEF Out
  <2>2. o.index \in Seq(Page) /\ Len(o.index) = MergedIndexLimit
    BY <2>1, MergeConstants, FunctionIsSeq
  <2> DEFINE s == o.index
  <2> HIDE DEF s, used
  <2>3. s \in Seq(Page) /\ Len(s) = MergedIndexLimit
    BY <2>2 DEF s
  <2>4. \A b \in Nat : b <= MergedIndexLimit =>
          /\ SubSeq(s, 0 + 1, b) \in Seq(Page) /\ Len(SubSeq(s, 0 + 1, b)) = b - 0
          /\ \A i \in 1 .. b - 0 : SubSeq(s, 0 + 1, b)[i] = s[0 + i]
    BY <2>3, SubSeqElements
  <2>5. /\ SubSeq(s, 1, used) \in Seq(Page) /\ Len(SubSeq(s, 1, used)) = used
        /\ \A i \in 1 .. used : SubSeq(s, 1, used)[i] = s[i]
    <3>1. 0 + 1 = 1 /\ used - 0 = used /\ \A i \in 1 .. used : 0 + i = i
      BY <1>2
    <3>2. /\ SubSeq(s, 0 + 1, used) \in Seq(Page) /\ Len(SubSeq(s, 0 + 1, used)) = used - 0
          /\ \A i \in 1 .. used - 0 : SubSeq(s, 0 + 1, used)[i] = s[0 + i]
      BY <1>2, <2>4
    <3>3. QED
      BY <3>1, <3>2
  <2>6. QED
    BY <2>5 DEF s
<1> HIDE DEF part
<1>4. /\ index \in Seq(Page) /\ Len(index) = Len(f.index) + used
      /\ \A p \in 1 .. Len(f.index) : index[p] = f.index[p]
      /\ \A p \in 1 .. used : index[Len(f.index) + p] = part[p]
  <2>1. \A a, c \in Seq(Page) :
          /\ a \o c \in Seq(Page) /\ Len(a \o c) = Len(a) + Len(c)
          /\ (\A p \in 1 .. Len(a) : (a \o c)[p] = a[p])
          /\ (\A p \in 1 .. Len(c) : (a \o c)[Len(a) + p] = c[p])
    BY ConcatElements
  <2> HIDE DEF used
  <2>2. QED
    BY <2>1, <1>1, <1>3
<1>5. leaf \in Seq(Leaf)
  BY <1>1, ConcatElements
<1>6. head = HeadOf(leaf)
  BY <1>1, HeadJoins
<1>7. head \in Seq(HeadEntry)
  BY <1>5, <1>6, HeadOfType
<1>8. w = [head |-> head, leaf |-> leaf, index |-> index]
  BY DEF DumpBatch, part
<1> HIDE DEF index, leaf, head, used
<1>9. w \in Table /\ w.head = head /\ w.leaf = leaf /\ w.index = index
  BY <1>4, <1>5, <1>7, <1>8 DEF Table
<1> HIDE DEF w
<1>10. /\ Len(w.index) = Len(f.index) + used
       /\ \A p \in 1 .. Len(f.index) : w.index[p] = f.index[p]
       /\ \A p \in 1 .. used : w.index[Len(f.index) + p] = o.index[p]
  BY <1>3, <1>4, <1>9
<1>11. QED
  BY <1>6, <1>9, <1>10 DEF Dumped, w, used, leaf

\* A batch without terms adds nothing.
LEMMA DumpNothing ==
  ASSUME NEW f \in Table, NEW o \in Out, o.leaf = <<>>, ~o.has
  PROVE  DumpBatch(f, o) = f
<1>1. UsedIndexBlockCount(o) = 0
  BY DEF UsedIndexBlockCount
<1>2. f = [head |-> f.head, leaf |-> f.leaf, index |-> f.index]
      /\ f.head \in Seq(HeadEntry) /\ f.leaf \in Seq(Leaf) /\ f.index \in Seq(Page)
  BY DEF Table
<1>3. SubSeq(o.index, 1, 0) = <<>>
  BY MergeConstants DEF Out
<1>4. [i \in DOMAIN o.leaf |-> [first |-> o.leaf[i][1].key, block |-> Len(f.head) + i - 1]] = <<>>
  OBVIOUS
<1>5. f.head \o <<>> = f.head /\ f.leaf \o <<>> = f.leaf /\ f.index \o <<>> = f.index
  BY <1>2
<1>6. QED
  BY <1>1, <1>2, <1>3, <1>4, <1>5 DEF DumpBatch

\* The bytes of an entry are in the files, or in the batch where nothing more
\* is written.
Settled(f, o, x) ==
  /\ x.offset + x.length <= PageSize
  /\ \/ x.block + x.cont < Len(f.index)
     \/ /\ o.has /\ Len(f.index) <= x.block /\ x.block + x.cont <= Len(f.index) + o.block
        /\ x.block + x.cont = Len(f.index) + o.block =>
             IF x.cont = 0 THEN x.offset + x.length <= o.offset ELSE o.offset = PageSize

LEMMA SettledInside ==
  ASSUME NEW f \in Table, NEW o \in Out, NEW w, Dumped(w, f, o), NEW x \in Entry, Settled(f, o, x)
  PROVE  Inside(w, x)
<1>1. x.block \in Nat /\ x.cont \in Nat /\ Len(f.index) \in Nat /\ o.block \in Nat
  BY OutFields DEF Entry, Table
<1>2. Len(w.index) = Len(f.index) + (IF o.has THEN o.block + 1 ELSE 0)
  BY DEF Dumped, UsedIndexBlockCount
<1>3. x.block + x.cont < Len(w.index)
  BY <1>1, <1>2 DEF Settled
<1>4. QED
  BY <1>3 DEF Inside, Settled

\* Placing more bytes, or adding an entry, does not change what is read.
Keeps(r, o) ==
  /\ r \in Out /\ r.has /\ o.block <= r.block
  /\ r.block = o.block => o.offset <= r.offset
  /\ \A p \in 1 .. MergedIndexLimit : p <= o.block => r.index[p] = o.index[p]
  /\ r.index[o.block + 1].len = o.index[o.block + 1].len
  /\ \A i \in 1 .. PageSize :
       i <= o.offset => r.index[o.block + 1].data[i] = o.index[o.block + 1].data[i]

LEMMA SettledStays ==
  ASSUME NEW f \in Table, f.head = HeadOf(f.leaf), NEW o \in Out, NEW r, Keeps(r, o),
         NEW x \in Entry, Settled(f, o, x)
  PROVE  /\ Settled(f, r, x)
         /\ PostingBytes(DumpBatch(f, r), x) = PostingBytes(DumpBatch(f, o), x)
<1> DEFINE v == DumpBatch(f, o)
           w == DumpBatch(f, r)
           n == Len(f.index)
           b == x.block
           k == x.cont
           first == x.offset
           top == x.offset + x.length
           ob == o.block
           rb == r.block
           ooff == o.offset
           roff == r.offset
<1>1. /\ b \in Nat /\ k \in Nat /\ first \in Nat /\ top \in Nat /\ first <= top
      /\ n \in Nat /\ ob \in Nat /\ ooff \in Nat /\ ooff <= PageSize
      /\ ob < MergedIndexLimit /\ MergedIndexLimit \in Nat /\ PageSize \in Nat
      /\ rb \in Nat /\ rb < MergedIndexLimit /\ roff \in Nat /\ roff <= PageSize
  BY OutFields, MergeConstants, PageConstants DEF Entry, Table, Keeps
<1>2. r \in Out /\ r.has /\ ob <= rb /\ (rb = ob => ooff <= roff)
  BY DEF Keeps
<1>3. /\ top <= PageSize
      /\ \/ b + k < n
         \/ o.has /\ n <= b /\ b + k <= n + ob
            /\ (b + k = n + ob => (k = 0 => top <= ooff) /\ (k # 0 => ooff = PageSize))
  BY DEF Settled
<1>4. Dumped(v, f, o) /\ Dumped(w, f, r)
  BY <1>2, DumpBatchDumps
<1>5. /\ v \in Table /\ w \in Table
      /\ \A p \in 1 .. n : v.index[p] = w.index[p]
      /\ o.has => \A p \in 1 .. ob + 1 : v.index[n + p] = o.index[p]
      /\ \A p \in 1 .. rb + 1 : w.index[n + p] = r.index[p]
  <2> HIDE DEF v, w
  <2>1. QED
    BY <1>2, <1>4 DEF Dumped, UsedIndexBlockCount
<1>6. (b + k < n \/ (n <= b /\ b + k <= n + rb
         /\ (b + k = n + rb => (k = 0 => top <= roff) /\ (k # 0 => roff = PageSize)))) /\ top <= PageSize
      => Settled(f, r, x)
  BY <1>2 DEF Settled
<1> HIDE DEF v, w, n, b, k, first, top, ob, rb, ooff, roff
<1>7. Settled(f, r, x)
  <2>1. CASE b + k < n
    BY <2>1, <1>3, <1>6
  <2>2. CASE ~(b + k < n)
    <3>1. n <= b /\ b + k <= n + ob
          /\ (b + k = n + ob => (k = 0 => top <= ooff) /\ (k # 0 => ooff = PageSize))
      BY <2>2, <1>3
    <3>2. b + k <= n + rb
      BY <3>1, <1>1, <1>2
    <3>3. ASSUME b + k = n + rb PROVE (k = 0 => top <= roff) /\ (k # 0 => roff = PageSize)
      <4>1. rb = ob /\ b + k = n + ob /\ ooff <= roff
        BY <3>1, <3>3, <1>1, <1>2
      <4>2. QED
        BY <4>1, <3>1, <1>1
    <3>4. QED
      BY <3>1, <3>2, <3>3, <1>3, <1>6
  <2>3. QED
    BY <2>1, <2>2
<1>8. ASSUME b + k < n PROVE PostingBytes(w, x) = PostingBytes(v, x)
  <2>1. ASSUME NEW i \in 0 .. k PROVE PageAt(v, b + i) = PageAt(w, b + i)
    <3>1. b + i + 1 \in 1 .. n
      BY <1>1, <1>8
    <3>2. QED
      BY <3>1, <1>5 DEF PageAt
  <2>2. FirstPart(v, x) = FirstPart(w, x)
    <3>1. 0 \in 0 .. k /\ b + 0 = b
      BY <1>1
    <3>2. PageAt(v, b) = PageAt(w, b)
      BY <3>1, <2>1
    <3>3. QED
      BY <3>2 DEF FirstPart, b
  <2>3. \A i \in 1 .. k : LaterPart(PageAt(v, b + i)) = LaterPart(PageAt(w, b + i))
    BY <2>1, <1>1
  <2>4. QED
    BY <2>2, <2>3, PostingBytesSame DEF b, k
<1>9. ASSUME ~(b + k < n) PROVE PostingBytes(w, x) = PostingBytes(v, x)
  <2> DEFINE y == b - n
  <2>1. /\ o.has /\ y \in Nat /\ b = n + y /\ y + k <= ob
        /\ y + k = ob => (k = 0 => top <= ooff) /\ (k # 0 => ooff = PageSize)
    BY <1>1, <1>3, <1>9
  <2> HIDE DEF y
  <2>2. ASSUME NEW i \in 0 .. k
        PROVE  /\ PageAt(v, b + i) = o.index[y + i + 1]
               /\ PageAt(w, b + i) = r.index[y + i + 1]
               /\ y + i + 1 \in 1 .. MergedIndexLimit
               /\ y + i + 1 <= ob => r.index[y + i + 1] = o.index[y + i + 1]
    <3> DEFINE p == y + i + 1
    <3>1. p \in 1 .. ob + 1 /\ p \in 1 .. rb + 1 /\ b + i + 1 = n + p
          /\ p \in 1 .. MergedIndexLimit
      BY <1>1, <1>2, <2>1
    <3> HIDE DEF p
    <3>2. v.index[n + p] = o.index[p] /\ w.index[n + p] = r.index[p]
      BY <3>1, <2>1, <1>5
    <3>3. p <= ob => r.index[p] = o.index[p]
      BY <3>1 DEF Keeps, ob
    <3>4. QED
      BY <3>1, <3>2, <3>3 DEF PageAt, p
  <2>3. FirstPart(v, x) = FirstPart(w, x)
    <3>1. 0 \in 0 .. k /\ b + 0 = b /\ y + 0 + 1 = y + 1
      BY <1>1, <2>1
    <3>2. /\ PageAt(v, b) = o.index[y + 1] /\ PageAt(w, b) = r.index[y + 1]
          /\ y + 1 \in 1 .. MergedIndexLimit
          /\ y + 1 <= ob => r.index[y + 1] = o.index[y + 1]
      BY <3>1, <2>2
    <3>3. CASE y + 1 <= ob
      BY <3>2, <3>3 DEF FirstPart, b
    <3>4. CASE ~(y + 1 <= ob)
      <4>1. y = ob /\ k = 0 /\ top <= ooff
        BY <3>4, <2>1, <1>1
      <4> DEFINE a == o.index[y + 1].data
                 c == r.index[y + 1].data
      <4>2. a \in PageData /\ c \in PageData
        BY <3>2, <1>2, OutFields DEF Page
      <4>3. \A i \in 1 .. PageSize : i <= ooff => a[i] = c[i]
        BY <4>1 DEF Keeps, ooff, ob
      <4>4. \A i \in 1 .. PageSize : i <= top => a[i] = c[i]
        BY <4>1, <4>3, <1>1
      <4>5. FirstPart(v, x) = SubSeq(a, first + 1, top) /\ FirstPart(w, x) = SubSeq(c, first + 1, top)
        BY <3>2 DEF FirstPart, b, first, top
      <4> HIDE DEF a, c
      <4>6. SubSeq(a, first + 1, top) = SubSeq(c, first + 1, top)
        BY <4>2, <4>4, <1>1, <1>3, PageReadsSame
      <4>7. QED
        BY <4>5, <4>6
    <3>5. QED
      BY <3>3, <3>4
  <2>4. ASSUME NEW i \in 1 .. k
        PROVE  LaterPart(PageAt(v, b + i)) = LaterPart(PageAt(w, b + i))
    <3>1. i \in 0 .. k
      BY <1>1
    <3> DEFINE p == y + i + 1
    <3>2. PageAt(v, b + i) = o.index[p] /\ PageAt(w, b + i) = r.index[p]
          /\ p \in 1 .. MergedIndexLimit /\ (p <= ob => r.index[p] = o.index[p])
      BY <3>1, <2>2
    <3>3. CASE p <= ob
      BY <3>2, <3>3
    <3>4. CASE ~(p <= ob)
      <4>1. p = ob + 1 /\ ooff = PageSize
        BY <3>4, <2>1, <1>1
      <4> HIDE DEF p
      <4> DEFINE a == o.index[p]
                 c == r.index[p]
      <4>2. a \in Page /\ c \in Page
        BY <3>2, <1>2, OutFields
      <4>3. a.len = c.len /\ \A j \in 1 .. PageSize : j <= ooff => a.data[j] = c.data[j]
        BY <4>1 DEF Keeps, ob, ooff
      <4> HIDE DEF a, c
      <4> DEFINE end == ContinuationHeader + a.len
      <4>4. a.data \in PageData /\ c.data \in PageData /\ a.len \in Nat /\ a.len <= PageSize - ContinuationHeader
        BY <4>2, PageConstants DEF Page
      <4>5. /\ end \in Nat /\ ContinuationHeader \in Nat /\ ContinuationHeader <= end /\ end <= PageSize
            /\ \A j \in 1 .. PageSize : j <= end => a.data[j] = c.data[j]
        BY <4>1, <4>3, <4>4, PageConstants
      <4>6. LaterPart(a) = SubSeq(a.data, ContinuationHeader + 1, end)
            /\ LaterPart(c) = SubSeq(c.data, ContinuationHeader + 1, end)
        BY <4>3 DEF LaterPart
      <4> HIDE DEF end
      <4>7. SubSeq(a.data, ContinuationHeader + 1, end) = SubSeq(c.data, ContinuationHeader + 1, end)
        BY <4>4, <4>5, PageReadsSame
      <4>8. QED
        BY <3>2, <4>6, <4>7 DEF a, c
    <3>5. QED
      BY <3>3, <3>4
  <2>5. QED
    BY <2>3, <2>4, PostingBytesSame DEF b, k
<1>10. QED
  BY <1>7, <1>8, <1>9 DEF v, w

\* The same blocks.
SameBlocks(r, o) ==
  r.index = o.index /\ r.block = o.block /\ r.offset = o.offset /\ r.has = o.has

LEMMA PlacedKeeps ==
  ASSUME NEW o \in Out, NEW bytes, NEW at, PlaceOk(o, bytes, at), NEW p, Placed(p, o, bytes, at),
         NEW r \in Out, SameBlocks(r, p)
  PROVE  Keeps(r, o)
<1> DEFINE ob == o.block
           ooff == o.offset
           ab == at.block
           aoff == at.offset
           k == at.count
           len == at.length
           rb == r.block
           roff == r.offset
<1>1. /\ ob \in Nat /\ ooff \in Nat /\ ab \in Nat /\ aoff \in Nat /\ k \in Nat /\ len \in Nat
      /\ rb = ab + k /\ (k = 0 => roff = aoff + len)
      /\ (ab = ob /\ aoff = ooff) \/ (ab = ob + 1 /\ aoff = 0)
  <2>1. at.length \in Nat
    BY DEF PlaceOk
  <2>2. QED
    BY <2>1, OutFields DEF PlaceOk, Placed, SameBlocks
<1>2. /\ r.has /\ r.index = p.index
  BY DEF Placed, SameBlocks
<1> HIDE DEF ob, ooff, ab, aoff, k, len, rb, roff
<1>3. ob <= rb /\ (rb = ob => ooff <= roff)
  BY <1>1
<1>4. QED
  BY <1>2, <1>3 DEF Keeps, Placed, ob, rb, ooff, roff

LEMMA NewEntryReads ==
  ASSUME NEW f \in Table, f.head = HeadOf(f.leaf), NEW o \in Out, o.base = Len(f.index),
         NEW bytes \in Seq(Nat), NEW at, PlaceOk(o, bytes, at), NEW p, Placed(p, o, bytes, at),
         NEW r \in Out, SameBlocks(r, p), NEW key \in Keys, NEW df \in Nat
  PROVE  LET e == MergedEntry(o, key, df, at)
         IN  /\ e \in Entry /\ e.key = key /\ e.df = df /\ Settled(f, r, e)
             /\ PostingBytes(DumpBatch(f, r), e) = bytes
<1> DEFINE e == MergedEntry(o, key, df, at)
           w == DumpBatch(f, r)
           n == Len(f.index)
           ab == at.block
           aoff == at.offset
           len == at.length
           k == at.count
<1>1. /\ ab \in Nat /\ aoff \in Nat /\ len \in Nat /\ len > 0 /\ len <= Len(bytes) /\ k \in Nat
      /\ ab + k < MergedIndexLimit /\ aoff + len <= PageSize
      /\ n \in Nat /\ MergedIndexLimit \in Nat /\ MergedIndexLimit < U16 /\ U16 \in Nat \ {0}
      /\ Len(bytes) \in Nat
  <2>1. at.length \in Nat /\ at.length > 0 /\ at.length <= Len(bytes)
    BY DEF PlaceOk
  <2>2. QED
    BY <2>1, MergeConstants DEF PlaceOk, Table
<1>2. k % U16 = k
  <2> HIDE DEF k, ab
  <2>1. k < U16
    BY <1>1
  <2>2. QED
    BY <2>1, <1>1, RemainderSmaller
<1>3. e = [key |-> key, df |-> df, block |-> n + ab, offset |-> aoff, length |-> len, cont |-> k]
  BY <1>2 DEF MergedEntry
<1>4. /\ e \in Entry /\ e.key = key /\ e.df = df /\ e.block = n + ab /\ e.offset = aoff
      /\ e.length = len /\ e.cont = k
  <2>1. n + ab \in Nat
    BY <1>1
  <2> HIDE DEF n, ab, aoff, len, k, e
  <2>2. QED
    BY <1>1, <1>3, <2>1 DEF Entry
<1>5. /\ r.block = ab + k /\ r.has /\ r.offset = (IF k = 0 THEN aoff + len ELSE PageSize)
      /\ r.index = p.index
  BY DEF Placed, SameBlocks
<1> HIDE DEF e
<1>6. Settled(f, r, e)
  <2> HIDE DEF n, ab, aoff, len, k
  <2>1. (n + ab) + k <= n + (ab + k) /\ n <= n + ab
    BY <1>1
  <2>2. k = 0 => r.offset = aoff + len /\ aoff + len <= r.offset
    BY <1>1, <1>5
  <2>3. QED
    BY <2>1, <2>2, <1>1, <1>4, <1>5 DEF Settled, n
<1>7. Dumped(w, f, r)
  BY DumpBatchDumps
<1> HIDE DEF w
<1>8. \A i \in 0 .. k : PageAt(w, e.block + i) = r.index[ab + i + 1]
  <2>1. ASSUME NEW i \in 0 .. k PROVE PageAt(w, e.block + i) = r.index[ab + i + 1]
    <3>1. \A q \in 1 .. r.block + 1 : w.index[n + q] = r.index[q]
      BY <1>5, <1>7 DEF Dumped, UsedIndexBlockCount
    <3> HIDE DEF n, ab, k
    <3>2. ab + i + 1 \in 1 .. r.block + 1 /\ (n + ab) + i + 1 = n + (ab + i + 1)
      BY <1>1, <1>5
    <3>3. QED
      BY <3>1, <3>2, <1>4 DEF PageAt
  <2>2. QED
    BY <2>1
<1>9. FirstPart(w, e) = SubSeq(bytes, 1, len)
  <2>1. SubSeq(r.index[ab + 1].data, aoff + 1, aoff + len) = SubSeq(bytes, 1, len)
    BY <1>5 DEF Placed
  <2> HIDE DEF n, ab, aoff, len, k
  <2>2. 0 \in 0 .. k /\ e.block + 0 = e.block /\ ab + 0 + 1 = ab + 1
    BY <1>1, <1>4
  <2>3. PageAt(w, e.block) = r.index[ab + 1]
    BY <2>2, <1>8
  <2>4. QED
    BY <2>1, <2>3, <1>4 DEF FirstPart
<1>10. \A i \in 1 .. k : LaterPart(PageAt(w, e.block + i)) = SubSeq(bytes, at.end[i - 1] + 1, at.end[i])
  <2>1. \A i \in 1 .. k : LaterPart(r.index[ab + i + 1]) = SubSeq(bytes, at.end[i - 1] + 1, at.end[i])
    BY <1>5 DEF Placed, Part
  <2> HIDE DEF ab, k
  <2>2. \A i \in 1 .. k : i \in 0 .. k
    BY <1>1
  <2>3. QED
    BY <2>1, <2>2, <1>8
<1>11. PostingBytes(w, e) =
         SubSeq(bytes, 1, len) \o FlattenSeq([i \in 1 .. k |-> SubSeq(bytes, at.end[i - 1] + 1, at.end[i])])
  <2>1. [i \in 1 .. e.cont |-> LaterPart(PageAt(w, e.block + i))]
          = [i \in 1 .. k |-> SubSeq(bytes, at.end[i - 1] + 1, at.end[i])]
    BY <1>4, <1>10
  <2>2. QED
    BY <2>1, <1>9, PostingBytesParts
<1>12. FlattenSeq([i \in 1 .. k |-> SubSeq(bytes, at.end[i - 1] + 1, at.end[i])])
         = SubSeq(bytes, len + 1, Len(bytes))
  <2> DEFINE end == at.end
  <2>1. /\ \A i \in 0 .. k : end[i] \in 0 .. Len(bytes)
        /\ \A i \in 1 .. k : end[i - 1] <= end[i]
        /\ end[0] = len /\ end[k] = Len(bytes)
    BY DEF PlaceOk
  <2> HIDE DEF end, k, len
  <2>2. FlattenSeq([i \in 1 .. k |-> SubSeq(bytes, end[i - 1] + 1, end[i])])
          = SubSeq(bytes, end[0] + 1, end[k])
    BY <2>1, <1>1, FlattenPieces
  <2>3. QED
    BY <2>1, <2>2 DEF end
<1>13. SubSeq(bytes, 1, len) \o SubSeq(bytes, len + 1, Len(bytes)) = bytes
  <2> HIDE DEF len
  <2> DEFINE z == 0
             m == Len(bytes)
  <2>1. z \in Nat /\ z <= len /\ m \in Nat /\ len <= m /\ m <= Len(bytes) /\ z + 1 = 1
    BY <1>1
  <2>2. SubSeq(bytes, 1, m) = bytes
    OBVIOUS
  <2> HIDE DEF z, m
  <2>3. \A a, b, c \in Nat : a <= b /\ b <= c /\ c <= Len(bytes) =>
          SubSeq(bytes, a + 1, b) \o SubSeq(bytes, b + 1, c) = SubSeq(bytes, a + 1, c)
    BY SubSeqJoin
  <2>4. SubSeq(bytes, z + 1, len) \o SubSeq(bytes, len + 1, m) = SubSeq(bytes, z + 1, m)
    BY <1>1, <2>1, <2>3
  <2>5. QED
    BY <2>1, <2>2, <2>4 DEF m
<1>14. PostingBytes(w, e) = bytes
  BY <1>11, <1>12, <1>13
<1>15. QED
  BY <1>4, <1>6, <1>14 DEF e, w

---------------------------------------------------------------------------
(* Where a number of the variable-byte code ends *)

\* A number in variable-byte code: every byte but the last announces another.
VbShape(s) ==
  /\ s \in Seq(Nat) /\ Len(s) > 0 /\ ~More(s[Len(s)])
  /\ \A j \in 1 .. Len(s) - 1 : More(s[j])

LEMMA ByteShape ==
  ASSUME NEW n \in Nat, NEW more, VbShape(more)
  PROVE  VbShape(Byte(n, more))
<1> DEFINE x == (n % Radix) + Radix
           one == <<x>>
           s == one \o more
           m == Len(more)
<1>1. Radix \in Nat /\ Radix >= 2 /\ n % Radix \in Nat
  BY PostingBytesAssumption
<1>2. x \in Nat /\ More(x)
  BY <1>1 DEF More
<1>3. more \in Seq(Nat) /\ m \in Nat /\ m > 0
  BY DEF VbShape
<1> HIDE DEF x
<1>4. one \in Seq(Nat) /\ Len(one) = 1 /\ one[1] = x
  BY <1>2
<1> HIDE DEF one
<1>5. /\ s \in Seq(Nat) /\ Len(s) = Len(one) + m
      /\ \A k \in 1 .. Len(one) : s[k] = one[k]
      /\ \A k \in 1 .. m : s[Len(one) + k] = more[k]
  <2>1. \A a, c \in Seq(Nat) : /\ a \o c \in Seq(Nat) /\ Len(a \o c) = Len(a) + Len(c)
                               /\ \A k \in 1 .. Len(a) : (a \o c)[k] = a[k]
                               /\ \A k \in 1 .. Len(c) : (a \o c)[Len(a) + k] = c[k]
    BY ConcatElements
  <2>2. QED
    BY <2>1, <1>3, <1>4, Zenon
<1> HIDE DEF s
<1>6. Len(s) = 1 + m /\ s[1] = x /\ \A k \in 1 .. m : s[1 + k] = more[k]
  BY <1>3, <1>4, <1>5
<1>7. ~More(s[Len(s)])
  <2>1. m \in 1 .. m
    BY <1>3
  <2>2. QED
    BY <2>1, <1>6 DEF VbShape
<1>8. ASSUME NEW j \in 1 .. Len(s) - 1 PROVE More(s[j])
  <2>1. CASE j = 1
    BY <2>1, <1>2, <1>6
  <2>2. CASE j # 1
    <3>1. j - 1 \in 1 .. m - 1 /\ j - 1 \in 1 .. m /\ 1 + (j - 1) = j
      BY <2>2, <1>3, <1>6
    <3>2. s[1 + (j - 1)] = more[j - 1]
      BY <3>1, <1>6
    <3>3. QED
      BY <3>1, <3>2 DEF VbShape
  <2>3. QED
    BY <2>1, <2>2
<1>9. QED
  BY <1>3, <1>5, <1>6, <1>7, <1>8 DEF VbShape, Byte, s, one, x

LEMMA VbWriteShape ==
  ASSUME NEW v \in Nat
  PROVE  VbShape(vb_write(v))
<1>0. Radix \in Nat /\ Radix >= 2
  BY PostingBytesAssumption
<1> DEFINE g == CHOOSE h : VbOk(h, v)
<1>1. VbOk(g, v)
  <2>1. \E h : VbOk(h, v)
    BY VbExists
  <2>2. QED
    BY <2>1, Zenon
<1>2. vb_write(v) = g[v]
  BY Zenon DEF vb_write, VbOk, LastByte, Byte
<1> HIDE DEF g
<1>3. \A n \in 0 .. v : g[n] = IF n < Radix THEN LastByte(n)
                              ELSE Byte(n, g[n \div Radix])
  BY <1>1 DEF VbOk
<1>10. ASSUME NEW n \in Nat, n < Radix PROVE VbShape(LastByte(n))
  BY <1>0, <1>10 DEF LastByte, VbShape, More
<1> DEFINE I == {n \in Nat : \A m \in 0 .. n : m <= v => VbShape(g[m])}
<1>4. 0 \in I
  <2>1. g[0] = LastByte(0)
    BY <1>0, <1>3
  <2>2. VbShape(g[0])
    BY <2>1, <1>0, <1>10
  <2>3. QED
    BY <2>2
<1>5. ASSUME NEW n \in Nat, n \in I PROVE n + 1 \in I
  <2>1. SUFFICES ASSUME n + 1 <= v PROVE VbShape(g[n + 1])
    BY <1>5
  <2>2. CASE n + 1 < Radix
    BY <1>3, <1>10, <2>1, <2>2
  <2>3. CASE ~(n + 1 < Radix)
    <3>1. (n + 1) \div Radix \in 0 .. n
      BY <2>3, <1>0, QuotientSmaller
    <3>2. VbShape(g[(n + 1) \div Radix])
      BY <3>1, <1>5, <2>1
    <3>3. g[n + 1] = Byte(n + 1, g[(n + 1) \div Radix])
      BY <1>3, <2>1, <2>3
    <3>4. QED
      BY <3>2, <3>3, ByteShape
  <2>4. QED
    BY <2>2, <2>3
<1> HIDE DEF I
<1>6. \A n \in Nat : n \in I
  BY <1>4, <1>5, NatSetInduction
<1>7. VbShape(g[v])
  BY <1>6 DEF I
<1>8. QED
  BY <1>2, <1>7

\* The number that starts after offset ends at m.
EndsAt(data, offset, m) ==
  m \in offset + 1 .. Len(data) /\ ~More(data[m]) /\ \A q \in offset + 1 .. m - 1 : More(data[q])

LEMMA ReadOneIs ==
  ASSUME NEW data \in Seq(Nat), NEW offset \in Nat, NEW m, EndsAt(data, offset, m)
  PROVE  readOne(data, offset) = m
<1> DEFINE ends == {p \in offset + 1 .. Len(data) : ~More(data[p])}
<1>1. m \in ends /\ ends \in SUBSET Nat /\ Len(data) \in Nat /\ m \in Nat
  BY DEF EndsAt
<1>2. \A p \in ends : m <= p
  BY <1>1 DEF EndsAt
<1>3. readOne(data, offset) = Min(ends)
  BY <1>1 DEF readOne
<1> DEFINE least == Min(ends)
<1>4. least \in ends /\ \A y \in ends : least <= y
  BY <1>1, MinOfNaturals
<1> HIDE DEF ends, least
<1>5. least \in Nat /\ m <= least /\ least <= m
  BY <1>1, <1>2, <1>4
<1>6. QED
  BY <1>1, <1>3, <1>5 DEF least

LEMMA ReadOneEnds ==
  ASSUME NEW data \in Seq(Nat), NEW offset \in Nat, readOne(data, offset) # Fail
  PROVE  EndsAt(data, offset, readOne(data, offset))
<1> DEFINE ends == {p \in offset + 1 .. Len(data) : ~More(data[p])}
           m == Min(ends)
<1>1. ends # {} /\ readOne(data, offset) = m
  BY DEF readOne
<1>2. ends \in SUBSET Nat /\ Len(data) \in Nat
  OBVIOUS
<1>3. m \in ends /\ \A y \in ends : m <= y
  BY <1>1, <1>2, MinOfNaturals
<1> HIDE DEF m
<1>4. m \in offset + 1 .. Len(data) /\ ~More(data[m])
  BY <1>3
<1>5. ASSUME NEW q \in offset + 1 .. m - 1 PROVE More(data[q])
  BY <1>2, <1>3, <1>4, <1>5
<1>6. QED
  BY <1>1, <1>4, <1>5 DEF EndsAt

---------------------------------------------------------------------------
(* Pair boundaries: the places where a list may be cut *)

\* B are the places between the pairs of data, none longer than P.
Marks(B, data, P) ==
  /\ B \in SUBSET (0 .. Len(data)) /\ 0 \in B /\ Len(data) \in B
  /\ \A p \in B : p < Len(data) =>
       /\ ReadVbcPairEnd(data, p) \in B
       /\ p < ReadVbcPairEnd(data, p) /\ ReadVbcPairEnd(data, p) <= p + P

\* A prefix ends between pairs, and has one if the capacity is enough for it.
LEMMA PrefixOnMark ==
  ASSUME NEW data \in Seq(Nat), NEW P \in Nat, NEW B, Marks(B, data, P), NEW capacity \in Nat
  PROVE  /\ PostingPrefixBytes(data, capacity) \in B
         /\ Len(data) > 0 /\ P <= capacity => PostingPrefixBytes(data, capacity) > 0
<1> DEFINE n == Len(data)
           limit == Min({n, capacity})
           Pair(cursor, end) == IF end = Fail \/ end > limit THEN cursor ELSE end
           raw == [cursor \in 0 .. limit |-> Pair(cursor, ReadVbcPairEnd(data, cursor))]
           g == Iterates(raw, 0, limit)
           room == n > 0 /\ P <= capacity
<1>1. n \in Nat
  OBVIOUS
<1>0. \A p \in B : p \in Nat
  BY DEF Marks
<1>2. limit \in {n, capacity} /\ \A y \in {n, capacity} : limit <= y
  BY <1>1, MinOfNaturals
<1>3. limit \in Nat /\ limit <= n /\ limit <= capacity /\ (limit = n \/ limit = capacity)
  BY <1>1, <1>2
<1>4. PostingPrefixBytes(data, capacity) = g[limit]
  BY DEF PostingPrefixBytes, RawPrefix
<1> HIDE DEF limit, n
<1>5. ASSUME NEW p \in B, p <= limit
      PROVE  /\ Pair(p, ReadVbcPairEnd(data, p)) \in B
             /\ p <= Pair(p, ReadVbcPairEnd(data, p)) /\ Pair(p, ReadVbcPairEnd(data, p)) <= limit
             /\ p = 0 /\ room => Pair(p, ReadVbcPairEnd(data, p)) > 0
  <2> DEFINE e == ReadVbcPairEnd(data, p)
  <2>1. p \in Nat /\ p <= n
    BY <1>1 DEF Marks, n
  <2>2. e = Fail \/ e \in p + 1 .. n
    BY <2>1, PairEndInside DEF n
  <2>3. p < n => e \in B /\ p < e /\ e <= p + P
    BY DEF Marks, n
  <2> HIDE DEF e
  <2>4. e \in Int
    BY <2>1, <2>2, <1>1 DEF Fail
  <2>5. Pair(p, e) \in B
    BY <2>1, <2>2, <2>3, <1>1 DEF Fail
  <2>6. p <= Pair(p, e) /\ Pair(p, e) <= limit
    BY <2>1, <2>2, <2>4, <1>1, <1>3, <1>5 DEF Fail
  <2>7. ASSUME p = 0, room PROVE Pair(p, e) > 0
    <3>1. e \in B /\ 0 < e /\ e <= 0 + P
      BY <2>7, <2>3
    <3>2. e <= P /\ e <= n /\ e # Fail
      BY <3>1, <2>2, <2>4, <1>1 DEF Fail
    <3>3. e <= limit
      BY <3>2, <2>4, <2>7, <1>1, <1>3
    <3>4. QED
      BY <3>1, <3>2, <3>3, <2>4, <1>3
  <2>8. QED
    BY <2>5, <2>6, <2>7 DEF e
<1>6. raw \in [0 .. limit -> 0 .. limit]
  <2>1. ASSUME NEW cursor \in 0 .. limit PROVE Pair(cursor, ReadVbcPairEnd(data, cursor)) \in 0 .. limit
    <3>1. cursor \in Nat
      BY <1>3
    <3> DEFINE e == ReadVbcPairEnd(data, cursor)
    <3>2. e = Fail \/ e \in cursor + 1 .. n
      BY <3>1, PairEndInside DEF n
    <3> HIDE DEF e
    <3>3. Pair(cursor, e) \in 0 .. limit
      BY <3>1, <3>2, <1>1, <1>3
    <3>4. QED
      BY <3>3 DEF e
  <2>2. QED
    BY <2>1
<1>7. 0 \in 0 .. limit
  BY <1>3
<1> DEFINE step == raw
<1>8. \A p \in 0 .. limit : step[p] = Pair(p, ReadVbcPairEnd(data, p))
  OBVIOUS
<1>9. g = Iterates(step, 0, limit)
  OBVIOUS
<1> HIDE DEF g, raw, Pair, step
<1>10. Loop(g, 0 .. limit, step, 0, limit)
  BY <1>3, <1>6, <1>7, <1>9, IteratesSteps DEF step
<1>11. g[0] = 0 /\ \A i \in 1 .. limit : g[i] = step[g[i - 1]]
  BY <1>10 DEF Loop
<1> DEFINE I == {i \in Nat : i <= limit => g[i] \in B /\ g[i] <= limit /\ (i > 0 /\ room => g[i] > 0)}
<1>12. 0 \in I
  BY <1>11, <1>3 DEF Marks
<1>13. ASSUME NEW i \in Nat, i \in I PROVE i + 1 \in I
  <2>1. SUFFICES ASSUME i + 1 <= limit
                 PROVE  g[i + 1] \in B /\ g[i + 1] <= limit /\ (room => g[i + 1] > 0)
    OBVIOUS
  <2> DEFINE p == g[i]
  <2>2. p \in B /\ p <= limit /\ (i > 0 /\ room => p > 0)
    BY <2>1, <1>3, <1>13
  <2>3. p \in Nat /\ p \in 0 .. limit
    BY <2>2, <1>0, <1>3
  <2>4. g[i + 1] = step[p]
    <3>1. i + 1 \in 1 .. limit /\ (i + 1) - 1 = i
      BY <2>1, <1>3
    <3>2. QED
      BY <3>1, <1>11
  <2>5. g[i + 1] = Pair(p, ReadVbcPairEnd(data, p))
    BY <2>3, <2>4, <1>8
  <2>6. /\ g[i + 1] \in B /\ p <= g[i + 1] /\ g[i + 1] <= limit
        /\ p = 0 /\ room => g[i + 1] > 0
    BY <2>2, <2>5, <1>5
  <2>7. g[i + 1] \in Nat
    BY <2>6, <1>0
  <2> HIDE DEF p, room
  <2>8. QED
    BY <2>3, <2>6, <2>7
<1> HIDE DEF I
<1>14. \A i \in Nat : i \in I
  BY <1>12, <1>13, NatSetInduction
<1>15. g[limit] \in B /\ (limit > 0 /\ room => g[limit] > 0)
  BY <1>3, <1>14 DEF I
<1>16. room => limit > 0
  <2>1. SUFFICES ASSUME room PROVE limit > 0
    OBVIOUS
  <2>2. 0 \in B /\ 0 < n
    BY <2>1 DEF Marks
  <2> DEFINE e == ReadVbcPairEnd(data, 0)
  <2>3. e \in B /\ 0 < e /\ e <= 0 + P
    BY <2>2 DEF Marks, n
  <2>4. e \in Nat
    BY <2>3, <1>0
  <2> HIDE DEF e
  <2>5. P > 0
    BY <2>3, <2>4
  <2>6. QED
    BY <2>1, <2>5, <1>1, <1>3
<1>17. QED
  BY <1>4, <1>15, <1>16 DEF n

\* B as seen from one of its places.
From(B, h) == {p \in Nat : h + p \in B}

LEMMA MarksSuffix ==
  ASSUME NEW data \in Seq(Nat), NEW P \in Nat, NEW B, Marks(B, data, P), NEW h \in B
  PROVE  Marks(From(B, h), SubSeq(data, h + 1, Len(data)), P)
<1> DEFINE n == Len(data)
           s == SubSeq(data, h + 1, n)
           C == From(B, h)
<1>1. n \in Nat /\ h \in Nat /\ h <= n /\ B \in SUBSET (0 .. n)
  BY DEF Marks
<1>0. \A p \in B : p \in Nat
  BY DEF Marks
<1>2. s \in Seq(Nat) /\ Len(s) = n - h /\ \A i \in 1 .. n - h : s[i] = data[h + i]
  BY <1>1, SubSeqElements
<1>3. C \in SUBSET (0 .. Len(s)) /\ 0 \in C /\ Len(s) \in C
  <2>1. C \in SUBSET (0 .. n - h)
    BY <1>1 DEF From
  <2>2. h + 0 = h /\ h + (n - h) = n /\ n - h \in Nat
    BY <1>1
  <2>3. 0 \in C /\ n - h \in C
    BY <2>2 DEF From, Marks, n
  <2>4. QED
    BY <2>1, <2>3, <1>2
<1> HIDE DEF s
<1>4. ASSUME NEW p \in C, p < Len(s)
      PROVE  /\ ReadVbcPairEnd(s, p) \in C
             /\ p < ReadVbcPairEnd(s, p) /\ ReadVbcPairEnd(s, p) <= p + P
  <2> DEFINE q == h + p
             e == ReadVbcPairEnd(data, q)
             m == readOne(data, q)
  <2>1. p \in Nat /\ q \in B /\ q \in Nat /\ q < n
    BY <1>1, <1>2, <1>4 DEF From
  <2>2. e \in B /\ q < e /\ e <= q + P
    BY <2>1 DEF Marks, n
  <2>3. e \in Nat /\ e # Fail
    <3>1. e \in Nat
      BY <2>2, <1>0
    <3> HIDE DEF e
    <3>2. QED
      BY <3>1 DEF Fail
  <2>4. m # Fail /\ m < n /\ e = m + 1
    <3>1. m = Fail \/ m \in q + 1 .. n
      BY <2>1, ReadOneInside DEF n
    <3>2. QED
      BY <3>1, <2>1, <2>3, <1>1 DEF ReadVbcPairEnd, Fail, n
  <2> HIDE DEF q
  <2>5. EndsAt(data, q, m)
    BY <2>1, <2>4, ReadOneEnds
  <2> HIDE DEF m, e
  <2>6. m \in q + 1 .. n /\ ~More(data[m]) /\ \A i \in q + 1 .. m - 1 : More(data[i])
    BY <2>5 DEF EndsAt, n
  <2>7. EndsAt(s, p, m - h)
    <3>1. m - h \in p + 1 .. n - h /\ m - h \in 1 .. n - h /\ h + (m - h) = m
      BY <2>1, <2>6, <1>1 DEF q
    <3>2. ~More(s[m - h])
      BY <3>1, <2>6, <1>2
    <3>3. ASSUME NEW i \in p + 1 .. (m - h) - 1 PROVE More(s[i])
      <4>1. h + i \in q + 1 .. m - 1 /\ i \in 1 .. n - h
        BY <2>1, <2>6, <1>1 DEF q
      <4>2. QED
        BY <4>1, <2>6, <1>2
    <3>4. QED
      BY <3>1, <3>2, <3>3, <1>2 DEF EndsAt
  <2>8. readOne(s, p) = m - h
    BY <2>1, <2>7, <1>2, ReadOneIs
  <2>9. ReadVbcPairEnd(s, p) = e - h
    <3>1. m - h # Fail /\ ~(m - h >= Len(s)) /\ (m - h) + 1 = e - h
      BY <2>1, <2>4, <2>6, <1>1, <1>2 DEF Fail, q
    <3>2. QED
      BY <3>1, <2>8 DEF ReadVbcPairEnd
  <2>10. h + (e - h) = e /\ e - h \in Nat /\ p < e - h /\ e - h <= p + P
    BY <2>1, <2>2, <2>3, <1>1 DEF q
  <2>11. QED
    BY <2>2, <2>9, <2>10 DEF From
<1>5. Marks(C, s, P)
  BY <1>3, <1>4 DEF Marks
<1>6. QED
  BY <1>5 DEF s, n

---------------------------------------------------------------------------
(* The boundaries of an encoded list *)

\* A pair: a number in variable-byte code and one byte.
PairShape(q) ==
  /\ q \in Seq(Nat) /\ Len(q) > 1 /\ ~More(q[Len(q) - 1])
  /\ \A j \in 1 .. Len(q) - 2 : More(q[j])

LEMMA MarksAppend ==
  ASSUME NEW data \in Seq(Nat), NEW P \in Nat, NEW B, Marks(B, data, P),
         NEW q, PairShape(q), Len(q) <= P
  PROVE  Marks(B \cup {Len(data) + Len(q)}, data \o q, P)
<1> DEFINE n == Len(data)
           m == Len(q)
           all == data \o q
           C == B \cup {n + m}
<1>1. n \in Nat /\ m \in Nat /\ m > 1 /\ m <= P /\ q \in Seq(Nat)
  BY DEF PairShape
<1>2. /\ all \in Seq(Nat) /\ Len(all) = n + m
      /\ \A k \in 1 .. n : all[k] = data[k]
      /\ \A k \in 1 .. m : all[n + k] = q[k]
  <2>1. \A a, c \in Seq(Nat) : /\ a \o c \in Seq(Nat) /\ Len(a \o c) = Len(a) + Len(c)
                               /\ \A k \in 1 .. Len(a) : (a \o c)[k] = a[k]
                               /\ \A k \in 1 .. Len(c) : (a \o c)[Len(a) + k] = c[k]
    BY ConcatElements
  <2>2. QED
    BY <2>1, <1>1, Zenon
<1>3. B \in SUBSET (0 .. n) /\ 0 \in B /\ n \in B /\ \A p \in B : p \in Nat /\ p <= n
  BY DEF Marks
<1>4. \A p \in B : p < n => /\ ReadVbcPairEnd(data, p) \in B
                           /\ p < ReadVbcPairEnd(data, p) /\ ReadVbcPairEnd(data, p) <= p + P
  BY DEF Marks
<1> HIDE DEF n, m, all
<1>5. C \in SUBSET (0 .. Len(all)) /\ 0 \in C /\ Len(all) \in C
  BY <1>1, <1>2, <1>3
<1>6. ASSUME NEW p \in B, p < n
      PROVE  ReadVbcPairEnd(all, p) = ReadVbcPairEnd(data, p)
  <2> DEFINE e == ReadVbcPairEnd(data, p)
             k == readOne(data, p)
  <2>1. p \in Nat /\ e \in B /\ p < e
    BY <1>3, <1>4, <1>6
  <2>2. k # Fail /\ k < n /\ e = k + 1
    <3>1. k = Fail \/ k \in p + 1 .. n
      BY <2>1, ReadOneInside DEF n
    <3>2. e # Fail
      <4>1. e \in Nat
        BY <2>1, <1>3
      <4> HIDE DEF e
      <4>2. QED
        BY <4>1 DEF Fail
    <3>3. QED
      BY <3>1, <3>2, <2>1, <1>1 DEF ReadVbcPairEnd, Fail, n
  <2>3. EndsAt(data, p, k)
    BY <2>1, <2>2, ReadOneEnds
  <2> HIDE DEF k, e
  <2>4. k \in p + 1 .. n /\ ~More(data[k]) /\ \A i \in p + 1 .. k - 1 : More(data[i])
    BY <2>3 DEF EndsAt, n
  <2>5. EndsAt(all, p, k)
    <3>1. k \in 1 .. n /\ k \in p + 1 .. n + m /\ \A i \in p + 1 .. k - 1 : i \in 1 .. n
      BY <2>1, <2>4, <1>1
    <3>2. QED
      BY <3>1, <2>4, <1>2 DEF EndsAt
  <2>6. readOne(all, p) = k
    BY <2>1, <2>5, <1>2, ReadOneIs
  <2>7. ~(k >= Len(all))
    BY <2>2, <2>4, <1>1, <1>2
  <2>8. QED
    BY <2>2, <2>6, <2>7 DEF ReadVbcPairEnd, e
<1>7. ReadVbcPairEnd(all, n) = n + m
  <2> DEFINE k == n + (m - 1)
  <2>1. EndsAt(all, n, k)
    <3>1. k \in n + 1 .. n + m /\ m - 1 \in 1 .. m
      BY <1>1
    <3>2. ~More(all[k])
      <4>1. all[n + (m - 1)] = q[m - 1]
        BY <3>1, <1>2
      <4>2. QED
        BY <4>1 DEF PairShape, m
    <3>3. ASSUME NEW i \in n + 1 .. k - 1 PROVE More(all[i])
      <4> DEFINE j == i - n
      <4>1. j \in 1 .. m - 2 /\ j \in 1 .. m /\ n + j = i
        BY <1>1
      <4> HIDE DEF j
      <4>2. all[n + j] = q[j] /\ More(q[j])
        BY <4>1, <1>2 DEF PairShape, m
      <4>3. QED
        BY <4>1, <4>2
    <3>4. QED
      BY <3>1, <3>2, <3>3, <1>2 DEF EndsAt
  <2>2. readOne(all, n) = k
    BY <2>1, <1>1, <1>2, ReadOneIs
  <2>3. k # Fail /\ ~(k >= Len(all)) /\ k + 1 = n + m
    BY <1>1, <1>2 DEF Fail
  <2>4. QED
    BY <2>2, <2>3 DEF ReadVbcPairEnd
<1>8. ASSUME NEW p \in C, p < Len(all)
      PROVE  /\ ReadVbcPairEnd(all, p) \in C
             /\ p < ReadVbcPairEnd(all, p) /\ ReadVbcPairEnd(all, p) <= p + P
  <2>1. p \in B /\ p \in Nat /\ p <= n
    <3>1. p # n + m
      BY <1>1, <1>2, <1>8
    <3>2. QED
      BY <3>1, <1>3
  <2>2. CASE p < n
    BY <2>1, <2>2, <1>4, <1>6
  <2>3. CASE p = n
    <3>1. n < n + m /\ n + m <= n + P
      BY <1>1
    <3>2. QED
      BY <2>3, <3>1, <1>7
  <2>4. QED
    BY <2>1, <2>2, <2>3, <1>1
<1>9. Marks(C, all, P)
  BY <1>5, <1>8 DEF Marks
<1>10. QED
  BY <1>9 DEF all, n, m

LEMMA MarksOfNone ==
  ASSUME NEW P
  PROVE  Marks({0}, <<>>, P)
<1>1. Len(<<>>) = 0
  OBVIOUS
<1>2. QED
  BY <1>1 DEF Marks

\* What encode writes for a posting.
LEMMA PairOf ==
  ASSUME NEW doc \in Nat, NEW tf
  PROVE  /\ PairShape(vb_write(doc) \o <<tf8_encode(tf)>>)
         /\ Len(vb_write(doc) \o <<tf8_encode(tf)>>) = Len(vb_write(doc)) + 1
<1> DEFINE a == vb_write(doc)
           c == <<tf8_encode(tf)>>
           q == a \o c
           m == Len(a)
<1>1. VbShape(a)
  BY VbWriteShape
<1>2. c \in Seq(Nat) /\ Len(c) = 1
  BY Tf8Type
<1> HIDE DEF a, c
<1>3. a \in Seq(Nat) /\ m \in Nat /\ m > 0 /\ ~More(a[m]) /\ \A j \in 1 .. m - 1 : More(a[j])
  BY <1>1 DEF VbShape
<1>4. q \in Seq(Nat) /\ Len(q) = m + 1 /\ \A k \in 1 .. m : q[k] = a[k]
  <2>1. \A x, y \in Seq(Nat) : /\ x \o y \in Seq(Nat) /\ Len(x \o y) = Len(x) + Len(y)
                               /\ \A k \in 1 .. Len(x) : (x \o y)[k] = x[k]
    BY ConcatElements
  <2>2. q \in Seq(Nat) /\ Len(q) = Len(a) + Len(c) /\ \A k \in 1 .. Len(a) : q[k] = a[k]
    BY <2>1, <1>2, <1>3, Zenon
  <2>3. QED
    BY <2>2, <1>2
<1> HIDE DEF q, m
<1>5. Len(q) - 1 = m /\ Len(q) - 2 = m - 1 /\ Len(q) > 1 /\ m \in 1 .. m
  BY <1>3, <1>4
<1>6. \A j \in 1 .. m - 1 : j \in 1 .. m
  BY <1>3
<1>7. PairShape(q)
  BY <1>3, <1>4, <1>5, <1>6 DEF PairShape
<1>8. QED
  BY <1>4, <1>7 DEF q, a, c, m

LEMMA EncodeMarks ==
  ASSUME NEW T, NEW list \in Seq([doc : Nat, tf : T]), NEW P \in Nat,
         \A i \in DOMAIN list : Len(vb_write(list[i].doc)) < P
  PROVE  /\ encode(list) \in Seq(Nat) /\ \E B : Marks(B, encode(list), P)
         /\ list # <<>> => Len(encode(list)) > 0
<1> DEFINE N == Len(list)
           part == [i \in DOMAIN list |-> vb_write(list[i].doc) \o <<tf8_encode(list[i].tf)>>]
<1>1. N \in Nat /\ DOMAIN list = 1 .. N
  OBVIOUS
<1>2. ASSUME NEW i \in 1 .. N
      PROVE  PairShape(part[i]) /\ Len(part[i]) <= P /\ part[i] \in Seq(Nat)
  <2> DEFINE doc == list[i].doc
             tf == list[i].tf
             q == vb_write(doc) \o <<tf8_encode(tf)>>
             l == Len(vb_write(doc))
  <2>1. part[i] = q
    BY <1>1
  <2>2. list[i] \in [doc : Nat, tf : T]
    BY <1>1, SeqElements, Zenon
  <2>3. doc \in Nat
    BY <2>2
  <2>4. l < P
    BY <1>1
  <2>5. l \in Nat
    <3>1. vb_write(doc) \in Seq(Nat)
      BY <2>3, VbWriteType
    <3>2. QED
      BY <3>1
  <2> HIDE DEF doc, tf
  <2>6. PairShape(q) /\ Len(q) = l + 1
    BY <2>3, PairOf
  <2> HIDE DEF q, l
  <2>7. Len(q) <= P /\ q \in Seq(Nat)
    BY <2>4, <2>5, <2>6 DEF PairShape
  <2>8. QED
    BY <2>1, <2>6, <2>7, Zenon
<1>3. encode(list) = FlattenSeq(part)
  BY DEF encode
<1>4. part \in Seq(Seq(Nat)) /\ Len(part) = N
  <2>1. part \in [1 .. N -> Seq(Nat)]
    <3>1. DOMAIN part = 1 .. N /\ part = [i \in 1 .. N |-> part[i]]
      BY <1>1
    <3> HIDE DEF part
    <3>2. QED
      BY <3>1, <1>2
  <2> HIDE DEF part, N
  <2>2. QED
    BY <1>1, <2>1, FunctionIsSeq
<1>5. N = 0 <=> list = <<>>
  BY <1>1
<1> HIDE DEF part, N
<1>6. encode(list) \in Seq(Nat)
  BY EncodeType
<1>7. CASE N = 0
  <2>1. part = <<>>
    BY <1>4, <1>7
  <2>2. encode(list) = <<>>
    BY <2>1, <1>3, <1>4, FlattenSteps
  <2>3. QED
    BY <2>2, <1>5, <1>6, <1>7, MarksOfNone
<1>8. CASE N # 0
  <2>1. part # <<>>
    BY <1>4, <1>8
  <2>2. PICK g : /\ FlattenSeq(part) = g[N] /\ g[1] = part[1]
                 /\ \A i \in 2 .. N : g[i] = g[i - 1] \o part[i]
    BY <2>1, <1>4, FlattenSteps
  <2> DEFINE Good(d) == d \in Seq(Nat) /\ Len(d) > 0 /\ \E B : Marks(B, d, P)
             I == {i \in Nat : i + 1 <= N => Good(g[i + 1])}
  <2>3. 0 \in I
    <3>1. 1 \in 1 .. N
      BY <1>1, <1>8
    <3>2. PairShape(part[1]) /\ Len(part[1]) <= P /\ part[1] \in Seq(Nat)
      BY <3>1, <1>2
    <3> DEFINE q == part[1]
    <3> HIDE DEF q
    <3>3. <<>> \in Seq(Nat) /\ <<>> \o q = q
      BY <3>2 DEF q
    <3>4. Marks({0} \cup {Len(<<>>) + Len(q)}, <<>> \o q, P)
      BY <3>2, <3>3, MarksOfNone, MarksAppend DEF q
    <3>5. Good(q)
      BY <3>2, <3>3, <3>4 DEF q, PairShape
    <3>6. QED
      BY <3>5, <2>2 DEF q
  <2>4. ASSUME NEW i \in Nat, i \in I PROVE i + 1 \in I
    <3>1. SUFFICES ASSUME i + 2 <= N PROVE Good(g[i + 2])
      BY <1>1
    <3>2. Good(g[i + 1])
      BY <2>4, <3>1, <1>1
    <3>3. (i + 2) - 1 = i + 1 /\ i + 2 \in 2 .. N /\ i + 2 \in 1 .. N
      BY <3>1, <1>1
    <3> DEFINE d == g[i + 1]
               q == part[i + 2]
    <3>4. g[i + 2] = d \o q
      BY <3>3, <2>2
    <3>5. PairShape(q) /\ Len(q) <= P /\ q \in Seq(Nat)
      BY <3>3, <1>2
    <3> HIDE DEF d, q
    <3>6. PICK B : Marks(B, d, P)
      BY <3>2 DEF d
    <3>7. d \in Seq(Nat) /\ Len(d) > 0
      BY <3>2 DEF d
    <3>8. Marks(B \cup {Len(d) + Len(q)}, d \o q, P)
      BY <3>5, <3>6, <3>7, MarksAppend
    <3>9. d \o q \in Seq(Nat) /\ Len(d \o q) > 0
      BY <3>5, <3>7
    <3>10. QED
      BY <3>4, <3>8, <3>9
  <2> HIDE DEF I
  <2>5. \A i \in Nat : i \in I
    BY <2>3, <2>4, NatSetInduction
  <2>6. N - 1 \in Nat /\ (N - 1) + 1 = N
    BY <1>1, <1>8
  <2>7. N - 1 \in I
    BY <2>5, <2>6, Zenon
  <2>8. Good(g[N])
    BY <2>6, <2>7 DEF I
  <2>9. QED
    BY <2>2, <2>8, <1>3
<1>9. QED
  BY <1>7, <1>8

---------------------------------------------------------------------------
(* The continuation blocks hold the rest of a list *)

\* The continuation blocks take all the bytes.
LEMMA BlockEndsReach ==
  ASSUME NEW bytes \in Seq(Nat), NEW P \in Nat, NEW B, Marks(B, bytes, P),
         P <= PageSize - ContinuationHeader
  PROVE  BlockEnds(bytes)[Len(bytes)] = Len(bytes)
<1> DEFINE n == Len(bytes)
           end == BlockEnds(bytes)
           room == PageSize - ContinuationHeader
<1>1. n \in Nat /\ room \in Nat /\ P <= room
  BY PageConstants
<1>2. /\ end[0] = 0 /\ \A i \in 0 .. n : end[i] \in 0 .. n
      /\ \A i \in 1 .. n : end[i] = end[i - 1] + NextBlock(bytes, end[i - 1])
  BY BlockEndsSteps
<1>3. \A p \in B : p \in Nat /\ p <= n
  BY DEF Marks
<1> HIDE DEF end
<1>4. ASSUME NEW h \in B PROVE h + NextBlock(bytes, h) \in B /\ (h < n => NextBlock(bytes, h) > 0)
  <2> DEFINE s == SubSeq(bytes, h + 1, n)
             c == NextBlock(bytes, h)
  <2>1. h \in Nat /\ h <= n
    BY <1>3
  <2>2. s \in Seq(Nat) /\ Len(s) = n - h
    BY <2>1, <1>1, SubSeqElements
  <2>3. Marks(From(B, h), s, P)
    BY MarksSuffix
  <2>4. c = PostingPrefixBytes(s, room)
    BY DEF NextBlock
  <2> HIDE DEF s, c, room
  <2>5. c \in From(B, h) /\ (Len(s) > 0 /\ P <= room => c > 0)
    BY <2>2, <2>3, <2>4, <1>1, PrefixOnMark
  <2>6. h + c \in B /\ (h < n => c > 0)
    BY <2>1, <2>2, <2>5, <1>1 DEF From
  <2>7. QED
    BY <2>6 DEF c
<1> HIDE DEF n
<1> DEFINE I == {i \in Nat : i <= n => end[i] \in B /\ (end[i] >= i \/ end[i] = n)}
<1>5. 0 \in I
  BY <1>1, <1>2 DEF Marks
<1>6. ASSUME NEW i \in Nat, i \in I PROVE i + 1 \in I
  <2>1. SUFFICES ASSUME i + 1 <= n PROVE end[i + 1] \in B /\ (end[i + 1] >= i + 1 \/ end[i + 1] = n)
    OBVIOUS
  <2> DEFINE h == end[i]
             c == NextBlock(bytes, h)
             e == end[i + 1]
  <2>2. h \in B /\ (h >= i \/ h = n)
    BY <2>1, <1>1, <1>6
  <2>3. e = h + c
    <3>1. i + 1 \in 1 .. n /\ (i + 1) - 1 = i
      BY <2>1, <1>1
    <3>2. QED
      BY <3>1, <1>2
  <2>4. h + c \in B /\ (h < n => c > 0)
    BY <2>2, <1>4
  <2>5. h \in Nat /\ h <= n /\ e \in Nat /\ e <= n /\ e \in B
    BY <2>2, <2>3, <2>4, <1>3
  <2>6. c \in Nat
    <3> DEFINE s == SubSeq(bytes, h + 1, Len(bytes))
    <3>1. s \in Seq(Nat)
      BY <2>5, SubSeqElements DEF n
    <3>2. c = PostingPrefixBytes(s, room)
      BY DEF NextBlock
    <3> HIDE DEF s, c, room
    <3>3. QED
      BY <3>1, <3>2, <1>1, CutInside
  <2> HIDE DEF h, c, e
  <2>7. e >= i + 1 \/ e = n
    BY <2>2, <2>3, <2>4, <2>5, <2>6, <1>1
  <2>8. QED
    BY <2>5, <2>7 DEF e
<1> HIDE DEF I
<1>7. \A i \in Nat : i \in I
  BY <1>5, <1>6, NatSetInduction
<1>8. end[n] \in B /\ (end[n] >= n \/ end[n] = n)
  BY <1>1, <1>7 DEF I
<1>9. end[n] = n
  BY <1>1, <1>3, <1>8
<1>10. QED
  BY <1>9 DEF end, n

\* The index blocks with the one being filled.
Pages(b) == Append(b.index, b.cur)

LEMMA PagesAre ==
  ASSUME NEW b \in Build
  PROVE  /\ Len(b.index) \in Nat /\ Pages(b) \in Seq(Page) /\ Len(Pages(b)) = Len(b.index) + 1
         /\ \A i \in 1 .. Len(b.index) : Pages(b)[i] = b.index[i]
         /\ Pages(b)[Len(b.index) + 1] = b.cur
<1>1. b.index \in Seq(Page) /\ b.cur \in Page
  BY BuildFields
<1> DEFINE s == b.index
           c == b.cur
<1>2. s \in Seq(Page) /\ c \in Page /\ Pages(b) = Append(s, c)
  BY <1>1 DEF Pages
<1> HIDE DEF s, c
<1>3. /\ Len(s) \in Nat /\ Append(s, c) \in Seq(Page) /\ Len(Append(s, c)) = Len(s) + 1
      /\ \A i \in 1 .. Len(s) : Append(s, c)[i] = s[i]
      /\ Append(s, c)[Len(s) + 1] = c
  BY <1>2
<1>4. QED
  BY <1>2, <1>3 DEF s, c

\* r is b with continuation blocks that hold the bytes, the last one open.
Continued(r, b, bytes) ==
  /\ r \in Build /\ r.cont > 0 /\ r.cont <= Len(bytes)
  /\ Len(r.index) + 1 = Len(b.index) + r.cont
  /\ r.wptr = ContinuationHeader + r.cur.len
  /\ \A i \in 1 .. Len(b.index) : Pages(r)[i] = b.index[i]
  /\ FlattenSeq([i \in 1 .. r.cont |-> LaterPart(Pages(r)[Len(b.index) + i])]) = bytes

LEMMA ContinuationsHold ==
  ASSUME NEW b \in Build, NEW bytes \in Seq(Nat), bytes # <<>>,
         BlockEnds(bytes)[Len(bytes)] = Len(bytes)
  PROVE  Continued(AddContinuations(b, bytes), b, bytes)
<1> DEFINE n == Len(bytes)
           end == BlockEnds(bytes)
           all == end[n]
           counts == {m \in 0 .. n : end[m] = all}
           count == Min(counts)
           Cut(i) == SubSeq(bytes, end[i - 1] + 1, end[i])
           pages == [i \in 1 .. count |-> ContinuationPage(Cut(i))]
           a == Len(b.index)
<1>0. all = n
  OBVIOUS
<1>1. n \in Nat /\ n > 0 /\ n \in 0 .. n /\ 0 \in 0 .. n
  OBVIOUS
<1>2. /\ \A i \in 0 .. n : end[i] \in 0 .. n
      /\ end[0] = 0
      /\ \A i \in 1 .. n : /\ end[i - 1] <= end[i]
                           /\ end[i] - end[i - 1] <= PageSize - ContinuationHeader
  BY BlockEndsSteps
<1>3. count \in 0 .. n /\ end[count] = n
  <2>1. n \in counts /\ counts \in SUBSET Nat
    BY <1>1
  <2> HIDE DEF counts
  <2>2. count \in counts
    BY <2>1, MinOfNaturals
  <2>3. QED
    BY <2>2, <1>0 DEF counts
<1>4. AddContinuations(b, bytes) =
        [b EXCEPT !.index = @ \o (IF all = n THEN Front(pages) ELSE pages),
                  !.cur   = IF all = n THEN Last(pages) ELSE EmptyPage,
                  !.wptr  = IF all = n THEN ContinuationHeader + Last(pages).len ELSE 0,
                  !.cont  = count]
  BY Zenon DEF AddContinuations
<1> HIDE DEF end, all, count, n
<1>5. count # 0 /\ count \in Nat
  BY <1>1, <1>2, <1>3
<1>6. ASSUME NEW i \in 1 .. count
      PROVE  ContinuationPage(Cut(i)) \in Page /\ LaterPart(ContinuationPage(Cut(i))) = Cut(i)
  <2>1. i - 1 \in 0 .. n /\ i \in 1 .. n /\ i \in 0 .. n
    BY <1>1, <1>3
  <2>2. end[i - 1] \in Nat /\ end[i] \in Nat /\ end[i] <= n /\ end[i - 1] <= end[i]
        /\ end[i] - end[i - 1] <= PageSize - ContinuationHeader
    BY <2>1, <1>2
  <2>3. Cut(i) \in Seq(Nat) /\ Len(Cut(i)) = end[i] - end[i - 1]
    <3>1. \A x, y \in Nat : x <= y /\ y <= n =>
            SubSeq(bytes, x + 1, y) \in Seq(Nat) /\ Len(SubSeq(bytes, x + 1, y)) = y - x
      BY SubSeqElements DEF n
    <3>2. QED
      BY <2>2, <3>1
  <2> DEFINE part == Cut(i)
  <2>4. part \in Seq(Nat) /\ Len(part) \in 0 .. PageSize - ContinuationHeader
    BY <2>2, <2>3, PageConstants
  <2> HIDE DEF part
  <2>5. MaxDocIDInPairs(part) \in MaxIds /\ EmptyPage \in Page
    BY <2>4, EmptyPageType DEF MaxIds
  <2>6. LET r == WriteHeader(WriteBytes(EmptyPage, ContinuationHeader, part), MaxDocIDInPairs(part), Len(part))
        IN  r \in Page /\ LaterPart(r) = part
    BY <2>4, <2>5, ContinuationReadsBack
  <2>7. QED
    BY <2>6 DEF part, ContinuationPage
<1>7. pages \in Seq(Page) /\ Len(pages) = count /\ \A i \in 1 .. count : LaterPart(pages[i]) = Cut(i)
  <2> HIDE DEF Cut
  <2>1. pages \in [1 .. count -> Page] /\ \A i \in 1 .. count : LaterPart(pages[i]) = Cut(i)
    BY <1>6
  <2> HIDE DEF pages
  <2>2. QED
    BY <2>1, <1>5, FunctionIsSeq
<1> HIDE DEF pages
<1> DEFINE front == Front(pages)
           last == Last(pages)
<1>8. /\ front \in Seq(Page) /\ Len(front) = count - 1 /\ last \in Page /\ last = pages[count]
      /\ \A i \in 1 .. count - 1 : front[i] = pages[i]
  BY <1>5, <1>7 DEF Front, Last
<1> HIDE DEF front, last
<1>9. b.index \in Seq(Page) /\ a \in Nat
  BY BuildFields
<1> DEFINE index == b.index \o front
<1>10. /\ index \in Seq(Page) /\ Len(index) = a + (count - 1)
       /\ \A k \in 1 .. a : index[k] = b.index[k]
       /\ \A k \in 1 .. count - 1 : index[a + k] = front[k]
  <2>1. \A x, y \in Seq(Page) : /\ x \o y \in Seq(Page) /\ Len(x \o y) = Len(x) + Len(y)
                                /\ \A k \in 1 .. Len(x) : (x \o y)[k] = x[k]
                                /\ \A k \in 1 .. Len(y) : (x \o y)[Len(x) + k] = y[k]
    BY ConcatElements
  <2> DEFINE x == b.index
             y == front
  <2>2. x \in Seq(Page) /\ y \in Seq(Page) /\ index = x \o y
    BY <1>8, <1>9
  <2> HIDE DEF x, y, index
  <2>3. /\ index \in Seq(Page) /\ Len(index) = Len(x) + Len(y)
        /\ \A k \in 1 .. Len(x) : index[k] = x[k]
        /\ \A k \in 1 .. Len(y) : index[Len(x) + k] = y[k]
    BY <2>1, <2>2
  <2>4. Len(x) = a /\ Len(y) = count - 1
    BY <1>8 DEF x, y
  <2> HIDE DEF a
  <2>5. /\ index \in Seq(Page) /\ Len(index) = a + (count - 1)
        /\ \A k \in 1 .. a : index[k] = x[k]
        /\ \A k \in 1 .. count - 1 : index[a + k] = y[k]
    BY <2>3, <2>4
  <2>6. QED
    BY <2>5 DEF x, y
<1>11. AddContinuations(b, bytes) =
         [b EXCEPT !.index = index, !.cur = last, !.wptr = ContinuationHeader + last.len, !.cont = count]
  BY <1>0, <1>4 DEF front, last
<1> DEFINE r == AddContinuations(b, bytes)
<1> HIDE DEF index
<1>12. r.index = index /\ r.cur = last /\ r.wptr = ContinuationHeader + last.len /\ r.cont = count
  BY <1>11, BuildFields
<1>13. r \in Build
  BY AddContinuationsKeeps
<1> HIDE DEF r, a
<1>14. Len(r.index) = a + (count - 1)
  BY <1>10, <1>12
<1>15. /\ \A i \in 1 .. a : Pages(r)[i] = b.index[i]
       /\ \A i \in 1 .. count : Pages(r)[a + i] = pages[i]
  <2>1. /\ \A i \in 1 .. a + (count - 1) : Pages(r)[i] = index[i]
        /\ Pages(r)[(a + (count - 1)) + 1] = last
    BY <1>12, <1>13, <1>14, PagesAre
  <2>2. ASSUME NEW i \in 1 .. a PROVE Pages(r)[i] = b.index[i]
    BY <2>1, <1>5, <1>9, <1>10
  <2>3. ASSUME NEW i \in 1 .. count PROVE Pages(r)[a + i] = pages[i]
    <3>1. CASE i = count
      <4>1. a + i = (a + (count - 1)) + 1
        BY <3>1, <1>5, <1>9
      <4>2. QED
        BY <4>1, <3>1, <2>1, <1>8
    <3>2. CASE i # count
      <4>1. i \in 1 .. count - 1 /\ a + i \in 1 .. a + (count - 1)
        BY <3>2, <1>5, <1>9
      <4>2. QED
        BY <4>1, <2>1, <1>8, <1>10
    <3>3. QED
      BY <3>1, <3>2
  <2>4. QED
    BY <2>2, <2>3
<1>16. FlattenSeq([i \in 1 .. count |-> LaterPart(Pages(r)[a + i])]) = bytes
  <2>1. [i \in 1 .. count |-> LaterPart(Pages(r)[a + i])]
          = [i \in 1 .. count |-> SubSeq(bytes, end[i - 1] + 1, end[i])]
    BY <1>7, <1>15
  <2>2. /\ \A i \in 0 .. count : end[i] \in 0 .. Len(bytes)
        /\ \A i \in 1 .. count : end[i - 1] <= end[i]
    BY <1>1, <1>2, <1>3 DEF n
  <2>3. FlattenSeq([i \in 1 .. count |-> SubSeq(bytes, end[i - 1] + 1, end[i])])
          = SubSeq(bytes, end[0] + 1, end[count])
    BY <2>2, <1>5, FlattenPieces
  <2>4. end[0] + 1 = 1 /\ SubSeq(bytes, 1, Len(bytes)) = bytes
    BY <1>2
  <2>5. QED
    BY <2>1, <2>3, <2>4, <1>3 DEF n
<1>17. Len(r.index) + 1 = a + r.cont /\ r.cont > 0
  BY <1>5, <1>9, <1>12, <1>14
<1>18. r.cont <= Len(bytes)
  BY <1>1, <1>3, <1>12 DEF n
<1>19. QED
  BY <1>12, <1>13, <1>15, <1>16, <1>17, <1>18 DEF Continued, a, r

---------------------------------------------------------------------------
(* Writing a list *)

\* w is o with more written behind its write position.
GrowsFrom(w, o) ==
  /\ w \in Build /\ o \in Build /\ Len(o.index) <= Len(w.index)
  /\ \A i \in 1 .. Len(o.index) : Pages(w)[i] = Pages(o)[i]
  /\ Pages(w)[Len(o.index) + 1].len = o.cur.len
  /\ \A i \in 1 .. PageSize : i <= o.wptr => Pages(w)[Len(o.index) + 1].data[i] = o.cur.data[i]
  /\ Len(w.index) = Len(o.index) => o.wptr <= w.wptr

\* The bytes of a list are on its pages: here of them behind the write position
\* of o, the others on continuation pages.
Holds(w, o, bytes, here) ==
  /\ Len(w.index) = Len(o.index) + w.cont /\ w.cont <= Len(bytes)
  /\ SubSeq(Pages(w)[Len(o.index) + 1].data, o.wptr + 1, o.wptr + here) = SubSeq(bytes, 1, here)
  /\ FlattenSeq([i \in 1 .. w.cont |-> LaterPart(Pages(w)[Len(o.index) + i + 1])])
       = SubSeq(bytes, here + 1, Len(bytes))
  /\ w.wptr = IF w.cont = 0 THEN o.wptr + here ELSE ContinuationHeader + w.cur.len

LEMMA FlushIndexPages ==
  ASSUME NEW b \in Build
  PROVE  LET r == flush_index_block(b)
         IN  /\ r \in Build /\ r.index = Pages(b) /\ r.wptr = 0 /\ r.cont = b.cont
             /\ Len(r.index) = Len(b.index) + 1
             /\ \A i \in 1 .. Len(b.index) + 1 : Pages(r)[i] = Pages(b)[i]
<1> DEFINE r == flush_index_block(b)
           p == Pages(b)
<1>1. r = [b EXCEPT !.index = p, !.cur = EmptyPage, !.wptr = 0]
  BY DEF flush_index_block, Pages
<1>2. p \in Seq(Page) /\ Len(p) = Len(b.index) + 1
  BY PagesAre
<1>3. r \in Build
  BY FlushIndex
<1> HIDE DEF p
<1>4. r.index = p /\ r.wptr = 0 /\ r.cont = b.cont
  BY <1>1, BuildFields
<1> HIDE DEF r
<1>5. \A i \in 1 .. Len(r.index) : Pages(r)[i] = r.index[i]
  BY <1>3, PagesAre
<1>6. Len(r.index) = Len(b.index) + 1 /\ \A i \in 1 .. Len(b.index) + 1 : Pages(r)[i] = p[i]
  BY <1>2, <1>4, <1>5
<1>7. QED
  BY <1>3, <1>4, <1>6 DEF r, p

LEMMA FlushGrows ==
  ASSUME NEW b \in Build
  PROVE  GrowsFrom(flush_index_block(b), b)
<1> DEFINE r == flush_index_block(b)
           a == Len(b.index)
<1>1. /\ r \in Build /\ Len(r.index) = a + 1 /\ a \in Nat
      /\ \A i \in 1 .. a + 1 : Pages(r)[i] = Pages(b)[i]
  BY FlushIndexPages, PagesAre
<1>2. Pages(b)[a + 1] = b.cur
  BY PagesAre
<1> HIDE DEF r, a
<1>3. a <= Len(r.index) /\ Len(r.index) # a /\ a + 1 \in 1 .. a + 1 /\ \A i \in 1 .. a : i \in 1 .. a + 1
  BY <1>1
<1>4. Pages(r)[a + 1] = b.cur /\ \A i \in 1 .. a : Pages(r)[i] = Pages(b)[i]
  BY <1>1, <1>2, <1>3
<1>5. QED
  BY <1>1, <1>3, <1>4 DEF GrowsFrom, a, r

\* Fill(o, bytes, here) is o with the first bytes on its open page.
Fill(o, bytes, here) ==
  [o EXCEPT !.cur  = WriteBytes(o.cur, o.wptr, SubSeq(bytes, 1, here)),
            !.wptr = o.wptr + here, !.cont = 0]

Filled(f, o, bytes, here) ==
  /\ f \in Build /\ f.index = o.index /\ f.wptr = o.wptr + here /\ f.cont = 0
  /\ f.cur.len = o.cur.len
  /\ \A i \in 1 .. PageSize : i <= o.wptr => f.cur.data[i] = o.cur.data[i]
  /\ SubSeq(f.cur.data, o.wptr + 1, o.wptr + here) = SubSeq(bytes, 1, here)

LEMMA FillFills ==
  ASSUME NEW o \in Build, NEW bytes \in Seq(Nat), NEW here \in 1 .. Len(bytes),
         here <= PageSize - o.wptr
  PROVE  Filled(Fill(o, bytes, here), o, bytes, here)
<1> DEFINE part == SubSeq(bytes, 1, here)
           page == WriteBytes(o.cur, o.wptr, part)
           f == Fill(o, bytes, here)
<1>1. o.wptr \in Nat /\ o.wptr <= PageSize /\ o.cur \in Page
  BY BuildFields
<1>2. part \in Seq(Nat) /\ Len(part) = here /\ here \in Nat
  <2>1. SubSeq(bytes, 0 + 1, here) \in Seq(Nat) /\ Len(SubSeq(bytes, 0 + 1, here)) = here - 0
    <3>1. 0 \in Nat /\ here \in Nat /\ 0 <= here /\ here <= Len(bytes)
      OBVIOUS
    <3>2. QED
      BY <3>1, SubSeqElements
  <2>2. 0 + 1 = 1 /\ here - 0 = here /\ here \in Nat
    OBVIOUS
  <2>3. QED
    BY <2>1, <2>2
<1>3. o.wptr + here \in 0 .. PageSize
  BY <1>1, <1>2, PageConstants
<1> HIDE DEF part
<1>4. /\ page \in Page /\ page.len = o.cur.len
      /\ \A i \in 1 .. PageSize : i <= o.wptr => page.data[i] = o.cur.data[i]
  BY <1>1, <1>2, WriteBytesKeeps
<1>5. SubSeq(page.data, o.wptr + 1, o.wptr + here) = part
  <2>1. o.wptr + Len(part) <= PageSize
    BY <1>2, <1>3
  <2>2. SubSeq(page.data, o.wptr + 1, o.wptr + Len(part)) = part
    BY <1>1, <1>2, <2>1, PageReadsBack
  <2>3. QED
    BY <2>2, <1>2
<1>6. f = [o EXCEPT !.cur = page, !.wptr = o.wptr + here, !.cont = 0]
  BY DEF Fill, part
<1> DEFINE end == o.wptr + here
<1>9. page \in Page /\ end \in 0 .. PageSize /\ f = [o EXCEPT !.cur = page, !.wptr = end, !.cont = 0]
  BY <1>3, <1>4, <1>6
<1> HIDE DEF page, f, end
<1>10. f \in Build /\ f.index = o.index /\ f.wptr = end /\ f.cont = 0 /\ f.cur = page
  BY <1>9 DEF Build
<1>7. f \in Build /\ f.index = o.index /\ f.wptr = o.wptr + here /\ f.cont = 0 /\ f.cur = page
  BY <1>10 DEF end
<1>8. QED
  BY <1>4, <1>5, <1>7 DEF Filled, f, part

LEMMA ListWritten ==
  ASSUME NEW o \in Build, NEW bytes \in Seq(Nat), NEW here \in 1 .. Len(bytes),
         here <= PageSize - o.wptr,
         LET rest == SubSeq(bytes, here + 1, Len(bytes))
         IN  BlockEnds(rest)[Len(rest)] = Len(rest)
  PROVE  LET w == WriteList(o, bytes, here) IN GrowsFrom(w, o) /\ Holds(w, o, bytes, here)
<1> DEFINE n == Len(bytes)
           first == Fill(o, bytes, here)
           rest == SubSeq(bytes, here + 1, n)
           w == WriteList(o, bytes, here)
           a == Len(o.index)
<1>1. o.wptr \in Nat /\ o.wptr <= PageSize /\ o.cur \in Page /\ a \in Nat
  BY BuildFields
<1>2. n \in Nat /\ here \in Nat /\ 0 < here /\ here <= n
  OBVIOUS
<1>3. rest \in Seq(Nat) /\ Len(rest) = n - here
  BY <1>2, SubSeqElements
<1>4. w = IF here = n THEN first ELSE AddContinuations(flush_index_block(first), rest)
  <2>1. first = [o EXCEPT !.cur = WriteBytes(@, o.wptr, SubSeq(bytes, 1, here)),
                          !.wptr = @ + here, !.cont = 0]
    BY DEF Fill
  <2>2. QED
    BY <2>1 DEF WriteList
<1>5. Filled(first, o, bytes, here)
  BY FillFills
<1> HIDE DEF first, rest, a
<1>6. /\ first \in Build /\ Len(first.index) = a /\ Pages(first)[a + 1] = first.cur
      /\ \A i \in 1 .. a : Pages(first)[i] = o.index[i]
  <2>1. first \in Build /\ first.index = o.index
    BY <1>5 DEF Filled
  <2>2. QED
    BY <2>1, PagesAre DEF a
<1>7. \A i \in 1 .. a : Pages(o)[i] = o.index[i]
  BY PagesAre DEF a
<1>8. CASE here = n
  <2>1. w = first
    BY <1>4, <1>8
  <2>2. rest = <<>>
    <3>1. Len(rest) = 0
      BY <1>2, <1>3, <1>8
    <3>2. QED
      BY <3>1, <1>3
  <2>3. GrowsFrom(first, o)
    <3>1. Len(o.index) <= Len(first.index)
      BY <1>1, <1>6 DEF a
    <3>2. \A i \in 1 .. a : Pages(first)[i] = Pages(o)[i]
      BY <1>6, <1>7
    <3>3. o.wptr <= first.wptr
      BY <1>1, <1>2, <1>5 DEF Filled
    <3>4. QED
      BY <1>5, <1>6, <3>1, <3>2, <3>3 DEF GrowsFrom, Filled, a
  <2>4. Holds(first, o, bytes, here)
    <3>1. first.cont = 0 /\ first.wptr = o.wptr + here
      BY <1>5 DEF Filled
    <3>2. Len(first.index) = Len(o.index) + first.cont
      BY <1>1, <1>6, <3>1 DEF a
    <3>3. SubSeq(Pages(first)[a + 1].data, o.wptr + 1, o.wptr + here) = SubSeq(bytes, 1, here)
      BY <1>5, <1>6 DEF Filled
    <3>4. FlattenSeq([i \in 1 .. first.cont |-> LaterPart(Pages(first)[a + i + 1])]) = rest
      <4>1. [i \in 1 .. first.cont |-> LaterPart(Pages(first)[a + i + 1])] = <<>>
        BY <3>1
      <4>2. FlattenSeq(<<>>) = <<>>
        <5>1. <<>> \in Seq(Nat)
          OBVIOUS
        <5>2. \A s \in Seq(Nat) : s = <<>> => FlattenSeq(s) = <<>>
          BY FlattenSteps
        <5>3. QED
          BY <5>1, <5>2
      <4>3. QED
        BY <4>1, <4>2, <2>2
    <3>5. first.cont <= Len(bytes)
      BY <3>1, <1>2
    <3>6. QED
      BY <3>1, <3>2, <3>3, <3>4, <3>5 DEF Holds, a, rest
  <2>5. QED
    BY <2>1, <2>3, <2>4
<1>9. CASE here # n
  <2> DEFINE flushed == flush_index_block(first)
             r == AddContinuations(flushed, rest)
             count == r.cont
  <2>1. rest # <<>>
    <3>1. Len(rest) > 0
      BY <1>2, <1>3, <1>9
    <3>2. QED
      BY <3>1, <1>3
  <2>2. /\ flushed \in Build /\ flushed.index = Pages(first) /\ Len(flushed.index) = a + 1
    BY <1>6, FlushIndexPages
  <2>3. BlockEnds(rest)[Len(rest)] = Len(rest)
    BY DEF rest
  <2> HIDE DEF flushed
  <2>4. Continued(r, flushed, rest)
    BY <1>3, <2>1, <2>2, <2>3, ContinuationsHold
  <2>5. w = r
    BY <1>4, <1>9 DEF flushed
  <2> HIDE DEF r
  <2>6. /\ r \in Build /\ count > 0 /\ count <= Len(rest) /\ Len(r.index) + 1 = (a + 1) + count
        /\ r.wptr = ContinuationHeader + r.cur.len
        /\ \A i \in 1 .. a + 1 : Pages(r)[i] = Pages(first)[i]
        /\ FlattenSeq([i \in 1 .. count |-> LaterPart(Pages(r)[(a + 1) + i])]) = rest
    BY <2>2, <2>4 DEF Continued
  <2>7. count \in Nat /\ Len(r.index) \in Nat
    BY <2>6, BuildFields
  <2> HIDE DEF count
  <2>8. Len(r.index) = a + count /\ a <= Len(r.index) /\ Len(r.index) # a
    <3> DEFINE m == Len(r.index)
    <3>1. m \in Nat /\ m + 1 = (a + 1) + count /\ count > 0
      BY <2>6, <2>7
    <3> HIDE DEF m
    <3>2. m = a + count /\ a <= m /\ m # a
      BY <3>1, <2>7, <1>1
    <3>3. QED
      BY <3>2 DEF m
  <2>9. Pages(r)[a + 1] = first.cur /\ \A i \in 1 .. a : Pages(r)[i] = Pages(o)[i]
    <3>1. a + 1 \in 1 .. a + 1 /\ \A i \in 1 .. a : i \in 1 .. a + 1
      BY <1>1
    <3>2. QED
      BY <3>1, <2>6, <1>6, <1>7
  <2>10. GrowsFrom(r, o)
    BY <2>6, <2>8, <2>9, <1>5 DEF GrowsFrom, Filled, a
  <2>11. Holds(r, o, bytes, here)
    <3>1. SubSeq(Pages(r)[a + 1].data, o.wptr + 1, o.wptr + here) = SubSeq(bytes, 1, here)
      BY <2>9, <1>5 DEF Filled
    <3>2. FlattenSeq([i \in 1 .. count |-> LaterPart(Pages(r)[a + i + 1])]) = rest
      <4>1. ASSUME NEW i \in 1 .. count PROVE a + i + 1 = (a + 1) + i
        BY <1>1, <2>7
      <4>2. [i \in 1 .. count |-> LaterPart(Pages(r)[a + i + 1])]
              = [i \in 1 .. count |-> LaterPart(Pages(r)[(a + 1) + i])]
        BY <4>1
      <4>3. QED
        BY <4>2, <2>6
    <3>3. count # 0
      BY <2>6, <2>7
    <3>4. count <= n
      BY <2>6, <2>7, <1>2, <1>3
    <3>5. QED
      BY <3>1, <3>2, <3>3, <3>4, <2>6, <2>8 DEF Holds, a, rest, count
  <2>12. QED
    BY <2>5, <2>10, <2>11
<1>10. QED
  BY <1>8, <1>9

---------------------------------------------------------------------------
(* A list that is written stays written *)

\* All the bytes of the list of x are before the write position.
ListClosed(b, x) ==
  \/ x.block + x.cont < Len(b.index)
  \/ /\ x.block + x.cont = Len(b.index)
     /\ IF x.cont = 0 THEN x.offset + x.length <= b.wptr
        ELSE ContinuationHeader + b.cur.len <= b.wptr

\* The bytes read under an entry while the table is being built.
Reads(b, x) == PostingBytes([index |-> Pages(b)], x)

LEMMA SameLaterPart ==
  ASSUME NEW p \in Page, NEW q \in Page, p.len = q.len,
         NEW w \in Nat, ContinuationHeader + p.len <= w,
         \A i \in 1 .. PageSize : i <= w => q.data[i] = p.data[i]
  PROVE  LaterPart(q) = LaterPart(p)
<1> DEFINE a == ContinuationHeader
           c == a + p.len
           pd == p.data
           qd == q.data
<1>1. pd \in PageData /\ qd \in PageData /\ p.len \in Nat /\ p.len <= PageSize - ContinuationHeader
  BY PageConstants DEF Page
<1>2. a \in Nat /\ c \in Nat /\ a <= c /\ c <= PageSize /\ c <= w
  BY <1>1, PageConstants
<1>3. LaterPart(q) = SubSeq(qd, a + 1, c) /\ LaterPart(p) = SubSeq(pd, a + 1, c)
  BY DEF LaterPart
<1>4. \A i \in 1 .. PageSize : i <= w => qd[i] = pd[i]
  OBVIOUS
<1> HIDE DEF a, c, pd, qd
<1>5. \A i \in 1 .. PageSize : i <= c => qd[i] = pd[i]
  BY <1>2, <1>4, PageConstants
<1>6. SubSeq(qd, a + 1, c) = SubSeq(pd, a + 1, c)
  BY <1>1, <1>2, <1>5, PageReadsSame
<1>7. QED
  BY <1>3, <1>6

\* A list that is written stays as it is while more is written.
LEMMA ListStays ==
  ASSUME NEW w, NEW o, GrowsFrom(w, o), NEW x \in Entry, EntryOk(x), ListClosed(o, x)
  PROVE  ListClosed(w, x) /\ Reads(w, x) = Reads(o, x)
<1> DEFINE a == Len(o.index)
           m == Len(w.index)
           top == x.block + x.cont
           t == [index |-> Pages(w)]
           u == [index |-> Pages(o)]
           now == Pages(w)[a + 1]
<1>1. w \in Build /\ o \in Build
  BY DEF GrowsFrom
<1>2. /\ x.block \in Nat /\ x.cont \in Nat /\ x.offset \in Nat /\ x.length \in Nat
      /\ x.offset + x.length <= PageSize
  BY DEF Entry, EntryOk
<1>3. /\ a \in Nat /\ m \in Nat /\ Pages(o)[a + 1] = o.cur /\ Pages(w)[m + 1] = w.cur
      /\ Pages(w) \in Seq(Page) /\ Len(Pages(w)) = m + 1
  BY <1>1, PagesAre
<1>4. /\ a <= m /\ \A i \in 1 .. a : Pages(w)[i] = Pages(o)[i]
      /\ now.len = o.cur.len
      /\ \A i \in 1 .. PageSize : i <= o.wptr => now.data[i] = o.cur.data[i]
      /\ m = a => o.wptr <= w.wptr
  BY DEF GrowsFrom
<1>5. /\ top < a \/ (top = a /\ IF x.cont = 0 THEN x.offset + x.length <= o.wptr
                                ELSE ContinuationHeader + o.cur.len <= o.wptr)
  BY DEF ListClosed
<1>6. top \in Nat /\ top <= a
  BY <1>2, <1>3, <1>5
<1>7. o.wptr \in Nat /\ w.wptr \in Nat /\ o.cur \in Page /\ o.wptr <= PageSize
  BY <1>1, BuildFields
<1>8. now \in Page
  <2>1. a + 1 \in 1 .. m + 1
    BY <1>3, <1>4
  <2>2. QED
    BY <2>1, <1>3, SeqElements
<1> HIDE DEF a, m
<1>9. ListClosed(w, x)
  <2>1. CASE top < m
    BY <2>1 DEF ListClosed, m
  <2>2. CASE top = m
    <3>1. a = m /\ top = a
      BY <2>2, <1>3, <1>4, <1>6
    <3>2. w.cur = now /\ o.wptr <= w.wptr
      BY <3>1, <1>3, <1>4
    <3>3. o.cur.len \in Nat /\ ContinuationHeader \in Nat
      BY <1>7, PageConstants DEF Page
    <3>4. CASE x.cont = 0
      <4>1. x.offset + x.length <= o.wptr
        BY <3>1, <3>4, <1>5, <1>6
      <4>2. x.offset + x.length <= w.wptr
        BY <4>1, <3>2, <1>2, <1>7
      <4>3. QED
        BY <4>2, <2>2, <3>4 DEF ListClosed, m
    <3>5. CASE x.cont # 0
      <4>1. ContinuationHeader + o.cur.len <= o.wptr
        BY <3>1, <3>5, <1>5, <1>6
      <4>2. ContinuationHeader + w.cur.len <= w.wptr
        <5>1. w.cur.len = o.cur.len
          BY <3>2, <1>4
        <5> DEFINE l == o.cur.len
        <5>2. l \in Nat /\ ContinuationHeader + l <= o.wptr
          BY <4>1, <3>3
        <5> HIDE DEF l
        <5>3. ContinuationHeader + l <= w.wptr
          BY <5>2, <3>2, <3>3, <1>7
        <5>4. QED
          BY <5>1, <5>3 DEF l
      <4>3. QED
        BY <4>2, <2>2, <3>5 DEF ListClosed, m
    <3>6. QED
      BY <3>4, <3>5
  <2>3. QED
    BY <2>1, <2>2, <1>3, <1>4, <1>6
<1>10. ASSUME NEW i \in 0 .. x.cont, x.block + i # a
       PROVE  PageAt(t, x.block + i) = PageAt(u, x.block + i)
  <2>1. x.block + i + 1 \in 1 .. a
    BY <1>2, <1>3, <1>6, <1>10
  <2>2. QED
    BY <2>1, <1>4 DEF PageAt
<1>11. PageAt(t, a) = now /\ PageAt(u, a) = o.cur
  BY <1>3 DEF PageAt
<1> HIDE DEF t, u, now
<1>12. FirstPart(t, x) = FirstPart(u, x)
  <2>1. CASE x.block = a
    <3> DEFINE f == x.offset
               e == x.offset + x.length
               pd == o.cur.data
               qd == now.data
    <3>1. x.cont = 0 /\ e <= o.wptr
      BY <2>1, <1>2, <1>3, <1>5, <1>6
    <3>2. pd \in PageData /\ qd \in PageData
      BY <1>7, <1>8 DEF Page
    <3>3. f \in Nat /\ e \in Nat /\ f <= e /\ e <= PageSize
      BY <1>2
    <3>4. FirstPart(t, x) = SubSeq(qd, f + 1, e) /\ FirstPart(u, x) = SubSeq(pd, f + 1, e)
      BY <2>1, <1>11 DEF FirstPart
    <3>5. \A i \in 1 .. PageSize : i <= o.wptr => qd[i] = pd[i]
      BY <1>4
    <3> HIDE DEF f, e, pd, qd
    <3>6. \A i \in 1 .. PageSize : i <= e => qd[i] = pd[i]
      BY <3>1, <3>3, <3>5, <1>7, PageConstants
    <3>7. SubSeq(qd, f + 1, e) = SubSeq(pd, f + 1, e)
      BY <3>2, <3>3, <3>6, PageReadsSame
    <3>8. QED
      BY <3>4, <3>7
  <2>2. CASE x.block # a
    <3>1. x.block + 0 = x.block /\ 0 \in 0 .. x.cont
      BY <1>2
    <3>2. PageAt(t, x.block) = PageAt(u, x.block)
      BY <3>1, <2>2, <1>10
    <3>3. QED
      BY <3>2 DEF FirstPart
  <2>3. QED
    BY <2>1, <2>2
<1>13. ASSUME NEW i \in 1 .. x.cont
       PROVE  LaterPart(PageAt(t, x.block + i)) = LaterPart(PageAt(u, x.block + i))
  <2>1. CASE x.block + i = a
    <3>1. x.cont # 0 /\ top = a
      BY <2>1, <1>2, <1>3, <1>6
    <3>2. ContinuationHeader + o.cur.len <= o.wptr
      BY <3>1, <1>3, <1>5
    <3> DEFINE p == o.cur
    <3>3. p \in Page /\ p.len = now.len /\ ContinuationHeader + p.len <= o.wptr
          /\ \A j \in 1 .. PageSize : j <= o.wptr => now.data[j] = p.data[j]
      BY <3>2, <1>4, <1>7
    <3> HIDE DEF p
    <3>4. LaterPart(now) = LaterPart(p)
      BY <3>3, <1>7, <1>8, SameLaterPart
    <3>5. QED
      BY <3>4, <2>1, <1>11 DEF p
  <2>2. CASE x.block + i # a
    <3>1. i \in 0 .. x.cont
      BY <1>2
    <3>2. QED
      BY <3>1, <2>2, <1>10
  <2>3. QED
    BY <2>1, <2>2
<1>14. PostingBytes(t, x) = PostingBytes(u, x)
  BY <1>12, <1>13, PostingBytesSame
<1>15. QED
  BY <1>9, <1>14 DEF Reads, t, u

\* What is read under the entry of the list that was written is the list.
LEMMA NewListReads ==
  ASSUME NEW w, NEW o, GrowsFrom(w, o), NEW bytes \in Seq(Nat), NEW here \in 1 .. Len(bytes),
         Holds(w, o, bytes, here), NEW x,
         x.block = Len(o.index), x.offset = o.wptr, x.length = here, x.cont = w.cont
  PROVE  ListClosed(w, x) /\ Reads(w, x) = bytes
<1> DEFINE t == [index |-> Pages(w)]
           n == Len(bytes)
<1>1. FirstPart(t, x) = SubSeq(bytes, 1, here)
  <2>1. PageAt(t, x.block) = Pages(w)[Len(o.index) + 1]
    BY DEF PageAt
  <2> HIDE DEF t
  <2>2. QED
    BY <2>1 DEF FirstPart, Holds
<1>2. FlattenSeq([i \in 1 .. x.cont |-> LaterPart(PageAt(t, x.block + i))]) = SubSeq(bytes, here + 1, n)
  <2>1. [i \in 1 .. x.cont |-> LaterPart(PageAt(t, x.block + i))]
          = [i \in 1 .. w.cont |-> LaterPart(Pages(w)[Len(o.index) + i + 1])]
    BY DEF PageAt
  <2>2. QED
    BY <2>1 DEF Holds
<1> HIDE DEF t
<1>3. SubSeq(bytes, 1, here) \o SubSeq(bytes, here + 1, n) = bytes
  <2>1. 0 \in Nat /\ here \in Nat /\ n \in Nat /\ 0 <= here /\ here <= n /\ 0 + 1 = 1
    OBVIOUS
  <2>2. SubSeq(bytes, 0 + 1, here) \o SubSeq(bytes, here + 1, n) = SubSeq(bytes, 0 + 1, n)
    BY <2>1, SubSeqJoin
  <2>3. SubSeq(bytes, 1, n) = bytes
    OBVIOUS
  <2>4. QED
    BY <2>1, <2>2, <2>3
<1>4. Reads(w, x) = bytes
  BY <1>1, <1>2, <1>3, PostingBytesParts DEF Reads, t
<1>5. ListClosed(w, x)
  <2>1. w \in Build /\ o \in Build
    BY DEF GrowsFrom
  <2>2. w.wptr \in Nat /\ w.cont \in Nat /\ o.wptr \in Nat /\ Len(o.index) \in Nat
    BY <2>1, BuildFields
  <2>3. /\ Len(w.index) = Len(o.index) + w.cont
        /\ w.wptr = IF w.cont = 0 THEN o.wptr + here ELSE ContinuationHeader + w.cur.len
    BY DEF Holds
  <2>4. x.block + x.cont = Len(w.index)
    BY <2>3
  <2>5. IF x.cont = 0 THEN x.offset + x.length <= w.wptr ELSE ContinuationHeader + w.cur.len <= w.wptr
    BY <2>2, <2>3
  <2>6. QED
    BY <2>4, <2>5 DEF ListClosed
<1>6. QED
  BY <1>4, <1>5

---------------------------------------------------------------------------
(* One term of BuildBlocks *)

\* LTE_ContinuationBlockCount can count the blocks of a list among n blocks.
Countable(n, list) == n < U16 \/ Len(encode(list)) < U16

\* x is the entry of a list and the list is on its blocks.
ListOf(b, list, x) ==
  /\ list # <<>> /\ x.df = Len(list)
  /\ Countable(Len(b.index), list) => ListClosed(b, x) /\ Reads(b, x) = encode(list)

\* Every list up to key k is in the table being built, and no other.
ListsIn(b, st, k) ==
  /\ \A j \in 1 .. k : TermLength[j] <= HeadTermKeyMax /\ st[j] # <<>>
                         => \E x : InDir(Dir(b), x) /\ x.key = j
  /\ \A x : InDir(Dir(b), x) => ListOf(b, st[x.key], x)

LEMMA ListsStay ==
  ASSUME NEW w, NEW o, GrowsFrom(w, o), SameDir(w, o), NEW st, NEW k, ListsIn(o, st, k),
         \A x : InDir(Dir(o), x) => x \in Entry /\ EntryOk(x)
  PROVE  ListsIn(w, st, k)
<1>1. Dir(w) = Dir(o)
  BY DEF SameDir, Dir
<1>2. ASSUME NEW x, InDir(Dir(o), x) PROVE ListOf(w, st[x.key], x)
  <2> DEFINE list == st[x.key]
             a == Len(o.index)
             m == Len(w.index)
  <2>1. x \in Entry /\ EntryOk(x) /\ ListOf(o, list, x)
    BY <1>2 DEF ListsIn
  <2>2. a \in Nat /\ m \in Nat /\ a <= m /\ U16 \in Nat
    BY PagesAre, PostingBlocksAssumption DEF GrowsFrom
  <2> HIDE DEF a, m
  <2>3. Countable(m, list) => Countable(a, list)
    BY <2>2 DEF Countable
  <2>4. ASSUME Countable(m, list) PROVE ListClosed(w, x) /\ Reads(w, x) = encode(list)
    <3>1. ListClosed(o, x) /\ Reads(o, x) = encode(list)
      BY <2>1, <2>3, <2>4 DEF ListOf, a
    <3>2. ListClosed(w, x) /\ Reads(w, x) = Reads(o, x)
      BY <3>1, <2>1, ListStays
    <3>3. QED
      BY <3>1, <3>2
  <2>5. QED
    BY <2>1, <2>4 DEF ListOf, m
<1>3. QED
  BY <1>1, <1>2 DEF ListsIn

\* The longest pair fits into a continuation block.
PairsFit(list) == \A i \in DOMAIN list : Len(vb_write(list[i].doc)) < PageSize - ContinuationHeader

LEMMA AddTermLists ==
  ASSUME NEW b, NEW k \in Nat, k + 1 \in Keys, BuildOk(b, k),
         NEW T, NEW st \in [Keys -> Seq([doc : Nat, tf : T])], PairsFit(st[k + 1]),
         ListsIn(b, st, k)
  PROVE  ListsIn(AddTerm(b, k + 1, st[k + 1]), st, k + 1)
<1> DEFINE key == k + 1
           list == st[key]
           bytes == encode(list)
           o == OpenPage(b, bytes)
           here == PostingPrefixBytes(bytes, PageSize - o.wptr)
           w == WriteList(o, bytes, here)
           e == [key |-> key, df |-> Len(list), block |-> Len(o.index),
                 offset |-> o.wptr, length |-> here, cont |-> w.cont % U16]
           P == PageSize - ContinuationHeader
           none == TermLength[key] > HeadTermKeyMax \/ list = <<>>
<1>1. AddTerm(b, key, list) = IF none THEN b ELSE IF here = 0 THEN o ELSE AddLeafEntry(w, e)
  BY Zenon DEF AddTerm
<1>2. b \in Build /\ key \in Nat /\ 1 .. key = 1 .. k \cup {key}
  BY DEF BuildOk
<1>3. list \in Seq([doc : Nat, tf : T]) /\ Len(list) \in Nat
  <2>1. list \in Seq([doc : Nat, tf : T])
    OBVIOUS
  <2> HIDE DEF list
  <2>2. QED
    BY <2>1
<1>4. TermLength[key] \in Nat /\ HeadTermKeyMax \in Nat
  BY PostingBlocksAssumption
<1>5. CASE none
  <2>1. ~(TermLength[key] <= HeadTermKeyMax /\ st[key] # <<>>)
    BY <1>4, <1>5
  <2>2. ListsIn(b, st, key)
    BY <2>1, <1>2 DEF ListsIn
  <2>3. QED
    BY <1>1, <1>5, <2>2
<1>6. CASE ~none
  <2>1. P \in Nat /\ PageSize \in Nat /\ P <= PageSize
    BY PageConstants
  <2>2. bytes \in Seq(Nat) /\ Len(bytes) > 0 /\ \E B : Marks(B, bytes, P)
    <3>1. \A i \in DOMAIN list : Len(vb_write(list[i].doc)) < P
      BY DEF PairsFit
    <3>2. list # <<>>
      BY <1>6
    <3> HIDE DEF list, P
    <3>3. QED
      BY <3>1, <3>2, <1>3, <2>1, EncodeMarks
  <2>3. PICK B : Marks(B, bytes, P)
    BY <2>2
  <2> HIDE DEF bytes
  <2>4. o \in Build /\ SameDir(o, b)
    BY <1>2, OpenPageKeeps
  <2>5. \/ o = b /\ here # 0
        \/ GrowsFrom(o, b) /\ o.wptr = 0
    <3>1. CASE b.wptr >= PageSize \/ PostingPrefixBytes(bytes, PageSize - b.wptr) = 0
      <4>1. o = flush_index_block(b)
        BY <3>1 DEF OpenPage
      <4>2. QED
        BY <4>1, <1>2, FlushGrows, FlushIndexPages
    <3>2. CASE ~(b.wptr >= PageSize \/ PostingPrefixBytes(bytes, PageSize - b.wptr) = 0)
      <4>1. o = b
        BY <3>2 DEF OpenPage
      <4>2. QED
        BY <4>1, <3>2
    <3>3. QED
      BY <3>1, <3>2
  <2> HIDE DEF o
  <2>6. o.wptr \in Nat /\ o.wptr <= PageSize /\ Len(o.index) \in Nat
    BY <2>4, BuildFields
  <2> DEFINE c == PageSize - o.wptr
  <2>7. c \in Nat
    BY <2>1, <2>6
  <2> HIDE DEF P
  <2>8. here \in B /\ (P <= c => here > 0) /\ here \in 0 .. c /\ here <= Len(bytes)
    <3>1. here = PostingPrefixBytes(bytes, c)
      OBVIOUS
    <3> HIDE DEF c, here
    <3>2. here \in B /\ (P <= c => here > 0)
      BY <3>1, <2>1, <2>2, <2>3, <2>7, PrefixOnMark
    <3>3. here \in 0 .. c /\ here <= Len(bytes)
      BY <3>1, <2>2, <2>7, CutInside
    <3>4. QED
      BY <3>2, <3>3
  <2> HIDE DEF here
  <2>9. here > 0
    BY <2>1, <2>5, <2>7, <2>8
  <2>10. here \in 1 .. Len(bytes) /\ here <= PageSize - o.wptr /\ here \in Nat
    BY <2>2, <2>7, <2>8, <2>9
  <2>11. LET rest == SubSeq(bytes, here + 1, Len(bytes)) IN BlockEnds(rest)[Len(rest)] = Len(rest)
    <3> DEFINE rest == SubSeq(bytes, here + 1, Len(bytes))
    <3>1. Marks(From(B, here), rest, P)
      BY <2>1, <2>2, <2>3, <2>8, MarksSuffix
    <3>2. rest \in Seq(Nat)
      BY <2>2, <2>10, SubSeqElements
    <3>3. P <= PageSize - ContinuationHeader
      BY <2>1 DEF P
    <3> HIDE DEF rest
    <3>4. BlockEnds(rest)[Len(rest)] = Len(rest)
      BY <2>1, <3>1, <3>2, <3>3, BlockEndsReach
    <3>5. QED
      BY <3>4 DEF rest
  <2>12. GrowsFrom(w, o) /\ Holds(w, o, bytes, here)
    BY <2>2, <2>4, <2>10, <2>11, ListWritten
  <2>13. Wrote(w, o)
    BY <2>2, <2>4, <2>10, WriteListWrites
  <2> HIDE DEF w
  <2>14. w \in Build /\ SameDir(w, b) /\ w.cont \in Nat /\ Len(w.index) \in Nat
    BY <2>4, <2>13, BuildFields DEF Wrote, SameDir
  <2>15. Dir(w) = Dir(b) /\ Dir(o) = Dir(b) /\ w.head = HeadOf(w.leaf) /\ Ascending(Dir(w))
    BY <2>4, <2>14 DEF SameDir, Dir, BuildOk
  <2>16. \A x : InDir(Dir(b), x) => x \in Entry /\ EntryOk(x) /\ x.key <= k
    BY DEF BuildOk
  <2>17. ListsIn(w, st, k)
    <3>1. ListsIn(o, st, k)
      <4>1. CASE o = b
        BY <4>1
      <4>2. CASE GrowsFrom(o, b)
        BY <4>2, <2>4, <2>16, ListsStay
      <4>3. QED
        BY <4>1, <4>2, <2>5
    <3>2. SameDir(w, o)
      BY <2>13 DEF Wrote
    <3>3. QED
      BY <3>1, <3>2, <2>12, <2>15, <2>16, ListsStay
  <2>18. w.cont % U16 \in Nat /\ (w.cont < U16 => w.cont % U16 = w.cont) /\ U16 \in Nat
    BY <2>14, RemainderSmaller, PostingBlocksAssumption
  <2>19. e \in Entry /\ e.key = key
    BY <1>3, <2>6, <2>10, <2>18 DEF Entry
  <2>20. ListOf(w, list, e)
    <3>1. ASSUME Countable(Len(w.index), list) PROVE ListClosed(w, e) /\ Reads(w, e) = bytes
      <4>1. w.cont < U16
        <5> DEFINE a == Len(o.index)
                   m == Len(w.index)
                   j == w.cont
                   l == Len(bytes)
        <5>1. a \in Nat /\ m \in Nat /\ j \in Nat /\ l \in Nat /\ m = a + j /\ j <= l
          BY <2>2, <2>6, <2>12, <2>14 DEF Holds
        <5>2. m < U16 \/ l < U16
          BY <3>1 DEF Countable, bytes
        <5> HIDE DEF a, m, j, l
        <5>3. j < U16
          BY <5>1, <5>2, <2>18
        <5>4. QED
          BY <5>3 DEF j
      <4>2. e.block = Len(o.index) /\ e.offset = o.wptr /\ e.length = here /\ e.cont = w.cont
        BY <4>1, <2>18
      <4> HIDE DEF e
      <4>3. QED
        BY <4>2, <2>2, <2>10, <2>12, NewListReads
    <3>2. list # <<>> /\ e.df = Len(list)
      BY <1>6
    <3> HIDE DEF e
    <3>3. QED
      BY <3>1, <3>2 DEF ListOf, bytes
  <2> DEFINE r == AddLeafEntry(w, e)
  <2> HIDE DEF e
  <2>21. Grown(r, w, e)
    <3>1. ASSUME NEW x, InDir(Dir(w), x) PROVE x.key < e.key
      <4>1. x \in Entry /\ x.key <= k
        BY <3>1, <2>15, <2>16
      <4>2. x.key \in Nat
        BY <4>1, EntryKey
      <4>3. QED
        BY <4>1, <4>2, <2>19
    <3>2. QED
      BY <3>1, <2>14, <2>15, <2>19, AddLeafEntryGrows
  <2>22. AddTerm(b, key, list) = r
    BY <1>1, <1>6, <2>9
  <2> HIDE DEF r, list, key
  <2>23. \A x, l : ListOf(w, l, x) => ListOf(r, l, x)
    BY <2>21 DEF Grown, SameIndex, ListOf, ListClosed, Reads, Pages
  <2>24. ASSUME NEW x, InDir(Dir(r), x) PROVE ListOf(r, st[x.key], x)
    <3>1. InDir(Dir(w), x) \/ x = e
      BY <2>21, <2>24 DEF Grown
    <3>2. ListOf(w, st[x.key], x)
      BY <3>1, <2>17, <2>19, <2>20 DEF ListsIn, list
    <3>3. QED
      BY <3>2, <2>23
  <2>25. ASSUME NEW j \in 1 .. key, TermLength[j] <= HeadTermKeyMax /\ st[j] # <<>>
         PROVE  \E x : InDir(Dir(r), x) /\ x.key = j
    <3>1. CASE j = key
      BY <3>1, <2>19, <2>21 DEF Grown
    <3>2. CASE j \in 1 .. k
      BY <3>2, <2>17, <2>21, <2>25 DEF Grown, ListsIn
    <3>3. QED
      BY <3>1, <3>2, <1>2
  <2>26. ListsIn(r, st, key)
    BY <2>24, <2>25 DEF ListsIn
  <2>27. QED
    BY <2>22, <2>26 DEF key, list
<1>7. QED
  BY <1>5, <1>6

---------------------------------------------------------------------------
(* BuildBlocks keeps every list *)

LEMMA BuiltListsIn ==
  ASSUME NEW T, NEW st \in [Keys -> Seq([doc : Nat, tf : T])], \A k \in Keys : PairsFit(st[k])
  PROVE  ListsIn(Built(st)[Cardinality(Keys)], st, Cardinality(Keys))
<1> DEFINE g == Built(st)
           N == Cardinality(Keys)
<1>1. BuiltOk(g, st, N)
  <2>1. \E h : BuiltOk(h, st, N)
    BY BuiltExists, KeysAreNumbers
  <2>2. QED
    BY <2>1, Zenon DEF Built, BuiltOk
<1>2. N \in Nat /\ Keys = 1 .. N
  BY KeysAreNumbers, PostingBlocksAssumption
<1> HIDE DEF g, N
<1> DEFINE I == {k \in Nat : k <= N => BuildOk(g[k], k) /\ ListsIn(g[k], st, k)}
<1>3. 0 \in I
  <2>1. g[0] = EmptyBuild
    BY <1>1, <1>2 DEF BuiltOk
  <2>2. Dir(EmptyBuild) = <<>>
    BY DEF Dir, EmptyBuild
  <2>3. \A x : ~InDir(<<>>, x)
    BY DEF InDir
  <2>4. ListsIn(EmptyBuild, st, 0)
    BY <2>2, <2>3 DEF ListsIn
  <2>5. QED
    BY <2>1, <2>4, EmptyBuildOk
<1>4. ASSUME NEW k \in Nat, k \in I PROVE k + 1 \in I
  <2>1. SUFFICES ASSUME k + 1 <= N PROVE BuildOk(g[k + 1], k + 1) /\ ListsIn(g[k + 1], st, k + 1)
    OBVIOUS
  <2>2. /\ BuildOk(g[k], k) /\ ListsIn(g[k], st, k)
        /\ k + 1 \in Keys /\ k + 1 \in 0 .. N /\ (k + 1) - 1 = k /\ k + 1 # 0
    BY <1>2, <1>4, <2>1
  <2>3. g[k + 1] = AddTerm(g[k], k + 1, st[k + 1])
    BY <2>2, <1>1 DEF BuiltOk
  <2>4. st[k + 1] \in Seq([doc : Nat, tf : T]) /\ PairsFit(st[k + 1])
    BY <2>2
  <2>5. BuildOk(AddTerm(g[k], k + 1, st[k + 1]), k + 1)
    BY <2>2, <2>4, AddTermKeeps
  <2>6. ListsIn(AddTerm(g[k], k + 1, st[k + 1]), st, k + 1)
    BY <2>2, <2>4, AddTermLists
  <2>7. QED
    BY <2>3, <2>5, <2>6
<1> HIDE DEF I
<1>5. \A k \in Nat : k \in I
  BY <1>3, <1>4, NatSetInduction
<1>6. ListsIn(g[N], st, N)
  BY <1>2, <1>5 DEF I
<1>7. QED
  BY <1>6 DEF g, N

\* Every list is in the table, and no other.
TableLists(t, st) ==
  /\ \A j \in Keys : TermLength[j] <= HeadTermKeyMax /\ st[j] # <<>>
                       => \E x : InDir(t.leaf, x) /\ x.key = j
  /\ \A x : InDir(t.leaf, x) =>
       /\ st[x.key] # <<>> /\ x.df = Len(st[x.key])
       /\ Countable(Len(t.index), st[x.key]) => PostingBytes(t, x) = encode(st[x.key])

LEMMA BuildBlocksLists ==
  ASSUME NEW T, NEW st \in [Keys -> Seq([doc : Nat, tf : T])], \A k \in Keys : PairsFit(st[k])
  PROVE  TableLists(BuildBlocks(st), st)
<1> DEFINE N == Cardinality(Keys)
           b == Built(st)[N]
           c == IF b.wptr > 0 THEN flush_index_block(b) ELSE b
           r == flush_leaf_block(c)
           t == TableOf(r)
           a == Len(b.index)
<1>1. BuildBlocks(st) = t
  BY Zenon DEF BuildBlocks
<1>2. BuildOk(b, N) /\ N \in Nat /\ Keys = 1 .. N /\ ListsIn(b, st, N)
  BY BuiltSteps, BuiltListsIn, KeysAreNumbers, PostingBlocksAssumption
<1> HIDE DEF N, b
<1>3. b \in Build /\ a \in Nat /\ b.wptr \in Nat
  BY <1>2, BuildFields DEF BuildOk
<1>4. c \in Build /\ SameDir(c, b) /\ Len(c.index) \in Nat /\ a <= Len(c.index)
      /\ ((c.index = b.index /\ b.wptr = 0) \/ c.index = Pages(b))
  <2>1. CASE b.wptr > 0
    BY <2>1, <1>3, FlushIndex, FlushIndexPages
  <2>2. CASE ~(b.wptr > 0)
    BY <2>2, <1>3 DEF SameDir
  <2>3. QED
    BY <2>1, <2>2
<1> HIDE DEF c
<1>5. c.head = HeadOf(c.leaf) /\ Dir(c) = Dir(b)
  BY <1>2, <1>4 DEF SameDir, Dir, BuildOk
<1>6. r \in Build /\ SameIndex(r, c) /\ r.leaf = Dir(b)
  BY <1>4, <1>5, FlushLeaf
<1> HIDE DEF r
<1>7. t.leaf = Dir(b) /\ t.index = c.index
  BY <1>6 DEF TableOf, SameIndex
<1> HIDE DEF t, a
<1>8. ASSUME NEW x, InDir(Dir(b), x), Countable(Len(t.index), st[x.key])
      PROVE  PostingBytes(t, x) = encode(st[x.key])
  <2> DEFINE u == [index |-> Pages(b)]
  <2>1. x \in Entry /\ Reach(b, x) /\ ListOf(b, st[x.key], x)
    BY <1>2, <1>8 DEF BuildOk, ListsIn
  <2>2. x.block \in Nat /\ x.cont \in Nat
    BY <2>1 DEF Entry
  <2>3. Countable(a, st[x.key])
    <3> DEFINE m == Len(c.index)
    <3>1. m \in Nat /\ a <= m /\ Countable(m, st[x.key]) /\ U16 \in Nat
      BY <1>4, <1>7, <1>8, PostingBlocksAssumption
    <3> HIDE DEF m
    <3>2. QED
      BY <3>1, <1>3 DEF Countable
  <2>4. PostingBytes(u, x) = encode(st[x.key])
    BY <2>1, <2>3 DEF ListOf, Reads, a
  <2>5. ASSUME NEW i \in 0 .. x.cont PROVE PageAt(t, x.block + i) = PageAt(u, x.block + i)
    <3> DEFINE j == x.block + i + 1
    <3>1. CASE c.index = Pages(b)
      BY <3>1, <1>7 DEF PageAt
    <3>2. CASE c.index = b.index /\ b.wptr = 0
      <4>1. x.block + x.cont < a
        BY <3>2, <2>1 DEF Reach, a
      <4>2. j \in 1 .. a
        BY <4>1, <2>2, <1>3
      <4> HIDE DEF j
      <4>3. Pages(b)[j] = b.index[j]
        BY <4>2, <1>3, PagesAre DEF a
      <4>4. QED
        BY <4>3, <3>2, <1>7 DEF PageAt, j
    <3>3. QED
      BY <3>1, <3>2, <1>4
  <2> HIDE DEF u
  <2>6. FirstPart(t, x) = FirstPart(u, x)
    <3>1. x.block + 0 = x.block /\ 0 \in 0 .. x.cont
      BY <2>2
    <3>2. PageAt(t, x.block) = PageAt(u, x.block)
      BY <3>1, <2>5
    <3>3. QED
      BY <3>2 DEF FirstPart
  <2>7. \A i \in 1 .. x.cont : LaterPart(PageAt(t, x.block + i)) = LaterPart(PageAt(u, x.block + i))
    <3>1. \A i \in 1 .. x.cont : i \in 0 .. x.cont
      BY <2>2
    <3>2. QED
      BY <3>1, <2>5
  <2>8. PostingBytes(t, x) = PostingBytes(u, x)
    BY <2>6, <2>7, PostingBytesSame
  <2>9. QED
    BY <2>4, <2>8
<1>9. TableLists(t, st)
  BY <1>2, <1>7, <1>8 DEF TableLists, ListsIn, ListOf
<1>10. QED
  BY <1>1, <1>9
=============================================================================
