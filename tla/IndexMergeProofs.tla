-------------------------- MODULE IndexMergeProofs --------------------------
(***************************************************************************)
(* The merge of two indexes is right for every number of terms, postings,  *)
(* pages and batches: the posting lists are sorted, the directories too,   *)
(* no byte of a list is lost, and a merge ends and fails only for a cause. *)
(***************************************************************************)
EXTENDS MergeLemmas, DocPathsProofs

---------------------------------------------------------------------------
(* The postings in memory *)

AnyTf == UNION {Tfs[s] : s \in Side}
Posting == [doc : Nat, tf : AnyTf]
Stores == [Keys -> Seq(Posting)]

\* g is a followed by b.
Joined(g, S, a, b) ==
  /\ g \in Seq(S) /\ Len(g) = Len(a) + Len(b)
  /\ \A k \in 1 .. Len(a) : g[k] = a[k]
  /\ \A k \in 1 .. Len(b) : g[Len(a) + k] = b[k]

LEMMA ConcatJoins ==
  ASSUME NEW S, NEW a \in Seq(S), NEW b \in Seq(S)
  PROVE  Joined(a \o b, S, a, b)
  BY ConcatElements DEF Joined

\* g is s with one more element, after the first n.
Inserted(g, S, s, n, e) ==
  /\ g \in Seq(S) /\ Len(g) = Len(s) + 1
  /\ \A i \in 1 .. n : g[i] = s[i]
  /\ g[n + 1] = e
  /\ \A i \in n + 1 .. Len(s) : g[i + 1] = s[i]

LEMMA InsertAtElements ==
  ASSUME NEW S, NEW s \in Seq(S), NEW n \in 0 .. Len(s), NEW e \in S
  PROVE  Inserted(InsertAt(s, n + 1, e), S, s, n, e)
<1> DEFINE z == 0
           m == Len(s)
           a == SubSeq(s, z + 1, n)
           b == SubSeq(s, n + 1, m)
           one == <<e>>
           ae == a \o one
           g == ae \o b
<1>1. z \in Nat /\ m \in Nat /\ n \in Nat /\ z <= n /\ n <= m /\ n - z = n
  OBVIOUS
<1>2. InsertAt(s, n + 1, e) = g
  <2>1. (n + 1) - 1 = n /\ z + 1 = 1
    OBVIOUS
  <2>2. QED
    BY <2>1 DEF InsertAt
<1>3. one \in Seq(S) /\ Len(one) = 1 /\ one[1] = e
  OBVIOUS
<1>4. \A i \in 1 .. n : z + i = i
  OBVIOUS
<1> HIDE DEF z, one
<1>5. \A x, y \in Nat : x <= y /\ y <= m =>
        /\ SubSeq(s, x + 1, y) \in Seq(S) /\ Len(SubSeq(s, x + 1, y)) = y - x
        /\ \A i \in 1 .. y - x : SubSeq(s, x + 1, y)[i] = s[x + i]
  BY SubSeqElements
<1>6. a \in Seq(S) /\ Len(a) = n /\ \A i \in 1 .. n : a[i] = s[i]
  BY <1>1, <1>4, <1>5
<1>7. b \in Seq(S) /\ Len(b) = m - n /\ \A i \in 1 .. m - n : b[i] = s[n + i]
  BY <1>1, <1>5
<1> HIDE DEF a, b
<1>9. ae \in Seq(S) /\ Len(ae) = n + 1 /\ ae[n + 1] = e /\ \A i \in 1 .. n : ae[i] = s[i]
  <2>1. ae \in Seq(S) /\ Len(ae) = n + 1 /\ (\A k \in 1 .. n : ae[k] = a[k])
        /\ (\A k \in 1 .. 1 : ae[n + k] = one[k])
    <3>1. Joined(ae, S, a, one)
      BY <1>3, <1>6, ConcatJoins
    <3> HIDE DEF ae
    <3>2. QED
      BY <3>1, <1>3, <1>6 DEF Joined
  <2>2. 1 \in 1 .. 1
    OBVIOUS
  <2> HIDE DEF ae
  <2>3. QED
    BY <2>1, <2>2, <1>3, <1>6
<1> HIDE DEF ae
<1>10. /\ g \in Seq(S) /\ Len(g) = (n + 1) + (m - n)
       /\ (\A k \in 1 .. n + 1 : g[k] = ae[k])
       /\ (\A k \in 1 .. m - n : g[(n + 1) + k] = b[k])
  <2>1. Joined(g, S, ae, b)
    BY <1>7, <1>9, ConcatJoins
  <2> HIDE DEF g
  <2>2. QED
    BY <2>1, <1>1, <1>7, <1>9 DEF Joined
<1> HIDE DEF g
<1>11. Len(g) = m + 1 /\ g[n + 1] = e /\ \A i \in 1 .. n : g[i] = s[i]
  <2> HIDE DEF m
  <2>1. (n + 1) + (m - n) = m + 1 /\ n + 1 \in 1 .. n + 1 /\ \A i \in 1 .. n : i \in 1 .. n + 1
    BY <1>1
  <2>2. QED
    BY <2>1, <1>9, <1>10
<1>12. ASSUME NEW i \in n + 1 .. m PROVE g[i + 1] = s[i]
  <2> DEFINE k == i - n
  <2>1. k \in 1 .. m - n /\ (n + 1) + k = i + 1 /\ n + k = i
    BY <1>1
  <2> HIDE DEF k
  <2>2. QED
    BY <2>1, <1>7, <1>10
<1>13. QED
  BY <1>2, <1>10, <1>11, <1>12 DEF Inserted

\* new has the documents of list, and doc.
DocsFrom(new, list, doc) ==
  \A i \in DOMAIN new : new[i].doc = doc \/ \E j \in DOMAIN list : new[i].doc = list[j].doc

\* r is st with doc added under key.
WithPosting(r, st, key, doc) ==
  /\ r \in Stores /\ \A k \in Keys : SortedList(r[k])
  /\ \A k \in Keys : k # key => r[k] = st[k]
  /\ IF \E i \in DOMAIN st[key] : st[key][i].doc = doc THEN Len(r[key]) = Len(st[key])
                                                      ELSE Len(r[key]) = Len(st[key]) + 1
  /\ DocsFrom(r[key], st[key], doc)

\* AddPosting keeps a list sorted; it gets at most one element more.
LEMMA AddPostingSorted ==
  ASSUME NEW st \in Stores, NEW key \in Keys, NEW doc \in Nat, NEW tf \in AnyTf,
         \A k \in Keys : SortedList(st[k])
  PROVE  WithPosting(AddPosting(st, key, doc, tf), st, key, doc)
<1> DEFINE list == st[key]
           n == Len(list)
           entry == [doc |-> doc, tf |-> tf]
           same == {i \in DOMAIN list : list[i].doc = doc}
           lower == {0} \cup {i \in DOMAIN list : list[i].doc < doc}
           below == Max(lower)
           new == IF same = {} THEN InsertAt(list, below + 1, entry) ELSE [list EXCEPT ![Min(same)] = entry]
           r == AddPosting(st, key, doc, tf)
<1>1. list \in Seq(Posting) /\ entry \in Posting
  BY DEF Stores, Posting
<1>2. n \in Nat /\ DOMAIN list = 1 .. n /\ \A i \in 1 .. n : list[i] \in Posting
  BY <1>1, SeqElements
<1>3. \A i \in 1 .. n : list[i].doc \in Nat
  BY <1>2 DEF Posting
<1>4. SortedList(list)
  OBVIOUS
<1>5. r = [st EXCEPT ![key] = new]
  BY Zenon DEF AddPosting
<1> HIDE DEF list
<1>6. ASSUME same = {}
      PROVE  new \in Seq(Posting) /\ SortedList(new) /\ Len(new) = n + 1 /\ DocsFrom(new, list, doc)
  <2>1. lower \in SUBSET (0 .. n) /\ lower # {}
    BY <1>2
  <2>2. below \in lower /\ \A y \in lower : y <= below
    <3> HIDE DEF lower
    <3>1. QED
      BY <2>1, <1>2, MaxOfBounded
  <2>3. below \in 0 .. n /\ below \in Nat
    BY <2>1, <2>2, <1>2
  <2>4. \A i \in 1 .. n : list[i].doc < doc => i <= below
    BY <2>2, <1>2
  <2>5. below # 0 => below \in 1 .. n /\ list[below].doc < doc
    BY <2>2, <1>2
  <2>6. \A i \in 1 .. n : list[i].doc # doc
    BY <1>2, <1>6
  <2> HIDE DEF below, lower, same, entry
  <2>7. new = InsertAt(list, below + 1, entry)
    BY <1>6
  <2>8. /\ new \in Seq(Posting) /\ Len(new) = n + 1
        /\ \A i \in 1 .. below : new[i] = list[i]
        /\ new[below + 1] = entry
        /\ \A i \in below + 1 .. n : new[i + 1] = list[i]
    <3>1. Inserted(InsertAt(list, below + 1, entry), Posting, list, below, entry)
      BY <1>1, <2>3, InsertAtElements
    <3> HIDE DEF new
    <3>2. QED
      BY <3>1, <2>7 DEF Inserted
  <2> HIDE DEF new, n
  <2>9. \A i, j \in 1 .. n : i < j => list[i].doc < list[j].doc
    BY <1>2, <1>4 DEF SortedList
  <2>10. \A i \in 1 .. below : list[i].doc < doc
    <3>1. ASSUME NEW i \in 1 .. below PROVE list[i].doc < doc
      <4>1. below # 0 /\ i \in 1 .. n
        BY <2>3, <1>2
      <4>2. below \in 1 .. n /\ list[below].doc < doc
        BY <4>1, <2>5
      <4>3. i = below \/ list[i].doc < list[below].doc
        BY <4>1, <4>2, <2>3, <2>9
      <4>4. list[i].doc \in Nat /\ list[below].doc \in Nat
        BY <4>1, <4>2, <1>3
      <4>5. QED
        BY <4>2, <4>3, <4>4
    <3>2. QED
      BY <3>1
  <2>11. \A i \in below + 1 .. n : doc < list[i].doc
    <3>1. ASSUME NEW i \in below + 1 .. n PROVE doc < list[i].doc
      <4>1. i \in 1 .. n /\ ~(i <= below)
        BY <2>3, <1>2
      <4>2. list[i].doc \in Nat /\ list[i].doc # doc /\ ~(list[i].doc < doc)
        BY <4>1, <1>3, <2>4, <2>6
      <4>3. QED
        BY <4>2
    <3>2. QED
      BY <3>1
  <2>12. \A i \in 1 .. n + 1 :
           \/ i \in 1 .. below /\ new[i].doc = list[i].doc /\ i \in 1 .. n
           \/ i = below + 1 /\ new[i].doc = doc
           \/ i - 1 \in below + 1 .. n /\ new[i].doc = list[i - 1].doc /\ i - 1 \in 1 .. n
    <3>1. ASSUME NEW i \in 1 .. n + 1
          PROVE  \/ i \in 1 .. below /\ new[i].doc = list[i].doc /\ i \in 1 .. n
                 \/ i = below + 1 /\ new[i].doc = doc
                 \/ i - 1 \in below + 1 .. n /\ new[i].doc = list[i - 1].doc /\ i - 1 \in 1 .. n
      <4>1. CASE i <= below
        BY <4>1, <2>3, <2>8, <1>2
      <4>2. CASE i = below + 1
        BY <4>2, <2>8 DEF entry
      <4>3. CASE i > below + 1
        <5> DEFINE j == i - 1
        <5>1. j \in below + 1 .. n /\ j + 1 = i /\ j \in 1 .. n
          BY <4>3, <2>3, <1>2
        <5> HIDE DEF j
        <5>2. new[j + 1] = list[j]
          BY <5>1, <2>8
        <5>3. QED
          BY <5>1, <5>2 DEF j
      <4>4. QED
        BY <4>1, <4>2, <4>3, <2>3
    <3>2. QED
      BY <3>1
  <2>13. ASSUME NEW i \in 1 .. n + 1, NEW j \in 1 .. n + 1, i < j
         PROVE  new[i].doc < new[j].doc
    <3>1. CASE i \in 1 .. below /\ new[i].doc = list[i].doc /\ i \in 1 .. n
      <4>1. CASE j \in 1 .. below /\ new[j].doc = list[j].doc /\ j \in 1 .. n
        BY <3>1, <4>1, <2>9, <2>13
      <4>2. CASE j = below + 1 /\ new[j].doc = doc
        BY <3>1, <4>2, <2>10
      <4>3. CASE j - 1 \in below + 1 .. n /\ new[j].doc = list[j - 1].doc /\ j - 1 \in 1 .. n
        <5>1. list[i].doc < doc /\ doc < list[j - 1].doc
          BY <3>1, <4>3, <2>10, <2>11
        <5>2. list[i].doc \in Nat /\ list[j - 1].doc \in Nat
          BY <3>1, <4>3, <1>3
        <5>3. QED
          BY <3>1, <4>3, <5>1, <5>2
      <4>4. QED
        BY <4>1, <4>2, <4>3, <2>12
    <3>2. CASE i = below + 1 /\ new[i].doc = doc
      <4>1. ~(j <= below) /\ j # below + 1
        BY <3>2, <2>3, <2>13
      <4>2. j - 1 \in below + 1 .. n /\ new[j].doc = list[j - 1].doc
        BY <4>1, <2>12
      <4>3. QED
        BY <3>2, <4>2, <2>11
    <3>3. CASE i - 1 \in below + 1 .. n /\ new[i].doc = list[i - 1].doc /\ i - 1 \in 1 .. n
      <4>1. ~(j <= below) /\ j # below + 1
        BY <3>3, <2>3, <2>13
      <4>2. j - 1 \in 1 .. n /\ new[j].doc = list[j - 1].doc /\ i - 1 < j - 1
        BY <4>1, <2>12, <2>13
      <4>3. QED
        BY <3>3, <4>2, <2>9
    <3>4. QED
      BY <3>1, <3>2, <3>3, <2>12
  <2>14. DOMAIN new = 1 .. n + 1
    BY <2>8, SeqElements
  <2>15. DocsFrom(new, list, doc)
    <3>1. \A i \in 1 .. n + 1 : new[i].doc = doc \/ \E j \in 1 .. n : new[i].doc = list[j].doc
      BY <2>12
    <3>2. QED
      BY <3>1, <2>14, <1>2 DEF DocsFrom
  <2>16. QED
    BY <2>8, <2>13, <2>14, <2>15 DEF SortedList
<1>7. ASSUME same # {}
      PROVE  new \in Seq(Posting) /\ SortedList(new) /\ Len(new) = n /\ DocsFrom(new, list, doc)
  <2> DEFINE m == Min(same)
  <2>1. same \in SUBSET Nat
    BY <1>2
  <2>2. m \in same
    <3> HIDE DEF same
    <3>1. QED
      BY <2>1, <1>7, MinOfNaturals
  <2>3. m \in 1 .. n /\ list[m].doc = doc
    BY <2>2, <1>2
  <2> HIDE DEF m, entry, same
  <2>4. new = [list EXCEPT ![m] = entry]
    BY <1>7 DEF m
  <2> HIDE DEF new
  <2>5. list \in [1 .. n -> Posting]
    BY <1>1, <1>2
  <2>6. new \in [1 .. n -> Posting] /\ new[m] = entry /\ \A i \in 1 .. n : i # m => new[i] = list[i]
    <3> HIDE DEF Posting, n
    <3>1. QED
      BY <2>3, <2>4, <2>5, <1>1
  <2> HIDE DEF n
  <2>7. new \in Seq(Posting) /\ Len(new) = n
    BY <2>6, <1>2, FunctionIsSeq
  <2>8. \A i \in 1 .. n : new[i].doc = list[i].doc
    <3>1. entry.doc = doc
      BY DEF entry
    <3>2. QED
      BY <3>1, <2>3, <2>6
  <2>9. DOMAIN new = 1 .. n
    BY <2>6
  <2>10. DocsFrom(new, list, doc)
    BY <2>8, <2>9, <1>2 DEF DocsFrom
  <2>11. QED
    BY <2>7, <2>8, <2>9, <2>10, <1>2, <1>4 DEF SortedList
<1> HIDE DEF new
<1>8. new \in Seq(Posting)
  BY <1>6, <1>7
<1>9. r \in Stores /\ r[key] = new /\ \A k \in Keys : k # key => r[k] = st[k]
  <2> HIDE DEF r
  <2>1. QED
    BY <1>5, <1>8 DEF Stores
<1>10. same = {} <=> ~\E i \in DOMAIN st[key] : st[key][i].doc = doc
  BY DEF list
<1>11. QED
  <2> HIDE DEF r, same, n
  <2>1. \A k \in Keys : SortedList(r[k])
    BY <1>6, <1>7, <1>9
  <2>2. n = Len(st[key])
    BY DEF n, list
  <2>3. DocsFrom(r[key], st[key], doc)
    BY <1>6, <1>7, <1>9 DEF list
  <2>4. QED
    BY <2>1, <2>2, <2>3, <1>6, <1>7, <1>9, <1>10 DEF r, WithPosting

\* A finite number of finite sets, kept apart by their index.
LEMMA PairsFinite ==
  ASSUME NEW I, IsFiniteSet(I), NEW A, \A i \in I : IsFiniteSet(A[i])
  PROVE  IsFiniteSet(UNION {{i} \X A[i] : i \in I})
<1> DEFINE T == {{i} \X A[i] : i \in I}
           f == [i \in I |-> {i} \X A[i]]
<1>1. f \in Surjection(I, T)
  BY DEF Surjection
<1>2. IsFiniteSet(T)
  <2> HIDE DEF f, T
  <2>1. QED
    BY <1>1, FS_Surjection
<1>3. ASSUME NEW t \in T PROVE IsFiniteSet(t)
  <2>1. PICK i \in I : t = {i} \X A[i]
    OBVIOUS
  <2>2. IsFiniteSet({i}) /\ IsFiniteSet(A[i])
    BY FS_Singleton
  <2>3. QED
    BY <2>1, <2>2, FS_Product
<1> HIDE DEF T
<1>4. IsFiniteSet(UNION T)
  BY <1>2, <1>3, FS_UNION
<1>5. QED
  BY <1>4 DEF T

PostingPairs(st) == UNION {{k} \X DOMAIN st[k] : k \in Keys}

LEMMA PostingPairsFinite ==
  ASSUME NEW st \in Stores
  PROVE  IsFiniteSet(PostingPairs(st)) /\ PostingCount(st) \in Nat
<1> DEFINE A == [k \in Keys |-> DOMAIN st[k]]
<1>1. IsFiniteSet(Keys)
  BY PostingBlocksAssumption
<1>2. \A k \in Keys : IsFiniteSet(A[k])
  <2>1. ASSUME NEW k \in Keys PROVE IsFiniteSet(DOMAIN st[k])
    <3>1. st[k] \in Seq(Posting)
      BY DEF Stores
    <3>2. DOMAIN st[k] = 1 .. Len(st[k]) /\ Len(st[k]) \in Int /\ 1 \in Int
      BY <3>1, SeqElements
    <3>3. QED
      BY <3>2, FS_Interval
  <2>2. QED
    BY <2>1
<1>3. PostingPairs(st) = UNION {{k} \X A[k] : k \in Keys}
  BY DEF PostingPairs
<1> HIDE DEF A
<1>4. IsFiniteSet(PostingPairs(st))
  BY <1>1, <1>2, <1>3, PairsFinite
<1>5. QED
  BY <1>4, FS_CardinalityType DEF PostingCount, PostingPairs

LEMMA AddPostingCount ==
  ASSUME NEW st \in Stores, NEW key \in Keys, NEW r \in Stores, \A k \in Keys : k # key => r[k] = st[k]
  PROVE  /\ Len(r[key]) = Len(st[key]) => PostingCount(r) = PostingCount(st)
         /\ Len(r[key]) = Len(st[key]) + 1 => PostingCount(r) <= PostingCount(st) + 1
<1>1. st[key] \in Seq(Posting) /\ r[key] \in Seq(Posting)
  BY DEF Stores
<1>2. /\ Len(st[key]) \in Nat /\ DOMAIN st[key] = 1 .. Len(st[key]) /\ DOMAIN r[key] = 1 .. Len(r[key])
  BY <1>1, SeqElements
<1>3. ASSUME Len(r[key]) = Len(st[key]) PROVE PostingCount(r) = PostingCount(st)
  <2>1. \A k \in Keys : DOMAIN r[k] = DOMAIN st[k]
    BY <1>2, <1>3
  <2>2. QED
    BY <2>1 DEF PostingCount
<1>4. ASSUME Len(r[key]) = Len(st[key]) + 1 PROVE PostingCount(r) <= PostingCount(st) + 1
  <2> DEFINE n == Len(st[key]) + 1
  <2>1. DOMAIN r[key] = DOMAIN st[key] \cup {n}
    BY <1>2, <1>4
  <2> HIDE DEF n
  <2>2. PostingPairs(r) = PostingPairs(st) \cup {<<key, n>>}
    <3>1. ASSUME NEW p PROVE p \in PostingPairs(r) <=> p \in PostingPairs(st) \cup {<<key, n>>}
      <4>1. ASSUME p \in PostingPairs(r) PROVE p \in PostingPairs(st) \cup {<<key, n>>}
        <5>1. PICK k \in Keys : p \in {k} \X DOMAIN r[k]
          BY <4>1 DEF PostingPairs
        <5>2. CASE k = key
          BY <5>1, <5>2, <2>1 DEF PostingPairs
        <5>3. CASE k # key
          BY <5>1, <5>3 DEF PostingPairs
        <5>4. QED
          BY <5>2, <5>3
      <4>2. ASSUME p \in PostingPairs(st) PROVE p \in PostingPairs(r)
        <5>1. PICK k \in Keys : p \in {k} \X DOMAIN st[k]
          BY <4>2 DEF PostingPairs
        <5>2. DOMAIN st[k] \subseteq DOMAIN r[k]
          BY <2>1
        <5>3. p \in {k} \X DOMAIN r[k]
          BY <5>1, <5>2
        <5>4. QED
          BY <5>3 DEF PostingPairs
      <4>3. <<key, n>> \in PostingPairs(r)
        <5>1. <<key, n>> \in {key} \X DOMAIN r[key]
          BY <2>1
        <5>2. QED
          BY <5>1 DEF PostingPairs
      <4>4. QED
        BY <4>1, <4>2, <4>3
    <3>2. QED
      BY <3>1
  <2>3. IsFiniteSet(PostingPairs(st)) /\ PostingCount(st) \in Nat
    BY PostingPairsFinite
  <2> DEFINE S == PostingPairs(st)
             x == <<key, n>>
  <2> HIDE DEF S, x
  <2>4. Cardinality(S \cup {x}) = IF x \in S THEN Cardinality(S) ELSE Cardinality(S) + 1
    BY <2>3, FS_AddElement DEF S
  <2>5. PostingCount(st) = Cardinality(S) /\ PostingCount(r) = Cardinality(S \cup {x})
    BY <2>2 DEF S, x, PostingCount, PostingPairs
  <2>6. QED
    BY <2>3, <2>4, <2>5
<1>5. QED
  BY <1>3, <1>4

LEMMA EmptyStoreCount ==
  /\ EmptyStore \in Stores /\ PostingCount(EmptyStore) = 0
  /\ \A k \in Keys : EmptyStore[k] = <<>> /\ SortedList(EmptyStore[k])
<1>1. EmptyStore \in Stores /\ \A k \in Keys : EmptyStore[k] = <<>>
  BY SeqTypes DEF EmptyStore, Stores
<1>2. PostingPairs(EmptyStore) = {}
  BY <1>1 DEF PostingPairs
<1>3. PostingCount(EmptyStore) = 0
  BY <1>2, FS_EmptySet DEF PostingCount, PostingPairs
<1>4. \A k \in Keys : SortedList(EmptyStore[k])
  BY <1>1 DEF SortedList
<1>5. QED
  BY <1>1, <1>3, <1>4

---------------------------------------------------------------------------
(* Cursors *)

Cursor == [leaf : Nat, entry : Nat, dead : BOOLEAN]

\* The cursor is at an entry of the table, or behind the last one.
CursorOk(t, c) ==
  /\ c \in Cursor /\ c.leaf <= Len(t.leaf)
  /\ IF c.leaf = Len(t.leaf) THEN c.entry = 0 ELSE c.entry < Len(t.leaf[c.leaf + 1])

\* x is the entry of a position the cursor has left behind.
PassedIn(t, c, x) ==
  \E l \in 1 .. Len(t.leaf) : \E i \in 1 .. Len(t.leaf[l]) :
    (l <= c.leaf \/ (l = c.leaf + 1 /\ i <= c.entry)) /\ t.leaf[l][i] = x

LEMMA TableFields ==
  ASSUME NEW t, TableOk(t)
  PROVE  /\ t \in Table /\ t.leaf \in Seq(Leaf) /\ Len(t.leaf) \in Nat /\ Ascending(t.leaf)
         /\ \A l \in 1 .. Len(t.leaf) : t.leaf[l] \in Leaf /\ Len(t.leaf[l]) \in Nat /\ Len(t.leaf[l]) > 0
<1>1. t \in Table /\ t.leaf \in Seq(Leaf) /\ Ascending(t.leaf)
  BY DEF TableOk, Table
<1>2. Len(t.leaf) \in Nat /\ \A l \in 1 .. Len(t.leaf) : t.leaf[l] \in Leaf
  BY <1>1, SeqElements
<1>3. QED
  BY <1>1, <1>2, LeafFacts

\* The cursor's place as numbers.
LEMMA CursorPlace ==
  ASSUME NEW t, TableOk(t), NEW c, CursorOk(t, c), ~AtEnd(t, c)
  PROVE  /\ c.leaf \in Nat /\ c.leaf < Len(t.leaf) /\ c.leaf + 1 \in 1 .. Len(t.leaf)
         /\ c.entry \in Nat /\ c.entry + 1 \in 1 .. Len(t.leaf[c.leaf + 1])
         /\ Current(t, c) = t.leaf[c.leaf + 1][c.entry + 1]
<1>1. Len(t.leaf) \in Nat /\ c.leaf \in Nat /\ c.entry \in Nat
  BY TableFields DEF CursorOk, Cursor
<1>2. c.leaf < Len(t.leaf)
  BY <1>1 DEF AtEnd, CursorOk
<1>3. c.leaf + 1 \in 1 .. Len(t.leaf)
  BY <1>1, <1>2
<1>4. Len(t.leaf[c.leaf + 1]) \in Nat /\ c.entry < Len(t.leaf[c.leaf + 1])
  BY <1>1, <1>2, <1>3, TableFields DEF CursorOk
<1>5. c.entry + 1 \in 1 .. Len(t.leaf[c.leaf + 1])
  <2> DEFINE m == Len(t.leaf[c.leaf + 1])
             k == c.entry
  <2>1. m \in Nat /\ k \in Nat /\ k < m
    BY <1>1, <1>4
  <2> HIDE DEF m, k
  <2>2. k + 1 \in 1 .. m
    BY <2>1
  <2>3. QED
    BY <2>2 DEF m, k
<1>6. QED
  BY <1>1, <1>2, <1>3, <1>5 DEF Current, LeafEntry

LEMMA CurrentInside ==
  ASSUME NEW t, TableOk(t), NEW c, CursorOk(t, c), ~AtEnd(t, c)
  PROVE  /\ InDir(t.leaf, Current(t, c)) /\ Current(t, c) \in Entry
         /\ TermLength[Current(t, c).key] <= HeadTermKeyMax /\ Inside(t, Current(t, c))
         /\ Current(t, c).key \in Keys /\ Current(t, c).key \in Nat /\ Current(t, c).df \in Nat
<1>1. InDir(t.leaf, Current(t, c))
  BY CursorPlace DEF InDir
<1>2. /\ Current(t, c) \in Entry /\ TermLength[Current(t, c).key] <= HeadTermKeyMax
      /\ Inside(t, Current(t, c))
  BY <1>1 DEF TableOk
<1>3. Current(t, c).key \in Keys /\ Current(t, c).key \in Nat
  BY <1>2, EntryKey
<1>4. Current(t, c).df \in Nat
  BY <1>2 DEF Entry
<1>5. QED
  BY <1>1, <1>2, <1>3, <1>4

\* a has left behind the position of c, and what c had.
OneBehind(t, c, a) ==
  \A k \in 1 .. Len(t.leaf) : \A j \in 1 .. Len(t.leaf[k]) :
    Behind(a, <<k, j>>) <=> Behind(c, <<k, j>>) \/ (k = c.leaf + 1 /\ j = c.entry + 1)

\* Advance leaves behind the entry it was at, and comes to a greater key.
LEMMA AdvancePasses ==
  ASSUME NEW t, TableOk(t), NEW c, CursorOk(t, c), ~AtEnd(t, c), NEW readable \in BOOLEAN
  PROVE  LET a == Advance(t, c, readable)
         IN  /\ CursorOk(t, a)
             /\ \A x : PassedIn(t, a, x) <=> PassedIn(t, c, x) \/ x = Current(t, c)
             /\ ~AtEnd(t, a) => Current(t, c).key < Current(t, a).key
             /\ OneBehind(t, c, a)
<1> DEFINE a == Advance(t, c, readable)
           l == c.leaf
           i == c.entry
           d == t.leaf
           n == Len(d)
           m == Len(d[l + 1])
<1>1. /\ l \in Nat /\ l < n /\ l + 1 \in 1 .. n /\ i \in Nat /\ i + 1 \in 1 .. m
      /\ Current(t, c) = d[l + 1][i + 1] /\ c \in Cursor
  BY CursorPlace DEF CursorOk
<1>2. /\ n \in Nat /\ m \in Nat /\ Ascending(d) /\ \A j \in 1 .. n : Len(d[j]) \in Nat /\ Len(d[j]) > 0
  BY <1>1, TableFields
<1>3. /\ a \in Cursor
      /\ \/ i + 1 < m /\ a.leaf = l /\ a.entry = i + 1 /\ a.dead = c.dead
         \/ i + 1 = m /\ a.leaf = l + 1 /\ a.entry = 0
  <2>1. CASE i + 1 < m
    <3>1. a = [c EXCEPT !.entry = i + 1]
      BY <2>1 DEF Advance
    <3>2. i + 1 \in Nat
      BY <1>1
    <3>3. QED
      BY <1>1, <2>1, <3>1, <3>2 DEF Cursor
  <2>2. CASE ~(i + 1 < m)
    <3>1. a = [leaf |-> l + 1, entry |-> 0, dead |-> (l + 1 < n /\ ~readable)]
      BY <2>2 DEF Advance, CursorAt
    <3>2. i + 1 = m /\ l + 1 \in Nat
      BY <2>2, <1>1, <1>2
    <3>3. (l + 1 < n /\ ~readable) \in BOOLEAN
      OBVIOUS
    <3>4. QED
      BY <3>1, <3>2, <3>3 DEF Cursor
  <2>3. QED
    BY <2>1, <2>2
<1> HIDE DEF a
<1>4. CursorOk(t, a)
  <2>1. CASE i + 1 < m /\ a.leaf = l /\ a.entry = i + 1
    <3>1. a.leaf <= n /\ a.leaf # n /\ a.entry < m
      BY <1>1, <1>2, <2>1
    <3>2. QED
      BY <3>1, <1>3, <2>1 DEF CursorOk
  <2>2. CASE a.leaf = l + 1 /\ a.entry = 0
    <3>1. a.leaf <= n /\ (a.leaf # n => l + 2 \in 1 .. n /\ a.leaf + 1 = l + 2)
      BY <1>1, <1>2, <2>2
    <3>2. a.leaf # n => 0 < Len(d[a.leaf + 1])
      BY <3>1, <1>2
    <3>3. QED
      BY <3>1, <3>2, <1>3, <2>2 DEF CursorOk
  <2>3. QED
    BY <1>3, <2>1, <2>2
<1>5. ASSUME NEW k \in 1 .. n, NEW j \in 1 .. Len(d[k])
      PROVE  (k <= a.leaf \/ (k = a.leaf + 1 /\ j <= a.entry))
             <=> (k <= l \/ (k = l + 1 /\ j <= i)) \/ (k = l + 1 /\ j = i + 1)
  <2>1. k \in Nat /\ j \in Nat /\ j >= 1 /\ Len(d[k]) \in Nat /\ j <= Len(d[k])
    BY <1>2
  <2>2. k = l + 1 => j <= m
    BY <2>1
  <2> HIDE DEF m, n, d
  <2>3. CASE i + 1 < m /\ a.leaf = l /\ a.entry = i + 1
    <3>1. l \in Nat /\ i \in Nat
      BY <1>1
    <3> HIDE DEF l, i
    <3>2. QED
      BY <3>1, <2>1, <2>3
  <2>4. CASE i + 1 = m /\ a.leaf = l + 1 /\ a.entry = 0
    <3>1. l \in Nat /\ i \in Nat
      BY <1>1
    <3> HIDE DEF l, i
    <3>2. QED
      BY <3>1, <2>1, <2>2, <2>4
  <2>5. QED
    BY <1>3, <2>3, <2>4
<1>6. ASSUME NEW x PROVE PassedIn(t, a, x) <=> PassedIn(t, c, x) \/ x = Current(t, c)
  <2>1. ASSUME PassedIn(t, a, x) PROVE PassedIn(t, c, x) \/ x = Current(t, c)
    <3>1. PICK k \in 1 .. n : \E j \in 1 .. Len(d[k]) :
            (k <= a.leaf \/ (k = a.leaf + 1 /\ j <= a.entry)) /\ d[k][j] = x
      BY <2>1 DEF PassedIn
    <3>2. PICK j \in 1 .. Len(d[k]) :
            (k <= a.leaf \/ (k = a.leaf + 1 /\ j <= a.entry)) /\ d[k][j] = x
      BY <3>1
    <3>3. (k <= l \/ (k = l + 1 /\ j <= i)) \/ (k = l + 1 /\ j = i + 1)
      BY <3>2, <1>5
    <3>4. CASE k <= l \/ (k = l + 1 /\ j <= i)
      BY <3>2, <3>4 DEF PassedIn
    <3>5. CASE k = l + 1 /\ j = i + 1
      BY <3>2, <3>5, <1>1
    <3>6. QED
      BY <3>3, <3>4, <3>5
  <2>2. ASSUME PassedIn(t, c, x) PROVE PassedIn(t, a, x)
    <3>1. PICK k \in 1 .. n : \E j \in 1 .. Len(d[k]) :
            (k <= l \/ (k = l + 1 /\ j <= i)) /\ d[k][j] = x
      BY <2>2 DEF PassedIn
    <3>2. PICK j \in 1 .. Len(d[k]) : (k <= l \/ (k = l + 1 /\ j <= i)) /\ d[k][j] = x
      BY <3>1
    <3>3. k <= a.leaf \/ (k = a.leaf + 1 /\ j <= a.entry)
      BY <3>2, <1>5
    <3>4. QED
      BY <3>2, <3>3 DEF PassedIn
  <2>3. PassedIn(t, a, Current(t, c))
    <3>1. l + 1 <= a.leaf \/ (l + 1 = a.leaf + 1 /\ i + 1 <= a.entry)
      BY <1>1, <1>5
    <3>2. QED
      BY <3>1, <1>1 DEF PassedIn
  <2>4. QED
    BY <2>1, <2>2, <2>3
<1>7. ASSUME ~AtEnd(t, a) PROVE Current(t, c).key < Current(t, a).key
  <2>1. /\ a.leaf + 1 \in 1 .. n /\ a.entry + 1 \in 1 .. Len(d[a.leaf + 1])
        /\ Current(t, a) = d[a.leaf + 1][a.entry + 1]
    BY <1>4, <1>7, CursorPlace
  <2>2. CASE i + 1 < m /\ a.leaf = l /\ a.entry = i + 1
    <3>1. l + 1 \in 1 .. n /\ i + 1 \in 1 .. m /\ (i + 1) + 1 \in 1 .. m /\ i + 1 < (i + 1) + 1
      BY <1>1, <2>1, <2>2
    <3>2. d[l + 1][i + 1].key < d[l + 1][(i + 1) + 1].key
      BY <3>1, <1>2 DEF Ascending
    <3>3. QED
      BY <3>2, <2>1, <2>2, <1>1
  <2>3. CASE a.leaf = l + 1 /\ a.entry = 0
    <3>1. l + 1 \in 1 .. n /\ (l + 1) + 1 \in 1 .. n /\ l + 1 < (l + 1) + 1 /\ i + 1 \in 1 .. m
          /\ 0 + 1 \in 1 .. Len(d[(l + 1) + 1])
      BY <1>1, <2>1, <2>3
    <3>2. d[l + 1][i + 1].key < d[(l + 1) + 1][0 + 1].key
      BY <3>1, <1>2 DEF Ascending
    <3>3. QED
      BY <3>2, <2>1, <2>3, <1>1
  <2>4. QED
    BY <1>3, <2>2, <2>3
<1>8. ASSUME NEW k \in 1 .. n, NEW j \in 1 .. Len(d[k])
      PROVE  Behind(a, <<k, j>>) <=> Behind(c, <<k, j>>) \/ (k = l + 1 /\ j = i + 1)
  BY <1>5 DEF Behind
<1>9. OneBehind(t, c, a)
  BY <1>8 DEF OneBehind
<1>10. QED
  BY <1>4, <1>6, <1>7, <1>9 DEF a

---------------------------------------------------------------------------
(* The terms of the definitions, in those of the proofs *)

LEMMA EntriesOf ==
  ASSUME NEW t \in Table
  PROVE  /\ \A p : p \in Positions(t) <=> \E l \in 1 .. Len(t.leaf) : \E i \in 1 .. Len(t.leaf[l]) : p = <<l, i>>
         /\ \A x : x \in {EntryAt(t, p) : p \in Positions(t)} <=> InDir(t.leaf, x)
<1>1. t.leaf \in Seq(Leaf)
  BY DEF Table
<1>2. DOMAIN t.leaf = 1 .. Len(t.leaf) /\ \A l \in 1 .. Len(t.leaf) : DOMAIN t.leaf[l] = 1 .. Len(t.leaf[l])
  BY <1>1, SeqElements, LeafFacts
<1>3. ASSUME NEW p
      PROVE  p \in Positions(t) <=> \E l \in 1 .. Len(t.leaf) : \E i \in 1 .. Len(t.leaf[l]) : p = <<l, i>>
  <2>1. p \in Positions(t) <=> \E l \in 1 .. Len(t.leaf) : p \in {l} \X (1 .. Len(t.leaf[l]))
    BY <1>2 DEF Positions
  <2>2. QED
    BY <2>1
<1>4. ASSUME NEW x PROVE x \in {EntryAt(t, p) : p \in Positions(t)} <=> InDir(t.leaf, x)
  <2>1. ASSUME NEW p \in Positions(t), x = EntryAt(t, p) PROVE InDir(t.leaf, x)
    <3>1. PICK l \in 1 .. Len(t.leaf) : \E i \in 1 .. Len(t.leaf[l]) : p = <<l, i>>
      BY <1>3
    <3>2. PICK i \in 1 .. Len(t.leaf[l]) : p = <<l, i>>
      BY <3>1
    <3>3. t.leaf[l][i] = x
      BY <2>1, <3>2 DEF EntryAt
    <3>4. QED
      BY <3>3 DEF InDir
  <2>2. ASSUME InDir(t.leaf, x) PROVE \E p \in Positions(t) : x = EntryAt(t, p)
    <3>1. PICK l \in 1 .. Len(t.leaf) : \E i \in 1 .. Len(t.leaf[l]) : t.leaf[l][i] = x
      BY <2>2 DEF InDir
    <3>2. PICK i \in 1 .. Len(t.leaf[l]) : t.leaf[l][i] = x
      BY <3>1
    <3>3. <<l, i>> \in Positions(t) /\ EntryAt(t, <<l, i>>) = x
      BY <3>2, <1>3 DEF EntryAt
    <3>4. QED
      BY <3>3
  <2>3. QED
    BY <2>1, <2>2
<1>5. QED
  BY <1>3, <1>4

LEMMA PositionsFinite ==
  ASSUME NEW t \in Table
  PROVE  IsFiniteSet(Positions(t))
<1> DEFINE A == [l \in DOMAIN t.leaf |-> DOMAIN t.leaf[l]]
<1>1. t.leaf \in Seq(Leaf)
  BY DEF Table
<1>2. /\ DOMAIN t.leaf = 1 .. Len(t.leaf) /\ Len(t.leaf) \in Int /\ 1 \in Int
      /\ \A l \in DOMAIN t.leaf : DOMAIN t.leaf[l] = 1 .. Len(t.leaf[l]) /\ Len(t.leaf[l]) \in Int
  BY <1>1, SeqElements, LeafFacts
<1>3. IsFiniteSet(DOMAIN t.leaf) /\ \A l \in DOMAIN t.leaf : IsFiniteSet(DOMAIN t.leaf[l])
  BY <1>2, FS_Interval
<1>4. \A l \in DOMAIN t.leaf : IsFiniteSet(A[l])
  BY <1>3
<1>5. Positions(t) = UNION {{l} \X A[l] : l \in DOMAIN t.leaf}
  BY DEF Positions
<1> HIDE DEF A
<1>6. QED
  BY <1>3, <1>4, <1>5, PairsFinite

LEMMA DirectorySorted ==
  ASSUME NEW t \in Table, t.head = HeadOf(t.leaf), Ascending(t.leaf)
  PROVE  SortedDirectory(t)
<1>1. t.leaf \in Seq(Leaf)
  BY DEF Table
<1>2. \A l \in DOMAIN t.leaf : t.leaf[l] # <<>>
  BY <1>1, SeqElements, LeafFacts
<1>3. ASSUME NEW p \in Positions(t), NEW q \in Positions(t),
             p[1] < q[1] \/ (p[1] = q[1] /\ p[2] < q[2])
      PROVE  EntryAt(t, p).key < EntryAt(t, q).key
  <2>1. PICK l \in 1 .. Len(t.leaf) : \E i \in 1 .. Len(t.leaf[l]) : p = <<l, i>>
    BY EntriesOf
  <2>2. PICK i \in 1 .. Len(t.leaf[l]) : p = <<l, i>>
    BY <2>1
  <2>3. PICK m \in 1 .. Len(t.leaf) : \E j \in 1 .. Len(t.leaf[m]) : q = <<m, j>>
    BY EntriesOf
  <2>4. PICK j \in 1 .. Len(t.leaf[m]) : q = <<m, j>>
    BY <2>3
  <2>5. l < m \/ (l = m /\ i < j)
    BY <1>3, <2>2, <2>4
  <2>6. t.leaf[l][i].key < t.leaf[m][j].key
    BY <2>5 DEF Ascending
  <2>7. QED
    BY <2>2, <2>4, <2>6 DEF EntryAt
<1>4. QED
  BY <1>2, <1>3 DEF SortedDirectory, HeadOf

\* What a cursor has left behind, with the table and the cursor as parameters.
Under(t, c, key) ==
  {e \in {EntryAt(t, p) : p \in {p \in Positions(t) : Behind(c, p)}} : e.key = key}
BytesUnder(t, c, key) ==
  IF Under(t, c, key) = {} THEN <<>> ELSE PostingBytes(t, CHOOSE e \in Under(t, c, key) : TRUE)
FreqUnder(t, c, key) ==
  IF Under(t, c, key) = {} THEN 0 ELSE (CHOOSE e \in Under(t, c, key) : TRUE).df

LEMMA PassedEntriesIn ==
  ASSUME NEW t \in Table, NEW c
  PROVE  \A x : x \in {EntryAt(t, p) : p \in {p \in Positions(t) : Behind(c, p)}} <=> PassedIn(t, c, x)
<1>1. ASSUME NEW x, PassedIn(t, c, x)
      PROVE  \E p \in Positions(t) : Behind(c, p) /\ x = EntryAt(t, p)
  <2>1. PICK l \in 1 .. Len(t.leaf) : \E i \in 1 .. Len(t.leaf[l]) :
           (l <= c.leaf \/ (l = c.leaf + 1 /\ i <= c.entry)) /\ t.leaf[l][i] = x
    BY <1>1 DEF PassedIn
  <2>2. PICK i \in 1 .. Len(t.leaf[l]) :
           (l <= c.leaf \/ (l = c.leaf + 1 /\ i <= c.entry)) /\ t.leaf[l][i] = x
    BY <2>1
  <2>3. <<l, i>> \in Positions(t)
    BY EntriesOf
  <2>4. Behind(c, <<l, i>>) /\ x = EntryAt(t, <<l, i>>)
    BY <2>2 DEF Behind, EntryAt
  <2>5. QED
    BY <2>3, <2>4
<1>2. ASSUME NEW x, NEW p \in Positions(t), Behind(c, p), x = EntryAt(t, p)
      PROVE  PassedIn(t, c, x)
  <2>1. PICK l \in 1 .. Len(t.leaf) : \E i \in 1 .. Len(t.leaf[l]) : p = <<l, i>>
    BY EntriesOf
  <2>2. PICK i \in 1 .. Len(t.leaf[l]) : p = <<l, i>>
    BY <2>1
  <2>3. (l <= c.leaf \/ (l = c.leaf + 1 /\ i <= c.entry)) /\ t.leaf[l][i] = x
    BY <1>2, <2>2 DEF Behind, EntryAt
  <2>4. QED
    BY <2>3 DEF PassedIn
<1>3. QED
  BY <1>1, <1>2

LEMMA UnderIs ==
  ASSUME NEW t \in Table, NEW c, NEW key
  PROVE  \A x : x \in Under(t, c, key) <=> PassedIn(t, c, x) /\ x.key = key
<1> DEFINE P == {EntryAt(t, p) : p \in {p \in Positions(t) : Behind(c, p)}}
<1>1. \A x : x \in P <=> PassedIn(t, c, x)
  BY PassedEntriesIn
<1>2. Under(t, c, key) = {e \in P : e.key = key}
  BY DEF Under
<1> HIDE DEF P
<1>3. QED
  BY <1>1, <1>2

\* A cursor that has not moved under a key reads the same under it.
LEMMA UnderSame ==
  ASSUME NEW t \in Table, NEW c, NEW a, NEW key,
         \A x : x.key = key => (PassedIn(t, a, x) <=> PassedIn(t, c, x))
  PROVE  /\ Under(t, a, key) = Under(t, c, key)
         /\ BytesUnder(t, a, key) = BytesUnder(t, c, key) /\ FreqUnder(t, a, key) = FreqUnder(t, c, key)
<1>1. Under(t, a, key) = Under(t, c, key)
  <2>1. \A x : x \in Under(t, a, key) <=> x \in Under(t, c, key)
    BY UnderIs
  <2>2. QED
    BY <2>1
<1>2. QED
  BY <1>1 DEF BytesUnder, FreqUnder

LEMMA UnderNone ==
  ASSUME NEW t \in Table, NEW c, NEW key, \A x : PassedIn(t, c, x) => x.key # key
  PROVE  Under(t, c, key) = {} /\ BytesUnder(t, c, key) = <<>> /\ FreqUnder(t, c, key) = 0
<1>1. Under(t, c, key) = {}
  BY UnderIs
<1>2. QED
  BY <1>1 DEF BytesUnder, FreqUnder

LEMMA UnderOne ==
  ASSUME NEW t \in Table, NEW c, NEW e, PassedIn(t, c, e),
         \A x : PassedIn(t, c, x) /\ x.key = e.key => x = e
  PROVE  /\ Under(t, c, e.key) = {e}
         /\ BytesUnder(t, c, e.key) = PostingBytes(t, e) /\ FreqUnder(t, c, e.key) = e.df
<1>1. Under(t, c, e.key) = {e}
  BY UnderIs
<1>2. (CHOOSE x \in {e} : TRUE) = e
  OBVIOUS
<1>3. QED
  BY <1>1, <1>2 DEF BytesUnder, FreqUnder

LEMMA EmptyTableOk == TableOk(EmptyTable) /\ EmptyTable.index = <<>> /\ EmptyTable.leaf = <<>>
<1>1. EmptyTable.index = <<>> /\ EmptyTable.leaf = <<>> /\ EmptyTable.head = <<>>
  BY DEF EmptyTable
<1>2. EmptyTable \in Table
  <2>1. <<>> \in Seq(HeadEntry) /\ <<>> \in Seq(Leaf) /\ <<>> \in Seq(Page)
    BY SeqTypes
  <2>2. QED
    BY <2>1 DEF EmptyTable, Table
<1>3. HeadOf(<<>>) = <<>>
  BY DEF HeadOf
<1>4. Ascending(<<>>) /\ \A x : ~InDir(<<>>, x)
  <2>1. Len(<<>>) = 0
    BY SeqTypes
  <2>2. 1 .. 0 = {}
    OBVIOUS
  <2>3. QED
    BY <2>1, <2>2 DEF Ascending, InDir
<1>5. QED
  BY <1>1, <1>2, <1>3, <1>4 DEF TableOk

\* A cursor that starts has left nothing behind.
LEMMA CursorStarts ==
  ASSUME NEW t, TableOk(t), NEW readable \in BOOLEAN
  PROVE  CursorOk(t, CursorAt(t, 0, readable)) /\ \A x : ~PassedIn(t, CursorAt(t, 0, readable), x)
<1> DEFINE c == CursorAt(t, 0, readable)
           n == Len(t.leaf)
<1>1. n \in Nat /\ \A l \in 1 .. n : Len(t.leaf[l]) \in Nat /\ Len(t.leaf[l]) > 0
  BY TableFields
<1>2. c \in Cursor /\ c.leaf = 0 /\ c.entry = 0
  <2>1. (0 < n /\ ~readable) \in BOOLEAN
    OBVIOUS
  <2>2. QED
    BY <2>1 DEF CursorAt, Cursor
<1> HIDE DEF c
<1>3. 0 # n => 0 < Len(t.leaf[0 + 1])
  <2>1. 0 # n => 0 + 1 \in 1 .. n
    BY <1>1
  <2>2. QED
    BY <2>1, <1>1
<1>4. CursorOk(t, c)
  BY <1>1, <1>2, <1>3 DEF CursorOk
<1>5. ASSUME NEW x, PassedIn(t, c, x) PROVE FALSE
  <2>1. PICK l \in 1 .. n : \E i \in 1 .. Len(t.leaf[l]) :
           (l <= 0 \/ (l = 0 + 1 /\ i <= 0)) /\ t.leaf[l][i] = x
    BY <1>2, <1>5 DEF PassedIn
  <2>2. PICK i \in 1 .. Len(t.leaf[l]) : l <= 0 \/ (l = 0 + 1 /\ i <= 0)
    BY <2>1
  <2>3. QED
    BY <2>2, <1>1
<1>6. QED
  BY <1>4, <1>5 DEF c

---------------------------------------------------------------------------
(* The inductive invariant *)

PostingsOk ==
  /\ store \in [Side -> Stores]
  /\ \A s \in Side : /\ PostingCount(store[s]) <= MaxPostings[s]
                     /\ \A k \in Keys : SortedList(store[s][k])

CursorsOk == \A s \in Side : TableOk(table[s]) /\ CursorOk(table[s], cur[s])

\* An empty batch starts with an empty block.
BatchOk ==
  /\ out \in Out /\ Len(out.leaf) <= MergedLeafLimit /\ out.base = Len(file.index)
  /\ IF out.leaf = <<>> THEN ~out.has /\ out.block = 0 /\ out.offset = 0 ELSE out.has
  /\ file \in Table /\ file.head = HeadOf(file.leaf)

DirSoFar == file.leaf \o out.leaf

\* The merged directory ascends, stays below the cursors, and each of its
\* entries has its bytes where nothing is written any more.
DirectoryOk ==
  /\ Ascending(DirSoFar)
  /\ \A x : InDir(DirSoFar, x) => x \in Entry /\ Settled(file, out, x)
  /\ \A x : InDir(DirSoFar, x) => \A s \in Live : x.key < Current(table[s], cur[s]).key

\* MergedLists, in the terms of the proofs.
ListsOk ==
  /\ \A s \in Side : \A x : PassedIn(table[s], cur[s], x) =>
       \E y : InDir(DirSoFar, y) /\ y.key = x.key
  /\ \A x : InDir(DirSoFar, x) =>
       /\ \E s \in Side : Under(table[s], cur[s], x.key) # {}
       /\ PostingBytes(Written, x) = BytesUnder(table["base"], cur["base"], x.key)
                                     \o BytesUnder(table["delta"], cur["delta"], x.key)
       /\ x.df = FreqUnder(table["base"], cur["base"], x.key)
                 + FreqUnder(table["delta"], cur["delta"], x.key)

MergeInv ==
  /\ phase \in {"fill", "merge", "ok", "err"} /\ failures \in 0 .. MaxFailures
  /\ phase = "fill" => out = EmptyOut(0) /\ file = EmptyTable
  /\ PostingsOk /\ CursorsOk /\ BatchOk /\ DirectoryOk /\ ListsOk /\ MergeFailsForCause

LEMMA SidesAre == Side = {"base", "delta"} /\ "base" \in Side /\ "delta" \in Side
  BY DEF Side

\* The files and the batch as one table.
LEMMA WrittenIs ==
  ASSUME MergeInv
  PROVE  /\ Dumped(Written, file, out) /\ Written \in Table /\ Written.leaf = DirSoFar
         /\ Written.head = HeadOf(Written.leaf)
  BY DumpBatchDumps DEF MergeInv, BatchOk, Written, Dumped, DirSoFar

LEMMA InvImplies ==
  ASSUME MergeInv
  PROVE  TypeOK /\ IndexSorted /\ MergedLists /\ MergeFailsForCause
<1>1. TypeOK
  <2>1. ASSUME NEW s \in Side
        PROVE  cur[s].leaf \in 0 .. Len(table[s].leaf) /\ PostingCount(store[s]) <= MaxPostings[s]
    BY TableFields DEF MergeInv, CursorsOk, CursorOk, Cursor, PostingsOk
  <2>2. Len(out.leaf) <= MergedLeafLimit /\ out.block < MergedIndexLimit /\ out.offset <= PageSize
    BY OutFields DEF MergeInv, BatchOk
  <2>3. Len(file.head) = Len(file.leaf)
    BY HeadOfType DEF MergeInv, BatchOk, Table
  <2>4. QED
    BY <2>1, <2>2, <2>3 DEF MergeInv, TypeOK
<1>2. IndexSorted
  <2>1. \A s \in Side : SortedDirectory(table[s])
    BY DirectorySorted DEF MergeInv, CursorsOk, TableOk
  <2>2. SortedDirectory(Written)
    BY WrittenIs, DirectorySorted DEF MergeInv, DirectoryOk
  <2>3. \A s \in Side, k \in Keys : SortedList(store[s][k])
    BY DEF MergeInv, PostingsOk
  <2>4. QED
    BY <2>1, <2>2, <2>3, SidesAre DEF IndexSorted
<1>3. MergedLists
  <2> DEFINE E == {EntryAt(Written, p) : p \in Positions(Written)}
  <2>1. \A x : x \in E <=> InDir(DirSoFar, x)
    BY WrittenIs, EntriesOf
  <2>2. \A s \in Side : table[s] \in Table
    BY DEF MergeInv, CursorsOk, TableOk
  <2>3. ASSUME NEW s \in Side, NEW p \in Passed(s)
        PROVE  \E x \in E : x.key = EntryAt(table[s], p).key
    <3>1. EntryAt(table[s], p) \in {EntryAt(table[s], q) : q \in {q \in Positions(table[s]) : Behind(cur[s], q)}}
      BY DEF Passed
    <3>2. PassedIn(table[s], cur[s], EntryAt(table[s], p))
      BY <3>1, <2>2, PassedEntriesIn
    <3>3. QED
      BY <3>2, <2>1 DEF MergeInv, ListsOk
  <2>4. \A s \in Side : \A key :
          /\ PassedEntries(s, key) = Under(table[s], cur[s], key)
          /\ PassedBytes(s, key) = BytesUnder(table[s], cur[s], key)
          /\ PassedFreq(s, key) = FreqUnder(table[s], cur[s], key)
    BY DEF PassedEntries, Passed, PassedBytes, PassedFreq, Under, BytesUnder, FreqUnder
  <2>5. ASSUME NEW x \in E
        PROVE  /\ \E s \in Side : PassedEntries(s, x.key) # {}
               /\ PostingBytes(Written, x) = PassedBytes("base", x.key) \o PassedBytes("delta", x.key)
               /\ x.df = PassedFreq("base", x.key) + PassedFreq("delta", x.key)
    <3>1. InDir(DirSoFar, x)
      BY <2>1
    <3> HIDE DEF E
    <3>2. /\ \E s \in Side : Under(table[s], cur[s], x.key) # {}
          /\ PostingBytes(Written, x) = BytesUnder(table["base"], cur["base"], x.key)
                                        \o BytesUnder(table["delta"], cur["delta"], x.key)
          /\ x.df = FreqUnder(table["base"], cur["base"], x.key)
                    + FreqUnder(table["delta"], cur["delta"], x.key)
      BY <3>1 DEF MergeInv, ListsOk
    <3> DEFINE key == x.key
    <3>3. \A s \in Side :
            /\ PassedEntries(s, key) = Under(table[s], cur[s], key)
            /\ PassedBytes(s, key) = BytesUnder(table[s], cur[s], key)
            /\ PassedFreq(s, key) = FreqUnder(table[s], cur[s], key)
      BY <2>4
    <3>4. QED
      BY <3>2, <3>3, SidesAre
  <2> HIDE DEF E
  <2>6. QED
    BY <2>3, <2>5 DEF MergedLists, E
<1>4. QED
  BY <1>1, <1>2, <1>3 DEF MergeInv

---------------------------------------------------------------------------
(* It holds initially, and each step keeps it. *)

\* Nothing is merged yet.
NothingMerged == out = EmptyOut(0) /\ file = EmptyTable

LEMMA NothingMergedOk ==
  ASSUME NothingMerged
  PROVE  BatchOk /\ DirSoFar = <<>> /\ Ascending(DirSoFar) /\ \A x : ~InDir(DirSoFar, x)
<1>1. /\ out \in Out /\ out.leaf = <<>> /\ ~out.has /\ out.block = 0 /\ out.offset = 0 /\ out.base = 0
  BY EmptyOutType DEF NothingMerged
<1>2. file \in Table /\ file.head = HeadOf(file.leaf) /\ file.index = <<>> /\ file.leaf = <<>>
  BY EmptyTableOk DEF NothingMerged, TableOk
<1>3. Len(<<>>) = 0 /\ <<>> \o <<>> = <<>>
  BY SeqTypes
<1>4. Len(out.leaf) <= MergedLeafLimit
  BY <1>1, <1>3, MergeConstants
<1>5. DirSoFar = <<>>
  BY <1>1, <1>2, <1>3 DEF DirSoFar
<1>6. Ascending(<<>>) /\ \A x : ~InDir(<<>>, x)
  BY EmptyTableOk, <1>3 DEF TableOk, InDir
<1>7. BatchOk
  BY <1>1, <1>2, <1>3, <1>4 DEF BatchOk
<1>8. QED
  BY <1>5, <1>6, <1>7

LEMMA NothingPassedOk ==
  ASSUME NothingMerged, \A s \in Side : \A x : ~PassedIn(table[s], cur[s], x)
  PROVE  BatchOk /\ DirectoryOk /\ ListsOk
  BY NothingMergedOk DEF DirectoryOk, ListsOk

LEMMA InitOk ==
  ASSUME Init
  PROVE  MergeInv
<1>1. PostingsOk
  <2>1. MaxPostings["base"] \in Nat /\ MaxPostings["delta"] \in Nat
    BY IndexMergeAssumption, SidesAre
  <2>2. \A s \in Side : store[s] = EmptyStore /\ MaxPostings[s] \in Nat
    BY <2>1, SidesAre DEF Init
  <2>3. store \in [Side -> Stores]
    BY EmptyStoreCount DEF Init
  <2>4. QED
    BY <2>2, <2>3, EmptyStoreCount DEF PostingsOk
<1>2. \A s \in Side : table[s] = EmptyTable /\ cur[s] = CursorAt(EmptyTable, 0, TRUE)
  BY DEF Init
<1>3. CursorOk(EmptyTable, CursorAt(EmptyTable, 0, TRUE))
      /\ \A x : ~PassedIn(EmptyTable, CursorAt(EmptyTable, 0, TRUE), x)
  BY EmptyTableOk, CursorStarts
<1>4. CursorsOk /\ \A s \in Side : \A x : ~PassedIn(table[s], cur[s], x)
  BY <1>2, <1>3, EmptyTableOk DEF CursorsOk
<1>5. NothingMerged
  BY DEF Init, NothingMerged
<1>6. BatchOk /\ DirectoryOk /\ ListsOk
  BY <1>4, <1>5, NothingPassedOk
<1>7. failures \in 0 .. MaxFailures /\ phase = "fill"
  BY IndexMergeAssumption DEF Init
<1>8. MergeFailsForCause
  BY <1>7 DEF MergeFailsForCause
<1>9. QED
  BY <1>1, <1>4, <1>5, <1>6, <1>7, <1>8 DEF MergeInv, NothingMerged

\* What a step that leaves the merge alone keeps.
LEMMA MergeUntouched ==
  ASSUME MergeInv, UNCHANGED <<table, cur, out, file>>
  PROVE  /\ CursorsOk' /\ BatchOk' /\ DirectoryOk' /\ ListsOk'
         /\ TermBytes' = TermBytes /\ Live' = Live
<1>1. CursorsOk'
  BY DEF MergeInv, CursorsOk
<1>2. BatchOk'
  BY DEF MergeInv, BatchOk
<1>3. DirSoFar' = DirSoFar /\ Live' = Live /\ Written' = Written
  BY DEF DirSoFar, Live, Written
<1>4. DirectoryOk'
  BY <1>3 DEF MergeInv, DirectoryOk
<1>5. ListsOk'
  BY <1>3 DEF MergeInv, ListsOk
<1>6. TermBytes' = TermBytes
  BY <1>3 DEF TermBytes, SideBytes, Take
<1>7. QED
  BY <1>1, <1>2, <1>3, <1>4, <1>5, <1>6

LEMMA WriteKeeps ==
  ASSUME MergeInv, NEW s \in Side, NEW key \in Keys, NEW doc \in Docs[s], NEW tf \in Tfs[s],
         Write(s, key, doc, tf)
  PROVE  MergeInv'
<1> DEFINE r == AddPosting(store[s], key, doc, tf)
<1>1. store \in [Side -> Stores] /\ store[s] \in Stores /\ \A k \in Keys : SortedList(store[s][k])
  BY DEF MergeInv, PostingsOk
<1>2. doc \in Nat /\ tf \in AnyTf /\ MaxPostings[s] \in Nat
  BY IndexMergeAssumption DEF AnyTf
<1>0. WithPosting(r, store[s], key, doc)
  BY <1>1, <1>2, AddPostingSorted, Zenon
<1>3. /\ r \in Stores /\ \A k \in Keys : SortedList(r[k])
      /\ \A k \in Keys : k # key => r[k] = store[s][k]
      /\ IF \E i \in DOMAIN store[s][key] : store[s][key][i].doc = doc
         THEN Len(r[key]) = Len(store[s][key]) ELSE Len(r[key]) = Len(store[s][key]) + 1
  BY <1>0, Zenon DEF WithPosting
<1>4. store' = [store EXCEPT ![s] = r]
  BY DEF Write
<1> HIDE DEF r
<1>5. /\ Len(r[key]) = Len(store[s][key]) => PostingCount(r) = PostingCount(store[s])
      /\ Len(r[key]) = Len(store[s][key]) + 1 => PostingCount(r) <= PostingCount(store[s]) + 1
  BY <1>1, <1>3, AddPostingCount
<1>6. PostingCount(store[s]) \in Nat /\ PostingCount(r) \in Nat /\ PostingCount(store[s]) <= MaxPostings[s]
  BY <1>1, <1>3, PostingPairsFinite DEF MergeInv, PostingsOk
<1>7. PostingCount(r) <= MaxPostings[s]
  <2>1. CASE \E i \in DOMAIN store[s][key] : store[s][key][i].doc = doc
    BY <2>1, <1>3, <1>5, <1>6
  <2>2. CASE ~\E i \in DOMAIN store[s][key] : store[s][key][i].doc = doc
    <3>1. PostingCount(store[s]) < MaxPostings[s]
      BY <2>2 DEF Write
    <3>2. PostingCount(r) <= PostingCount(store[s]) + 1
      BY <2>2, <1>3, <1>5
    <3>3. QED
      BY <3>1, <3>2, <1>2, <1>6
  <2>3. QED
    BY <2>1, <2>2
<1>8. store' \in [Side -> Stores] /\ store'[s] = r /\ \A q \in Side : q # s => store'[q] = store[q]
  BY <1>1, <1>3, <1>4
<1>9. PostingsOk'
  <2>1. ASSUME NEW q \in Side
        PROVE  /\ PostingCount(store'[q]) <= MaxPostings[q]
               /\ \A k \in Keys : SortedList(store'[q][k])
    <3>1. CASE q = s
      BY <3>1, <1>3, <1>7, <1>8
    <3>2. CASE q # s
      BY <3>2, <1>8 DEF MergeInv, PostingsOk
    <3>3. QED
      BY <3>1, <3>2
  <2>2. QED
    BY <2>1, <1>8 DEF PostingsOk
<1>10. UNCHANGED <<phase, table, cur, out, file, failures>> /\ phase = "fill"
  BY DEF Write
<1>11. CursorsOk' /\ BatchOk' /\ DirectoryOk' /\ ListsOk'
  BY <1>10, MergeUntouched
<1>12. MergeFailsForCause'
  BY <1>10 DEF MergeFailsForCause
<1>13. QED
  BY <1>9, <1>10, <1>11, <1>12 DEF MergeInv

LEMMA FailuresBounded ==
  ASSUME failures \in 0 .. MaxFailures, NEW bad \in SUBSET Side, CanFail(bad)
  PROVE  failures + Cardinality(bad) \in 0 .. MaxFailures
<1>1. IsFiniteSet(Side)
  <2>1. Side = {"base"} \cup {"delta"}
    BY SidesAre
  <2>2. QED
    BY <2>1, FS_Singleton, FS_AddElement
<1>2. Cardinality(bad) \in Nat
  BY <1>1, FS_Subset, FS_CardinalityType
<1>3. QED
  BY <1>2, IndexMergeAssumption DEF CanFail

LEMMA BeginMergeKeeps ==
  ASSUME MergeInv, BeginMerge
  PROVE  MergeInv'
<1>1. PICK bad \in SUBSET Side :
        /\ phase = "fill" /\ CanFail(bad) /\ phase' = "merge"
        /\ table' = [s \in Side |-> BuildBlocks(store[s])]
        /\ cur' = [s \in Side |-> CursorAt(table'[s], 0, s \notin bad)]
        /\ failures' = failures + Cardinality(bad)
        /\ UNCHANGED <<store, out, file>>
  BY Zenon DEF BeginMerge
<1>2. NothingMerged
  BY <1>1 DEF MergeInv, NothingMerged
<1>3. \A s \in Side : table'[s] = BuildBlocks(store[s]) /\ cur'[s] = CursorAt(table'[s], 0, s \notin bad)
  BY <1>1
<1>4. ASSUME NEW s \in Side
      PROVE  TableOk(table'[s]) /\ CursorOk(table'[s], cur'[s]) /\ \A x : ~PassedIn(table'[s], cur'[s], x)
  <2>1. store[s] \in [Keys -> Seq([doc : Nat, tf : AnyTf])]
    BY DEF MergeInv, PostingsOk, Stores, Posting
  <2>2. TableOk(table'[s])
    BY <2>1, <1>3, BuildBlocksOk
  <2>3. (s \notin bad) \in BOOLEAN
    OBVIOUS
  <2>4. QED
    BY <2>2, <2>3, <1>3, CursorStarts
<1>5. CursorsOk'
  BY <1>4 DEF CursorsOk
<1>6. BatchOk' /\ DirectoryOk' /\ ListsOk'
  <2>1. BatchOk /\ Ascending(DirSoFar) /\ \A x : ~InDir(DirSoFar, x)
    BY <1>2, NothingMergedOk
  <2>2. DirSoFar' = DirSoFar
    BY <1>1 DEF DirSoFar
  <2>3. BatchOk'
    BY <2>1, <1>1 DEF BatchOk
  <2>4. QED
    BY <2>1, <2>2, <2>3, <1>4 DEF DirectoryOk, ListsOk
<1>7. PostingsOk'
  BY <1>1 DEF MergeInv, PostingsOk
<1>8. failures' \in 0 .. MaxFailures
  BY <1>1, FailuresBounded DEF MergeInv
<1>9. MergeFailsForCause'
  BY <1>1 DEF MergeFailsForCause
<1>10. QED
  BY <1>1, <1>5, <1>6, <1>7, <1>8, <1>9 DEF MergeInv

\* A batch is dumped: the files become what they and the batch made before.
LEMMA DumpKeeps ==
  ASSUME MergeInv, file' = DumpBatch(file, out), out' = ResetWrite(out, file'),
         UNCHANGED <<table, cur>>
  PROVE  /\ CursorsOk' /\ BatchOk' /\ DirectoryOk' /\ ListsOk' /\ TermBytes' = TermBytes
         /\ Live' = Live /\ out'.leaf = <<>> /\ ~out'.has
<1>1. /\ out \in Out /\ file \in Table /\ file.head = HeadOf(file.leaf) /\ out.base = Len(file.index)
      /\ IF out.leaf = <<>> THEN ~out.has /\ out.block = 0 /\ out.offset = 0 ELSE out.has
  BY DEF MergeInv, BatchOk
<1>2. Dumped(file', file, out)
  BY <1>1, DumpBatchDumps
<1>3. /\ file' \in Table /\ file'.head = HeadOf(file'.leaf) /\ file'.leaf = DirSoFar
      /\ file' = Written /\ Len(file'.index) \in Nat
  BY <1>2 DEF Dumped, DirSoFar, Written, Table
<1>4. /\ out' \in Out /\ out'.leaf = <<>> /\ ~out'.has /\ out'.block = 0 /\ out'.offset = 0
      /\ out'.base = Len(file'.index)
  <2>1. CASE NothingToDump(out)
    <3>1. out' = out /\ out.leaf = <<>>
      BY <2>1 DEF ResetWrite, NothingToDump
    <3>2. file' = file
      BY <1>1, <3>1, DumpNothing
    <3>3. QED
      BY <3>1, <3>2, <1>1
  <2>2. CASE ~NothingToDump(out)
    <3>1. out' = EmptyOut(Len(file'.index))
      BY <2>2 DEF ResetWrite
    <3>2. QED
      BY <3>1, <1>3, EmptyOutType
  <2>3. QED
    BY <2>1, <2>2
<1>5. DirSoFar' = DirSoFar
  <2>1. file'.leaf \in Seq(Leaf)
    BY <1>3 DEF Table
  <2>2. file'.leaf \o <<>> = file'.leaf
    BY <2>1
  <2>3. QED
    BY <2>2, <1>3, <1>4 DEF DirSoFar
<1>6. Written' = Written
  <2>1. DumpBatch(file', out') = file'
    BY <1>3, <1>4, DumpNothing
  <2>2. QED
    BY <2>1, <1>3 DEF Written
<1>7. BatchOk'
  <2>1. Len(out'.leaf) <= MergedLeafLimit
    BY <1>4, SeqTypes, MergeConstants
  <2>2. QED
    BY <2>1, <1>3, <1>4 DEF BatchOk
<1>8. ASSUME NEW x, InDir(DirSoFar, x) PROVE x \in Entry /\ Settled(file', out', x)
  <2>1. x \in Entry /\ Settled(file, out, x)
    BY <1>8 DEF MergeInv, DirectoryOk
  <2>2. Inside(file', x)
    BY <2>1, <1>1, <1>2, SettledInside
  <2>3. QED
    BY <2>1, <2>2 DEF Inside, Settled
<1>9. Live' = Live
  BY DEF Live
<1>10. DirectoryOk'
  BY <1>5, <1>8, <1>9 DEF MergeInv, DirectoryOk
<1>11. ListsOk'
  BY <1>5, <1>6 DEF MergeInv, ListsOk
<1>12. CursorsOk' /\ TermBytes' = TermBytes
  BY <1>9 DEF MergeInv, CursorsOk, TermBytes, SideBytes, Take
<1>13. QED
  BY <1>4, <1>7, <1>9, <1>10, <1>11, <1>12

\* The least key of the cursors.
LEMMA TakeFacts ==
  ASSUME CursorsOk, Live # {}
  PROVE  /\ Take \subseteq Live /\ Take # {} /\ TermKey \in Keys /\ TermKey \in Nat
         /\ TermLength[TermKey] <= HeadTermKeyMax
         /\ \A s \in Take : Current(table[s], cur[s]).key = TermKey
         /\ \A s \in Live \ Take : TermKey < Current(table[s], cur[s]).key
<1> DEFINE K(s) == Current(table[s], cur[s]).key
<1>1. \A s \in Live : s \in Side /\ K(s) \in Nat /\ K(s) \in Keys /\ TermLength[K(s)] <= HeadTermKeyMax
  BY CurrentInside DEF Live, CursorsOk
<1>2. Take = {s \in Live : \A r \in Live : K(s) <= K(r)} /\ Live \subseteq {"base", "delta"}
  BY SidesAre DEF Take, Live
<1> HIDE DEF K
<1>3. Take # {}
  <2>1. CASE "base" \in Live /\ "delta" \in Live
    <3>1. K("base") <= K("delta") \/ K("delta") <= K("base")
      BY <2>1, <1>1
    <3>2. K("base") <= K("base") /\ K("delta") <= K("delta")
      BY <2>1, <1>1
    <3>3. QED
      BY <3>1, <3>2, <2>1, <1>2
  <2>2. CASE ~("base" \in Live /\ "delta" \in Live)
    <3>1. PICK s \in Live : TRUE
      OBVIOUS
    <3>2. \A r \in Live : r = s
      BY <3>1, <2>2, <1>2
    <3>3. K(s) <= K(s)
      BY <3>1, <1>1
    <3>4. \A r \in Live : K(s) <= K(r)
      BY <3>2, <3>3
    <3>5. QED
      BY <3>1, <3>4, <1>2
  <2>3. QED
    BY <2>1, <2>2
<1> DEFINE q == CHOOSE s \in Take : TRUE
<1>4. q \in Take /\ TermKey = K(q)
  BY <1>3 DEF TermKey, K
<1> HIDE DEF q
<1>5. q \in Live /\ \A r \in Live : K(q) <= K(r)
  BY <1>2, <1>4
<1>6. ASSUME NEW s \in Take PROVE K(s) = K(q)
  <2>1. s \in Live /\ K(s) <= K(q) /\ K(q) <= K(s)
    BY <1>2, <1>5
  <2>2. QED
    BY <2>1, <1>1, <1>5
<1>7. ASSUME NEW s \in Live \ Take PROVE K(q) < K(s)
  <2>1. PICK r \in Live : ~(K(s) <= K(r))
    BY <1>2
  <2>2. K(q) <= K(r) /\ K(q) \in Nat /\ K(r) \in Nat /\ K(s) \in Nat
    BY <1>1, <1>5
  <2>3. QED
    BY <2>1, <2>2
<1>8. QED
  BY <1>1, <1>2, <1>3, <1>4, <1>5, <1>6, <1>7 DEF K

\* The bytes and the frequency of the term.
LEMMA TermType ==
  ASSUME CursorsOk
  PROVE  /\ \A s \in Side : SideBytes(s) \in Seq(Nat) /\ SideFreq(s) \in Nat
         /\ TermBytes \in Seq(Nat)
<1>1. ASSUME NEW s \in Side PROVE SideBytes(s) \in Seq(Nat) /\ SideFreq(s) \in Nat
  <2>1. CASE s \in Take
    <3>1. ~AtEnd(table[s], cur[s]) /\ TableOk(table[s]) /\ CursorOk(table[s], cur[s])
      BY <2>1 DEF Take, Live, CursorsOk
    <3>2. Current(table[s], cur[s]) \in Entry /\ Inside(table[s], Current(table[s], cur[s]))
          /\ Current(table[s], cur[s]).df \in Nat /\ table[s] \in Table
      BY <3>1, CurrentInside, TableFields
    <3>3. PostingBytes(table[s], Current(table[s], cur[s])) \in Seq(Nat)
      BY <3>2, PostingBytesType
    <3>4. QED
      BY <2>1, <3>2, <3>3 DEF SideBytes, SideFreq
  <2>2. CASE s \notin Take
    BY <2>2, SeqTypes DEF SideBytes, SideFreq
  <2>3. QED
    BY <2>1, <2>2
<1>2. TermBytes \in Seq(Nat)
  BY <1>1, SidesAre, ConcatElements DEF TermBytes
<1>3. QED
  BY <1>1, <1>2

LEMMA DumpAndRetryKeeps ==
  ASSUME MergeInv, NEW n \in 0 .. 1, DumpAndRetry(n)
  PROVE  MergeInv'
<1>1. /\ phase = "merge" /\ Live # {} /\ (IF n = 0 THEN ~Fits ELSE failures < MaxFailures)
      /\ phase' = (IF NothingToDump(out) THEN "err" ELSE "merge")
      /\ failures' = failures + n /\ store' = store
      /\ file' = DumpBatch(file, out) /\ out' = ResetWrite(out, file') /\ UNCHANGED <<table, cur>>
  BY DEF DumpAndRetry
<1>2. CursorsOk' /\ BatchOk' /\ DirectoryOk' /\ ListsOk' /\ TermBytes' = TermBytes
  BY <1>1, DumpKeeps
<1>3. PostingsOk'
  BY <1>1 DEF MergeInv, PostingsOk
<1>4. failures' \in 0 .. MaxFailures /\ (n # 0 => failures' > 0)
  BY <1>1, IndexMergeAssumption DEF MergeInv
<1>5. ASSUME NothingToDump(out), n = 0
      PROVE  Len(TermBytes) > ScratchBytes \/ Placement(EmptyOut(0), TermBytes).length = 0
  <2>1. out.leaf = <<>> /\ out.block = 0 /\ out.offset = 0
    BY <1>5 DEF MergeInv, BatchOk, NothingToDump
  <2>2. CanAddLeafTermEntry(out, TermKey)
    <3>1. TermKey \in Keys /\ TermLength[TermKey] <= HeadTermKeyMax
      BY <1>1, TakeFacts DEF MergeInv
    <3>2. byte_len(TermKey) <= LeafBytes
      <4> DEFINE size == TermLength[TermKey]
      <4>1. size \in Nat /\ size <= HeadTermKeyMax
        BY <3>1, PostingBlocksAssumption
      <4>2. /\ LeafEntrySize \in Nat /\ HeadTermKeyMax \in Nat /\ LeafBytes \in Nat
            /\ LeafEntrySize + HeadTermKeyMax <= LeafBytes
        BY PostingBlocksAssumption
      <4> HIDE DEF size
      <4>3. LeafEntrySize + size <= LeafBytes
        BY <4>1, <4>2
      <4>4. QED
        BY <4>3 DEF size, byte_len
    <3>3. Len(out.leaf) = 0
      BY <2>1, SeqTypes
    <3>4. QED
      BY <3>2, <3>3, MergeConstants DEF CanAddLeafTermEntry
  <2>3. ~(Len(TermBytes) <= ScratchBytes) \/ ~(Placement(out, TermBytes).length > 0)
    BY <1>1, <1>5, <2>2 DEF Fits, TermPlace
  <2>4. Len(TermBytes) \in Nat /\ ScratchBytes \in Nat
    <3>1. TermBytes \in Seq(Nat)
      BY TermType DEF MergeInv
    <3>2. QED
      BY <3>1, IndexMergeAssumption
  <2>5. Placement(EmptyOut(0), TermBytes) = Placement(out, TermBytes)
    <3>1. EmptyOut(0).block = 0 /\ EmptyOut(0).offset = 0
      BY EmptyOutType
    <3>2. QED
      BY <3>1, <2>1, PlacementIs
  <2>6. Placement(out, TermBytes).length > 0 \/ Placement(out, TermBytes).length = 0
    <3>1. \A block, offset, length, end :
            LET at == PlaceAt(TermBytes, block, offset, length, end)
            IN  at.length > 0 \/ at.length = 0
      BY DEF PlaceAt, FitsAt
    <3>2. QED
      BY <3>1, PlacementIs DEF PlaceFrom
  <2>7. QED
    BY <2>3, <2>4, <2>5, <2>6
<1>6. MergeFailsForCause'
  <2>1. CASE NothingToDump(out)
    BY <2>1, <1>2, <1>4, <1>5 DEF MergeFailsForCause
  <2>2. CASE ~NothingToDump(out)
    BY <2>2, <1>1 DEF MergeFailsForCause
  <2>3. QED
    BY <2>1, <2>2
<1>7. phase' \in {"fill", "merge", "ok", "err"} /\ phase' # "fill"
  BY <1>1
<1>8. QED
  BY <1>2, <1>3, <1>4, <1>6, <1>7 DEF MergeInv

LEMMA EndMergeKeeps ==
  ASSUME MergeInv, EndMerge
  PROVE  MergeInv'
<1>1. /\ phase' = "ok" /\ UNCHANGED <<store, table, cur, failures>>
      /\ file' = DumpBatch(file, out) /\ out' = ResetWrite(out, file')
  BY DEF EndMerge
<1>2. CursorsOk' /\ BatchOk' /\ DirectoryOk' /\ ListsOk'
  BY <1>1, DumpKeeps
<1>3. PostingsOk' /\ MergeFailsForCause'
  BY <1>1 DEF MergeInv, PostingsOk, MergeFailsForCause
<1>4. QED
  BY <1>1, <1>2, <1>3 DEF MergeInv

\* Every term written or passed is below the next one.
LEMMA TermIsNew ==
  ASSUME MergeInv, Live # {}
  PROVE  /\ \A x : InDir(DirSoFar, x) => x.key < TermKey /\ x.key # TermKey
         /\ \A s \in Side : \A x : PassedIn(table[s], cur[s], x) => x.key # TermKey
<1>1. PICK q \in Take : TRUE
  BY TakeFacts DEF MergeInv
<1>2. q \in Live /\ Current(table[q], cur[q]).key = TermKey /\ TermKey \in Nat
  BY TakeFacts DEF MergeInv
<1>3. \A x : InDir(DirSoFar, x) => x.key < TermKey
  BY <1>2 DEF MergeInv, DirectoryOk
<1>4. \A x : InDir(DirSoFar, x) => x.key # TermKey
  BY <1>2, <1>3
<1>5. QED
  BY <1>3, <1>4 DEF MergeInv, ListsOk

\* The cursors of a turn that takes a term.
Advanced(bad) ==
  /\ table' = table
  /\ cur' = [s \in Side |-> IF s \in Take THEN Advance(table[s], cur[s], s \notin bad) ELSE cur[s]]

LEMMA AdvancedCursors ==
  ASSUME MergeInv, Live # {}, NEW bad, Advanced(bad)
  PROVE  \A s \in Side :
           /\ TableOk(table'[s]) /\ CursorOk(table'[s], cur'[s])
           /\ \A x : PassedIn(table'[s], cur'[s], x)
                     <=> PassedIn(table[s], cur[s], x) \/ (s \in Take /\ x = Current(table[s], cur[s]))
           /\ s \in Live' => s \in Live /\ TermKey < Current(table'[s], cur'[s]).key
<1> SUFFICES ASSUME NEW s \in Side
             PROVE  /\ TableOk(table'[s]) /\ CursorOk(table'[s], cur'[s])
                    /\ \A x : PassedIn(table'[s], cur'[s], x)
                              <=> PassedIn(table[s], cur[s], x)
                                  \/ (s \in Take /\ x = Current(table[s], cur[s]))
                    /\ s \in Live' => s \in Live /\ TermKey < Current(table'[s], cur'[s]).key
  OBVIOUS
<1>1. TableOk(table[s]) /\ CursorOk(table[s], cur[s]) /\ table'[s] = table[s]
  BY DEF MergeInv, CursorsOk, Advanced
<1>2. (s \in Live <=> ~AtEnd(table[s], cur[s])) /\ (s \in Live' <=> ~AtEnd(table'[s], cur'[s]))
  BY DEF Live
<1>3. CASE s \in Take
  <2>1. s \in Live /\ Current(table[s], cur[s]).key = TermKey
    BY <1>3, TakeFacts DEF MergeInv
  <2>2. (s \notin bad) \in BOOLEAN
    OBVIOUS
  <2>3. cur'[s] = Advance(table[s], cur[s], s \notin bad)
    BY <1>3 DEF Advanced
  <2>4. /\ CursorOk(table[s], cur'[s])
        /\ \A x : PassedIn(table[s], cur'[s], x)
                  <=> PassedIn(table[s], cur[s], x) \/ x = Current(table[s], cur[s])
        /\ ~AtEnd(table[s], cur'[s]) => Current(table[s], cur[s]).key < Current(table[s], cur'[s]).key
    BY <1>1, <1>2, <2>1, <2>2, <2>3, AdvancePasses
  <2>5. QED
    BY <1>1, <1>2, <1>3, <2>1, <2>4
<1>4. CASE s \notin Take
  <2>1. cur'[s] = cur[s]
    BY <1>4 DEF Advanced
  <2>2. s \in Live => TermKey < Current(table[s], cur[s]).key
    BY <1>4, TakeFacts DEF MergeInv
  <2>3. QED
    BY <1>1, <1>2, <1>4, <2>1, <2>2
<1>5. QED
  BY <1>3, <1>4

\* What is passed after the turn: the term under its key, the rest as before.
LEMMA AdvancedLists ==
  ASSUME MergeInv, Live # {}, NEW bad, Advanced(bad)
  PROVE  \A s \in Side :
           /\ Under(table'[s], cur'[s], TermKey) # {} <=> s \in Take
           /\ BytesUnder(table'[s], cur'[s], TermKey) = SideBytes(s)
           /\ FreqUnder(table'[s], cur'[s], TermKey) = SideFreq(s)
           /\ \A key : key # TermKey =>
                /\ Under(table'[s], cur'[s], key) = Under(table[s], cur[s], key)
                /\ BytesUnder(table'[s], cur'[s], key) = BytesUnder(table[s], cur[s], key)
                /\ FreqUnder(table'[s], cur'[s], key) = FreqUnder(table[s], cur[s], key)
<1> SUFFICES ASSUME NEW s \in Side
             PROVE  /\ Under(table'[s], cur'[s], TermKey) # {} <=> s \in Take
                    /\ BytesUnder(table'[s], cur'[s], TermKey) = SideBytes(s)
                    /\ FreqUnder(table'[s], cur'[s], TermKey) = SideFreq(s)
                    /\ \A key : key # TermKey =>
                         /\ Under(table'[s], cur'[s], key) = Under(table[s], cur[s], key)
                         /\ BytesUnder(table'[s], cur'[s], key) = BytesUnder(table[s], cur[s], key)
                         /\ FreqUnder(table'[s], cur'[s], key) = FreqUnder(table[s], cur[s], key)
  OBVIOUS
<1> DEFINE t == table[s]
           c == cur[s]
           a == cur'[s]
           e == Current(t, c)
<1>1. t \in Table /\ table'[s] = t
  BY DEF MergeInv, CursorsOk, TableOk, Advanced
<1>2. \A x : PassedIn(t, a, x) <=> PassedIn(t, c, x) \/ (s \in Take /\ x = e)
  BY <1>1, AdvancedCursors
<1>3. \A x : PassedIn(t, c, x) => x.key # TermKey
  BY TermIsNew
<1>4. s \in Take => e.key = TermKey
  BY TakeFacts DEF MergeInv
<1>5. SideBytes(s) = (IF s \in Take THEN PostingBytes(t, e) ELSE <<>>)
      /\ SideFreq(s) = (IF s \in Take THEN e.df ELSE 0)
  BY DEF SideBytes, SideFreq
<1> HIDE DEF t, c, a, e
<1>6. CASE s \in Take
  <2>1. PassedIn(t, a, e) /\ \A x : PassedIn(t, a, x) /\ x.key = e.key => x = e
    BY <1>2, <1>3, <1>4, <1>6
  <2>2. Under(t, a, e.key) = {e} /\ BytesUnder(t, a, e.key) = PostingBytes(t, e)
        /\ FreqUnder(t, a, e.key) = e.df
    BY <1>1, <2>1, UnderOne
  <2>3. /\ Under(t, a, TermKey) # {} /\ BytesUnder(t, a, TermKey) = SideBytes(s)
        /\ FreqUnder(t, a, TermKey) = SideFreq(s)
    BY <2>2, <1>4, <1>5, <1>6
  <2>4. ASSUME NEW key, key # TermKey
        PROVE  /\ Under(t, a, key) = Under(t, c, key) /\ BytesUnder(t, a, key) = BytesUnder(t, c, key)
               /\ FreqUnder(t, a, key) = FreqUnder(t, c, key)
    <3>1. \A x : x.key = key => (PassedIn(t, a, x) <=> PassedIn(t, c, x))
      BY <1>2, <1>4, <1>6, <2>4
    <3>2. QED
      BY <3>1, <1>1, UnderSame
  <2>5. QED
    BY <2>3, <2>4, <1>1, <1>6 DEF t, c, a
<1>7. CASE s \notin Take
  <2>1. \A x : PassedIn(t, a, x) <=> PassedIn(t, c, x)
    BY <1>2, <1>7
  <2>2. \A x : PassedIn(t, a, x) => x.key # TermKey
    BY <1>3, <2>1
  <2>3. Under(t, a, TermKey) = {} /\ BytesUnder(t, a, TermKey) = <<>> /\ FreqUnder(t, a, TermKey) = 0
    BY <1>1, <2>2, UnderNone
  <2>4. \A key : /\ Under(t, a, key) = Under(t, c, key) /\ BytesUnder(t, a, key) = BytesUnder(t, c, key)
                 /\ FreqUnder(t, a, key) = FreqUnder(t, c, key)
    BY <1>1, <2>1, UnderSame
  <2>5. QED
    BY <2>3, <2>4, <1>1, <1>5, <1>7 DEF t, c, a
<1>8. QED
  BY <1>6, <1>7

\* The batch after the turn: one entry more, with the bytes of the term under
\* it, and every earlier entry reads as before.
LEMMA TermEntered ==
  ASSUME MergeInv, Live # {}, Fits, file' = file,
         out' = AddLeafTermEntry(AddIndexBytes(out, TermBytes, TermPlace),
                  MergedEntry(out, TermKey, SideFreq("base") + SideFreq("delta"), TermPlace))
  PROVE  \E e : /\ e.key = TermKey /\ e.df = SideFreq("base") + SideFreq("delta")
                /\ PostingBytes(Written', e) = TermBytes
                /\ BatchOk' /\ Ascending(DirSoFar')
                /\ \A x : InDir(DirSoFar', x) <=> InDir(DirSoFar, x) \/ x = e
                /\ \A x : InDir(DirSoFar', x) => x \in Entry /\ Settled(file', out', x)
                /\ \A x : InDir(DirSoFar, x) => PostingBytes(Written', x) = PostingBytes(Written, x)
<1> DEFINE bytes == TermBytes
           at == TermPlace
           df == SideFreq("base") + SideFreq("delta")
           p == AddIndexBytes(out, bytes, at)
           e == MergedEntry(out, TermKey, df, at)
           K == TermKey
<1>1. /\ out \in Out /\ file \in Table /\ file.head = HeadOf(file.leaf) /\ out.base = Len(file.index)
      /\ Len(out.leaf) <= MergedLeafLimit
  BY DEF MergeInv, BatchOk
<1>2. bytes \in Seq(Nat) /\ df \in Nat /\ K \in Keys
  BY TermType, TakeFacts, SidesAre DEF MergeInv
<1>3. PlaceOk(out, bytes, at)
  BY <1>1, <1>2, PlacementOk DEF Fits, TermPlace
<1>4. Placed(p, out, bytes, at)
  BY <1>1, <1>2, <1>3, AddIndexBytesPlaces
<1>5. out' = AddLeafTermEntry(p, e)
  OBVIOUS
<1> HIDE DEF bytes, at, df, p, K
<1>6. p \in Out /\ SameBlocks(p, p) /\ p.leaf = out.leaf /\ p.used = out.used /\ p.base = out.base /\ p.has
  BY <1>4 DEF Placed, SameBlocks
<1>7. e \in Entry /\ e.key = K /\ e.df = df
  BY <1>1, <1>2, <1>3, <1>4, <1>6, NewEntryReads DEF K
<1> HIDE DEF e
<1>8. Ascending(file.leaf \o p.leaf) /\ \A x : InDir(file.leaf \o p.leaf, x) => x.key < e.key
  BY <1>6, <1>7, TermIsNew DEF MergeInv, DirectoryOk, DirSoFar, K
<1>9. Entered(out', p, file.leaf, e)
  <2>1. file.leaf \in Seq(Leaf)
    BY <1>1 DEF Table
  <2>2. QED
    BY <2>1, <1>5, <1>6, <1>7, <1>8, AddLeafTermEntryEnters
<1>10. /\ out' \in Out /\ SameBlocks(out', p) /\ out'.base = Len(file'.index) /\ out'.leaf # <<>> /\ out'.has
       /\ Ascending(DirSoFar') /\ \A x : InDir(DirSoFar', x) <=> InDir(DirSoFar, x) \/ x = e
  BY <1>1, <1>6, <1>9 DEF Entered, SameBlocks, DirSoFar
<1>11. Len(out'.leaf) <= MergedLeafLimit
  <2>1. NeedsLeaf(p, K) <=> NeedsLeaf(out, K)
    BY <1>6 DEF NeedsLeaf
  <2>2. Len(out.leaf) + (IF NeedsLeaf(out, K) THEN 1 ELSE 0) <= MergedLeafLimit
    BY DEF Fits, CanAddLeafTermEntry, K
  <2>3. Len(out'.leaf) <= Len(out.leaf) + (IF NeedsLeaf(out, K) THEN 1 ELSE 0)
    BY <2>1, <1>6, <1>7, <1>9 DEF Entered
  <2>4. Len(out'.leaf) \in Nat /\ Len(out.leaf) \in Nat
    <3>1. out'.leaf \in Seq(Leaf) /\ out.leaf \in Seq(Leaf)
      BY <1>1, <1>10, OutFields
    <3>2. QED
      BY <3>1
  <2> DEFINE m == Len(out'.leaf)
             n == Len(out.leaf)
             k == IF NeedsLeaf(out, K) THEN 1 ELSE 0
  <2>5. m \in Nat /\ n \in Nat /\ k \in Nat /\ n + k <= MergedLeafLimit /\ m <= n + k
    BY <2>2, <2>3, <2>4
  <2> HIDE DEF m, n, k
  <2>6. m <= MergedLeafLimit
    BY <2>5, MergeConstants
  <2>7. QED
    BY <2>6 DEF m
<1>12. BatchOk'
  BY <1>1, <1>10, <1>11 DEF BatchOk
<1>13. Settled(file, out', e) /\ PostingBytes(DumpBatch(file, out'), e) = bytes
  BY <1>1, <1>2, <1>3, <1>4, <1>10, NewEntryReads DEF e, K
<1>14. Keeps(out', out)
  BY <1>1, <1>3, <1>4, <1>10, PlacedKeeps
<1>15. ASSUME NEW x, InDir(DirSoFar, x)
       PROVE  /\ x \in Entry /\ Settled(file, out', x)
              /\ PostingBytes(DumpBatch(file, out'), x) = PostingBytes(DumpBatch(file, out), x)
  <2>1. x \in Entry /\ Settled(file, out, x)
    BY <1>15 DEF MergeInv, DirectoryOk
  <2>2. QED
    BY <2>1, <1>1, <1>14, SettledStays
<1>16. Written' = DumpBatch(file, out') /\ Written = DumpBatch(file, out)
  BY DEF Written
<1>17. \A x : InDir(DirSoFar', x) => x \in Entry /\ Settled(file', out', x)
  BY <1>7, <1>10, <1>13, <1>15
<1>18. \A x : InDir(DirSoFar, x) => PostingBytes(Written', x) = PostingBytes(Written, x)
  BY <1>15, <1>16
<1>19. e.key = TermKey /\ e.df = SideFreq("base") + SideFreq("delta") /\ PostingBytes(Written', e) = TermBytes
  BY <1>7, <1>13, <1>16 DEF K, df, bytes
<1>20. QED
  BY <1>10, <1>12, <1>17, <1>18, <1>19

LEMMA MergeTermKeeps ==
  ASSUME MergeInv, MergeTerm
  PROVE  MergeInv'
<1>1. PICK bad \in SUBSET Take :
        /\ phase = "merge" /\ Live # {} /\ Fits /\ CanFail(bad)
        /\ out' = AddLeafTermEntry(AddIndexBytes(out, TermBytes, TermPlace),
                    MergedEntry(out, TermKey, SideFreq("base") + SideFreq("delta"), TermPlace))
        /\ Advanced(bad) /\ failures' = failures + Cardinality(bad)
        /\ UNCHANGED <<phase, store, file>>
  BY DEF MergeTerm, Advanced
<1>2. bad \in SUBSET Side
  BY DEF Take, Live
<1>3. PICK e : /\ e.key = TermKey /\ e.df = SideFreq("base") + SideFreq("delta")
               /\ PostingBytes(Written', e) = TermBytes
               /\ BatchOk' /\ Ascending(DirSoFar')
               /\ \A x : InDir(DirSoFar', x) <=> InDir(DirSoFar, x) \/ x = e
               /\ \A x : InDir(DirSoFar', x) => x \in Entry /\ Settled(file', out', x)
               /\ \A x : InDir(DirSoFar, x) => PostingBytes(Written', x) = PostingBytes(Written, x)
  BY <1>1, TermEntered
<1>4. \A s \in Side :
        /\ TableOk(table'[s]) /\ CursorOk(table'[s], cur'[s])
        /\ \A x : PassedIn(table'[s], cur'[s], x)
                  <=> PassedIn(table[s], cur[s], x) \/ (s \in Take /\ x = Current(table[s], cur[s]))
        /\ s \in Live' => s \in Live /\ TermKey < Current(table'[s], cur'[s]).key
  BY <1>1, AdvancedCursors
<1>5. CursorsOk'
  BY <1>4 DEF CursorsOk
<1>6. TermKey \in Nat /\ Take # {} /\ Take \subseteq Side
      /\ \A s \in Take : Current(table[s], cur[s]).key = TermKey
  BY <1>1, TakeFacts DEF MergeInv, Live, Take
<1>7. DirectoryOk'
  <2>1. ASSUME NEW x, InDir(DirSoFar', x), NEW s \in Live'
        PROVE  x.key < Current(table'[s], cur'[s]).key
    <3>1. s \in Side
      BY DEF Live
    <3>2. TermKey < Current(table'[s], cur'[s]).key
      BY <3>1, <1>4
    <3>3. x.key = TermKey \/ x.key < TermKey
      BY <1>1, <1>3, <2>1, TermIsNew
    <3>4. x.key \in Nat /\ Current(table'[s], cur'[s]).key \in Nat
      <4>1. x \in Entry
        BY <1>3, <2>1
      <4>2. ~AtEnd(table'[s], cur'[s])
        BY DEF Live
      <4>3. QED
        BY <3>1, <4>1, <4>2, <1>4, CurrentInside, EntryKey
    <3>5. QED
      BY <3>2, <3>3, <3>4, <1>6
  <2>2. QED
    BY <2>1, <1>3 DEF DirectoryOk
<1>8. \A s \in Side :
        /\ Under(table'[s], cur'[s], TermKey) # {} <=> s \in Take
        /\ BytesUnder(table'[s], cur'[s], TermKey) = SideBytes(s)
        /\ FreqUnder(table'[s], cur'[s], TermKey) = SideFreq(s)
        /\ \A key : key # TermKey =>
             /\ Under(table'[s], cur'[s], key) = Under(table[s], cur[s], key)
             /\ BytesUnder(table'[s], cur'[s], key) = BytesUnder(table[s], cur[s], key)
             /\ FreqUnder(table'[s], cur'[s], key) = FreqUnder(table[s], cur[s], key)
  BY <1>1, AdvancedLists
<1>9. ASSUME NEW s \in Side, NEW x, PassedIn(table'[s], cur'[s], x)
      PROVE  \E y : InDir(DirSoFar', y) /\ y.key = x.key
  <2>1. CASE PassedIn(table[s], cur[s], x)
    <3>1. PICK y : InDir(DirSoFar, y) /\ y.key = x.key
      BY <2>1 DEF MergeInv, ListsOk
    <3>2. QED
      BY <3>1, <1>3
  <2>2. CASE s \in Take /\ x = Current(table[s], cur[s])
    BY <2>2, <1>3, <1>6
  <2>3. QED
    BY <2>1, <2>2, <1>4, <1>9
<1>10. ASSUME NEW x, InDir(DirSoFar', x)
       PROVE  /\ \E s \in Side : Under(table'[s], cur'[s], x.key) # {}
              /\ PostingBytes(Written', x) = BytesUnder(table'["base"], cur'["base"], x.key)
                                             \o BytesUnder(table'["delta"], cur'["delta"], x.key)
              /\ x.df = FreqUnder(table'["base"], cur'["base"], x.key)
                        + FreqUnder(table'["delta"], cur'["delta"], x.key)
  <2>1. CASE x = e
    <3>1. \E s \in Side : Under(table'[s], cur'[s], TermKey) # {}
      BY <1>6, <1>8
    <3>2. /\ BytesUnder(table'["base"], cur'["base"], TermKey) = SideBytes("base")
          /\ BytesUnder(table'["delta"], cur'["delta"], TermKey) = SideBytes("delta")
          /\ FreqUnder(table'["base"], cur'["base"], TermKey) = SideFreq("base")
          /\ FreqUnder(table'["delta"], cur'["delta"], TermKey) = SideFreq("delta")
      BY <1>8, SidesAre
    <3>3. QED
      BY <2>1, <3>1, <3>2, <1>3 DEF TermBytes
  <2>2. CASE InDir(DirSoFar, x)
    <3> DEFINE key == x.key
    <3>1. key # TermKey
      BY <2>2, <1>1, TermIsNew
    <3>2. /\ \E s \in Side : Under(table[s], cur[s], key) # {}
          /\ PostingBytes(Written, x) = BytesUnder(table["base"], cur["base"], key)
                                        \o BytesUnder(table["delta"], cur["delta"], key)
          /\ x.df = FreqUnder(table["base"], cur["base"], key)
                    + FreqUnder(table["delta"], cur["delta"], key)
      BY <2>2 DEF MergeInv, ListsOk
    <3>3. PostingBytes(Written', x) = PostingBytes(Written, x)
      BY <2>2, <1>3
    <3> HIDE DEF key
    <3>4. \A s \in Side :
            /\ Under(table'[s], cur'[s], key) = Under(table[s], cur[s], key)
            /\ BytesUnder(table'[s], cur'[s], key) = BytesUnder(table[s], cur[s], key)
            /\ FreqUnder(table'[s], cur'[s], key) = FreqUnder(table[s], cur[s], key)
      BY <3>1, <1>8
    <3>5. /\ \E s \in Side : Under(table'[s], cur'[s], key) # {}
          /\ PostingBytes(Written', x) = BytesUnder(table'["base"], cur'["base"], key)
                                         \o BytesUnder(table'["delta"], cur'["delta"], key)
          /\ x.df = FreqUnder(table'["base"], cur'["base"], key)
                    + FreqUnder(table'["delta"], cur'["delta"], key)
      BY <3>2, <3>3, <3>4, SidesAre
    <3>6. QED
      BY <3>5 DEF key
  <2>3. QED
    BY <2>1, <2>2, <1>3, <1>10
<1>11. ListsOk'
  BY <1>9, <1>10 DEF ListsOk
<1>12. PostingsOk' /\ MergeFailsForCause'
  BY <1>1 DEF MergeInv, PostingsOk, MergeFailsForCause
<1>13. failures' \in 0 .. MaxFailures
  BY <1>1, <1>2, FailuresBounded DEF MergeInv
<1>14. QED
  BY <1>1, <1>3, <1>5, <1>7, <1>11, <1>12, <1>13 DEF MergeInv

LEMMA NextKeeps ==
  ASSUME MergeInv, [Next]_vars
  PROVE  MergeInv'
<1>1. CASE \E s \in Side, k \in Keys : \E d \in Docs[s], tf \in Tfs[s] : Write(s, k, d, tf)
  BY <1>1, WriteKeeps
<1>2. CASE BeginMerge
  BY <1>2, BeginMergeKeeps
<1>3. CASE MergeTerm
  BY <1>3, MergeTermKeeps
<1>4. CASE \E n \in 0 .. 1 : DumpAndRetry(n)
  BY <1>4, DumpAndRetryKeeps
<1>5. CASE EndMerge
  BY <1>5, EndMergeKeeps
<1>6. CASE UNCHANGED vars
  <2>1. UNCHANGED <<phase, store, table, cur, out, file, failures>>
    BY <1>6 DEF vars
  <2>2. CursorsOk' /\ BatchOk' /\ DirectoryOk' /\ ListsOk' /\ TermBytes' = TermBytes
    BY <2>1, MergeUntouched
  <2>3. PostingsOk' /\ MergeFailsForCause'
    BY <2>1, <2>2 DEF MergeInv, PostingsOk, MergeFailsForCause
  <2>4. QED
    BY <2>1, <2>2, <2>3 DEF MergeInv
<1>7. QED
  BY <1>1, <1>2, <1>3, <1>4, <1>5, <1>6 DEF Next, MergeStep, Done

\* The inductive invariant of the merge.
THEOREM MergeInvariant == Spec => []MergeInv
<1>1. Init => MergeInv
  BY InitOk
<1>2. MergeInv /\ [Next]_vars => MergeInv'
  BY NextKeeps
<1>3. QED
  BY <1>1, <1>2, PTL DEF Spec

---------------------------------------------------------------------------
(* The paths. A side has documents of its own range of IDs, so that the merge
   writes no record twice. *)

DocsOk ==
  \A s \in Side, k \in Keys : \A i \in DOMAIN store[s][k] : store[s][k][i].doc \in Docs[s]

PathInv == MergeInv /\ DocsOk /\ PathsArrive

LEMMA DocsOfSide ==
  ASSUME MergeInv, DocsOk, NEW s \in Side
  PROVE  DocsOf(store[s]) \subseteq Docs[s]
<1>1. SUFFICES ASSUME NEW d \in DocsOf(store[s]) PROVE d \in Docs[s]
  OBVIOUS
<1>2. PICK k \in Keys : \E i \in DOMAIN store[s][k] : d = store[s][k][i].doc
  BY <1>1 DEF DocsOf, Range
<1>3. QED
  BY <1>2 DEF DocsOk

LEMMA WriteKeepsDocs ==
  ASSUME MergeInv, DocsOk, NEW s \in Side, NEW key \in Keys, NEW doc \in Docs[s], NEW tf \in Tfs[s],
         Write(s, key, doc, tf)
  PROVE  DocsOk'
<1> DEFINE r == AddPosting(store[s], key, doc, tf)
<1>1. store \in [Side -> Stores] /\ store[s] \in Stores /\ \A k \in Keys : SortedList(store[s][k])
  BY DEF MergeInv, PostingsOk
<1>2. doc \in Nat /\ tf \in AnyTf
  BY IndexMergeAssumption DEF AnyTf
<1>0. WithPosting(r, store[s], key, doc)
  BY <1>1, <1>2, AddPostingSorted, Zenon
<1>3. DocsFrom(r[key], store[s][key], doc) /\ \A k \in Keys : k # key => r[k] = store[s][k]
  BY <1>0, Zenon DEF WithPosting
<1>4. store' = [store EXCEPT ![s] = r]
  BY DEF Write
<1> HIDE DEF r
<1>5. store'[s] = r /\ \A q \in Side : q # s => store'[q] = store[q]
  BY <1>1, <1>4
<1>6. ASSUME NEW q \in Side, NEW k \in Keys, NEW i \in DOMAIN store'[q][k]
      PROVE  store'[q][k][i].doc \in Docs[q]
  <2>1. CASE q = s /\ k = key
    <3>1. \A j \in DOMAIN store[s][key] : store[s][key][j].doc \in Docs[s]
      BY DEF DocsOk
    <3>2. QED
      BY <2>1, <3>1, <1>3, <1>5, <1>6 DEF DocsFrom
  <2>2. CASE ~(q = s /\ k = key)
    <3>1. store'[q][k] = store[q][k]
      BY <2>2, <1>3, <1>5
    <3>2. QED
      BY <3>1, <1>6 DEF DocsOk
  <2>3. QED
    BY <2>1, <2>2
<1>7. QED
  BY <1>6 DEF DocsOk

LEMMA BeginMergeArrives ==
  ASSUME MergeInv, DocsOk, BeginMerge
  PROVE  PathsArrive'
<1> DEFINE A == DocsOf(store["base"])
           B == DocsOf(store["delta"])
           base == EncodeDocPaths(A)
           delta == EncodeDocPaths(B)
           both == MergeDocData(base, delta)
<1>1. store' = store /\ docData' = [base |-> base, delta |-> delta, merged |-> both]
  BY DEF BeginMerge
<1>2. A \subseteq Range(HashOrder) /\ B \subseteq Range(HashOrder) /\ A \cap B = {}
  <2>1. A \subseteq Docs["base"] /\ B \subseteq Docs["delta"]
    BY DocsOfSide, SidesAre
  <2>2. /\ \A b \in Docs["base"], d \in Docs["delta"] : b < d
        /\ Docs["base"] \subseteq Nat /\ Docs["base"] \subseteq Range(HashOrder)
        /\ Docs["delta"] \subseteq Range(HashOrder)
    BY IndexMergeAssumption, SidesAre
  <2>3. \A d \in Docs["base"] : d \notin Docs["delta"]
    BY <2>2
  <2> HIDE DEF A, B
  <2>4. QED
    BY <2>1, <2>2, <2>3
<1>3. /\ DocsOf(store'["base"]) = A /\ DocsOf(store'["delta"]) = B
  BY <1>1
<1> HIDE DEF A, B
<1>4. /\ \A d \in A : Arrived(base, d, PathOf[d]) /\ Arrived(both, d, PathIn(base, d))
      /\ \A d \in B : Arrived(delta, d, PathOf[d]) /\ Arrived(both, d, PathIn(delta, d))
  BY <1>2, PathsOfMerge
<1> HIDE DEF base, delta, both
<1>5. docData'["base"] = base /\ docData'["delta"] = delta /\ docData'.merged = both
  BY <1>1
<1>6. ASSUME NEW s \in Side, NEW d \in DocsOf(store'[s])
      PROVE  /\ Arrived(docData'[s], d, PathOf[d])
             /\ Arrived(docData'.merged, d, PathIn(docData'[s], d))
  <2>1. CASE s = "base"
    BY <2>1, <1>3, <1>4, <1>5, <1>6
  <2>2. CASE s = "delta"
    BY <2>2, <1>3, <1>4, <1>5, <1>6
  <2>3. QED
    BY <2>1, <2>2, SidesAre
<1>7. QED
  BY <1>6 DEF PathsArrive

LEMMA PathInvKept ==
  ASSUME PathInv, [Next]_vars
  PROVE  PathInv'
<1>1. MergeInv /\ DocsOk /\ PathsArrive /\ MergeInv'
  BY NextKeeps DEF PathInv
<1> SUFFICES DocsOk' /\ PathsArrive'
  BY <1>1 DEF PathInv
<1>2. ASSUME NEW s \in Side, NEW k \in Keys, NEW d \in Docs[s], NEW tf \in Tfs[s], Write(s, k, d, tf)
      PROVE  DocsOk' /\ PathsArrive'
  <2>1. DocsOk'
    BY <1>1, <1>2, WriteKeepsDocs
  <2>2. phase' = "fill"
    BY <1>2 DEF Write
  <2>3. QED
    BY <2>1, <2>2 DEF PathsArrive
<1>3. CASE BeginMerge
  <2>1. store' = store
    BY <1>3 DEF BeginMerge
  <2>2. QED
    BY <2>1, <1>1, <1>3, BeginMergeArrives DEF DocsOk
<1>4. ASSUME UNCHANGED <<store, docData>>, phase = "fill" => phase' = "fill" PROVE DocsOk' /\ PathsArrive'
  BY <1>1, <1>4 DEF DocsOk, PathsArrive, DocsOf
<1>5. CASE MergeTerm \/ (\E n \in 0 .. 1 : DumpAndRetry(n)) \/ EndMerge
  BY <1>4, <1>5 DEF MergeTerm, DumpAndRetry, EndMerge
<1>6. CASE UNCHANGED vars
  BY <1>4, <1>6 DEF vars
<1>7. QED
  BY <1>2, <1>3, <1>5, <1>6 DEF Next, MergeStep, Done

LEMMA PathInvInit == Init => PathInv
<1>1. SUFFICES ASSUME Init PROVE PathInv
  OBVIOUS
<1>2. MergeInv
  BY <1>1, InitOk
<1>3. PathsArrive
  BY <1>1 DEF Init, PathsArrive
<1>4. DocsOk
  <2>1. \A s \in Side, k \in Keys : store[s][k] = <<>>
    BY <1>1 DEF Init, EmptyStore
  <2>2. QED
    BY <2>1 DEF DocsOk
<1>5. QED
  BY <1>2, <1>3, <1>4 DEF PathInv

---------------------------------------------------------------------------
(* The tables. They are what BuildBlocks made of the stores. *)

TablesBuilt == phase # "fill" => \A s \in Side : table[s] = BuildBlocks(store[s])

BuiltInv == PathInv /\ TablesBuilt

LEMMA TablesBuiltKept ==
  ASSUME TablesBuilt, [Next]_vars
  PROVE  TablesBuilt'
<1>1. ASSUME NEW s \in Side, NEW k \in Keys, NEW d \in Docs[s], NEW tf \in Tfs[s], Write(s, k, d, tf)
      PROVE  TablesBuilt'
  BY <1>1 DEF Write, TablesBuilt
<1>2. CASE BeginMerge
  <2>1. store' = store /\ table' = [s \in Side |-> BuildBlocks(store[s])]
    BY <1>2 DEF BeginMerge
  <2>2. \A s \in Side : table'[s] = BuildBlocks(store'[s])
    BY <2>1
  <2>3. QED
    BY <2>2 DEF TablesBuilt
<1>3. ASSUME UNCHANGED <<store, table>>, phase = "fill" => phase' = "fill" PROVE TablesBuilt'
  BY <1>3 DEF TablesBuilt
<1>4. CASE MergeTerm \/ (\E n \in 0 .. 1 : DumpAndRetry(n)) \/ EndMerge
  BY <1>3, <1>4 DEF MergeTerm, DumpAndRetry, EndMerge
<1>5. CASE UNCHANGED vars
  BY <1>3, <1>5 DEF vars
<1>6. QED
  BY <1>1, <1>2, <1>4, <1>5 DEF Next, MergeStep, Done

LEMMA TablesHoldLists ==
  ASSUME BuiltInv
  PROVE  BuiltLists
<1>1. SUFFICES ASSUME phase # "fill", NEW s \in Side, NEW k \in Keys
               PROVE  LET list    == store[s][k]
                          entries == {x \in {EntryAt(table[s], p) : p \in Positions(table[s])} : x.key = k}
                      IN  /\ entries = {} <=> TermLength[k] > HeadTermKeyMax \/ list = <<>>
                          /\ \A x \in entries :
                               /\ x.df = Len(list)
                               /\ (Len(table[s].index) < U16 \/ Len(encode(list)) < U16) =>
                                    PostingBytes(table[s], x) = encode(list)
  BY DEF BuiltLists
<1> DEFINE st == store[s]
           t == table[s]
           list == st[k]
           all == {EntryAt(t, p) : p \in Positions(t)}
           entries == {x \in all : x.key = k}
<1>2. MergeInv /\ DocsOk /\ TablesBuilt
  BY DEF BuiltInv, PathInv
<1>3. st \in Stores /\ t = BuildBlocks(st) /\ TableOk(t)
  BY <1>1, <1>2 DEF MergeInv, PostingsOk, CursorsOk, TablesBuilt
<1>4. \A j \in Keys : PairsFit(st[j])
  <2>1. \A j \in Keys : \A i \in DOMAIN st[j] : st[j][i].doc \in Docs[s]
    BY <1>2 DEF DocsOk
  <2>2. \A d \in Docs[s] : Len(vb_write(d)) < PageSize - ContinuationHeader
    BY IndexMergeAssumption
  <2> HIDE DEF st
  <2>3. QED
    BY <2>1, <2>2 DEF PairsFit
<1>5. \A x : x \in all <=> InDir(t.leaf, x)
  <2>1. t \in Table
    BY <1>3 DEF TableOk
  <2> HIDE DEF t
  <2>2. QED
    BY <2>1, EntriesOf
<1> HIDE DEF st, t
<1>6. TableLists(t, st)
  <2>1. st \in [Keys -> Seq([doc : Nat, tf : AnyTf])]
    BY <1>3 DEF Stores, Posting
  <2>2. TableLists(BuildBlocks(st), st)
    BY <2>1, <1>4, BuildBlocksLists
  <2>3. QED
    BY <2>2, <1>3
<1> HIDE DEF all
<1>7. ASSUME NEW x \in entries
      PROVE  /\ TermLength[k] <= HeadTermKeyMax /\ list # <<>>
             /\ x.df = Len(list)
             /\ Countable(Len(t.index), list) => PostingBytes(t, x) = encode(list)
  <2>1. InDir(t.leaf, x) /\ x.key = k
    BY <1>5
  <2>2. TermLength[k] <= HeadTermKeyMax
    BY <2>1, <1>3 DEF TableOk
  <2>3. QED
    BY <2>1, <2>2, <1>6 DEF TableLists
<1>8. TermLength[k] <= HeadTermKeyMax /\ list # <<>> => entries # {}
  BY <1>5, <1>6 DEF TableLists
<1>9. TermLength[k] \in Nat /\ HeadTermKeyMax \in Nat
  BY PostingBlocksAssumption
<1> HIDE DEF list, entries
<1>10. entries = {} <=> TermLength[k] > HeadTermKeyMax \/ list = <<>>
  <2>1. TermLength[k] > HeadTermKeyMax <=> ~(TermLength[k] <= HeadTermKeyMax)
    BY <1>9
  <2>2. QED
    BY <2>1, <1>7, <1>8
<1>11. QED
  BY <1>7, <1>10 DEF Countable, list, entries, all, st, t

---------------------------------------------------------------------------
(* The end. Both cursors have left everything behind, and nothing is left in
   the batch. *)

EndOk == phase = "ok" => Live = {} /\ out.leaf = <<>>

WholeInv == BuiltInv /\ EndOk

LEMMA EndOkKept ==
  ASSUME MergeInv, EndOk, [Next]_vars
  PROVE  EndOk'
<1>1. ASSUME phase' # "ok" PROVE EndOk'
  BY <1>1 DEF EndOk
<1>2. CASE EndMerge
  <2>1. /\ Live = {} /\ UNCHANGED <<table, cur>>
        /\ file' = DumpBatch(file, out) /\ out' = ResetWrite(out, file')
    BY <1>2 DEF EndMerge
  <2>2. Live' = Live /\ out'.leaf = <<>>
    BY <2>1, DumpKeeps
  <2>3. QED
    BY <2>1, <2>2 DEF EndOk
<1>3. CASE UNCHANGED vars
  BY <1>3 DEF vars, EndOk, Live
<1>4. QED
  BY <1>1, <1>2, <1>3 DEF Next, MergeStep, Write, BeginMerge, MergeTerm, DumpAndRetry, Done

\* What a side gives the merged list of a key.
Gives(s, k) ==
  LET list == store[s][k]
  IN  /\ Under(table[s], cur[s], k) = {} <=> TermLength[k] > HeadTermKeyMax \/ list = <<>>
      /\ TermLength[k] <= HeadTermKeyMax =>
           /\ BytesUnder(table[s], cur[s], k) = encode(list)
           /\ FreqUnder(table[s], cur[s], k) = Len(list)

LEMMA EncodeNothing == encode(<<>>) = <<>>
<1> DEFINE none == [i \in DOMAIN <<>> |-> vb_write(<<>>[i].doc) \o <<tf8_encode(<<>>[i].tf)>>]
<1>1. none = <<>>
  OBVIOUS
<1>2. <<>> \in Seq(Nat)
  OBVIOUS
<1>3. \A s \in Seq(Nat) : s = <<>> => FlattenSeq(s) = <<>>
  BY FlattenSteps
<1>4. FlattenSeq(none) = <<>>
  BY <1>1, <1>2, <1>3
<1>5. QED
  BY <1>4 DEF encode

LEMMA SideGives ==
  ASSUME WholeInv, phase = "ok", NEW s \in Side, ~cur[s].dead, Len(table[s].index) < U16,
         NEW k \in Keys
  PROVE  Gives(s, k)
<1> DEFINE t == table[s]
           c == cur[s]
           list == store[s][k]
           U == Under(t, c, k)
<1>1. MergeInv /\ BuiltLists /\ EndOk
  BY TablesHoldLists DEF WholeInv, BuiltInv, PathInv
<1>2. TableOk(t) /\ CursorOk(t, c) /\ AtEnd(t, c)
  BY <1>1 DEF MergeInv, CursorsOk, EndOk, Live
<1>3. t \in Table /\ Len(t.leaf) \in Nat /\ c.leaf \in Nat /\ c.leaf >= Len(t.leaf)
  BY <1>2, TableFields DEF CursorOk, Cursor, AtEnd
<1>4. \A x : PassedIn(t, c, x) <=> InDir(t.leaf, x)
  <2>1. \A l \in 1 .. Len(t.leaf) : l <= c.leaf
    BY <1>3
  <2>2. QED
    BY <2>1 DEF PassedIn, InDir
<1> DEFINE entries == {x \in {EntryAt(t, p) : p \in Positions(t)} : x.key = k}
<1>5. /\ entries = {} <=> TermLength[k] > HeadTermKeyMax \/ list = <<>>
      /\ \A x \in entries : x.df = Len(list) /\ PostingBytes(t, x) = encode(list)
  <2>1. /\ entries = {} <=> TermLength[k] > HeadTermKeyMax \/ list = <<>>
        /\ \A x \in entries : x.df = Len(list)
                             /\ (Len(t.index) < U16 \/ Len(encode(list)) < U16 =>
                                   PostingBytes(t, x) = encode(list))
    BY <1>1, Zenon DEF BuiltLists
  <2>2. Len(t.index) < U16
    OBVIOUS
  <2> HIDE DEF t, list, entries
  <2>3. QED
    BY <2>1, <2>2, Zenon
<1>6. entries = U
  <2>1. \A x : x \in {EntryAt(t, p) : p \in Positions(t)} <=> InDir(t.leaf, x)
    <3> HIDE DEF t
    <3>1. QED
      BY <1>3, EntriesOf
  <2>2. \A x : x \in U <=> PassedIn(t, c, x) /\ x.key = k
    <3> HIDE DEF t, c
    <3>1. QED
      BY <1>3, UnderIs
  <2>3. \A x : x \in entries <=> x \in U
    BY <2>1, <2>2, <1>4
  <2> HIDE DEF U, entries
  <2>4. QED
    BY <2>3
<1> HIDE DEF entries
<1>7. CASE U = {}
  <2>1. TermLength[k] <= HeadTermKeyMax => list = <<>>
    BY <1>5, <1>6, <1>7, PostingBlocksAssumption
  <2>2. BytesUnder(t, c, k) = <<>> /\ FreqUnder(t, c, k) = 0
    BY <1>7 DEF BytesUnder, FreqUnder
  <2>3. Len(<<>>) = 0
    OBVIOUS
  <2> HIDE DEF list
  <2>4. TermLength[k] <= HeadTermKeyMax =>
          BytesUnder(t, c, k) = encode(list) /\ FreqUnder(t, c, k) = Len(list)
    BY <2>1, <2>2, <2>3, EncodeNothing
  <2>5. QED
    BY <2>4, <1>5, <1>6 DEF Gives, list
<1>8. CASE U # {}
  <2> DEFINE e == CHOOSE x \in U : TRUE
  <2>1. e \in U
    BY <1>8
  <2>2. BytesUnder(t, c, k) = PostingBytes(t, e) /\ FreqUnder(t, c, k) = e.df
    BY <1>8 DEF BytesUnder, FreqUnder
  <2> HIDE DEF e
  <2>3. BytesUnder(t, c, k) = encode(list) /\ FreqUnder(t, c, k) = Len(list)
    BY <2>1, <2>2, <1>5, <1>6
  <2>4. QED
    BY <2>3, <1>5, <1>6 DEF Gives
<1>9. QED
  BY <1>7, <1>8

LEMMA FileIsWhole ==
  ASSUME WholeInv
  PROVE  MergedWhole
<1>1. SUFFICES ASSUME phase = "ok", \A s \in Side : ~cur[s].dead /\ Len(table[s].index) < U16, NEW k \in Keys
               PROVE  LET base    == store["base"][k]
                          delta   == store["delta"][k]
                          entries == {x \in {EntryAt(file, p) : p \in Positions(file)} : x.key = k}
                      IN  /\ entries = {} <=> TermLength[k] > HeadTermKeyMax \/ (base = <<>> /\ delta = <<>>)
                          /\ \A x \in entries : /\ x.df = Len(base) + Len(delta)
                                                /\ PostingBytes(file, x) = encode(base) \o encode(delta)
  BY DEF MergedWhole
<1> DEFINE base == store["base"][k]
           delta == store["delta"][k]
           all == {EntryAt(file, p) : p \in Positions(file)}
           entries == {x \in all : x.key = k}
           Left(s) == Under(table[s], cur[s], k)
           SideList(s) == BytesUnder(table[s], cur[s], k)
           Freq(s) == FreqUnder(table[s], cur[s], k)
<1>2. MergeInv /\ EndOk
  BY DEF WholeInv, BuiltInv, PathInv
<1>3. file = Written /\ file \in Table /\ file.leaf = DirSoFar
  <2>1. out \in Out /\ out.leaf = <<>> /\ ~out.has /\ file \in Table
    BY <1>1, <1>2 DEF MergeInv, BatchOk, EndOk
  <2>2. DumpBatch(file, out) = file
    BY <2>1, DumpNothing
  <2>3. QED
    BY <2>1, <2>2, <1>2, WrittenIs DEF Written
<1>4. Gives("base", k) /\ Gives("delta", k)
  BY <1>1, SideGives, SidesAre
<1>5. \A x : x \in entries <=> InDir(DirSoFar, x) /\ x.key = k
  BY <1>3, EntriesOf
<1>6. \A s \in Side : \A x : x \in Left(s) <=> PassedIn(table[s], cur[s], x) /\ x.key = k
  <2>1. \A s \in Side : table[s] \in Table
    BY <1>2 DEF MergeInv, CursorsOk, TableOk
  <2>2. QED
    BY <2>1, UnderIs
<1>7. /\ \A s \in Side : \A x : PassedIn(table[s], cur[s], x) =>
           \E y : InDir(DirSoFar, y) /\ y.key = x.key
      /\ \A x : InDir(DirSoFar, x) /\ x.key = k =>
           /\ \E s \in Side : Left(s) # {}
           /\ PostingBytes(Written, x) = SideList("base") \o SideList("delta")
           /\ x.df = Freq("base") + Freq("delta")
  BY <1>2 DEF MergeInv, ListsOk
<1>8. /\ Left("base") = {} <=> TermLength[k] > HeadTermKeyMax \/ base = <<>>
      /\ Left("delta") = {} <=> TermLength[k] > HeadTermKeyMax \/ delta = <<>>
      /\ TermLength[k] <= HeadTermKeyMax =>
           /\ SideList("base") = encode(base) /\ SideList("delta") = encode(delta)
           /\ Freq("base") = Len(base) /\ Freq("delta") = Len(delta)
  BY <1>4 DEF Gives
<1>9. TermLength[k] > HeadTermKeyMax <=> ~(TermLength[k] <= HeadTermKeyMax)
  BY PostingBlocksAssumption
<1> HIDE DEF base, delta, entries, all, Left, SideList, Freq
<1>10. entries = {} <=> Left("base") = {} /\ Left("delta") = {}
  <2>1. ASSUME NEW x \in entries PROVE ~(Left("base") = {} /\ Left("delta") = {})
    BY <1>5, <1>7, SidesAre
  <2>2. ASSUME NEW s \in Side, NEW x \in Left(s) PROVE entries # {}
    BY <1>5, <1>6, <1>7
  <2>3. QED
    BY <2>1, <2>2, SidesAre
<1>11. ASSUME NEW x \in entries
       PROVE  x.df = Len(base) + Len(delta) /\ PostingBytes(file, x) = encode(base) \o encode(delta)
  <2>1. TermLength[k] <= HeadTermKeyMax
    BY <1>8, <1>9, <1>10
  <2>2. QED
    BY <2>1, <1>3, <1>5, <1>7, <1>8
<1>12. entries = {} <=> TermLength[k] > HeadTermKeyMax \/ (base = <<>> /\ delta = <<>>)
  BY <1>8, <1>10
<1>13. QED
  BY <1>11, <1>12 DEF entries, all, base, delta

---------------------------------------------------------------------------
(* A turn that takes a term leaves fewer of them. *)

LeftSet == UNION {{s} \X (Positions(table[s]) \ Passed(s)) : s \in Live}

LEMMA LeftSetIs ==
  \A p : p \in LeftSet <=>
    \E s \in Live : \E q \in Positions(table[s]) : ~Behind(cur[s], q) /\ p = <<s, q>>
<1> SUFFICES ASSUME NEW p
             PROVE  p \in LeftSet <=>
                      \E s \in Live : \E q \in Positions(table[s]) : ~Behind(cur[s], q) /\ p = <<s, q>>
  OBVIOUS
<1>1. p \in LeftSet <=> \E s \in Live : p \in {s} \X (Positions(table[s]) \ Passed(s))
  BY DEF LeftSet
<1>2. ASSUME NEW s
      PROVE  p \in {s} \X (Positions(table[s]) \ Passed(s))
             <=> \E q \in Positions(table[s]) : ~Behind(cur[s], q) /\ p = <<s, q>>
  BY DEF Passed
<1>3. QED
  BY <1>1, <1>2

LEMMA LeftSetFinite ==
  ASSUME CursorsOk
  PROVE  IsFiniteSet(LeftSet)
<1> DEFINE A == [s \in Live |-> Positions(table[s]) \ Passed(s)]
<1>1. IsFiniteSet(Live)
  <2>1. Live \in SUBSET ({"base"} \cup {"delta"})
    BY SidesAre DEF Live
  <2>2. IsFiniteSet({"base"} \cup {"delta"})
    BY FS_Singleton, FS_AddElement
  <2>3. QED
    BY <2>1, <2>2, FS_Subset
<1>2. \A s \in Live : IsFiniteSet(A[s])
  <2>1. ASSUME NEW s \in Live PROVE IsFiniteSet(Positions(table[s]) \ Passed(s))
    <3>1. IsFiniteSet(Positions(table[s]))
      BY PositionsFinite DEF CursorsOk, TableOk, Live
    <3>2. QED
      BY <3>1, FS_Difference
  <2>2. QED
    BY <2>1
<1>3. LeftSet = UNION {{s} \X A[s] : s \in Live}
  BY DEF LeftSet
<1> HIDE DEF A
<1>4. QED
  BY <1>1, <1>2, <1>3, PairsFinite

LEMMA TermTakesOne ==
  ASSUME MergeInv, Live # {}, NEW bad, Advanced(bad)
  PROVE  TermsLeft' < TermsLeft
<1>1. CursorsOk /\ IsFiniteSet(LeftSet)
  BY LeftSetFinite DEF MergeInv
<1>2. ASSUME NEW s \in Live', NEW q \in Positions(table'[s]), ~Behind(cur'[s], q)
      PROVE  s \in Live /\ q \in Positions(table[s]) /\ ~Behind(cur[s], q)
  <2>1. s \in Side /\ table'[s] = table[s]
    BY DEF Live, Advanced
  <2>2. s \in Live
    BY <2>1, AdvancedCursors
  <2>3. ~Behind(cur[s], q)
    <3>1. CASE s \in Take
      <4>1. /\ TableOk(table[s]) /\ CursorOk(table[s], cur[s]) /\ ~AtEnd(table[s], cur[s])
            /\ cur'[s] = Advance(table[s], cur[s], s \notin bad) /\ (s \notin bad) \in BOOLEAN
        BY <1>1, <2>1, <2>2, <3>1 DEF CursorsOk, Live, Advanced
      <4>2. OneBehind(table[s], cur[s], cur'[s])
        BY <4>1, AdvancePasses
      <4>3. \E k \in 1 .. Len(table[s].leaf) : \E j \in 1 .. Len(table[s].leaf[k]) : q = <<k, j>>
        BY <1>2, <2>1, <4>1, EntriesOf DEF TableOk
      <4>4. QED
        BY <4>2, <4>3, <1>2 DEF OneBehind
    <3>2. CASE s \notin Take
      BY <3>2, <2>1, <1>2 DEF Advanced
    <3>3. QED
      BY <3>1, <3>2
  <2>4. QED
    BY <2>1, <2>2, <2>3
<1>3. LeftSet' \in SUBSET LeftSet
  <2>1. ASSUME NEW p, p \in LeftSet' PROVE p \in LeftSet
    <3>1. p \in LeftSet' <=>
            \E s \in Live' : \E q \in Positions(table'[s]) : ~Behind(cur'[s], q) /\ p = <<s, q>>
      <4>1. p \in LeftSet' <=> \E s \in Live' : p \in {s} \X (Positions(table'[s]) \ Passed(s)')
        BY DEF LeftSet
      <4>2. ASSUME NEW s
            PROVE  p \in {s} \X (Positions(table'[s]) \ Passed(s)')
                   <=> \E q \in Positions(table'[s]) : ~Behind(cur'[s], q) /\ p = <<s, q>>
        BY DEF Passed
      <4>3. QED
        BY <4>1, <4>2
    <3>2. PICK s \in Live' : \E q \in Positions(table'[s]) : ~Behind(cur'[s], q) /\ p = <<s, q>>
      BY <2>1, <3>1
    <3>3. PICK q \in Positions(table'[s]) : ~Behind(cur'[s], q) /\ p = <<s, q>>
      BY <3>2
    <3>4. s \in Live /\ q \in Positions(table[s]) /\ ~Behind(cur[s], q)
      BY <3>3, <1>2
    <3>5. QED
      BY <3>3, <3>4, LeftSetIs
  <2>2. QED
    BY <2>1
<1>4. \E p \in LeftSet : p \notin LeftSet'
  <2>1. PICK s \in Take : TRUE
    BY TakeFacts DEF MergeInv
  <2>2. s \in Live /\ s \in Side
    BY DEF Take, Live
  <2> DEFINE t == table[s]
             c == cur[s]
             q == <<c.leaf + 1, c.entry + 1>>
  <2>3. /\ TableOk(t) /\ CursorOk(t, c) /\ ~AtEnd(t, c)
        /\ cur'[s] = Advance(t, c, s \notin bad) /\ (s \notin bad) \in BOOLEAN
    BY <1>1, <2>1, <2>2 DEF CursorsOk, Live, Advanced
  <2>4. c.leaf \in Nat /\ c.entry \in Nat /\ c.leaf + 1 \in 1 .. Len(t.leaf)
        /\ c.entry + 1 \in 1 .. Len(t.leaf[c.leaf + 1])
    BY <2>3, CursorPlace
  <2>5. q \in Positions(t)
    BY <2>3, <2>4, EntriesOf DEF TableOk
  <2>6. ~Behind(c, q)
    <3> DEFINE l == c.leaf
               i == c.entry
    <3>1. l \in Nat /\ i \in Nat
      BY <2>4
    <3> HIDE DEF l, i
    <3>2. ~(l + 1 <= l) /\ ~(i + 1 <= i)
      BY <3>1
    <3>3. QED
      BY <3>2 DEF l, i, Behind
  <2>7. Behind(cur'[s], q)
    <3>1. OneBehind(t, c, cur'[s])
      BY <2>3, AdvancePasses
    <3>2. QED
      BY <3>1, <2>4 DEF OneBehind
  <2>8. <<s, q>> \in LeftSet
    BY <2>2, <2>5, <2>6, LeftSetIs
  <2>9. <<s, q>> \notin LeftSet'
    <3>1. SUFFICES ASSUME <<s, q>> \in LeftSet' PROVE FALSE
      OBVIOUS
    <3> HIDE DEF q
    <3>2. PICK r \in Live' : <<s, q>> \in {r} \X (Positions(table'[r]) \ Passed(r)')
      BY <3>1 DEF LeftSet
    <3>3. r = s /\ q \in Positions(table'[s]) /\ q \notin Passed(s)'
      BY <3>2
    <3>4. QED
      BY <3>3, <2>7 DEF Passed
  <2>10. QED
    BY <2>8, <2>9
<1>5. Cardinality(LeftSet') <= Cardinality(LeftSet) /\ IsFiniteSet(LeftSet')
      /\ (Cardinality(LeftSet) = Cardinality(LeftSet') => LeftSet = LeftSet')
  BY <1>1, <1>3, FS_Subset
<1>6. Cardinality(LeftSet') \in Nat /\ Cardinality(LeftSet) \in Nat
  BY <1>1, <1>5, FS_CardinalityType
<1>7. Cardinality(LeftSet') < Cardinality(LeftSet)
  BY <1>4, <1>5, <1>6
<1>8. QED
  BY <1>7 DEF TermsLeft, LeftSet

LEMMA StepProgresses ==
  ASSUME MergeInv, Next, phase = "merge"
  PROVE  \/ phase' # "merge"
         \/ TermsLeft' < TermsLeft
         \/ TermsLeft' = TermsLeft /\ ~NothingToDump(out) /\ NothingToDump(out')
<1>1. CASE MergeTerm
  <2>1. Live # {} /\ \E bad : Advanced(bad)
    BY <1>1 DEF MergeTerm, Advanced
  <2>2. QED
    BY <2>1, TermTakesOne
<1>2. ASSUME NEW n \in 0 .. 1, DumpAndRetry(n), phase' = "merge"
      PROVE  TermsLeft' = TermsLeft /\ ~NothingToDump(out) /\ NothingToDump(out')
  <2>1. /\ ~NothingToDump(out) /\ UNCHANGED <<table, cur>>
        /\ file' = DumpBatch(file, out) /\ out' = ResetWrite(out, file')
    BY <1>2 DEF DumpAndRetry
  <2>2. out'.leaf = <<>> /\ ~out'.has
    BY <2>1, DumpKeeps
  <2>3. NothingToDump(out')
    BY <2>2 DEF NothingToDump, UsedIndexBlockCount
  <2>4. TermsLeft' = TermsLeft
    BY <2>1 DEF TermsLeft, Live, Passed
  <2>5. QED
    BY <2>1, <2>3, <2>4
<1>3. CASE EndMerge
  BY <1>3 DEF EndMerge
<1>4. QED
  BY <1>1, <1>2, <1>3 DEF Next, MergeStep, Write, BeginMerge, Done

---------------------------------------------------------------------------
(* The theorems *)

\* The cursors stay inside the tables, the batch inside its limits (no index
\* into MERGED_LEAF_BLOCK_LIMIT or MERGED_INDEX_BLOCK_LIMIT blocks is out of
\* range) and every leaf written has its head entry.
THEOREM MergeTypeCorrect == Spec => []TypeOK
  BY MergeInvariant, InvImplies, PTL

\* PostingStore.AddPosting keeps every list in the order of the document IDs,
\* and the directories of BuildBlocks, and at every moment the merged one over
\* all batches dumped, are as the binary searches of the lookup need them.
THEOREM IndexStaysSorted == Spec => []IndexSorted
  BY MergeInvariant, InvImplies, PTL

\* AddIndex, AddIndexPair and DumpBatch lose, double or overwrite no byte of a
\* list: what is written under a key is the base's list, then the delta's.
THEOREM MergeKeepsLists == Spec => []MergedLists
  BY MergeInvariant, InvImplies, PTL

\* Merge returns InvalidFormat only for a block that could not be read or a
\* list that does not fit into an empty batch.
THEOREM MergeFailsWithCause == Spec => []MergeFailsForCause
  BY MergeInvariant, InvImplies, PTL

\* Every turn of Merge's loop takes a term, empties a batch, or leaves it.
THEOREM MergeMakesProgress == Spec => MergeProgress
<1>1. MergeInv /\ [Next]_vars =>
        [phase = "merge" =>
           \/ phase' # "merge"
           \/ TermsLeft' < TermsLeft
           \/ TermsLeft' = TermsLeft /\ ~NothingToDump(out) /\ NothingToDump(out')]_vars
  BY StepProgresses
<1>2. QED
  BY <1>1, MergeInvariant, PTL DEF Spec, MergeProgress

\* EncodeDocData and AppendMergedDocData keep, for every document, the path that
\* split_path_for_sidecar and DecodeDocPath give back: a stable path is read as
\* it was given, others as their halves are put together; a directory that the
\* table has no room for and the end of a long name are lost.
THEOREM PathsAlwaysArrive == Spec => []PathsArrive
<1>1. Init => PathInv
  BY PathInvInit
<1>2. PathInv /\ [Next]_vars => PathInv'
  BY PathInvKept
<1>3. PathInv => PathsArrive
  BY DEF PathInv
<1>4. QED
  BY <1>1, <1>2, <1>3, PTL DEF Spec

\* BuildBlocks writes every list whole, however its pages are shared and cut:
\* what is read under a key is the encoded list of the store.
THEOREM ListsAreBuilt == Spec => []BuiltLists
<1>1. Init => BuiltInv
  BY PathInvInit DEF BuiltInv, TablesBuilt, Init
<1>2. BuiltInv /\ [Next]_vars => BuiltInv'
  BY PathInvKept, TablesBuiltKept DEF BuiltInv
<1>3. BuiltInv => BuiltLists
  BY TablesHoldLists
<1>4. QED
  BY <1>1, <1>2, <1>3, PTL DEF Spec

\* Merge loses nothing: when it reports success and could read every leaf, the
\* index it has written has the lists of the base and of the delta, whole, as
\* PostingStore had them, for every number of terms, postings, pages and batches.
THEOREM MergeIsWhole == Spec => []MergedWhole
<1>1. Init => WholeInv
  BY PathInvInit DEF WholeInv, EndOk, BuiltInv, TablesBuilt, Init
<1>2. WholeInv /\ [Next]_vars => WholeInv'
  BY PathInvKept, TablesBuiltKept, EndOkKept DEF WholeInv, BuiltInv, PathInv
<1>3. WholeInv => MergedWhole
  BY FileIsWhole
<1>4. QED
  BY <1>1, <1>2, <1>3, PTL DEF Spec
=============================================================================
