--------------------------- MODULE DocPathsProofs ---------------------------
(***************************************************************************)
(* Every path that is encoded can be read back, from the sidecar of its    *)
(* index and after any number of later records and of merges.              *)
(***************************************************************************)
EXTENDS DocPaths, SequenceLemmas

PathSet == Seq(Character)

LEMMA PathConstants ==
  /\ EmptyString \in PathSet /\ Slash \in Character /\ Backslash \in Character /\ Slash # Backslash
  /\ FilenameMax \in Nat /\ MaxPrefixes \in Nat /\ SidecarHeader \in Nat /\ SidecarEntry \in Nat
  /\ SidecarBytes \in Nat
  BY DocPathsAssumption DEF PathSet, EmptyString, Separators

LEMMA PathElements ==
  ASSUME NEW p \in PathSet
  PROVE  /\ Len(p) \in Nat /\ DOMAIN p = 1 .. Len(p)
         /\ \A i \in 1 .. Len(p) : p[i] \in Character
  BY SeqElements DEF PathSet

---------------------------------------------------------------------------
(* Splitting and joining *)

LEMMA LastSeparatorIs ==
  ASSUME NEW path \in PathSet
  PROVE  /\ LastSeparator(path) \in 0 .. Len(path)
         /\ LastSeparator(path) # 0 => path[LastSeparator(path)] \in Separators
<1> DEFINE n == Len(path)
           S == {0} \cup {i \in DOMAIN path : path[i] \in Separators}
<1>1. n \in Nat /\ DOMAIN path = 1 .. n
  BY PathElements
<1>2. S \in SUBSET (0 .. n) /\ S # {}
  BY <1>1
<1>3. \A i \in S : i = 0 \/ path[i] \in Separators
  OBVIOUS
<1>4. LastSeparator(path) = Max(S)
  BY DEF LastSeparator
<1> HIDE DEF S, n
<1>5. Max(S) \in S
  BY <1>1, <1>2, MaxOfBounded
<1>6. QED
  BY <1>2, <1>3, <1>4, <1>5 DEF n

\* The halves of a path, by the place of its last separator.
LEMMA SplitIs ==
  ASSUME NEW path \in PathSet
  PROVE  LET at == LastSeparator(path)
             s  == split_path_for_sidecar(path)
         IN  /\ s.prefix \in PathSet /\ s.name \in PathSet
             /\ at = 0 => s.prefix = EmptyString /\ s.name = path
             /\ at # 0 => /\ Len(s.prefix) = at - 1
                          /\ \A i \in 1 .. at - 1 : s.prefix[i] = path[i]
             /\ s.name = SubSeq(path, at + 1, Len(path)) /\ Len(s.name) = Len(path) - at
             /\ \A i \in 1 .. Len(path) - at : s.name[i] = path[at + i]
<1> DEFINE at == LastSeparator(path)
           n == Len(path)
           s == split_path_for_sidecar(path)
           pre == SubSeq(path, 1, at - 1)
           suf == SubSeq(path, at + 1, n)
<1>1. at \in 0 .. n /\ n \in Nat
  BY LastSeparatorIs, PathElements
<1>2. s.prefix = pre /\ s.name = suf
  BY DEF split_path_for_sidecar
<1> HIDE DEF at, n, s
<1>3. suf \in PathSet /\ Len(suf) = n - at /\ \A i \in 1 .. n - at : suf[i] = path[at + i]
  BY <1>1, SubSeqElements DEF PathSet, n
<1>4. CASE at = 0
  <2>1. pre = EmptyString
    BY <1>4 DEF PathSet, EmptyString
  <2>2. suf = path
    <3>1. Len(suf) = Len(path) /\ \A i \in 1 .. Len(suf) : suf[i] = path[i]
      BY <1>1, <1>3, <1>4 DEF n
    <3> HIDE DEF suf
    <3>2. QED
      BY <3>1, <1>3, SeqEqual DEF PathSet
  <2>3. QED
    BY <1>2, <1>3, <1>4, <2>1, <2>2, PathConstants DEF s, at, n
<1>5. CASE at # 0
  <2>1. at - 1 \in Nat /\ 0 <= at - 1 /\ at - 1 <= Len(path)
    BY <1>1, <1>5 DEF n
  <2> DEFINE b == at - 1
             z == 0
  <2>2. b \in Nat /\ z \in Nat /\ z <= b /\ b <= Len(path) /\ b - z = b /\ z + 1 = 1 /\ \A i \in 1 .. b : z + i = i
    BY <2>1
  <2> HIDE DEF b, z
  <2>3. /\ SubSeq(path, z + 1, b) \in Seq(Character) /\ Len(SubSeq(path, z + 1, b)) = b - z
        /\ \A i \in 1 .. b - z : SubSeq(path, z + 1, b)[i] = path[z + i]
    BY <2>2, SubSeqElements DEF PathSet
  <2>4. SubSeq(path, z + 1, b) = pre
    BY <2>2 DEF b
  <2> HIDE DEF pre, suf
  <2>5. pre \in PathSet /\ Len(pre) = b /\ \A i \in 1 .. b : pre[i] = path[i]
    BY <2>2, <2>3, <2>4 DEF PathSet
  <2>6. QED
    BY <1>2, <1>3, <1>5, <2>5 DEF s, at, n, b, suf
<1>6. QED
  BY <1>4, <1>5

LEMMA JoinIs ==
  ASSUME NEW p \in PathSet, NEW n \in PathSet
  PROVE  /\ JoinPath(p, n) \in PathSet /\ JoinPath(EmptyString, n) = n
         /\ p # EmptyString /\ Last(p) \notin Separators =>
              LET c == IF \E i \in 1 .. Len(p) : p[i] = Backslash THEN Backslash ELSE Slash
                  j == JoinPath(p, n)
              IN  /\ Len(j) = Len(p) + 1 + Len(n) /\ j[Len(p) + 1] = c
                  /\ \A i \in 1 .. Len(p) : j[i] = p[i]
                  /\ \A i \in 1 .. Len(n) : j[Len(p) + 1 + i] = n[i]
<1> DEFINE c == IF Backslash \in ToSet(p) THEN Backslash ELSE Slash
           a == Append(p, c)
<1>1. c \in Character /\ Len(p) \in Nat /\ Len(n) \in Nat
  BY PathConstants, PathElements
<1>2. Backslash \in ToSet(p) <=> \E i \in 1 .. Len(p) : p[i] = Backslash
  BY PathElements DEF ToSet
<1>3. /\ a \in Seq(Character) /\ Len(a) = Len(p) + 1 /\ a[Len(p) + 1] = c
      /\ \A i \in 1 .. Len(p) : a[i] = p[i]
  <2> HIDE DEF c
  <2>1. QED
    BY <1>1 DEF PathSet
<1>4. JoinPath(p, n) = IF p = EmptyString THEN n ELSE IF Last(p) \in Separators THEN p \o n ELSE a \o n
  BY DEF JoinPath
<1>5. JoinPath(EmptyString, n) = n
  BY DEF JoinPath
<1> HIDE DEF a
<1>6. p \o n \in PathSet /\ a \o n \in PathSet
  BY <1>3, ConcatElements DEF PathSet
<1>7. ASSUME p # EmptyString, Last(p) \notin Separators
      PROVE  LET j == JoinPath(p, n)
             IN  /\ Len(j) = Len(p) + 1 + Len(n) /\ j[Len(p) + 1] = c
                 /\ \A i \in 1 .. Len(p) : j[i] = p[i]
                 /\ \A i \in 1 .. Len(n) : j[Len(p) + 1 + i] = n[i]
  <2> DEFINE j == a \o n
             m == Len(a)
             k == Len(p)
  <2>1. /\ Len(j) = m + Len(n) /\ \A i \in 1 .. m : j[i] = a[i]
        /\ \A i \in 1 .. Len(n) : j[m + i] = n[i]
    <3>1. a \in Seq(Character) /\ n \in Seq(Character)
      BY <1>3 DEF PathSet
    <3>2. QED
      BY <3>1, ConcatElements
  <2>2. m = k + 1 /\ k \in Nat /\ a[k + 1] = c /\ \A i \in 1 .. k : a[i] = p[i]
    BY <1>1, <1>3
  <2> HIDE DEF j, m, k, c
  <2>3. \A i \in 1 .. k : i \in 1 .. m
    BY <2>2
  <2>4. k + 1 \in 1 .. m
    BY <2>2
  <2>5. /\ Len(j) = k + 1 + Len(n) /\ j[k + 1] = c
        /\ \A i \in 1 .. k : j[i] = p[i]
        /\ \A i \in 1 .. Len(n) : j[k + 1 + i] = n[i]
    BY <2>1, <2>2, <2>3, <2>4
  <2>6. JoinPath(p, n) = j
    BY <1>4, <1>7 DEF j
  <2>7. QED
    BY <2>5, <2>6 DEF k
<1>8. JoinPath(p, n) \in PathSet
  BY <1>4, <1>6
<1>9. QED
  BY <1>2, <1>5, <1>7, <1>8

LEMMA NameIs ==
  ASSUME NEW path \in PathSet
  PROVE  /\ FirstBytes(split_path_for_sidecar(path).name) \in PathSet
         /\ NameOf(path) \in PathSet /\ ReadBack(path) \in PathSet
<1> DEFINE name == split_path_for_sidecar(path).name
           m == FilenameMax
<1>1. name \in PathSet /\ split_path_for_sidecar(path).prefix \in PathSet
  BY SplitIs
<1> HIDE DEF name
<1>2. Len(name) \in Nat /\ m \in Nat
  BY <1>1, PathConstants, PathElements
<1>3. FirstBytes(name) \in PathSet
  <2>1. CASE Len(name) <= m
    BY <1>1, <2>1 DEF FirstBytes
  <2>2. CASE ~(Len(name) <= m)
    <3> DEFINE z == 0
    <3>1. z \in Nat /\ z <= m /\ m <= Len(name) /\ z + 1 = 1
      BY <1>2, <2>2
    <3> HIDE DEF z, m
    <3>2. SubSeq(name, z + 1, m) \in Seq(Character)
      BY <1>1, <1>2, <3>1, SubSeqElements DEF PathSet
    <3>3. FirstBytes(name) = SubSeq(name, z + 1, m)
      BY <2>2, <3>1 DEF FirstBytes, m
    <3>4. QED
      BY <3>2, <3>3 DEF PathSet
  <2>3. QED
    BY <2>1, <2>2
<1>4. NameOf(path) \in PathSet
  BY <1>3, PathConstants DEF NameOf, from_utf8, name
<1>5. ReadBack(path) \in PathSet
  BY <1>1, <1>4, JoinIs DEF ReadBack
<1>6. QED
  BY <1>3, <1>4, <1>5 DEF name

\* A stable path is read back as it was given.
LEMMA StableStays ==
  ASSUME NEW path \in PathSet, Stable(path)
  PROVE  ReadBack(path) = path
<1> DEFINE at == LastSeparator(path)
           n == Len(path)
           pre == split_path_for_sidecar(path).prefix
           name == split_path_for_sidecar(path).name
<1>1. at \in 0 .. n /\ n \in Nat /\ (at # 0 => path[at] \in Separators)
  BY LastSeparatorIs, PathElements
<1>2. /\ pre \in PathSet /\ name \in PathSet
      /\ at = 0 => pre = EmptyString /\ name = path
      /\ at # 0 => Len(pre) = at - 1 /\ \A i \in 1 .. at - 1 : pre[i] = path[i]
      /\ name = SubSeq(path, at + 1, Len(path)) /\ Len(name) = n - at
      /\ \A i \in 1 .. n - at : name[i] = path[at + i]
  BY SplitIs
<1>3. /\ Len(name) <= FilenameMax /\ IsUtf8(name)
      /\ at > 0 => /\ at > 1 /\ path[at - 1] \notin Separators
                   /\ path[at] = Backslash <=> \E i \in 1 .. at - 1 : path[i] = Backslash
  BY <1>2 DEF Stable
<1>4. NameOf(path) = name
  BY <1>3 DEF NameOf, FirstBytes, from_utf8
<1>5. ReadBack(path) = JoinPath(pre, name)
  BY <1>4 DEF ReadBack
<1> HIDE DEF at, n, pre, name
<1>6. CASE at = 0
  BY <1>2, <1>5, <1>6, JoinIs
<1>7. CASE at # 0
  <2> DEFINE k == at - 1
             c == IF \E i \in 1 .. Len(pre) : pre[i] = Backslash THEN Backslash ELSE Slash
             j == JoinPath(pre, name)
  <2>1. k \in Nat /\ k > 0 /\ k + 1 = at /\ Len(pre) = k /\ Len(name) = n - at
        /\ \A i \in 1 .. k : pre[i] = path[i]
    BY <1>1, <1>2, <1>3, <1>7
  <2>2. pre # EmptyString /\ Last(pre) \notin Separators
    <3>1. pre # EmptyString
      BY <2>1 DEF EmptyString
    <3>2. Last(pre) = pre[k] /\ k \in 1 .. k
      BY <2>1 DEF Last
    <3>3. QED
      BY <3>1, <3>2, <2>1, <1>1, <1>3, <1>7
  <2>3. path[at] = c
    <3>1. path[at] = Slash \/ path[at] = Backslash
      BY <1>1, <1>7 DEF Separators
    <3>2. path[at] = Backslash <=> \E i \in 1 .. k : path[i] = Backslash
      BY <1>1, <1>3, <1>7
    <3>3. (\E i \in 1 .. k : path[i] = Backslash) <=> \E i \in 1 .. Len(pre) : pre[i] = Backslash
      BY <2>1
    <3>4. QED
      BY <3>1, <3>2, <3>3
  <2>4. /\ j \in PathSet
        /\ Len(j) = Len(pre) + 1 + Len(name) /\ j[Len(pre) + 1] = c
        /\ \A i \in 1 .. Len(pre) : j[i] = pre[i]
        /\ \A i \in 1 .. Len(name) : j[Len(pre) + 1 + i] = name[i]
    BY <1>2, <2>2, JoinIs
  <2> HIDE DEF j, c, k
  <2>5. /\ Len(j) = n /\ j[at] = path[at]
        /\ \A i \in 1 .. k : j[i] = path[i]
        /\ \A i \in 1 .. n - at : j[at + i] = path[at + i]
    <3>1. /\ Len(j) = at + Len(name) /\ j[at] = c
          /\ \A i \in 1 .. k : j[i] = pre[i]
          /\ \A i \in 1 .. Len(name) : j[at + i] = name[i]
      BY <2>1, <2>4
    <3>2. at + (n - at) = n
      BY <1>1
    <3>3. \A i \in 1 .. n - at : name[i] = path[at + i]
      BY <1>2
    <3>4. Len(name) = n - at
      BY <2>1
    <3>5. QED
      BY <2>1, <2>3, <3>1, <3>2, <3>3, <3>4
  <2>6. ASSUME NEW i \in 1 .. n PROVE j[i] = path[i]
    <3>1. CASE i <= k
      BY <1>1, <2>1, <2>5, <3>1
    <3>2. CASE i = at
      BY <2>5, <3>2
    <3>3. CASE i > at
      <4> DEFINE r == i - at
      <4>1. r \in 1 .. n - at /\ at + r = i
        BY <1>1, <3>3
      <4> HIDE DEF r
      <4>2. j[at + r] = path[at + r]
        BY <2>5, <4>1
      <4>3. QED
        BY <4>1, <4>2
    <3>4. QED
      BY <1>1, <2>1, <3>1, <3>2, <3>3
  <2>7. j = path
    BY <2>4, <2>5, <2>6, SeqEqual DEF PathSet, n
  <2>8. QED
    BY <1>5, <2>7 DEF j
<1>8. QED
  BY <1>6, <1>7

---------------------------------------------------------------------------
(* The sidecar gives back the prefixes it was made from. *)

None == <<>>

StringsOk(g, ps, n) ==
  g = [i \in 0 .. n |-> IF i = 0 THEN None ELSE Cat(g[i - 1], ps[i])]

LEMMA StringsExists ==
  ASSUME NEW ps
  PROVE  \A n \in Nat : \E g : StringsOk(g, ps, n)
<1> DEFINE S == {n \in Nat : \E g : StringsOk(g, ps, n)}
<1>1. 0 \in S
  <2>1. StringsOk([i \in 0 .. 0 |-> None], ps, 0)
    BY DEF StringsOk
  <2>2. QED
    BY <2>1
<1>2. ASSUME NEW n \in Nat, n \in S PROVE n + 1 \in S
  <2>1. PICK g : StringsOk(g, ps, n)
    BY <1>2
  <2> DEFINE h == [i \in 0 .. n + 1 |-> IF i = n + 1 THEN Cat(g[n], ps[i]) ELSE g[i]]
  <2>2. \A i \in 0 .. n + 1 : h[i] = IF i = 0 THEN None ELSE Cat(h[i - 1], ps[i])
    BY <2>1 DEF StringsOk
  <2>3. StringsOk(h, ps, n + 1)
    BY <2>2 DEF StringsOk
  <2>4. QED
    BY <2>3
<1> HIDE DEF S
<1>3. \A n \in Nat : n \in S
  BY <1>1, <1>2, NatSetInduction
<1> USE DEF S
<1>4. QED
  BY <1>3

\* g is a followed by b.
Follows(g, S, a, b) ==
  /\ g \in Seq(S) /\ Len(g) = Len(a) + Len(b)
  /\ \A k \in 1 .. Len(a) : g[k] = a[k]
  /\ \A k \in 1 .. Len(b) : g[Len(a) + k] = b[k]

LEMMA CatFollows ==
  ASSUME NEW S, NEW a \in Seq(S), NEW b \in Seq(S)
  PROVE  Follows(Cat(a, b), S, a, b)
  BY ConcatElements DEF Follows, Cat

LEMMA StringsSteps ==
  ASSUME NEW ps \in Seq(PathSet)
  PROVE  /\ \A i \in 0 .. Len(ps) : Strings(ps)[i] \in PathSet
         /\ \A i \in 1 .. Len(ps) : Follows(Strings(ps)[i], Character, Strings(ps)[i - 1], ps[i])
<1> DEFINE g == Strings(ps)
           N == Len(ps)
<1>1. N \in Nat /\ \A i \in 1 .. N : ps[i] \in PathSet
  BY SeqElements
<1>2. StringsOk(g, ps, N)
  <2>1. \E h : StringsOk(h, ps, N)
    BY <1>1, StringsExists
  <2>2. QED
    BY <2>1, Zenon DEF Strings, StringsOk, None, Cat
<1> HIDE DEF g, N
<1>3. g[0] = None /\ \A i \in 1 .. N : g[i] = Cat(g[i - 1], ps[i])
  BY <1>1, <1>2 DEF StringsOk
<1> DEFINE I == {k \in Nat : k <= N => g[k] \in PathSet}
<1>4. 0 \in I
  <2>1. None \in PathSet
    BY SeqTypes DEF None, PathSet
  <2>2. QED
    BY <2>1, <1>3
<1>5. ASSUME NEW k \in Nat, k \in I PROVE k + 1 \in I
  <2>1. SUFFICES ASSUME k + 1 <= N PROVE g[k + 1] \in PathSet
    OBVIOUS
  <2>2. g[k] \in PathSet /\ k + 1 \in 1 .. N /\ (k + 1) - 1 = k
    BY <1>1, <1>5, <2>1
  <2>3. g[k + 1] = Cat(g[k], ps[k + 1])
    BY <2>2, <1>3
  <2>4. ps[k + 1] \in PathSet
    BY <2>2, <1>1
  <2>5. Follows(Cat(g[k], ps[k + 1]), Character, g[k], ps[k + 1])
    BY <2>2, <2>4, CatFollows DEF PathSet
  <2>6. QED
    BY <2>3, <2>5 DEF Follows, PathSet
<1> HIDE DEF I
<1>6. \A k \in Nat : k \in I
  BY <1>4, <1>5, NatSetInduction
<1>7. \A i \in 0 .. N : g[i] \in PathSet
  BY <1>1, <1>6 DEF I
<1>8. ASSUME NEW i \in 1 .. N PROVE Follows(g[i], Character, g[i - 1], ps[i])
  <2>1. i - 1 \in 0 .. N
    BY <1>1
  <2>2. g[i - 1] \in PathSet /\ ps[i] \in PathSet
    BY <2>1, <1>1, <1>7
  <2>3. QED
    BY <2>2, <1>3, CatFollows DEF PathSet
<1>9. QED
  BY <1>7, <1>8 DEF g, N

\* b begins with a.
Begins(a, b) == Len(a) <= Len(b) /\ \A k \in 1 .. Len(a) : b[k] = a[k]

LEMMA StringsGrow ==
  ASSUME NEW ps \in Seq(PathSet), NEW i \in 0 .. Len(ps)
  PROVE  Begins(Strings(ps)[i], Strings(ps)[Len(ps)])
<1> DEFINE g == Strings(ps)
           N == Len(ps)
           I == {k \in Nat : i <= k /\ k <= N => Begins(g[i], g[k])}
<1>1. N \in Nat /\ i \in Nat /\ i <= N /\ \A k \in 1 .. N : ps[k] \in PathSet
  BY SeqElements
<1>2. /\ \A k \in 1 .. N : Follows(g[k], Character, g[k - 1], ps[k])
      /\ \A k \in 0 .. N : g[k] \in PathSet
  BY StringsSteps
<1>20. \A k \in 0 .. N : Len(g[k]) \in Nat
  BY <1>2
<1> HIDE DEF g, N
<1>3. Begins(g[i], g[i])
  <2>1. Len(g[i]) \in Nat
    BY <1>1, <1>20
  <2>2. QED
    BY <2>1 DEF Begins
<1>4. 0 \in I
  BY <1>1, <1>3
<1>5. ASSUME NEW k \in Nat, k \in I PROVE k + 1 \in I
  <2>1. SUFFICES ASSUME i <= k + 1, k + 1 <= N PROVE Begins(g[i], g[k + 1])
    OBVIOUS
  <2>2. CASE i = k + 1
    BY <2>2, <1>3
  <2>3. CASE i <= k
    <3>1. Begins(g[i], g[k]) /\ k + 1 \in 1 .. N /\ (k + 1) - 1 = k /\ k \in 0 .. N /\ i \in 0 .. N
      BY <2>1, <2>3, <1>1, <1>5
    <3> DEFINE a == g[i]
               b == g[k]
               c == g[k + 1]
               e == ps[k + 1]
    <3>2. Follows(c, Character, b, e)
      BY <3>1, <1>2
    <3>3. Begins(a, b) /\ Len(a) \in Nat /\ Len(b) \in Nat
      BY <3>1, <1>20
    <3>4. Len(e) \in Nat
      BY <3>1, <1>1, PathElements
    <3> HIDE DEF a, b, c, e
    <3>5. Len(c) = Len(b) + Len(e) /\ \A j \in 1 .. Len(b) : c[j] = b[j]
      BY <3>2 DEF Follows
    <3>6. Begins(a, c)
      BY <3>3, <3>4, <3>5 DEF Begins
    <3>7. QED
      BY <3>6 DEF a, c
  <2>4. QED
    BY <2>1, <2>2, <2>3, <1>1
<1> HIDE DEF I
<1>6. \A k \in Nat : k \in I
  BY <1>4, <1>5, NatSetInduction
<1>7. QED
  BY <1>1, <1>6 DEF I, g, N

LEMMA SidecarGivesBack ==
  ASSUME NEW ps \in Seq(PathSet)
  PROVE  DecodePathPrefixSidecar(EncodePathPrefixSidecar(ps)) = ps
<1> DEFINE g == Strings(ps)
           N == Len(ps)
           all == g[N]
           From(i) == Len(g[i - 1])
           Piece(i) == SubSeq(all, From(i) + 1, From(i) + Len(ps[i]))
           sidecar == EncodePathPrefixSidecar(ps)
           r == DecodePathPrefixSidecar(sidecar)
<1>1. N \in Nat /\ DOMAIN ps = 1 .. N /\ \A i \in 1 .. N : ps[i] \in PathSet
  BY SeqElements
<1>2. ASSUME NEW i \in 1 .. N PROVE Piece(i) = ps[i]
  <2> DEFINE a == g[i - 1]
             b == g[i]
             e == ps[i]
             m == Len(g[i - 1])
             l == Len(ps[i])
  <2>1. i - 1 \in 0 .. N /\ i \in 0 .. N /\ N \in 0 .. N
    BY <1>1
  <2>2. Follows(b, Character, a, e) /\ a \in PathSet /\ b \in PathSet /\ all \in PathSet
    BY <2>1, StringsSteps
  <2>3. e \in PathSet /\ Len(e) = l /\ l \in Nat
    BY <1>1, PathElements
  <2>4. Begins(b, all)
    BY <2>1, StringsGrow
  <2>5. m = Len(a)
    OBVIOUS
  <2> HIDE DEF a, b, e, l, all, g, m
  <2>6. Len(b) = m + l /\ m \in Nat /\ Len(all) \in Nat /\ \A k \in 1 .. l : b[m + k] = e[k]
    <3>1. Len(b) = Len(a) + Len(e) /\ \A k \in 1 .. Len(e) : b[Len(a) + k] = e[k]
      BY <2>2 DEF Follows
    <3>2. Len(a) \in Nat /\ Len(all) \in Nat
      BY <2>2, SeqElements
    <3>3. Len(b) = m + l
      BY <3>1, <2>3, <2>5
    <3>4. \A k \in 1 .. l : b[m + k] = e[k]
      BY <3>1, <2>3, <2>5, Zenon
    <3>5. QED
      BY <3>2, <3>3, <3>4, <2>5
  <2>7. m + l <= Len(all) /\ \A k \in 1 .. m + l : all[k] = b[k]
    BY <2>4, <2>6 DEF Begins
  <2> DEFINE top == m + l
             piece == SubSeq(all, m + 1, top)
  <2>8. top \in Nat /\ m <= top /\ top <= Len(all) /\ top - m = l
    BY <2>3, <2>6, <2>7
  <2> HIDE DEF top
  <2>9. piece \in PathSet /\ Len(piece) = l /\ \A k \in 1 .. l : piece[k] = all[m + k]
    <3>1. piece \in PathSet /\ Len(piece) = top - m /\ \A k \in 1 .. top - m : piece[k] = all[m + k]
      BY <2>2, <2>6, <2>8, SubSeqElements DEF PathSet
    <3>2. QED
      BY <3>1, <2>8
  <2> HIDE DEF piece
  <2>10. \A k \in 1 .. l : piece[k] = e[k]
    <3>1. ASSUME NEW k \in 1 .. l PROVE piece[k] = e[k]
      <4>1. m + k \in 1 .. m + l
        BY <2>3, <2>6
      <4>2. QED
        BY <4>1, <2>6, <2>7, <2>9
    <3>2. QED
      BY <3>1
  <2>11. piece = e
    BY <2>3, <2>9, <2>10, SeqEqual DEF PathSet
  <2>12. QED
    BY <2>11 DEF piece, top, e, m, l, all, g
<1>3. /\ DOMAIN sidecar.entries = 1 .. N /\ sidecar.strings = all
      /\ \A i \in 1 .. N : /\ sidecar.entries[i].offset = From(i)
                           /\ sidecar.entries[i].length = Len(ps[i])
  <2> HIDE DEF N
  <2>1. sidecar = [entries |-> [i \in 1 .. N |-> [offset |-> From(i), length |-> Len(ps[i])]],
                   strings |-> all]
    BY Zenon DEF EncodePathPrefixSidecar, N
  <2> HIDE DEF sidecar, g, all, From
  <2>2. QED
    BY <2>1
<1> HIDE DEF sidecar, g, all, From, N
<1>4. DOMAIN r = 1 .. N /\ \A i \in 1 .. N : r[i] = Piece(i)
  BY <1>3, Zenon DEF DecodePathPrefixSidecar
<1>6. \A i \in 1 .. N : r[i] = ps[i]
  BY <1>2, <1>4
<1>7. r = [i \in DOMAIN r |-> r[i]]
  BY DEF r, DecodePathPrefixSidecar
<1> HIDE DEF Piece, r
<1>8. r \in [1 .. N -> PathSet]
  BY <1>1, <1>4, <1>6, <1>7
<1>9. r \in Seq(PathSet) /\ Len(r) = N
  BY <1>1, <1>8, FunctionIsSeq
<1>10. r = ps
  BY <1>6, <1>9, SeqEqual DEF N
<1>11. QED
  BY <1>10 DEF r, sidecar

---------------------------------------------------------------------------
(* Tables of prefixes and records *)

Tab(t) ==
  /\ t = [prefixes |-> t.prefixes, bytes |-> t.bytes, rec |-> t.rec]
  /\ t.prefixes \in Seq(PathSet) /\ t.bytes \in Nat
  /\ DOMAIN t.rec \subseteq Nat
  /\ \E m \in Nat : \A d \in DOMAIN t.rec : d <= m

\* There is no way to give p a number in t.
Closed(t, p) == ~HasPrefix(t, p) /\ ~HasRoom(t, p)

\* u came after t: the numbers that were given stay, and what had no room has none.
Grows(t, u) ==
  /\ Begins(t.prefixes, u.prefixes)
  /\ \A p \in PathSet : Closed(t, p) => Closed(u, p)

DirOf(path) == split_path_for_sidecar(path).prefix

\* The record of a document has a path, or its name when the table was full.
RecOk(t, d, path) ==
  /\ d \in DOMAIN t.rec /\ t.rec[d].name = FirstBytes(split_path_for_sidecar(path).name)
  /\ \/ /\ t.rec[d].prefix \in Nat /\ t.rec[d].prefix + 1 \in 1 .. Len(t.prefixes)
        /\ t.prefixes[t.rec[d].prefix + 1] = DirOf(path)
     \/ /\ t.rec[d].prefix = InvalidPrefix
        /\ DirOf(path) = EmptyString \/ Closed(t, DirOf(path))

LEMMA NoRecordsTab == Tab(NoRecords) /\ NoRecords.rec = <<>>
<1>1. /\ NoRecords = [prefixes |-> NoRecords.prefixes, bytes |-> NoRecords.bytes, rec |-> NoRecords.rec]
      /\ NoRecords.prefixes = <<>> /\ NoRecords.bytes = 0 /\ NoRecords.rec = <<>>
  BY DEF NoRecords
<1>2. <<>> \in Seq(PathSet) /\ DOMAIN <<>> = {}
  OBVIOUS
<1>3. QED
  BY <1>1, <1>2 DEF Tab

\* More prefixes and more bytes leave less room.
LEMMA RoomShrinks ==
  ASSUME NEW n \in Nat, NEW b \in Nat, NEW l \in Nat, NEW m \in Nat,
         SidecarHeader + (n + 1 + 1) * SidecarEntry + (b + m + l) <= SidecarBytes
  PROVE  SidecarHeader + (n + 1) * SidecarEntry + (b + l) <= SidecarBytes
<1> DEFINE e == SidecarEntry
           h == SidecarHeader
           x == (n + 1) * e
<1>1. e \in Nat /\ h \in Nat /\ SidecarBytes \in Nat
  BY PathConstants
<1>2. (n + 1 + 1) * e = (n + 1) * e + e /\ (n + 1) * e \in Nat
  <2> HIDE DEF e
  <2>1. QED
    BY <1>1
<1>3. x \in Nat /\ (n + 1 + 1) * e = x + e
  BY <1>2
<1>4. h + (n + 1 + 1) * e + (b + m + l) <= SidecarBytes
  OBVIOUS
<1> HIDE DEF x
<1>5. h + (x + e) + (b + m + l) <= SidecarBytes
  BY <1>3, <1>4
<1> HIDE DEF e, h
<1>6. h + x + (b + l) <= SidecarBytes
  BY <1>1, <1>3, <1>5
<1>7. QED
  BY <1>6 DEF x, h, e

LEMMA HasPrefixMeans ==
  ASSUME NEW t, Tab(t), NEW p
  PROVE  HasPrefix(t, p) <=> \E i \in 1 .. Len(t.prefixes) : t.prefixes[i] = p
<1>1. DOMAIN t.prefixes = 1 .. Len(t.prefixes)
  BY SeqElements DEF Tab
<1>2. QED
  BY <1>1 DEF HasPrefix, ToSet

LEMMA InternGrows ==
  ASSUME NEW t, Tab(t), NEW p \in PathSet
  PROVE  LET u == intern_path_prefix(t, p)
         IN  /\ Tab(u) /\ Grows(t, u) /\ u.rec = t.rec
             /\ HasPrefix(u, p) \/ Closed(u, p)
<1> DEFINE u == intern_path_prefix(t, p)
           s == t.prefixes
           n == Len(s)
<1>1. s \in Seq(PathSet) /\ n \in Nat /\ t.bytes \in Nat
  BY SeqElements DEF Tab
<1>2. CASE HasPrefix(t, p) \/ ~HasRoom(t, p)
  <2>1. u = t
    BY <1>2 DEF intern_path_prefix
  <2>2. Grows(t, t)
    BY <1>1 DEF Grows, Begins
  <2>3. HasPrefix(t, p) \/ Closed(t, p)
    BY <1>2 DEF Closed
  <2>4. QED
    BY <2>1, <2>2, <2>3
<1>3. CASE ~HasPrefix(t, p) /\ HasRoom(t, p)
  <2> DEFINE a == Append(s, p)
             l == Len(p)
  <2>1. u = [t EXCEPT !.prefixes = a, !.bytes = t.bytes + l]
    BY <1>3 DEF intern_path_prefix
  <2>2. l \in Nat
    BY PathConstants
  <2>3. /\ a \in Seq(PathSet) /\ Len(a) = n + 1 /\ a[n + 1] = p
        /\ \A i \in 1 .. n : a[i] = s[i]
    BY <1>1
  <2> HIDE DEF a
  <2>4. /\ u = [prefixes |-> u.prefixes, bytes |-> u.bytes, rec |-> u.rec]
        /\ u.prefixes = a /\ u.bytes = t.bytes + l /\ u.rec = t.rec
    <3>1. t = [prefixes |-> t.prefixes, bytes |-> t.bytes, rec |-> t.rec]
      BY DEF Tab
    <3> HIDE DEF u
    <3>2. u = [prefixes |-> a, bytes |-> t.bytes + l, rec |-> t.rec]
      BY <3>1, <2>1
    <3>3. QED
      BY <3>2
  <2> HIDE DEF u, l
  <2>5. Tab(u)
    BY <1>1, <2>2, <2>3, <2>4 DEF Tab
  <2>6. Begins(s, u.prefixes)
    BY <1>1, <2>3, <2>4 DEF Begins
  <2>7. HasPrefix(u, p)
    <3>1. n + 1 \in 1 .. Len(u.prefixes) /\ u.prefixes[n + 1] = p
      BY <1>1, <2>3, <2>4
    <3>2. QED
      BY <3>1, <2>5, HasPrefixMeans
  <2>8. ASSUME NEW q \in PathSet, Closed(t, q) PROVE Closed(u, q)
    <3> DEFINE k == Len(q)
    <3>1. k \in Nat
      BY PathConstants
    <3>2. ~HasRoom(u, q)
      <4>1. SUFFICES ASSUME HasRoom(u, q) PROVE HasRoom(t, q)
        BY <2>8 DEF Closed
      <4>2. n + 1 < MaxPrefixes
            /\ SidecarHeader + (n + 1 + 1) * SidecarEntry + (t.bytes + l + k) <= SidecarBytes
        BY <4>1, <2>3, <2>4 DEF HasRoom, path_prefix_sidecar_can_hold
      <4>3. n < MaxPrefixes
        BY <4>2, <1>1, PathConstants
      <4> HIDE DEF k
      <4>4. SidecarHeader + (n + 1) * SidecarEntry + (t.bytes + k) <= SidecarBytes
        BY <4>2, <1>1, <2>2, <3>1, RoomShrinks
      <4>5. QED
        BY <4>3, <4>4 DEF HasRoom, path_prefix_sidecar_can_hold, k
    <3>3. q # p
      BY <2>8, <1>3 DEF Closed
    <3>4. ~HasPrefix(u, q)
      <4>1. \A i \in 1 .. n : s[i] # q
        BY <2>8, HasPrefixMeans DEF Closed
      <4>2. \A i \in 1 .. n + 1 : i \in 1 .. n \/ i = n + 1
        BY <1>1
      <4>3. \A i \in 1 .. Len(u.prefixes) : u.prefixes[i] # q
        BY <4>1, <4>2, <2>3, <2>4, <3>3
      <4>4. QED
        BY <4>3, <2>5, HasPrefixMeans
    <3>5. QED
      BY <3>2, <3>4 DEF Closed
  <2>9. QED
    BY <2>4, <2>5, <2>6, <2>7, <2>8 DEF Grows, u
<1>4. QED
  BY <1>2, <1>3

LEMMA GrowsTransitive ==
  ASSUME NEW t, NEW u, NEW v, Tab(t), Tab(u), Tab(v), Grows(t, u), Grows(u, v)
  PROVE  Grows(t, v)
<1>1. Len(t.prefixes) \in Nat /\ Len(u.prefixes) \in Nat /\ Len(v.prefixes) \in Nat
  BY DEF Tab
<1>2. Begins(t.prefixes, v.prefixes)
  BY <1>1 DEF Grows, Begins
<1>3. QED
  BY <1>2 DEF Grows

LEMMA RecStays ==
  ASSUME NEW t, NEW u, Tab(t), Tab(u), Grows(t, u), NEW d, NEW path \in PathSet, RecOk(t, d, path),
         d \in DOMAIN u.rec, u.rec[d] = t.rec[d]
  PROVE  RecOk(u, d, path)
<1>1. DirOf(path) \in PathSet
  BY SplitIs DEF DirOf
<1>2. Len(t.prefixes) \in Nat /\ Len(u.prefixes) \in Nat
  BY DEF Tab
<1>3. Closed(t, DirOf(path)) => Closed(u, DirOf(path))
  BY <1>1 DEF Grows
<1>4. \A i \in 1 .. Len(t.prefixes) : i \in 1 .. Len(u.prefixes) /\ u.prefixes[i] = t.prefixes[i]
  BY <1>2 DEF Grows, Begins
<1>5. QED
  BY <1>3, <1>4 DEF RecOk

LEMMA EmptySplit ==
  /\ split_path_for_sidecar(EmptyString).prefix = EmptyString
  /\ FirstBytes(split_path_for_sidecar(EmptyString).name) = EmptyString
<1> DEFINE s == split_path_for_sidecar(EmptyString)
<1>1. EmptyString \in PathSet /\ Len(EmptyString) = 0 /\ FilenameMax \in Nat
  BY PathConstants DEF EmptyString
<1>2. LastSeparator(EmptyString) = 0
  BY <1>1, LastSeparatorIs
<1>3. s.prefix = EmptyString /\ s.name = EmptyString
  BY <1>1, <1>2, SplitIs
<1> HIDE DEF s
<1>4. QED
  BY <1>1, <1>3 DEF FirstBytes, s

\* encode_doc_path gives a document a record of its path and leaves the others.
LEMMA EncodeGrows ==
  ASSUME NEW t, Tab(t), NEW doc \in Nat, NEW path \in PathSet
  PROVE  LET v == encode_doc_path(t, doc, path)
         IN  /\ Tab(v) /\ Grows(t, v) /\ DOMAIN v.rec = DOMAIN t.rec \cup {doc}
             /\ RecOk(v, doc, path)
             /\ \A d \in DOMAIN t.rec : d # doc => v.rec[d] = t.rec[d]
<1> DEFINE v == encode_doc_path(t, doc, path)
           p == DirOf(path)
           u == intern_path_prefix(t, p)
           name == FirstBytes(split_path_for_sidecar(path).name)
<1>1. p \in PathSet
  BY SplitIs DEF DirOf
<1> HIDE DEF name, p
<1>3. Tab(u) /\ Grows(t, u) /\ u.rec = t.rec /\ (HasPrefix(u, p) \/ Closed(u, p))
  BY <1>1, InternGrows
<1>4. Tab(t) /\ Grows(t, t)
  BY DEF Tab, Grows, Begins
<1> HIDE DEF u
<1>5. ASSUME NEW w, Tab(w), Grows(t, w), w.rec = t.rec, NEW r, v = [w EXCEPT !.rec = SetRecord(@, doc, r)],
             r.name = name,
             \/ r.prefix \in Nat /\ r.prefix + 1 \in 1 .. Len(w.prefixes) /\ w.prefixes[r.prefix + 1] = p
             \/ r.prefix = InvalidPrefix /\ (p = EmptyString \/ Closed(w, p))
      PROVE  /\ Tab(v) /\ Grows(t, v) /\ DOMAIN v.rec = DOMAIN t.rec \cup {doc}
             /\ RecOk(v, doc, path)
             /\ \A d \in DOMAIN t.rec : d # doc => v.rec[d] = t.rec[d]
  <2> DEFINE new == SetRecord(w.rec, doc, r)
  <2>1. /\ DOMAIN new = DOMAIN t.rec \cup {doc} /\ new[doc] = r
        /\ \A d \in DOMAIN t.rec : d # doc => new[d] = t.rec[d]
    BY <1>5 DEF SetRecord
  <2> HIDE DEF new, v
  <2>2. v = [w EXCEPT !.rec = new]
    BY <1>5 DEF new
  <2>3. /\ v = [prefixes |-> v.prefixes, bytes |-> v.bytes, rec |-> v.rec]
        /\ v.prefixes = w.prefixes /\ v.bytes = w.bytes /\ v.rec = new
    <3>1. w = [prefixes |-> w.prefixes, bytes |-> w.bytes, rec |-> w.rec]
      BY <1>5 DEF Tab
    <3>2. v = [prefixes |-> w.prefixes, bytes |-> w.bytes, rec |-> new]
      BY <3>1, <2>2
    <3>3. QED
      BY <3>2
  <2>4. \A q : Closed(v, q) <=> Closed(w, q)
    BY <2>3 DEF Closed, HasPrefix, HasRoom
  <2>5. Tab(v)
    <3>1. PICK m \in Nat : \A d \in DOMAIN t.rec : d <= m
      BY DEF Tab
    <3>2. DOMAIN new \subseteq Nat
      BY <2>1 DEF Tab
    <3>3. \E k \in Nat : \A d \in DOMAIN new : d <= k
      <4>1. \A d \in DOMAIN new : d <= m + doc
        BY <3>1, <3>2, <2>1
      <4>2. QED
        BY <4>1
    <3>4. QED
      BY <1>5, <2>3, <3>2, <3>3 DEF Tab
  <2>6. Grows(t, v)
    BY <1>5, <2>3, <2>4 DEF Grows
  <2>7. RecOk(v, doc, path)
    BY <1>5, <2>1, <2>3, <2>4 DEF RecOk, p, name
  <2>8. QED
    BY <2>1, <2>3, <2>5, <2>6, <2>7
<1>6. CASE path = EmptyString
  <2> DEFINE r == [prefix |-> InvalidPrefix, name |-> EmptyString]
  <2>1. v = [t EXCEPT !.rec = SetRecord(@, doc, r)]
    BY <1>6, Zenon DEF encode_doc_path
  <2>2. p = EmptyString /\ name = EmptyString
    BY <1>6, EmptySplit DEF p, name, DirOf
  <2>4. r.prefix = InvalidPrefix /\ r.name = EmptyString
    OBVIOUS
  <2> HIDE DEF v, r
  <2>5. QED
    BY <1>4, <1>5, <2>1, <2>2, <2>4 DEF v
<1>7. CASE path # EmptyString
  <2> DEFINE r == [prefix |-> PrefixId(u, p), name |-> name]
  <2>1. v = [u EXCEPT !.rec = SetRecord(@, doc, r)]
    BY <1>7, Zenon DEF encode_doc_path, p, u, name, DirOf
  <2>2. r.prefix = PrefixId(u, p) /\ r.name = name
    OBVIOUS
  <2>3. CASE HasPrefix(u, p)
    <3> DEFINE i == CHOOSE j \in DOMAIN u.prefixes : u.prefixes[j] = p
    <3>1. DOMAIN u.prefixes = 1 .. Len(u.prefixes) /\ Len(u.prefixes) \in Nat
      BY <1>3, SeqElements DEF Tab
    <3>2. i \in DOMAIN u.prefixes /\ u.prefixes[i] = p
      BY <2>3, <1>3, <3>1, HasPrefixMeans
    <3>3. PrefixId(u, p) = i - 1
      BY <2>3 DEF PrefixId
    <3> HIDE DEF i, v, r
    <3>4. r.prefix \in Nat /\ r.prefix + 1 = i
      BY <2>2, <3>1, <3>2, <3>3
    <3>5. r.prefix + 1 \in 1 .. Len(u.prefixes) /\ u.prefixes[r.prefix + 1] = p
      BY <3>1, <3>2, <3>4
    <3>6. QED
      BY <1>3, <1>5, <2>1, <2>2, <3>4, <3>5 DEF v
  <2>4. CASE ~HasPrefix(u, p)
    <3>1. PrefixId(u, p) = InvalidPrefix
      BY <2>4 DEF PrefixId
    <3>2. Closed(u, p)
      BY <1>3, <2>4
    <3> HIDE DEF v, r
    <3>3. QED
      BY <1>3, <1>5, <2>1, <2>2, <3>1, <3>2 DEF v
  <2>5. QED
    BY <2>3, <2>4
<1>8. QED
  BY <1>6, <1>7

\* What a good record is read back as.
LEMMA RecArrives ==
  ASSUME NEW t, Tab(t), NEW d, NEW path \in PathSet, RecOk(t, d, path)
  PROVE  Arrived(t, d, path) /\ PathIn(t, d) \in PathSet
<1> DEFINE r == t.rec[d]
           name == NameOf(path)
           dir == DirOf(path)
           n == Len(t.prefixes)
<1>1. name \in PathSet /\ ReadBack(path) \in PathSet
  BY NameIs
<1>2. ReadBack(path) = JoinPath(dir, name) /\ dir = split_path_for_sidecar(path).prefix
  BY DEF ReadBack, DirOf
<1>3. from_utf8(r.name) = name
  BY DEF RecOk, NameOf
<1>4. DOMAIN t.prefixes = 1 .. n /\ n \in Nat
  BY SeqElements DEF Tab
<1>5. PathIn(t, d) = IF r.prefix + 1 \notin DOMAIN t.prefixes THEN name
                     ELSE JoinPath(t.prefixes[r.prefix + 1], name)
  BY <1>3, SidecarGivesBack DEF PathIn, DecodeDocPath, Tab
<1>6. Stable(path) => ReadBack(path) = path
  BY StableStays
<1> HIDE DEF name, dir
<1>7. CASE r.prefix \in Nat /\ r.prefix + 1 \in 1 .. n /\ t.prefixes[r.prefix + 1] = dir
  <2>1. PathIn(t, d) = ReadBack(path)
    BY <1>2, <1>4, <1>5, <1>7
  <2>2. QED
    BY <1>1, <1>6, <2>1 DEF Arrived
<1>8. CASE r.prefix = InvalidPrefix /\ (dir = EmptyString \/ Closed(t, dir))
  <2>1. PathIn(t, d) = name
    BY <1>4, <1>5, <1>8 DEF InvalidPrefix
  <2>2. CASE dir = EmptyString
    <3>1. ReadBack(path) = name
      BY <1>1, <1>2, <2>2, JoinIs
    <3>2. QED
      BY <1>1, <1>6, <2>1, <3>1 DEF Arrived
  <2>3. CASE Closed(t, dir)
    BY <1>1, <1>2, <2>1, <2>3 DEF Arrived, Closed, name
  <2>4. QED
    BY <1>8, <2>2, <2>3
<1>9. QED
  BY <1>7, <1>8 DEF RecOk, dir

---------------------------------------------------------------------------
(* A loop over documents: turn i encodes doc[i] with path[i] if i is in on. *)

RunOk(g, t, on, doc, path, n) ==
  g = [i \in 0 .. n |-> IF i = 0 THEN t
                        ELSE IF i \notin on THEN g[i - 1] ELSE encode_doc_path(g[i - 1], doc[i], path[i])]

LEMMA RunExists ==
  ASSUME NEW t, NEW on, NEW doc, NEW path
  PROVE  \A n \in Nat : \E g : RunOk(g, t, on, doc, path, n)
<1> DEFINE S == {n \in Nat : \E g : RunOk(g, t, on, doc, path, n)}
           Turn(b, i) == IF i \notin on THEN b ELSE encode_doc_path(b, doc[i], path[i])
<1>1. 0 \in S
  <2>1. RunOk([i \in 0 .. 0 |-> t], t, on, doc, path, 0)
    BY DEF RunOk
  <2>2. QED
    BY <2>1
<1>2. ASSUME NEW n \in Nat, n \in S PROVE n + 1 \in S
  <2>1. PICK g : RunOk(g, t, on, doc, path, n)
    BY <1>2
  <2>2. g = [i \in 0 .. n |-> IF i = 0 THEN t ELSE Turn(g[i - 1], i)]
    BY <2>1, Zenon DEF RunOk
  <2> DEFINE h == [i \in 0 .. n + 1 |-> IF i = n + 1 THEN Turn(g[n], i) ELSE g[i]]
  <2>3. h = [i \in 0 .. n + 1 |-> IF i = 0 THEN t ELSE Turn(h[i - 1], i)]
    <3> HIDE DEF Turn
    <3>1. \A i \in 0 .. n + 1 : h[i] = IF i = 0 THEN t ELSE Turn(h[i - 1], i)
      BY <2>2
    <3>2. QED
      BY <3>1
  <2> HIDE DEF h
  <2>4. RunOk(h, t, on, doc, path, n + 1)
    BY <2>3, Zenon DEF RunOk
  <2>5. QED
    BY <2>4
<1> HIDE DEF S
<1>3. \A n \in Nat : n \in S
  BY <1>1, <1>2, NatSetInduction
<1> USE DEF S
<1>4. QED
  BY <1>3

\* What a run leaves after k turns.
RunDone(t, on, doc, path, k, v) ==
  /\ Tab(v) /\ Grows(t, v)
  /\ \A d : d \in DOMAIN v.rec <=> d \in DOMAIN t.rec \/ \E i \in on : i <= k /\ doc[i] = d
  /\ \A i \in on : i <= k => RecOk(v, doc[i], path[i])
  /\ \A d \in DOMAIN t.rec : (\A i \in on : doc[i] # d) => v.rec[d] = t.rec[d]

LEMMA RunRecords ==
  ASSUME NEW t, Tab(t), NEW n \in Nat, NEW on \in SUBSET (1 .. n), NEW doc, NEW path,
         \A i \in on : doc[i] \in Nat /\ path[i] \in PathSet,
         \A i, j \in on : doc[i] = doc[j] => path[i] = path[j],
         NEW g, RunOk(g, t, on, doc, path, n)
  PROVE  RunDone(t, on, doc, path, n, g[n])
<1> DEFINE I == {k \in Nat : k <= n => RunDone(t, on, doc, path, k, g[k])}
<1>1. g[0] = t /\ \A i \in 1 .. n : g[i] = IF i \notin on THEN g[i - 1] ELSE encode_doc_path(g[i - 1], doc[i], path[i])
  BY DEF RunOk
<1>2. 0 \in I
  <2>1. Grows(t, t)
    BY DEF Tab, Grows, Begins
  <2>2. \A i \in on : ~(i <= 0)
    OBVIOUS
  <2>3. QED
    BY <1>1, <2>1, <2>2 DEF RunDone
<1>3. ASSUME NEW k \in Nat, k \in I PROVE k + 1 \in I
  <2>1. SUFFICES ASSUME k + 1 <= n PROVE RunDone(t, on, doc, path, k + 1, g[k + 1])
    OBVIOUS
  <2> DEFINE b == g[k]
             v == g[k + 1]
  <2>2. k + 1 \in 1 .. n /\ (k + 1) - 1 = k /\ RunDone(t, on, doc, path, k, b)
    BY <1>3, <2>1
  <2>3. v = IF k + 1 \notin on THEN b ELSE encode_doc_path(b, doc[k + 1], path[k + 1])
    BY <1>1, <2>2
  <2>4. \A i \in on : i <= k + 1 <=> i <= k \/ i = k + 1
    OBVIOUS
  <2> HIDE DEF b, v
  <2>5. CASE k + 1 \notin on
    <3>1. \A i \in on : i <= k + 1 <=> i <= k
      BY <2>4, <2>5
    <3>2. v = b
      BY <2>3, <2>5
    <3>3. QED
      BY <2>2, <3>1, <3>2 DEF RunDone, v
  <2>6. CASE k + 1 \in on
    <3> DEFINE c == doc[k + 1]
               p == path[k + 1]
    <3>1. c \in Nat /\ p \in PathSet /\ v = encode_doc_path(b, c, p) /\ Tab(b) /\ Grows(t, b)
      BY <2>2, <2>3, <2>6 DEF RunDone
    <3> HIDE DEF c, p
    <3>2. /\ Tab(v) /\ Grows(b, v) /\ DOMAIN v.rec = DOMAIN b.rec \cup {c}
          /\ RecOk(v, c, p)
          /\ \A d \in DOMAIN b.rec : d # c => v.rec[d] = b.rec[d]
      BY <3>1, EncodeGrows
    <3>3. Grows(t, v)
      BY <3>1, <3>2, GrowsTransitive
    <3>4. \A d : d \in DOMAIN v.rec <=> d \in DOMAIN t.rec \/ \E i \in on : i <= k + 1 /\ doc[i] = d
      BY <2>2, <2>4, <2>6, <3>2 DEF RunDone, c
    <3>5. ASSUME NEW i \in on, i <= k + 1 PROVE RecOk(v, doc[i], path[i])
      <4>1. CASE doc[i] = c
        <5>1. path[i] = p
          BY <4>1, <2>6 DEF c, p
        <5>2. QED
          BY <4>1, <5>1, <3>2
      <4>2. CASE doc[i] # c
        <5>1. i <= k
          BY <3>5, <4>2, <2>4 DEF c
        <5>2. RecOk(b, doc[i], path[i]) /\ path[i] \in PathSet
          BY <5>1, <2>2 DEF RunDone
        <5>3. doc[i] \in DOMAIN b.rec
          BY <5>2 DEF RecOk
        <5>4. doc[i] \in DOMAIN v.rec /\ v.rec[doc[i]] = b.rec[doc[i]]
          BY <5>3, <4>2, <3>2
        <5>5. QED
          BY <5>2, <5>4, <3>1, <3>2, RecStays
      <4>3. QED
        BY <4>1, <4>2
    <3>6. ASSUME NEW d \in DOMAIN t.rec, \A i \in on : doc[i] # d PROVE v.rec[d] = t.rec[d]
      <4>1. d \in DOMAIN b.rec /\ b.rec[d] = t.rec[d] /\ d # c
        BY <2>2, <2>6, <3>6 DEF RunDone, c
      <4>2. QED
        BY <4>1, <3>2
    <3>7. QED
      BY <3>2, <3>3, <3>4, <3>5, <3>6 DEF RunDone, v
  <2>7. QED
    BY <2>5, <2>6
<1> HIDE DEF I
<1>4. \A k \in Nat : k \in I
  BY <1>2, <1>3, NatSetInduction
<1>5. QED
  BY <1>4 DEF I

---------------------------------------------------------------------------
(* EncodeDocData, AppendMergedDocData and Merge *)

LEMMA EncodeRecords ==
  ASSUME NEW docs, docs \subseteq Range(HashOrder)
  PROVE  LET v == EncodeDocPaths(docs)
         IN  Tab(v) /\ DOMAIN v.rec = docs /\ \A d \in docs : PathOf[d] \in PathSet /\ RecOk(v, d, PathOf[d])
<1> DEFINE n == Len(HashOrder)
           on == {i \in 1 .. n : HashOrder[i] \in docs}
           path == [i \in 1 .. n |-> PathOf[HashOrder[i]]]
           g == Encoding(docs)
           v == EncodeDocPaths(docs)
<1>1. /\ n \in Nat /\ DOMAIN HashOrder = 1 .. n
      /\ \A i \in 1 .. n : HashOrder[i] \in DOMAIN PathOf /\ HashOrder[i] \in Nat /\ path[i] \in PathSet
  <2>1. HashOrder \in Seq(DOMAIN PathOf) /\ DOMAIN PathOf \subseteq Nat
    BY DocPathsAssumption
  <2>2. n \in Nat /\ DOMAIN HashOrder = 1 .. n /\ \A i \in 1 .. n : HashOrder[i] \in DOMAIN PathOf
    BY <2>1, SeqElements
  <2>3. \A d \in DOMAIN PathOf : PathOf[d] \in PathSet
    BY DocPathsAssumption DEF PathSet
  <2> HIDE DEF n
  <2>4. QED
    BY <2>1, <2>2, <2>3
<1>2. \A d \in docs : \E i \in on : HashOrder[i] = d
  BY <1>1 DEF Range
<1>3. on \in SUBSET (1 .. n) /\ (\A i \in on : HashOrder[i] \in docs)
      /\ \A i \in 1 .. n : i \in on <=> HashOrder[i] \in docs
  OBVIOUS
<1> HIDE DEF n, on
<1>4. \A i \in 1 .. n : path[i] = PathOf[HashOrder[i]]
  OBVIOUS
<1> HIDE DEF path
<1>5. RunOk(g, NoRecords, on, HashOrder, path, n)
  <2> DEFINE Good(h) == h = [i \in 0 .. n |-> IF i = 0 THEN NoRecords
                               ELSE IF HashOrder[i] \notin docs THEN h[i - 1]
                               ELSE encode_doc_path(h[i - 1], HashOrder[i], PathOf[HashOrder[i]])]
  <2>1. \A i \in 0 .. n : i = 0 \/ i \in 1 .. n
    BY <1>1
  <2>2. \A h : Good(h) <=> RunOk(h, NoRecords, on, HashOrder, path, n)
    BY <1>3, <1>4, <2>1 DEF RunOk
  <2>3. \E h : RunOk(h, NoRecords, on, HashOrder, path, n)
    BY <1>1, RunExists
  <2>4. \E h : Good(h)
    BY <2>2, <2>3, Zenon
  <2>5. Good(g)
    BY <2>4, Zenon DEF Encoding, n
  <2>6. QED
    BY <2>2, <2>5, Zenon
<1> HIDE DEF g
<1>6. RunDone(NoRecords, on, HashOrder, path, n, g[n])
  <2>1. \A i \in on : HashOrder[i] \in Nat /\ path[i] \in PathSet
    BY <1>1, <1>3
  <2>2. \A i, j \in on : HashOrder[i] = HashOrder[j] => path[i] = path[j]
    BY <1>3, <1>4
  <2>3. QED
    BY <1>1, <1>3, <1>5, <2>1, <2>2, NoRecordsTab, RunRecords
<1>7. v = g[n]
  BY DEF EncodeDocPaths, g, n
<1> HIDE DEF v
<1>8. \A i \in on : i <= n
  BY <1>1, <1>3
<1>9. DOMAIN v.rec = docs
  <2>1. DOMAIN NoRecords.rec = {}
    BY NoRecordsTab
  <2>2. \A d : d \in DOMAIN v.rec <=> \E i \in on : HashOrder[i] = d
    BY <1>6, <1>7, <1>8, <2>1 DEF RunDone
  <2>3. QED
    BY <1>2, <1>3, <2>2
<1>10. ASSUME NEW d \in docs PROVE PathOf[d] \in PathSet /\ RecOk(v, d, PathOf[d])
  <2>1. PICK i \in on : HashOrder[i] = d
    BY <1>2
  <2>2. RecOk(v, HashOrder[i], path[i]) /\ path[i] = PathOf[d] /\ path[i] \in PathSet
    BY <1>1, <1>3, <1>4, <1>6, <1>7, <1>8, <2>1 DEF RunDone
  <2>3. QED
    BY <2>1, <2>2
<1>11. Tab(v)
  BY <1>6, <1>7 DEF RunDone
<1>12. QED
  BY <1>9, <1>10, <1>11 DEF v

LEMMA AppendRecords ==
  ASSUME NEW t, Tab(t), NEW source, Tab(source), \A d \in DOMAIN source.rec : PathIn(source, d) \in PathSet
  PROVE  LET v == AppendMergedDocData(t, source)
         IN  /\ Tab(v) /\ Grows(t, v) /\ DOMAIN v.rec = DOMAIN t.rec \cup DOMAIN source.rec
             /\ \A d \in DOMAIN source.rec : RecOk(v, d, PathIn(source, d))
             /\ \A d \in DOMAIN t.rec \ DOMAIN source.rec : v.rec[d] = t.rec[d]
<1> DEFINE D == DOMAIN source.rec
           top == Max({0} \cup D)
           n == 1 + top
           on == {i \in 1 .. n : i - 1 \in D}
           doc == [i \in 1 .. n |-> i - 1]
           path == [i \in 1 .. n |-> PathIn(source, i - 1)]
           g == Appending(t, source, n)
           v == AppendMergedDocData(t, source)
<1>1. D \subseteq Nat /\ top \in Nat /\ \A d \in D : d <= top
  <2>1. PICK m \in Nat : \A d \in D : d <= m
    BY DEF Tab
  <2>2. D \subseteq Nat
    BY DEF Tab
  <2> DEFINE S == {0} \cup D
  <2>3. S \in SUBSET (0 .. m) /\ S # {}
    BY <2>1, <2>2
  <2> HIDE DEF S
  <2>4. Max(S) \in S /\ \A y \in S : y <= Max(S)
    BY <2>3, MaxOfBounded
  <2>5. QED
    BY <2>2, <2>4 DEF S
<1>2. v = g[n]
  BY Zenon DEF AppendMergedDocData
<1> HIDE DEF D, top, g, v
<1>3. n \in Nat /\ on \in SUBSET (1 .. n) /\ (\A d \in D : d + 1 \in on /\ doc[d + 1] = d /\ path[d + 1] = PathIn(source, d))
  <2>1. n \in Nat
    BY <1>1
  <2>2. ASSUME NEW d \in D PROVE d \in Nat /\ d + 1 \in 1 .. n /\ (d + 1) - 1 = d
    BY <1>1
  <2> HIDE DEF n
  <2>3. QED
    BY <2>1, <2>2
<1>4. \A i \in 1 .. n : /\ i \in on <=> i - 1 \in D
                       /\ doc[i] = i - 1 /\ path[i] = PathIn(source, i - 1)
  OBVIOUS
<1> HIDE DEF n, on, doc, path
<1>5. \A i \in on : i \in 1 .. n /\ doc[i] \in D /\ path[i] = PathIn(source, doc[i])
  BY <1>3, <1>4
<1>6. RunOk(g, t, on, doc, path, n)
  <2> DEFINE Good(h) == h = [i \in 0 .. n |-> IF i = 0 THEN t
                               ELSE IF i - 1 \notin DOMAIN source.rec THEN h[i - 1]
                               ELSE encode_doc_path(h[i - 1], i - 1, PathIn(source, i - 1))]
  <2>1. \A i \in 0 .. n : i = 0 \/ i \in 1 .. n
    BY <1>3
  <2>2. \A h : Good(h) <=> RunOk(h, t, on, doc, path, n)
    BY <1>4, <2>1 DEF RunOk, D
  <2>3. \E h : RunOk(h, t, on, doc, path, n)
    BY <1>3, RunExists
  <2>4. \E h : Good(h)
    BY <2>2, <2>3, Zenon
  <2>5. Good(g)
    BY <2>4, Zenon DEF Appending, g
  <2>6. QED
    BY <2>2, <2>5, Zenon
<1>7. RunDone(t, on, doc, path, n, g[n])
  <2>1. \A i \in on : doc[i] \in Nat /\ path[i] \in PathSet
    BY <1>1, <1>5 DEF D
  <2>2. \A i, j \in on : doc[i] = doc[j] => path[i] = path[j]
    BY <1>5
  <2>3. QED
    BY <1>3, <1>6, <2>1, <2>2, RunRecords
<1>8. \A i \in on : i <= n
  BY <1>3, <1>5
<1>9. \A d : d \in D <=> \E i \in on : doc[i] = d
  BY <1>3, <1>5
<1>10. DOMAIN v.rec = DOMAIN t.rec \cup D
  <2>1. \A d : d \in DOMAIN v.rec <=> d \in DOMAIN t.rec \/ d \in D
    BY <1>2, <1>7, <1>8, <1>9 DEF RunDone
  <2>2. QED
    BY <2>1
<1>11. ASSUME NEW d \in D PROVE RecOk(v, d, PathIn(source, d))
  <2>1. PICK i \in on : doc[i] = d
    BY <1>9
  <2>2. QED
    BY <2>1, <1>2, <1>5, <1>7, <1>8 DEF RunDone
<1>12. ASSUME NEW d \in DOMAIN t.rec \ D PROVE v.rec[d] = t.rec[d]
  BY <1>2, <1>7, <1>9 DEF RunDone
<1>13. Tab(v) /\ Grows(t, v)
  BY <1>2, <1>7 DEF RunDone
<1>14. QED
  BY <1>10, <1>11, <1>12, <1>13 DEF v, D

\* The DocData of each side and of the merged index has the paths of its documents.
LEMMA PathsOfMerge ==
  ASSUME NEW A, NEW B, A \subseteq Range(HashOrder), B \subseteq Range(HashOrder), A \cap B = {}
  PROVE  LET base  == EncodeDocPaths(A)
             delta == EncodeDocPaths(B)
             both  == MergeDocData(base, delta)
         IN  /\ \A d \in A : /\ Arrived(base, d, PathOf[d])
                             /\ Arrived(both, d, PathIn(base, d))
             /\ \A d \in B : /\ Arrived(delta, d, PathOf[d])
                             /\ Arrived(both, d, PathIn(delta, d))
<1> DEFINE base  == EncodeDocPaths(A)
           delta == EncodeDocPaths(B)
           one   == AppendMergedDocData(NoRecords, base)
           both  == AppendMergedDocData(one, delta)
           Read(t, d) == /\ Arrived(t, d, PathOf[d])
                         /\ PathIn(t, d) \in PathSet
<1>1. /\ Tab(base) /\ DOMAIN base.rec = A
      /\ \A d \in A : PathOf[d] \in PathSet /\ RecOk(base, d, PathOf[d])
  BY EncodeRecords
<1>2. /\ Tab(delta) /\ DOMAIN delta.rec = B
      /\ \A d \in B : PathOf[d] \in PathSet /\ RecOk(delta, d, PathOf[d])
  BY EncodeRecords
<1>3. MergeDocData(base, delta) = both
  BY DEF MergeDocData
<1> HIDE DEF base, delta
<1>4. \A d \in A : Read(base, d)
  BY <1>1, RecArrives
<1>5. \A d \in B : Read(delta, d)
  BY <1>2, RecArrives
<1>6. Tab(one) /\ DOMAIN one.rec = A /\ \A d \in A : RecOk(one, d, PathIn(base, d))
  <2>1. DOMAIN NoRecords.rec = {}
    BY NoRecordsTab
  <2>2. /\ Tab(one) /\ DOMAIN one.rec = DOMAIN NoRecords.rec \cup DOMAIN base.rec
        /\ \A d \in DOMAIN base.rec : RecOk(one, d, PathIn(base, d))
    BY <1>1, <1>4, NoRecordsTab, AppendRecords
  <2>3. QED
    BY <1>1, <2>1, <2>2
<1> HIDE DEF one
<1>7. /\ Tab(both) /\ Grows(one, both) /\ DOMAIN both.rec = DOMAIN one.rec \cup DOMAIN delta.rec
      /\ \A d \in DOMAIN delta.rec : RecOk(both, d, PathIn(delta, d))
      /\ \A d \in DOMAIN one.rec \ DOMAIN delta.rec : both.rec[d] = one.rec[d]
  BY <1>2, <1>5, <1>6, AppendRecords
<1> HIDE DEF both
<1>8. ASSUME NEW d \in A PROVE Arrived(both, d, PathIn(base, d))
  <2>1. d \in DOMAIN one.rec /\ d \in DOMAIN both.rec /\ both.rec[d] = one.rec[d]
    BY <1>2, <1>6, <1>7
  <2>2. PathIn(base, d) \in PathSet /\ RecOk(one, d, PathIn(base, d))
    BY <1>4, <1>6
  <2>3. RecOk(both, d, PathIn(base, d))
    BY <1>6, <1>7, <2>1, <2>2, RecStays
  <2>4. QED
    BY <1>7, <2>2, <2>3, RecArrives
<1>9. ASSUME NEW d \in B PROVE Arrived(both, d, PathIn(delta, d))
  <2>1. PathIn(delta, d) \in PathSet /\ RecOk(both, d, PathIn(delta, d))
    BY <1>2, <1>5, <1>7
  <2>2. QED
    BY <1>7, <2>1, RecArrives
<1>10. QED
  BY <1>3, <1>4, <1>5, <1>8, <1>9 DEF base, delta
=============================================================================
