---------------------------- MODULE SequenceLemmas ----------------------------
(* The elements of a queue after a push and after a pop, and prefixes of sequences. *)
EXTENDS Integers, Sequences, FiniteSetsExt, SequencesExt, WellFoundedInduction, TLAPS

LEMMA SeqTypes ==
  ASSUME NEW S
  PROVE  /\ <<>> \in Seq(S)
         /\ \A s \in Seq(S), e \in S : Append(s, e) \in Seq(S)
         /\ \A s \in Seq(S) : s # <<>> => Head(s) \in S /\ Tail(s) \in Seq(S)
  OBVIOUS

LEMMA SeqSubset ==
  ASSUME NEW S, NEW T, S \subseteq T, NEW s \in Seq(S)
  PROVE  s \in Seq(T)
<1>1. Len(s) \in Nat /\ s \in [1 .. Len(s) -> S]
  OBVIOUS
<1>2. s \in [1 .. Len(s) -> T]
  BY <1>1
<1>3. QED
  BY <1>1, <1>2

LEMMA SeqElements ==
  ASSUME NEW S, NEW s \in Seq(S)
  PROVE  /\ Len(s) \in Nat /\ DOMAIN s = 1 .. Len(s)
         /\ \A i \in 1 .. Len(s) : s[i] \in S
         /\ s # <<>> => Len(s) > 0 /\ Head(s) = s[1]
  OBVIOUS

LEMMA FunctionIsSeq ==
  ASSUME NEW S, NEW n \in Nat, NEW f \in [1 .. n -> S]
  PROVE  f \in Seq(S) /\ Len(f) = n /\ DOMAIN f = 1 .. n
  OBVIOUS

LEMMA ConcatElements ==
  ASSUME NEW S, NEW s \in Seq(S), NEW t \in Seq(S)
  PROVE  /\ s \o t \in Seq(S) /\ Len(s \o t) = Len(s) + Len(t)
         /\ \A k \in 1 .. Len(s) : (s \o t)[k] = s[k]
         /\ \A k \in 1 .. Len(t) : (s \o t)[Len(s) + k] = t[k]
<1>1. Len(s) \in Nat /\ Len(t) \in Nat /\ s \o t \in Seq(S) /\ Len(s \o t) = Len(s) + Len(t)
  OBVIOUS
<1>2. ASSUME NEW k \in 1 .. Len(s) PROVE (s \o t)[k] = s[k]
  BY <1>1
<1>3. ASSUME NEW k \in 1 .. Len(t) PROVE (s \o t)[Len(s) + k] = t[k]
  BY <1>1
<1>4. QED
  BY <1>1, <1>2, <1>3

LEMMA EmptyElements == ToSet(<<>>) = {} /\ IsInjective(<<>>)
  BY DEF ToSet, IsInjective

LEMMA ElementsNonempty ==
  ASSUME NEW S, NEW s \in Seq(S)
  PROVE  s # <<>> <=> ToSet(s) # {}
<1>1. ASSUME s # <<>> PROVE ToSet(s) # {}
  <2>1. 1 \in DOMAIN s
    BY <1>1
  <2>2. s[1] \in ToSet(s)
    BY <2>1 DEF ToSet
  <2>3. QED
    BY <2>2
<1>2. QED
  BY <1>1, EmptyElements

LEMMA AppendElements ==
  ASSUME NEW S, NEW s \in Seq(S), NEW e \in S
  PROVE  /\ ToSet(Append(s, e)) = ToSet(s) \cup {e}
         /\ IsInjective(s) /\ e \notin ToSet(s) => IsInjective(Append(s, e))
<1>1. /\ Append(s, e) \in Seq(S) /\ Len(Append(s, e)) = Len(s) + 1
      /\ DOMAIN Append(s, e) = 1 .. Len(s) + 1 /\ DOMAIN s = 1 .. Len(s)
      /\ Len(s) \in Nat
      /\ \A i \in 1 .. Len(s) : Append(s, e)[i] = s[i]
      /\ Append(s, e)[Len(s) + 1] = e
  OBVIOUS
<1>2. \A i : i \in 1 .. Len(s) + 1 <=> i \in 1 .. Len(s) \/ i = Len(s) + 1
  BY <1>1
<1>3. ToSet(Append(s, e)) = ToSet(s) \cup {e}
  BY <1>1, <1>2 DEF ToSet
<1>4. ASSUME IsInjective(s), e \notin ToSet(s) PROVE IsInjective(Append(s, e))
  BY <1>1, <1>2, <1>4 DEF ToSet, IsInjective
<1>5. QED
  BY <1>3, <1>4

LEMMA PopElements ==
  ASSUME NEW S, NEW s \in Seq(S), s # <<>>
  PROVE  /\ ToSet(s) = ToSet(Tail(s)) \cup {Head(s)}
         /\ IsInjective(s) => IsInjective(Tail(s)) /\ Head(s) \notin ToSet(Tail(s))
<1>1. /\ Len(s) \in Nat \ {0} /\ DOMAIN s = 1 .. Len(s)
      /\ Tail(s) \in Seq(S) /\ Len(Tail(s)) = Len(s) - 1 /\ DOMAIN Tail(s) = 1 .. Len(s) - 1
      /\ \A i \in 1 .. Len(s) - 1 : Tail(s)[i] = s[i + 1]
      /\ Head(s) = s[1]
  OBVIOUS
<1>2. ToSet(s) = ToSet(Tail(s)) \cup {Head(s)}
  <2>1. \A i \in 1 .. Len(s) : i = 1 \/ (i - 1 \in 1 .. Len(s) - 1 /\ s[i] = Tail(s)[i - 1])
    BY <1>1
  <2>2. \A i \in 1 .. Len(s) - 1 : i + 1 \in 1 .. Len(s)
    BY <1>1
  <2>3. 1 \in 1 .. Len(s)
    BY <1>1
  <2>4. ASSUME NEW x \in ToSet(s) PROVE x \in ToSet(Tail(s)) \cup {Head(s)}
    <3>1. PICK i \in 1 .. Len(s) : x = s[i]
      BY <1>1, <2>4 DEF ToSet
    <3>2. CASE i = 1
      BY <1>1, <3>1, <3>2
    <3>3. CASE i # 1
      <4>1. i - 1 \in DOMAIN Tail(s) /\ x = Tail(s)[i - 1]
        BY <1>1, <2>1, <3>1, <3>3
      <4>2. QED
        BY <4>1 DEF ToSet
    <3>4. QED
      BY <3>2, <3>3
  <2>5. ASSUME NEW x \in ToSet(Tail(s)) PROVE x \in ToSet(s)
    BY <1>1, <2>2, <2>5 DEF ToSet
  <2>6. Head(s) \in ToSet(s)
    BY <1>1, <2>3 DEF ToSet
  <2>7. QED
    BY <2>4, <2>5, <2>6
<1>3. ASSUME IsInjective(s) PROVE IsInjective(Tail(s)) /\ Head(s) \notin ToSet(Tail(s))
  BY <1>1, <1>3 DEF ToSet, IsInjective
<1>4. QED
  BY <1>2, <1>3

LEMMA PrefixMeans ==
  ASSUME NEW S, NEW s \in Seq(S), NEW t \in Seq(S)
  PROVE  IsPrefix(s, t) <=> Len(s) <= Len(t) /\ \A i \in 1 .. Len(s) : s[i] = t[i]
<1>1. Len(s) \in Nat /\ Len(t) \in Nat
  OBVIOUS
<1>2. ASSUME Len(s) <= Len(t)
      PROVE  SubSeq(s, 1, Len(s)) = SubSeq(t, 1, Len(s)) <=> \A i \in 1 .. Len(s) : s[i] = t[i]
  <2>1. /\ SubSeq(s, 1, Len(s)) = [i \in 1 .. Len(s) |-> s[i]]
        /\ SubSeq(t, 1, Len(s)) = [i \in 1 .. Len(s) |-> t[i]]
    BY <1>1, <1>2
  <2>2. QED
    BY <2>1
<1>3. QED
  BY <1>1, <1>2 DEF IsPrefix

LEMMA PrefixReflexive ==
  ASSUME NEW S, NEW s \in Seq(S)
  PROVE  IsPrefix(<<>>, s) /\ IsPrefix(s, s)
<1>1. <<>> \in Seq(S) /\ Len(<<>>) = 0 /\ Len(s) \in Nat
  OBVIOUS
<1>2. Len(<<>>) <= Len(s) /\ \A i \in 1 .. Len(<<>>) : <<>>[i] = s[i]
  BY <1>1
<1>3. Len(s) <= Len(s) /\ \A i \in 1 .. Len(s) : s[i] = s[i]
  BY <1>1
<1>4. QED
  BY <1>1, <1>2, <1>3, PrefixMeans

LEMMA PrefixFacts ==
  ASSUME NEW S, NEW s \in Seq(S), NEW t \in Seq(S), NEW u \in Seq(S), NEW e \in S
  PROVE  /\ IsPrefix(<<>>, s) /\ IsPrefix(s, s)
         /\ IsPrefix(s, s \o t)
         /\ IsPrefix(s, t) => IsPrefix(s, t \o u) /\ IsPrefix(s, Append(t, e))
         /\ IsPrefix(s, t) /\ s # <<>> => t # <<>> /\ Head(s) = Head(t)
<1>1. <<>> \in Seq(S) /\ s \o t \in Seq(S) /\ t \o u \in Seq(S) /\ Append(t, e) \in Seq(S)
  OBVIOUS
<1>2. Len(<<>>) = 0 /\ Len(s) \in Nat /\ Len(t) \in Nat /\ Len(u) \in Nat
  OBVIOUS
<1>3. IsPrefix(<<>>, s) /\ IsPrefix(s, s)
  BY PrefixReflexive
<1>4. IsPrefix(s, s \o t)
  <2>1. Len(s) <= Len(s \o t) /\ \A i \in 1 .. Len(s) : s[i] = (s \o t)[i]
    BY <1>2
  <2>2. QED
    BY <1>1, <2>1, PrefixMeans
<1>5. ASSUME IsPrefix(s, t) PROVE IsPrefix(s, t \o u) /\ IsPrefix(s, Append(t, e))
  <2>1. Len(s) <= Len(t) /\ \A i \in 1 .. Len(s) : s[i] = t[i]
    BY <1>5, PrefixMeans
  <2>2. Len(s) <= Len(t \o u) /\ \A i \in 1 .. Len(s) : s[i] = (t \o u)[i]
    BY <1>2, <2>1
  <2>3. Len(s) <= Len(Append(t, e)) /\ \A i \in 1 .. Len(s) : s[i] = Append(t, e)[i]
    BY <1>2, <2>1
  <2>4. QED
    BY <1>1, <2>2, <2>3, PrefixMeans
<1>6. ASSUME IsPrefix(s, t), s # <<>> PROVE t # <<>> /\ Head(s) = Head(t)
  <2>1. Len(s) <= Len(t) /\ \A i \in 1 .. Len(s) : s[i] = t[i]
    BY <1>6, PrefixMeans
  <2>2. QED
    BY <1>6, <2>1
<1>7. QED
  BY <1>3, <1>4, <1>5, <1>6

-------------------------------------------------------------------------------
(* Induction over the naturals, with the property as a set, and what a     *)
(* recursive function, the minimum and the maximum are.                    *)

LEMMA NatSetInduction ==
  ASSUME NEW S, 0 \in S, \A n \in Nat : n \in S => n + 1 \in S
  PROVE  \A n \in Nat : n \in S
<1> SUFFICES ASSUME {n \in Nat : n \notin S} # {} PROVE FALSE
  OBVIOUS
<1> DEFINE T == {n \in Nat : n \notin S}
<1>1. PICK x \in T : \A y \in T : ~(<<y, x>> \in OpToRel(<, Nat))
  BY NatLessThanWellFounded, WFMin
<1>2. x \in Nat /\ x # 0 /\ x - 1 \in Nat
  OBVIOUS
<1>3. x - 1 \in T
  BY <1>2
<1>4. <<x - 1, x>> \in OpToRel(<, Nat)
  BY <1>2 DEF OpToRel
<1>5. QED
  BY <1>1, <1>3, <1>4

LEMMA MinOfNaturals ==
  ASSUME NEW S \in SUBSET Nat, S # {}
  PROVE  Min(S) \in S /\ \A y \in S : Min(S) <= y
<1>1. PICK x \in S : \A y \in S : ~(<<y, x>> \in OpToRel(<, Nat))
  BY NatLessThanWellFounded, WFMin
<1>2. ASSUME NEW y \in S PROVE x <= y
  <2>1. ~(y < x)
    BY <1>1 DEF OpToRel
  <2>2. QED
    BY <2>1
<1>3. QED
  BY <1>2 DEF Min

LEMMA MaxOfBounded ==
  ASSUME NEW n \in Nat, NEW S \in SUBSET (0 .. n), S # {}
  PROVE  Max(S) \in S /\ \A y \in S : y <= Max(S)
<1> DEFINE T == {n - x : x \in S}
<1>1. T \in SUBSET Nat /\ T # {}
  OBVIOUS
<1>2. Min(T) \in T /\ \A y \in T : Min(T) <= y
  BY <1>1, MinOfNaturals
<1>3. PICK x \in S : Min(T) = n - x
  BY <1>2
<1>4. ASSUME NEW y \in S PROVE x >= y
  <2>1. n - y \in T
    OBVIOUS
  <2>2. n - x <= n - y
    BY <2>1, <1>2, <1>3
  <2>3. QED
    BY <2>2
<1>5. QED
  BY <1>4 DEF Max

-------------------------------------------------------------------------------
(* Concatenations *)

Cat(a, b) == a \o b

FlattenOk(g, seqs, n) ==
  g = [i \in 1 .. n |-> IF i = 1 THEN seqs[i] ELSE Cat(g[i - 1], seqs[i])]

LEMMA FlattenExists ==
  ASSUME NEW seqs
  PROVE  \A n \in Nat : \E g : FlattenOk(g, seqs, n)
<1> DEFINE S == {n \in Nat : \E g : FlattenOk(g, seqs, n)}
<1>1. 0 \in S
  <2>1. FlattenOk([i \in 1 .. 0 |-> 0], seqs, 0)
    BY DEF FlattenOk
  <2>2. QED
    BY <2>1
<1>2. ASSUME NEW n \in Nat, n \in S PROVE n + 1 \in S
  <2>1. PICK g : FlattenOk(g, seqs, n)
    BY <1>2
  <2> DEFINE h == [i \in 1 .. n + 1 |-> IF i <= n THEN g[i]
                                        ELSE IF i = 1 THEN seqs[i] ELSE Cat(g[n], seqs[i])]
  <2>2. \A i \in 1 .. n + 1 : h[i] = IF i = 1 THEN seqs[i] ELSE Cat(h[i - 1], seqs[i])
    BY <2>1 DEF FlattenOk
  <2>3. FlattenOk(h, seqs, n + 1)
    BY <2>2 DEF FlattenOk
  <2>4. QED
    BY <2>3
<1> HIDE DEF S
<1>3. \A n \in Nat : n \in S
  BY <1>1, <1>2, NatSetInduction
<1> USE DEF S
<1>4. QED
  BY <1>3

\* What FlattenSeq computes: the last of the concatenations of the first parts.
LEMMA FlattenSteps ==
  ASSUME NEW S, NEW seqs \in Seq(S)
  PROVE  \/ seqs = <<>> /\ FlattenSeq(seqs) = <<>>
         \/ /\ seqs # <<>>
            /\ \E g : /\ FlattenSeq(seqs) = g[Len(seqs)] /\ g[1] = seqs[1]
                      /\ \A i \in 2 .. Len(seqs) : g[i] = g[i - 1] \o seqs[i]
<1>1. Len(seqs) \in Nat /\ (Len(seqs) = 0 <=> seqs = <<>>)
  OBVIOUS
<1>2. CASE seqs = <<>>
  BY <1>1, <1>2 DEF FlattenSeq
<1>3. CASE seqs # <<>>
  <2> DEFINE F == CHOOSE g : FlattenOk(g, seqs, Len(seqs))
  <2>1. FlattenOk(F, seqs, Len(seqs))
    BY <1>1, FlattenExists, Zenon
  <2>2. FlattenSeq(seqs) = F[Len(seqs)]
    BY <1>1, <1>3, Zenon DEF FlattenSeq, FlattenOk, Cat
  <2> HIDE DEF F
  <2>3. F[1] = seqs[1] /\ \A i \in 2 .. Len(seqs) : F[i] = Cat(F[i - 1], seqs[i])
    BY <2>1, <1>1, <1>3 DEF FlattenOk
  <2>4. QED
    BY <1>3, <2>2, <2>3, Zenon DEF Cat
<1>4. QED
  BY <1>2, <1>3

LEMMA FlattenType ==
  ASSUME NEW S, NEW seqs \in Seq(Seq(S))
  PROVE  FlattenSeq(seqs) \in Seq(S)
<1>1. CASE seqs = <<>>
  <2>1. FlattenSeq(seqs) = <<>>
    BY <1>1, FlattenSteps
  <2>2. QED
    BY <2>1
<1>2. CASE seqs # <<>>
  <2>1. PICK g : /\ FlattenSeq(seqs) = g[Len(seqs)] /\ g[1] = seqs[1]
                 /\ \A i \in 2 .. Len(seqs) : g[i] = g[i - 1] \o seqs[i]
    BY <1>2, FlattenSteps
  <2>2. Len(seqs) \in Nat /\ Len(seqs) > 0 /\ \A i \in 1 .. Len(seqs) : seqs[i] \in Seq(S)
    BY <1>2
  <2> DEFINE I == {i \in Nat : i + 1 <= Len(seqs) => g[i + 1] \in Seq(S)}
  <2>3. 0 \in I
    BY <2>1, <2>2
  <2>4. ASSUME NEW i \in Nat, i \in I PROVE i + 1 \in I
    <3>1. SUFFICES ASSUME i + 2 <= Len(seqs) PROVE g[i + 2] \in Seq(S)
      BY <2>2
    <3>2. g[i + 1] \in Seq(S) /\ seqs[i + 2] \in Seq(S) /\ i + 2 \in 2 .. Len(seqs)
      BY <2>4, <3>1, <2>2
    <3>3. g[i + 2] = g[i + 1] \o seqs[i + 2]
      <4>1. (i + 2) - 1 = i + 1
        OBVIOUS
      <4>2. QED
        BY <4>1, <3>2, <2>1
    <3>4. QED
      BY <3>2, <3>3
  <2> HIDE DEF I
  <2>5. \A i \in Nat : i \in I
    BY <2>3, <2>4, NatSetInduction
  <2> USE DEF I
  <2>6. Len(seqs) - 1 \in Nat
    BY <2>2
  <2>7. Len(seqs) - 1 \in I
    BY <2>6, <2>5, Zenon
  <2>8. QED
    BY <2>6, <2>7, <2>1, <2>2
<1>3. QED
  BY <1>1, <1>2

LEMMA SeqEqual ==
  ASSUME NEW S, NEW s \in Seq(S), NEW t \in Seq(S), Len(s) = Len(t),
         \A i \in 1 .. Len(s) : s[i] = t[i]
  PROVE  s = t
  OBVIOUS

LEMMA SubSeqElements ==
  ASSUME NEW S, NEW s \in Seq(S), NEW a \in Nat, NEW b \in Nat, a <= b, b <= Len(s)
  PROVE  /\ SubSeq(s, a + 1, b) \in Seq(S) /\ Len(SubSeq(s, a + 1, b)) = b - a
         /\ \A i \in 1 .. b - a : SubSeq(s, a + 1, b)[i] = s[a + i]
<1>1. Len(s) \in Nat
  OBVIOUS
<1>2. SubSeq(s, a + 1, b) \in Seq(S) /\ Len(SubSeq(s, a + 1, b)) = b - a
  BY <1>1
<1>3. ASSUME NEW i \in 1 .. b - a PROVE SubSeq(s, a + 1, b)[i] = s[a + i]
  BY <1>1, <1>2
<1>4. QED
  BY <1>2, <1>3

\* Neighbouring pieces make a piece.
LEMMA SubSeqJoin ==
  ASSUME NEW S, NEW s \in Seq(S), NEW a \in Nat, NEW b \in Nat, NEW c \in Nat,
         a <= b, b <= c, c <= Len(s)
  PROVE  SubSeq(s, a + 1, b) \o SubSeq(s, b + 1, c) = SubSeq(s, a + 1, c)
<1> DEFINE u == SubSeq(s, a + 1, b)
           v == SubSeq(s, b + 1, c)
           w == SubSeq(s, a + 1, c)
           uv == u \o v
<1>1. Len(s) \in Nat /\ b <= Len(s) /\ a <= c
  OBVIOUS
<1>2. u \in Seq(S) /\ Len(u) = b - a /\ \A i \in 1 .. b - a : u[i] = s[a + i]
  BY <1>1, SubSeqElements
<1>3. v \in Seq(S) /\ Len(v) = c - b /\ \A i \in 1 .. c - b : v[i] = s[b + i]
  BY <1>1, SubSeqElements
<1>4. w \in Seq(S) /\ Len(w) = c - a /\ \A i \in 1 .. c - a : w[i] = s[a + i]
  BY <1>1, SubSeqElements
<1> HIDE DEF u, v, w
<1>5. /\ uv \in Seq(S) /\ Len(uv) = Len(u) + Len(v)
      /\ \A k \in 1 .. Len(u) : uv[k] = u[k]
      /\ \A k \in 1 .. Len(v) : uv[Len(u) + k] = v[k]
  <2>1. u \in Seq(S) /\ v \in Seq(S)
    BY <1>2, <1>3
  <2>2. \A x, y \in Seq(S) : /\ x \o y \in Seq(S) /\ Len(x \o y) = Len(x) + Len(y)
                             /\ \A k \in 1 .. Len(x) : (x \o y)[k] = x[k]
                             /\ \A k \in 1 .. Len(y) : (x \o y)[Len(x) + k] = y[k]
    BY ConcatElements
  <2>3. QED
    BY <2>1, <2>2, Zenon
<1> HIDE DEF uv
<1>6. ASSUME NEW i \in 1 .. c - a PROVE uv[i] = w[i]
  <2>1. CASE i <= b - a
    <3>1. i \in 1 .. Len(u)
      BY <2>1, <1>2
    <3>2. uv[i] = u[i]
      BY <3>1, <1>5
    <3>3. QED
      BY <3>2, <1>2, <1>4, <2>1
  <2>2. CASE i > b - a
    <3> DEFINE k == i - (b - a)
    <3>1. k \in 1 .. c - b /\ i = (b - a) + k /\ b + k = a + i
      BY <2>2
    <3> HIDE DEF k
    <3>2. uv[Len(u) + k] = v[k]
      BY <3>1, <1>3, <1>5
    <3>3. v[k] = s[b + k]
      BY <3>1, <1>3
    <3>4. QED
      BY <3>1, <3>2, <3>3, <1>4, <1>2
  <2>3. QED
    BY <2>1, <2>2
<1>7. uv = w
  <2>1. Len(uv) = Len(w) /\ Len(w) = c - a
    BY <1>2, <1>3, <1>4, <1>5
  <2>2. QED
    BY <2>1, <1>4, <1>5, <1>6, SeqEqual
<1>8. QED
  BY <1>7 DEF u, v, w, uv

\* Consecutive pieces of a sequence, flattened, are one piece of it.
LEMMA FlattenPieces ==
  ASSUME NEW S, NEW s \in Seq(S), NEW n \in Nat, NEW end,
         \A i \in 0 .. n : end[i] \in 0 .. Len(s),
         \A i \in 1 .. n : end[i - 1] <= end[i]
  PROVE  FlattenSeq([i \in 1 .. n |-> SubSeq(s, end[i - 1] + 1, end[i])])
           = SubSeq(s, end[0] + 1, end[n])
<1> DEFINE piece == [i \in 1 .. n |-> SubSeq(s, end[i - 1] + 1, end[i])]
<1>1. Len(s) \in Nat /\ \A i \in 0 .. n : end[i] \in Nat /\ end[i] <= Len(s)
  OBVIOUS
<1>2. \A i \in 1 .. n : piece[i] \in Seq(S)
  <2> TAKE i \in 1 .. n
  <2>1. i - 1 \in 0 .. n /\ i \in 0 .. n
    OBVIOUS
  <2>2. QED
    BY <2>1, <1>1, SubSeqElements
<1>3. piece \in Seq(Seq(S)) /\ Len(piece) = n
  BY <1>2
<1> HIDE DEF piece
<1>4. CASE n = 0
  <2>1. piece = <<>>
    BY <1>3, <1>4
  <2>2. FlattenSeq(piece) = <<>>
    BY <2>1, <1>3, FlattenSteps
  <2>3. SubSeq(s, end[0] + 1, end[0]) = <<>>
    BY <1>1
  <2>4. QED
    BY <2>2, <2>3, <1>4 DEF piece
<1>5. CASE n # 0
  <2>1. piece # <<>>
    BY <1>3, <1>5
  <2>2. PICK g : /\ FlattenSeq(piece) = g[n] /\ g[1] = piece[1]
                 /\ \A i \in 2 .. n : g[i] = g[i - 1] \o piece[i]
    BY <2>1, <1>3, FlattenSteps
  <2> DEFINE I == {i \in Nat : i + 1 <= n => g[i + 1] = SubSeq(s, end[0] + 1, end[i + 1])}
  <2>3. 0 \in I
    <3>1. 1 \in 1 .. n /\ 1 - 1 = 0
      BY <1>5
    <3>2. piece[1] = SubSeq(s, end[1 - 1] + 1, end[1])
      BY <3>1 DEF piece
    <3>3. g[1] = SubSeq(s, end[0] + 1, end[1])
      BY <3>1, <3>2, <2>2
    <3>4. QED
      BY <3>3
  <2>4. ASSUME NEW i \in Nat, i \in I PROVE i + 1 \in I
    <3>1. SUFFICES ASSUME i + 2 <= n PROVE g[i + 2] = SubSeq(s, end[0] + 1, end[i + 2])
      OBVIOUS
    <3>2. g[i + 1] = SubSeq(s, end[0] + 1, end[i + 1])
      BY <2>4, <3>1
    <3>3. g[i + 2] = g[i + 1] \o piece[i + 2]
      <4>1. (i + 2) - 1 = i + 1 /\ i + 2 \in 2 .. n
        BY <3>1
      <4>2. QED
        BY <4>1, <2>2
    <3>4. piece[i + 2] = SubSeq(s, end[i + 1] + 1, end[i + 2])
      <4>1. (i + 2) - 1 = i + 1 /\ i + 2 \in 1 .. n
        BY <3>1
      <4>2. QED
        BY <4>1 DEF piece
    <3>5. end[0] <= end[i + 1]
      <4> DEFINE J == {j \in Nat : j <= n => end[0] <= end[j]}
      <4>1. 0 \in J
        BY <1>1
      <4>2. ASSUME NEW j \in Nat, j \in J PROVE j + 1 \in J
        <5>1. SUFFICES ASSUME j + 1 <= n PROVE end[0] <= end[j + 1]
          OBVIOUS
        <5>2. end[(j + 1) - 1] <= end[j + 1] /\ (j + 1) - 1 = j
          BY <5>1
        <5>3. QED
          BY <5>1, <5>2, <4>2, <1>1
      <4> HIDE DEF J
      <4>3. \A j \in Nat : j \in J
        BY <4>1, <4>2, NatSetInduction
      <4> USE DEF J
      <4>4. i + 1 \in Nat /\ i + 1 \in J
        BY <4>3
      <4>5. QED
        BY <4>4, <3>1
    <3>6. end[i + 1] <= end[i + 2]
      <4>1. (i + 2) - 1 = i + 1 /\ i + 2 \in 1 .. n
        BY <3>1
      <4>2. QED
        BY <4>1
    <3>7. QED
      <4>1. /\ end[0] \in Nat /\ end[i + 1] \in Nat /\ end[i + 2] \in Nat
            /\ end[i + 2] <= Len(s)
        BY <3>1, <1>1
      <4>2. SubSeq(s, end[0] + 1, end[i + 1]) \o SubSeq(s, end[i + 1] + 1, end[i + 2])
              = SubSeq(s, end[0] + 1, end[i + 2])
        BY <4>1, <3>5, <3>6, SubSeqJoin
      <4>3. QED
        BY <3>2, <3>3, <3>4, <4>2
  <2> HIDE DEF I
  <2>5. \A i \in Nat : i \in I
    BY <2>3, <2>4, NatSetInduction
  <2>6. n - 1 \in Nat /\ (n - 1) + 1 = n
    BY <1>5
  <2>7. n - 1 \in I
    BY <2>5, <2>6, Zenon
  <2>8. g[n] = SubSeq(s, end[0] + 1, end[n])
    BY <2>6, <2>7 DEF I
  <2>9. QED
    BY <2>2, <2>8 DEF piece
<1>6. QED
  BY <1>4, <1>5

===============================================================================
