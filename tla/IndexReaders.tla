---------------------------- MODULE IndexReaders ----------------------------
(***************************************************************************)
(* The readers a query tree is turned into (IndexReaderImpl.rs) and the    *)
(* function that builds them (build_index_reader of the search workers,    *)
(* BuildIndexReader of the context, the same code twice). A reader is a    *)
(* record; what the code changes in place is a new record here.            *)
(*   leaf   AdvancedIndexReader     table is the side it reads, at the     *)
(*                                  reader of PostingReader                *)
(*   and    AndIndexReader          kids                                   *)
(*   or     OrIndexReader           kids, docs (m_ChildDocs), match        *)
(*                                  (m_MatchingChildren), doc              *)
(*   weak   WeakAndIndexReader      the same and min                       *)
(*   boost  BoostIndexReader        base, boost, doc, boostDoc             *)
(*   not    NotIndexReader          base, exclude                          *)
(*   vector VectorIndexReader       hits, pos                              *)
(* A score is an integer: span weight and frequency byte of a leaf; the    *)
(* other factors of BM25 do not depend on the reader's state.              *)
(***************************************************************************)
EXTENDS PostingReader, QueryCompiler

CONSTANTS
  KeyOrder,       \* the stream keys in byte order; a key is its place in it
  SpanWeight,     \* QMP_UnigramWeight and QMP_BigramWeight
  HighDocFreq,    \* 100000: above it a term is dropped from a weak AND
  NoMoreDocs      \* NO_MORE_DOCS

ASSUME IndexReadersAssumption == Keys = DOMAIN KeyOrder

KeyOf(words, stream) ==
  CHOOSE k \in DOMAIN KeyOrder : KeyOrder[k] = [words |-> words, stream |-> stream]

HasKey(words, stream) == [words |-> words, stream |-> stream] \in Range(KeyOrder)

---------------------------------------------------------------------------
(* What every reader answers *)

RECURSIVE IsEnd(_)
IsEnd(r) ==
  CASE r.kind = "leaf"                    -> ~r.at.dec.has
    [] r.kind = "and"                     -> \E i \in DOMAIN r.kids : IsEnd(r.kids[i])
    [] r.kind \in {"or", "weak", "boost"} -> r.doc = NoMoreDocs
    [] r.kind = "not"                     -> IsEnd(r.base)
    [] r.kind = "vector"                  -> r.pos > Len(r.hits)

RECURSIVE GetDocumentID(_)
GetDocumentID(r) ==
  CASE r.kind = "leaf"                    -> r.at.dec.doc
    [] r.kind = "and"                     -> IF IsEnd(r) THEN NoMoreDocs
                                                         ELSE GetDocumentID(r.kids[1])
    [] r.kind \in {"or", "weak", "boost"} -> r.doc
    [] r.kind = "not"                     -> GetDocumentID(r.base)
    [] r.kind = "vector"                  -> IF IsEnd(r) THEN NoMoreDocs ELSE r.hits[r.pos]

DocOrEnd(r) == IF IsEnd(r) THEN NoMoreDocs ELSE GetDocumentID(r)

---------------------------------------------------------------------------
(* Movement *)

\* RefreshCurrentDoc
RefreshCurrentDoc(r) ==
  LET doc == Min(Range(r.docs) \cup {NoMoreDocs})
  IN  [r EXCEPT !.doc   = doc,
                !.match = IF doc = NoMoreDocs THEN {} ELSE {i \in DOMAIN r.docs : r.docs[i] = doc}]

\* The kids in moved have new states; the cached documents of these are updated.
UpdateChildDocs(r, moved, kids) ==
  [r EXCEPT !.kids = kids,
            !.docs = [i \in DOMAIN @ |-> IF i \in moved THEN DocOrEnd(kids[i]) ELSE @[i]]]

RECURSIVE GoNext(_, _), GoUntil(_, _, _), AlignToPivot(_, _), AlignToMatch(_, _),
          SkipExcluded(_, _)

\* The matching children go on.
StepMatching(t, r) ==
  UpdateChildDocs(r, r.match,
    [i \in DOMAIN r.kids |-> IF i \in r.match THEN GoNext(t, r.kids[i]) ELSE r.kids[i]])

\* The children that are behind go to the target.
SeekBehind(t, r, target) ==
  LET behind == {i \in DOMAIN r.docs : r.docs[i] < target}
  IN  UpdateChildDocs(r, behind,
        [i \in DOMAIN r.kids |-> IF i \in behind THEN GoUntil(t, r.kids[i], target)
                                                 ELSE r.kids[i]])

\* AndIndexReader: the first child that is not at the largest document goes
\* there, until all agree or one has ended.
AlignToPivot(t, r) ==
  LET Move(off, pivot) ==
        IF off = {} THEN r
        ELSE AlignToPivot(t, [r EXCEPT !.kids[Min(off)] = GoUntil(t, @, pivot)])
      At(ids) == Move({i \in DOMAIN ids : ids[i] # Max(Range(ids))}, Max(Range(ids)))
  IN  IF IsEnd(r) THEN r ELSE At([i \in DOMAIN r.kids |-> GetDocumentID(r.kids[i])])

Enough(r) == Cardinality(r.match) >= r.min

\* WeakAndIndexReader: past the documents that too few children have.
AlignToMatch(t, r) ==
  LET Past(at) == IF at.doc = NoMoreDocs \/ Enough(at) THEN at
                  ELSE AlignToMatch(t, StepMatching(t, at))
  IN  Past(RefreshCurrentDoc(r))

\* The exclusion of a NotIndexReader at the document of its base.
ExcludeFollows(t, r) == [r EXCEPT !.exclude = GoUntil(t, @, GetDocumentID(r.base))]

\* Fault: one excluded document is passed, the next is not looked at.
SkipOneExcluded(t, r) ==
  LET Past(at) == IF DocOrEnd(at.exclude) # GetDocumentID(at.base) THEN at
                  ELSE [at EXCEPT !.base = GoNext(t, @)]
  IN  IF IsEnd(r.base) THEN r ELSE Past(ExcludeFollows(t, r))

\* NotIndexReader: past the documents the exclusion has too.
SkipExcluded(t, r) ==
  LET Past(at) == IF DocOrEnd(at.exclude) # GetDocumentID(at.base) THEN at
                  ELSE SkipExcluded(t, [at EXCEPT !.base = GoNext(t, @)])
  IN  IF IsEnd(r.base) THEN r ELSE Past(ExcludeFollows(t, r))

\* BoostIndexReader: the document of the base is the document of the reader.
FollowBase(r) == [r EXCEPT !.doc = DocOrEnd(r.base)]

GoNext(t, r) ==
  CASE r.kind = "leaf"   -> [r EXCEPT !.at = LeafGoNext(t[r.table], @)]
    [] r.kind = "and"    ->
         IF IsEnd(r) THEN r
         ELSE AlignToPivot(t, [r EXCEPT !.kids =
                [i \in DOMAIN @ |-> IF DocOrEnd(@[i]) = GetDocumentID(r)
                                    THEN GoNext(t, @[i]) ELSE @[i]]])
    [] r.kind = "or"     -> IF IsEnd(r) THEN r ELSE RefreshCurrentDoc(StepMatching(t, r))
    [] r.kind = "weak"   -> IF IsEnd(r) THEN r ELSE AlignToMatch(t, StepMatching(t, r))
    [] r.kind = "boost"  -> IF IsEnd(r) THEN r
                            ELSE FollowBase([r EXCEPT !.base = GoNext(t, @)])
    [] r.kind = "not"    -> SkipExcluded(t, [r EXCEPT !.base = GoNext(t, @)])
    [] r.kind = "vector" -> IF IsEnd(r) THEN r ELSE [r EXCEPT !.pos = @ + 1]

GoUntil(t, r, target) ==
  CASE r.kind = "leaf"   -> [r EXCEPT !.at = LeafGoUntil(t[r.table], @, target)]
    [] r.kind = "and"    -> AlignToPivot(t, [r EXCEPT !.kids =
                              [i \in DOMAIN @ |-> GoUntil(t, @[i], target)]])
    [] r.kind = "or"     -> RefreshCurrentDoc(SeekBehind(t, r, target))
    [] r.kind = "weak"   -> AlignToMatch(t, SeekBehind(t, r, target))
    [] r.kind = "boost"  -> FollowBase([r EXCEPT !.base = GoUntil(t, @, target)])
    [] r.kind = "not"    -> SkipExcluded(t, [r EXCEPT !.base = GoUntil(t, @, target)])
    [] r.kind = "vector" ->
         [r EXCEPT !.pos = r.pos + Len(SelectSeq(SubSeq(r.hits, r.pos, Len(r.hits)),
                                                 LAMBDA d : d < target))]

---------------------------------------------------------------------------
(* Score and sources *)

\* Fault: the boost reader is not moved to the document of the base.
BoostStays(t, r) == r

\* BoostMatchesBase moves the boost reader up to the document of the base.
BoostFollows(t, r) ==
  IF r.boostDoc = NoMoreDocs \/ r.boostDoc >= r.doc THEN r
  ELSE LET With(boost) == [r EXCEPT !.boost = boost, !.boostDoc = DocOrEnd(boost)]
       IN  With(GoUntil(t, r.boost, r.doc))

\* The reader after GetScore and GetSourceMask were called on it.
RECURSIVE Evaluated(_, _)
Evaluated(t, r) ==
  CASE r.kind \in {"leaf", "vector"} -> r
    [] r.kind = "and"                -> [r EXCEPT !.kids = [i \in DOMAIN @ |-> Evaluated(t, @[i])]]
    [] r.kind \in {"or", "weak"}     ->
         [r EXCEPT !.kids = [i \in DOMAIN @ |-> IF i \in r.match THEN Evaluated(t, @[i])
                                                                 ELSE @[i]]]
    [] r.kind = "not"                -> [r EXCEPT !.base = Evaluated(t, @)]
    [] r.kind = "boost"              -> BoostFollows(t, [r EXCEPT !.base = Evaluated(t, @)])

Boosted(r) == r.boostDoc = r.doc

\* Of an evaluated reader that is not at its end.
RECURSIVE GetScore(_)
GetScore(r) ==
  LET sum(S) == FoldSet(LAMBDA i, n : n + GetScore(r.kids[i]), 0, S)
  IN  CASE r.kind = "leaf"           -> SpanWeight[r.span] * r.at.dec.tf
        [] r.kind = "and"            -> sum(DOMAIN r.kids)
        [] r.kind \in {"or", "weak"} -> sum(r.match)
        [] r.kind = "not"            -> GetScore(r.base)
        [] r.kind = "boost"          -> GetScore(r.base) + (IF Boosted(r) THEN r.weight ELSE 0)
        [] r.kind = "vector"         -> 1

\* The streams with the bits of ReaderSourceMaskForStream; M has none.
RECURSIVE GetSourceMask(_)
GetSourceMask(r) ==
  LET union(S) == UNION {GetSourceMask(r.kids[i]) : i \in S}
  IN  CASE r.kind = "leaf"           -> {r.stream} \ {"M"}
        [] r.kind = "and"            -> union({i \in DOMAIN r.kids :
                                               DocOrEnd(r.kids[i]) = GetDocumentID(r)})
        [] r.kind \in {"or", "weak"} -> union(r.match)
        [] r.kind = "not"            -> GetSourceMask(r.base)
        [] r.kind = "boost"          -> GetSourceMask(r.base)
                                        \cup (IF Boosted(r) THEN GetSourceMask(r.boost) ELSE {})
        [] r.kind = "vector"         -> {"V"}

---------------------------------------------------------------------------
(* Building *)

OpenTerm(t, side, words, stream) ==
  [kind |-> "leaf", table |-> side, stream |-> stream, span |-> Len(words),
   at |-> IF HasKey(words, stream) THEN LeafOpen(t[side], KeyOf(words, stream))
          ELSE [seq |-> 0, rem |-> 0, df |-> 0, dec |-> Closed]]

\* OpenAdvancedReader(""): no term, at its end from the start.
EndReader(side) == [kind |-> "leaf", table |-> side, stream |-> "B", span |-> 1,
                    at |-> [seq |-> 0, rem |-> 0, df |-> 0, dec |-> Closed]]

OrReader(kids) ==
  RefreshCurrentDoc([kind |-> "or", kids |-> kids, doc |-> NoMoreDocs, match |-> {},
                     docs |-> [i \in DOMAIN kids |-> DocOrEnd(kids[i])]])

WeakAndReader(t, kids, min) ==
  AlignToMatch(t, [kind |-> "weak", kids |-> kids, doc |-> NoMoreDocs, match |-> {},
                   docs |-> [i \in DOMAIN kids |-> DocOrEnd(kids[i])], min |-> Max({min, 1})])

BoostReader(base, boost, weight) ==
  [kind |-> "boost", base |-> base, boost |-> boost, weight |-> weight,
   doc |-> DocOrEnd(base), boostDoc |-> DocOrEnd(boost)]

NotReader(t, base, exclude) ==
  SkipExcluded(t, [kind |-> "not", base |-> base, exclude |-> exclude])

VectorReader(hits) == [kind |-> "vector", hits |-> SetToSortSeq(hits, <), pos |-> 1]

RECURSIVE EstimateDocFreq(_, _)
EstimateDocFreq(table, node) ==
  CASE node.type = "Term" -> IF HasKey(node.words, node.stream)
                             THEN FindTermDataHeadLeaf(table, KeyOf(node.words, node.stream)).df
                             ELSE 0
    [] node.type = "Or"   -> FoldLeft(LAMBDA n, c : n + EstimateDocFreq(table, c), 0, node.children)
    [] OTHER              -> 0

\* The terms of a weak AND without the groups over streams; frequent terms
\* are left out unless allowed.
RECURSIVE FlattenWeakAndNodes(_, _, _, _)
FlattenWeakAndNodes(nodes, table, docCount, allowHighDf) ==
  FlattenSeq([i \in DOMAIN nodes |->
    CASE nodes[i].type = "Or" ->
           FlattenWeakAndNodes(nodes[i].children, table, docCount, allowHighDf)
      [] OTHER ->
           IF allowHighDf \/ EstimateDocFreq(table, nodes[i])
                               <= Max({HighDocFreq, docCount \div 5})
           THEN <<nodes[i]>> ELSE <<>>])

NotAtEnd(readers) == SelectSeq(readers, LAMBDA r : ~IsEnd(r))

\* Without a child, or with one child alone, there is nothing to join.
Single(side, kids, Join(_)) ==
  CASE kids = <<>>   -> EndReader(side)
    [] Len(kids) = 1 -> kids[1]
    [] OTHER         -> Join(kids)

AndReader(t, side, kids) ==
  IF \E i \in DOMAIN kids : IsEnd(kids[i]) THEN EndReader(side)
  ELSE Single(side, kids, LAMBDA ks : AlignToPivot(t, [kind |-> "and", kids |-> ks]))

BoostOrBase(base, boost, weight) ==
  IF IsEnd(base) \/ IsEnd(boost) THEN base ELSE BoostReader(base, boost, weight)

WeakMin(node, build, count) ==
  IF build = "FlatPruned" THEN min_should_match(count) ELSE Min({node.min_should_match, count})

\* t: the two tables; side: the one read; docCount: its documents; build: the
\* WeakAndBuildMode.
RECURSIVE BuildIndexReader(_, _, _, _, _)
BuildIndexReader(t, side, docCount, build, node) ==
  LET Build(n)        == BuildIndexReader(t, side, docCount, build, n)
      BuildAll(nodes) == [i \in DOMAIN nodes |-> Build(nodes[i])]
      Flat(high)      == NotAtEnd(BuildAll(FlattenWeakAndNodes(node.children, t[side],
                                                               docCount, high)))
      OrFrequent(few) == IF few # <<>> THEN few ELSE Flat(TRUE)
      \* The children of a weak AND.
      WeakKids ==
        CASE build = "OrChildren"       -> BuildAll(node.children)
          [] build = "OrChildrenPruned" -> NotAtEnd(BuildAll(node.children))
          [] build = "FlatPruned"       -> OrFrequent(Flat(FALSE))
  IN  CASE node.type = "None"    -> EndReader(side)
        [] node.type = "Term"    -> OpenTerm(t, side, node.words, node.stream)
        [] node.type = "And"     -> AndReader(t, side, BuildAll(node.children))
        [] node.type = "Or"      -> Single(side, NotAtEnd(BuildAll(node.children)), OrReader)
        [] node.type = "WeakAnd" ->
             Single(side, WeakKids, LAMBDA ks : WeakAndReader(t, ks, WeakMin(node, build, Len(ks))))
        [] node.type = "Not"     -> NotReader(t, Build(node.base), Build(node.exclude))
        [] node.type = "Boost"   ->
             BoostOrBase(Build(node.base), Build(node.boost), node.boost_weight)
=============================================================================
