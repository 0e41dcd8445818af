--------------------------- MODULE SearchPipeline ---------------------------
(***************************************************************************)
(* A search from end to end: documents are written and built into the      *)
(* blocks of a base and of a delta, a query is compiled, its tree is       *)
(* turned into readers over both, and the executor walks the documents     *)
(* they deliver and keeps the best (ExecuteSearchTask of IndexContext,     *)
(* IndexSearchExecutor). One search, so no other actor: the interleavings  *)
(* of searches and changes are in SearchQueue, those of blocks in          *)
(* BlockCache.                                                             *)
(***************************************************************************)
EXTENDS IndexReaders

CONSTANTS
  DocIds,       \* the IDs of each side, a function of the sides
  Contents,     \* what a document may hold: a function of the streams
  TextTasks,    \* the searches with words: records of query (items), streams,
                \* mode, build (the WeakAndBuildMode), limit (topK, 0 for none)
                \* and bound (maxVisitedDocs, NoMoreDocs for none)
  VectorTasks,  \* the searches by vector alone
  DocScore      \* DocDataScore: the part of the score the query does not change

Sides  == {"base", "delta"}
AllIds == DocIds["base"] \cup DocIds["delta"]
NoReader == [kind |-> "none"]

ASSUME SearchPipelineAssumption ==
  /\ \A b \in DocIds["base"], d \in DocIds["delta"] : b < d
  /\ \A d \in AllIds : d < NoMoreDocs

VARIABLES
  phase,    \* "index", "idle", "open", "walk", "sort", "done" or "panic"
  docs,     \* the documents: contents of the IDs in use
  table,    \* the blocks of the two sides
  task,     \* SearchTaskState: the query and its parameters
  tree,     \* EvalTree
  reader,   \* the reader of the whole query
  visited,  \* the documents the executor has seen
  results,  \* its heap, or its list without a limit
  answer    \* the results returned

vars == <<phase, docs, table, task, tree, reader, visited, results, answer>>

---------------------------------------------------------------------------
(* Indexing *)

\* AdvancedIndexWriter.Write: the words and the adjacent pairs of a stream,
\* with their numbers.
Write(store, words, doc, stream) ==
  LET grams    == [i \in DOMAIN words |-> <<words[i]>>]
                  \o [i \in 1 .. Len(words) - 1 |-> <<words[i], words[i + 1]>>]
      count(g) == Cardinality({i \in DOMAIN grams : grams[i] = g})
  IN  IF words = <<>> THEN store
      ELSE FoldSet(LAMBDA g, st : AddPosting(st, KeyOf(g, stream), doc, count(g)),
                   store, Range(grams))

\* AddDocument, stream by stream.
AddDocument(store, doc) ==
  FoldSet(LAMBDA s, st : Write(st, docs[doc][s], doc, s), store, DOMAIN docs[doc])

SideDocs(side) == {d \in DOMAIN docs : d \in DocIds[side]}

\* IFH_NumDocuments: the unused IDs between the first and the last count too.
StoreDocDataRecordCount(side) ==
  IF SideDocs(side) = {} THEN 0 ELSE Max(SideDocs(side)) - Min(SideDocs(side)) + 1

\* Fault: the records follow each other without a gap.
DocDataPacked(side) == SetToSortSeq(SideDocs(side), <)

\* EncodeDocData: a record for every ID from the first to the last, marked
\* as unused where there is no document.
Unused == NoMoreDocs
DocData(side) ==
  [i \in 1 .. StoreDocDataRecordCount(side) |->
     LET id == Min(SideDocs(side)) + i - 1
     IN  IF id \in SideDocs(side) THEN id ELSE Unused]

\* The record at the ID's place, if it is the ID's; the base first.
FoundIn(data, doc) == data # <<>> /\ doc >= data[1]
                      /\ doc - data[1] < Len(data) /\ data[doc - data[1] + 1] = doc
HasDocDataEntry(doc) == \E s \in Sides : FoundIn(DocData(s), doc)

HasDelta == SideDocs("delta") # {}

Index ==
  /\ phase = "index"
  /\ table' = [s \in Sides |-> BuildBlocks(FoldSet(LAMBDA d, st : AddDocument(st, d),
                                                   EmptyStore, SideDocs(s)))]
  /\ phase' = "idle"
  /\ UNCHANGED <<docs, task, tree, reader, visited, results, answer>>

---------------------------------------------------------------------------
(* The search *)

\* ExecuteSearchTask compiles the text; hits is what the vector index of the
\* two sides would find. A search without words and without a vector ends.
Submit(t, hits) ==
  /\ phase = "idle"
  /\ task' = [t EXCEPT !.hits = hits]
  /\ tree' = CompileWithMode(t.query, t.streams, t.mode)
  /\ phase' = IF tree' = NoNode /\ "V" \notin Range(t.streams) THEN "sort" ELSE "open"
  /\ UNCHANGED <<docs, table, reader, visited, results, answer>>

\* build_local_reader: with words the vector only scores, else it is searched.
BuildLocalReader(side) ==
  IF tree = NoNode THEN VectorReader(task.hits \cap SideDocs(side))
  ELSE BuildIndexReader(table, side, StoreDocDataRecordCount(side), task.build, tree)

\* The readers of the two sides are one union.
OverSides(local) == IF HasDelta THEN OrReader(<<local["base"], local["delta"]>>)
                                ELSE local["base"]

GetReader ==
  /\ phase = "open"
  /\ reader' = OverSides([s \in Sides |-> BuildLocalReader(s)])
  /\ phase' = "walk"
  /\ UNCHANGED <<docs, table, task, tree, visited, results, answer>>

Least(S) == Min({x.score : x \in S})

\* Fault: a full heap does not give up an entry.
KeptAll(heap, result, limit) ==
  IF limit = 0 \/ Cardinality(heap) < limit \/ result.score > Least(heap)
  THEN {heap \cup {result}} ELSE {heap}

\* The heap after a document: full, it gives up one of its least entries for
\* a better one.
Kept(heap, result, limit) ==
  IF limit = 0 \/ Cardinality(heap) < limit THEN {heap \cup {result}}
  ELSE IF result.score > Least(heap)
  THEN {(heap \ {x}) \cup {result} : x \in {y \in heap : y.score = Least(heap)}}
  ELSE {heap}

Walking == phase = "walk" /\ ~IsEnd(reader) /\ Len(visited) < task.bound

Hit(doc, at) ==
  [doc |-> doc, score |-> GetScore(at) + DocScore[doc], mask |-> GetSourceMask(at)]

\* What the loop does with a document; at: the reader once its score is read.
VisitDoc(doc, at) ==
  IF HasDocDataEntry(doc)
  THEN /\ results' \in Kept(results, Hit(doc, at), task.limit)
       /\ visited' = Append(visited, doc) /\ reader' = GoNext(table, at)
       /\ UNCHANGED phase
  ELSE phase' = "panic" /\ UNCHANGED <<results, visited, reader>>

\* One turn of the executor's loop; without a record of the document its
\* expect fails.
Visit ==
  /\ Walking
  /\ VisitDoc(GetDocumentID(reader), Evaluated(table, reader))
  /\ UNCHANGED <<docs, table, task, tree, answer>>

EndWalk ==
  /\ phase = "walk" /\ ~Walking
  /\ phase' = "sort"
  /\ UNCHANGED <<docs, table, task, tree, reader, visited, results, answer>>

\* SortAndTruncate; the heap never holds more than the limit.
SortAndTruncate(S) == SetToSortSeq(S, LAMBDA x, y : x.score > y.score)

Return ==
  /\ phase = "sort"
  /\ answer' = SortAndTruncate(results)
  /\ phase' = "done"
  /\ UNCHANGED <<docs, table, task, tree, reader, visited, results>>

Done == phase = "done" /\ UNCHANGED vars

Task(query, streams, mode, build, limit, bound) ==
  [query |-> query, streams |-> streams, mode |-> mode, build |-> build,
   limit |-> limit, bound |-> bound, hits |-> {}]
NoTask == Task(<<>>, <<>>, "Default", "FlatPruned", 0, 0)

\* An ID may be unused: a document that could not be read leaves a gap.
Init ==
  /\ docs \in UNION {[ids -> Contents] : ids \in {ids \in SUBSET AllIds :
                                                    ids \cap DocIds["base"] # {}}}
  /\ phase = "index" /\ table = [s \in Sides |-> EmptyTable]
  /\ task = NoTask /\ tree = NoNode /\ reader = NoReader
  /\ visited = <<>> /\ results = {} /\ answer = <<>>

SubmitText   == \E t \in TextTasks : Submit(t, {})
SubmitVector == \E t \in VectorTasks, h \in SUBSET DOMAIN docs : Submit(t, h)

Next == Index \/ SubmitText \/ SubmitVector \/ GetReader \/ Visit
        \/ EndWalk \/ Return \/ Done

Spec == Init /\ [][Next]_vars

---------------------------------------------------------------------------
(* What a tree means for a document, from the contents alone *)

\* How often words follow each other in a stream of a document.
Occurs(words, stream, d) ==
  Cardinality({i \in DOMAIN docs[d][stream] : 
                 IsPrefix(words, SubSeq(docs[d][stream], i, Len(docs[d][stream])))})

\* A key that is too long for the directory is not kept.
Indexed(words, stream) == HasKey(words, stream)
                         /\ TermLength[KeyOf(words, stream)] <= HeadTermKeyMax

SideOf(d) == IF d \in DocIds["base"] THEN "base" ELSE "delta"

RECURSIVE Leaves(_)
Leaves(nodes) == FlattenSeq([i \in DOMAIN nodes |->
  IF nodes[i].type = "Or" THEN Leaves(nodes[i].children) ELSE <<nodes[i]>>])

RECURSIVE Matches(_, _), WeakTerms(_, _)

Freq(node, side) == Cardinality({d \in SideDocs(side) : Matches(node, d)})

\* The terms a weak AND counts on the side of a document.
WeakTerms(node, side) ==
  LET Found(nodes)     == SelectSeq(nodes, LAMBDA n : Freq(n, side) > 0)
      Rare(nodes)      == SelectSeq(nodes, LAMBDA n :
                            Freq(n, side) <= Max({HighDocFreq, StoreDocDataRecordCount(side) \div 5}))
      OrAll(rare, all) == IF rare # <<>> THEN rare ELSE all
      Flat(found)      == OrAll(Rare(found), found)
  IN  CASE task.build = "FlatPruned"       -> Flat(Found(Leaves(node.children)))
        [] task.build = "OrChildrenPruned" -> Found(node.children)
        [] task.build = "OrChildren"       -> node.children

Matches(node, d) ==
  CASE node.type = "None"    -> FALSE
    [] node.type = "Term"    -> Indexed(node.words, node.stream)
                                /\ Occurs(node.words, node.stream, d) > 0
    [] node.type = "And"     -> \A i \in DOMAIN node.children : Matches(node.children[i], d)
    [] node.type = "Or"      -> \E i \in DOMAIN node.children : Matches(node.children[i], d)
    [] node.type = "Not"     -> Matches(node.base, d) /\ ~Matches(node.exclude, d)
    [] node.type = "Boost"   -> Matches(node.base, d)
    [] node.type = "WeakAnd" ->
         LET Should(count)  == IF task.build = "FlatPruned" THEN min_should_match(count)
                              ELSE Min({node.min_should_match, count})
             Counted(terms) == /\ terms # <<>>
                              /\ Cardinality({i \in DOMAIN terms : Matches(terms[i], d)})
                                   >= Max({Should(Len(terms)), 1})
         IN  Counted(WeakTerms(node, SideOf(d)))

\* Score and sources of a tree for a document that matches it.
RECURSIVE Value(_, _)
Value(node, d) ==
  LET zero == [score |-> 0, mask |-> {}]
      add(x, y) == [score |-> x.score + y.score, mask |-> x.mask \cup y.mask]
      all(s) == FoldLeft(LAMBDA v, n : add(v, Value(n, d)), zero,
                         SelectSeq(s, LAMBDA n : Matches(n, d)))
  IN  CASE node.type = "Term" ->
             [score |-> SpanWeight[Len(node.words)]
                          * tf8_encode(Occurs(node.words, node.stream, d)),
              mask |-> {node.stream} \ {"M"}]
        [] node.type \in {"And", "Or", "WeakAnd"} ->
             all(IF node.type = "WeakAnd" THEN WeakTerms(node, SideOf(d)) ELSE node.children)
        [] node.type = "Not"           -> Value(node.base, d)
        [] node.type = "Boost"         ->
             IF Matches(node.boost, d)
             THEN add(Value(node.base, d), [score |-> node.boost_weight,
                                            mask |-> Value(node.boost, d).mask])
             ELSE Value(node.base, d)

InOrder(S) == SetToSortSeq(S, <)

\* All that the search should deliver, in the order of the documents.
Hits ==
  InOrder(IF tree = NoNode THEN task.hits ELSE {d \in DOMAIN docs : Matches(tree, d)})

HitOf(d) ==
  LET Valued(v) == [doc |-> d, score |-> v.score + DocScore[d], mask |-> v.mask]
  IN  Valued(IF tree = NoNode THEN [score |-> 1, mask |-> {"V"}] ELSE Value(tree, d))

---------------------------------------------------------------------------
(* Properties *)

TypeOK ==
  /\ phase \in {"index", "idle", "open", "walk", "sort", "done", "panic"}
  /\ DOMAIN docs \subseteq AllIds /\ Range(visited) \subseteq AllIds
  /\ reader.kind \in {"none", "leaf", "and", "or", "weak", "boost", "not", "vector"}
  /\ Range(answer) \subseteq results
  /\ task.limit > 0 => Cardinality(results) <= task.limit

\* The readers deliver exactly the documents that match the tree, each once
\* and in ascending order, whatever the blocks, the streams and the split into
\* base and delta: conjunctions align, weak conjunctions count, exclusions and
\* the cached documents of a union never fall behind.
VisitsAreTheMatches ==
  LET Bounded(hits) == SubSeq(hits, 1, Min({Len(hits), task.bound}))
  IN  phase = "sort" => visited = Bounded(Hits)

\* The answer is sorted by score, holds visited documents with the score and
\* the sources of the tree (a boost when a pair of words occurs), is as long
\* as the limit allows, and nothing that was left out is better.
AnswerIsTheBest ==
  phase = "done" =>
    LET seen == {HitOf(d) : d \in Range(visited)}
    IN  /\ Range(answer) \subseteq seen
        /\ Len(answer) = (IF task.limit = 0 THEN Cardinality(seen)
                          ELSE Min({task.limit, Cardinality(seen)}))
        /\ \A i \in 1 .. Len(answer) - 1 : answer[i].score >= answer[i + 1].score
        /\ \A x \in seen \ Range(answer) : answer[Len(answer)].score >= x.score

\* Every document a reader delivers has its record in DocData: the executor's
\* expect never fails, with unused IDs and with a delta.
NoPanic == phase # "panic"

\* What the query of the Default mode asks for, from its items: some part
\* between the ORs has words, all of them indexed words of the document, each
\* in the streams of its field, and none of its excluded words there.
PartOf(q, i)   == Cardinality({j \in 1 .. i : q[j].kind = "or"})
Excluded(q, i) == q[i].minus \/ (i > 1 /\ q[i - 1].kind = "not")
TextOf(q, p)   == {i \in DOMAIN q : q[i].kind = "text" /\ PartOf(q, i) = p}

HoldsItem(q, i, d) ==
  \A n \in DOMAIN q[i].tokens :
    \E s \in Range(streams_for_field(q[i].field, ParseStreamSet(task.streams))) \cap DOMAIN docs[d] :
      Indexed(<<q[i].tokens[n]>>, s) /\ q[i].tokens[n] \in Range(docs[d][s])

Asked(q, d) ==
  \E p \in 0 .. Len(q) :
    /\ \E i \in TextOf(q, p) : ~Excluded(q, i)
    /\ \A i \in TextOf(q, p) : Excluded(q, i) <=> ~HoldsItem(q, i, d)

\* Parts with two excluded words are left out here: the code excludes only
\* the documents with both.
OneExclusion(q) ==
  \A p \in 0 .. Len(q) :
    Cardinality({i \in TextOf(q, p) : Excluded(q, i)}) <= 1

\* In the Default mode the answer of an unlimited search is what the query
\* asks for; the arm for adjacent words adds no document.
DefaultFindsWhatIsAsked ==
  (phase = "done" /\ task.mode = "Default" /\ task.query # <<>> /\ task.bound = NoMoreDocs
     /\ OneExclusion(task.query)) =>
    Range(visited) = {d \in DOMAIN docs : Asked(task.query, d)}
=============================================================================
