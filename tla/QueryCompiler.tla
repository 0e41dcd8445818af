--------------------------- MODULE QueryCompiler ---------------------------
(***************************************************************************)
(* IndexSearchCompiler: from the items of a query to the tree of an        *)
(* EvalTree. A word is a model value or a number; the text of an item, its *)
(* splitting at blanks and the tokenizer are abstracted to the tokens they *)
(* yield. A key is the words of a unigram or bigram with their stream.     *)
(***************************************************************************)
EXTENDS Integers, Sequences, FiniteSetsExt, SequencesExt

CONSTANTS Words,        \* the words of documents and queries
          WordLength,   \* their length in bytes
          BoostWeight   \* QMP_BigramBoostWeight

Modes == {"Default", "WeakAndBigram", "WeakAndBigramBoost"}

(***************************************************************************)
(* An item of the query: the keyword OR, the keyword NOT (or a lone "-"),  *)
(* or text: tokens with an optional "-" in front and an optional "field:". *)
(***************************************************************************)
OrItem             == [kind |-> "or", minus |-> FALSE, field |-> "", tokens |-> <<>>]
NotItem            == [kind |-> "not", minus |-> FALSE, field |-> "", tokens |-> <<>>]
Item(tokens)       == [kind |-> "text", minus |-> FALSE, field |-> "", tokens |-> tokens]
MinusItem(tokens)  == [Item(tokens) EXCEPT !.minus = TRUE]
FieldItem(f, toks) == [Item(toks) EXCEPT !.field = f]

---------------------------------------------------------------------------
(* EvalNode *)

TermNode(words, stream) == [type |-> "Term", words |-> words, stream |-> stream]
AndNode(children)       == [type |-> "And", children |-> children]
OrNode(children)        == [type |-> "Or", children |-> children]
WeakAndNode(children, min) ==
  [type |-> "WeakAnd", children |-> children, min_should_match |-> min]
NotNode(base, exclude)  == [type |-> "Not", base |-> base, exclude |-> exclude]
BoostNode(base, boost)  ==
  [type |-> "Boost", base |-> base, boost |-> boost, boost_weight |-> BoostWeight]

\* The None of the code: no expression.
NoNode == [type |-> "None"]

\* One child stands for itself, several are joined, none is no expression.
Joined(nodes, Join(_)) ==
  CASE nodes = <<>>    -> NoNode
    [] Len(nodes) = 1  -> nodes[1]
    [] OTHER           -> Join(nodes)

---------------------------------------------------------------------------
(* Streams and terms *)

\* An unknown set of streams means the title; only the vector means none.
ParseStreamSet(set) ==
  LET streams == SelectSeq(set, LAMBDA c : c \in {"A", "U", "T", "B", "M"})
  IN  IF streams = <<>> /\ "V" \notin Range(set) THEN <<"T">> ELSE streams

streams_for_field(field, fallback) ==
  CASE field = "title"           -> <<"T">>
    [] field = "body"            -> <<"B">>
    [] field \in {"url", "site"} -> <<"U">>
    [] field = "anchor"          -> <<"A">>
    [] field = "meta"            -> <<"M">>
    [] OTHER                     -> fallback

make_term_group(words, streams) ==
  Joined([i \in DOMAIN streams |-> TermNode(words, streams[i])], OrNode)

QueryTerm(word, streams) == [term |-> word, streams |-> streams]

unigrams(terms) == [i \in DOMAIN terms |-> make_term_group(<<terms[i].term>>, terms[i].streams)]

\* The groups of the adjacent pairs that are in the same streams.
bigrams(terms) ==
  LET pairs == SelectSeq([i \in 1 .. Len(terms) - 1 |-> i],
                         LAMBDA i : terms[i].streams = terms[i + 1].streams)
  IN  [p \in DOMAIN pairs |->
         make_term_group(<<terms[pairs[p]].term, terms[pairs[p] + 1].term>>,
                         terms[pairs[p]].streams)]

build_bigram_query(terms)     == Joined(bigrams(terms), AndNode)
build_any_bigram_query(terms) == Joined(bigrams(terms), OrNode)

\* The first of each term, the one-letter ones only when there is no other.
filter_weak_and_terms(tokens) ==
  LET unique(s)   == FoldLeft(LAMBDA u, t : IF t \in Range(u) THEN u ELSE Append(u, t), <<>>, s)
      orAll(long) == unique(IF long # <<>> THEN long ELSE tokens)
  IN  orAll(SelectSeq(tokens, LAMBDA t : WordLength[t.term] > 1))

min_should_match(count) == IF count <= 2 THEN 1 ELSE IF count <= 5 THEN 2 ELSE 3

---------------------------------------------------------------------------
(* Expressions *)

build_weak_and_base_expression(terms) ==
  Joined(unigrams(terms), LAMBDA c : WeakAndNode(c, Min({min_should_match(Len(c)), Len(c)})))

NodesOf(nodes) == SelectSeq(nodes, LAMBDA n : n # NoNode)

build_weak_and_bigram_expression(tokens) ==
  LET Of(terms) ==
        Joined(NodesOf(<<build_weak_and_base_expression(terms), build_any_bigram_query(terms)>>),
               OrNode)
  IN  Of(filter_weak_and_terms(tokens))

build_weak_and_bigram_boost_expression(tokens) ==
  LET Boosted(base, bigram) ==
        IF base = NoNode \/ bigram = NoNode THEN base ELSE BoostNode(base, bigram)
      Of(terms) == Boosted(build_weak_and_base_expression(terms), build_any_bigram_query(terms))
  IN  Of(filter_weak_and_terms(tokens))

build_implicit_expression(tokens, mode) ==
  CASE mode = "WeakAndBigram"      -> build_weak_and_bigram_expression(tokens)
    [] mode = "WeakAndBigramBoost" -> build_weak_and_bigram_boost_expression(tokens)
    [] mode = "Default"            ->
         Joined(NodesOf(<<build_bigram_query(tokens), Joined(unigrams(tokens), AndNode)>>), OrNode)

build_minus_expression(positive, negative, mode) ==
  LET Without(base) ==
        CASE negative = <<>>                    -> base
          [] negative # <<>> /\ positive = <<>> -> NoNode
          [] OTHER -> NotNode(base, build_implicit_expression(negative, mode))
  IN  Without(build_implicit_expression(positive, mode))

---------------------------------------------------------------------------
(* parse_expression: one item after the other *)

EmptyParse == [disjuncts |-> <<>>, positive |-> <<>>, negative |-> <<>>,
               saw_any |-> FALSE, next_is_negative |-> FALSE]

add_raw_item(p, item, streams) ==
  LET in    == IF item.field = "" THEN streams ELSE streams_for_field(item.field, streams)
      terms == [i \in DOMAIN item.tokens |-> QueryTerm(item.tokens[i], in)]
  IN  IF item.minus \/ p.next_is_negative
      THEN [p EXCEPT !.negative = @ \o terms]
      ELSE [p EXCEPT !.positive = @ \o terms]

close_disjunct(p, mode) ==
  NodesOf(Append(p.disjuncts, build_minus_expression(p.positive, p.negative, mode)))

\* Fault: the keyword OR does not clear the words before it.
parse_item_keeping(p, item, streams, mode) ==
  CASE item.kind = "or"   -> [p EXCEPT !.disjuncts = close_disjunct(p, mode),
                                       !.next_is_negative = FALSE]
    [] item.kind = "not"  -> [p EXCEPT !.next_is_negative = TRUE]
    [] item.kind = "text" -> [add_raw_item(p, item, streams) EXCEPT
                                !.next_is_negative = FALSE, !.saw_any = TRUE]

parse_item(p, item, streams, mode) ==
  CASE item.kind = "or"   -> [EmptyParse EXCEPT !.disjuncts = close_disjunct(p, mode),
                                                !.saw_any = p.saw_any]
    [] item.kind = "not"  -> [p EXCEPT !.next_is_negative = TRUE]
    [] item.kind = "text" -> [add_raw_item(p, item, streams) EXCEPT
                                !.next_is_negative = FALSE, !.saw_any = TRUE]

parse_expression(items, streams, mode) ==
  LET Result(p) == IF ~p.saw_any THEN NoNode ELSE Joined(close_disjunct(p, mode), OrNode)
  IN  Result(FoldLeft(LAMBDA p, item : parse_item(p, item, streams, mode), EmptyParse, items))

\* CompileWithMode: the root of the tree.
CompileWithMode(items, streamSet, mode) ==
  LET Over(streams) == IF items = <<>> \/ streams = <<>> THEN NoNode
                       ELSE parse_expression(items, streams, mode)
  IN  Over(ParseStreamSet(streamSet))
============================================================================
