-------------------------- MODULE MCSearchPipeline --------------------------
(* Four words, c of one letter and d too long for the directory; a title    *)
(* and a body; lists of up to three documents in pages of one or two        *)
(* postings; one document in the delta.                                     *)
EXTENDS SearchPipeline

CONSTANTS a, b, c, d

MCWords      == {a, b, c, d}
MCWordLength == (a :> 2) @@ (b :> 2) @@ (c :> 1) @@ (d :> 6)
MCSpanWeight == <<1, 2>>

\* The keys of the contents below in byte order: the separator of a bigram
\* comes before the letter of a stream.
MCKey(words, stream) == [words |-> words, stream |-> stream]
MCKeyOrder == <<MCKey(<<a, b>>, "B"), MCKey(<<a, b>>, "T"), MCKey(<<a, d>>, "B"),
                MCKey(<<a>>, "B"), MCKey(<<a>>, "T"), MCKey(<<b, a>>, "B"), MCKey(<<b, c>>, "B"),
                MCKey(<<b>>, "B"), MCKey(<<b>>, "T"), MCKey(<<c, a>>, "B"), MCKey(<<c>>, "B"),
                MCKey(<<c>>, "T"), MCKey(<<d>>, "B")>>
MCTermLength == <<6, 6, 10, 3, 3, 6, 5, 3, 3, 5, 2, 2, 7>>

MCDocIds   == [base |-> 0 .. 2, delta |-> {3}]
MCContents == {[T |-> <<a>>, B |-> <<a, b, a, b>>], [T |-> <<c>>, B |-> <<b, c>>],
               [T |-> <<a, b>>, B |-> <<>>], [T |-> <<b>>, B |-> <<c, a, d>>]}
MCDocScore == (0 :> 0) @@ (1 :> 1) @@ (2 :> 0) @@ (3 :> 0)

One(w) == Item(<<w>>)
MCQueries ==
  {<<One(a), OrItem, One(d)>>, <<One(a), One(b)>>, <<One(a), One(b), One(c)>>,
   <<One(a), MinusItem(<<b>>)>>, <<One(a), OrItem, One(b), One(c)>>,
   <<One(b), NotItem, One(a), OrItem, One(c), One(c)>>,
   <<FieldItem("title", <<a>>), One(b)>>, <<One(b), MinusItem(<<a, b>>)>>,
   <<One(a), One(c), One(a), FieldItem("title", <<a>>)>>, <<MinusItem(<<a>>)>>}

MCWeakQueries ==
  {<<One(a), One(b)>>, <<One(a), One(b), One(c)>>, <<One(a), MinusItem(<<b>>)>>,
   <<One(b), NotItem, One(a), OrItem, One(c), One(c)>>,
   <<One(a), One(c), One(a), FieldItem("title", <<a>>)>>}

MCPlain == {Task(q, ss, "Default", "FlatPruned", 0, NoMoreDocs) :
              q \in MCQueries, ss \in {<<"T", "B">>, <<"B">>}}
MCWeak  == {Task(q, <<"T", "B">>, m, w, l, NoMoreDocs) :
              q \in MCWeakQueries, m \in {"WeakAndBigram", "WeakAndBigramBoost"}, l \in {1},
              w \in {"OrChildren", "OrChildrenPruned", "FlatPruned"}}
MCTop   == {Task(<<One(a), One(b)>>, <<"B", "V">>, m, "FlatPruned", l, n) :
              m \in Modes, l \in {1, 2}, n \in {1, 3}}
MCTextTasks   == MCPlain \cup MCWeak \cup MCTop
MCVectorTasks == {Task(<<>>, <<"V">>, "Default", "FlatPruned", 1, NoMoreDocs)}
=============================================================================
