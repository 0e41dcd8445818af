--------------------------- MODULE IndexContents ---------------------------
(***************************************************************************)
(* What a search finds in the indexes that are built and merged.           *)
(***************************************************************************)
EXTENDS IndexMerge, PostingReader

\* What a search finds under a key.
Postings(t, key) == ReadAll(t, LeafOpen(t, key))

Stored(s, key) ==
  IF TermLength[key] > HeadTermKeyMax THEN <<>>
  ELSE [i \in DOMAIN store[s][key] |->
          [doc |-> store[s][key][i].doc, tf |-> tf8_encode(store[s][key][i].tf)]]

\* The index BuildBlocks writes gives back, under every key and whatever the
\* page boundaries, the postings of the store; a key that is too long, or was
\* never added, is not found.
BuildKeepsPostings ==
  phase # "fill" =>
    \A s \in Side, k \in Keys :
      /\ Postings(table[s], k) = Stored(s, k)
      /\ FindTermDataHeadLeaf(table[s], k).df = Len(Stored(s, k))

\* A merge that reports success has written an index in which every key has
\* the postings of the base, then those of the delta, with their number as its
\* document frequency. An unreadable leaf ends a side without an error
\* (GoCurrent takes it for the end): what is then written is short but never
\* wrong, every key has the whole list of a side or nothing of it.
MergedComplete ==
  phase = "ok" =>
    \A k \in Keys :
      \E present \in SUBSET {s \in Side : Stored(s, k) # <<>>} :
        LET Kept(s) == IF s \in present THEN Stored(s, k) ELSE <<>>
        IN  /\ Postings(file, k) = Kept("base") \o Kept("delta")
            /\ FindTermDataHeadLeaf(file, k).df = Len(Kept("base") \o Kept("delta"))
            /\ \A s \in Side \ present : Stored(s, k) # <<>> => cur[s].dead

\* GoUntil on the merged index stops at the first document not below its
\* target, from every position and over every number of continuation blocks.
RECURSIVE ReaderPositions(_, _)
ReaderPositions(t, r) == {r} \cup (IF r.dec.has THEN ReaderPositions(t, LeafGoNext(t, r)) ELSE {})

SeekFindsFirst ==
  phase = "ok" =>
    \A k \in Keys : \A r \in ReaderPositions(file, LeafOpen(file, k)) :
      \A target \in Docs["base"] \cup Docs["delta"] :
        r.dec.has /\ r.dec.doc <= target =>
          ReadAll(file, LeafGoUntil(file, r, target))
            = SelectSeq(ReadAll(file, r), LAMBDA e : e.doc >= target)
============================================================================
