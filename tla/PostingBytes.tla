--------------------------- MODULE PostingBytes ---------------------------
(***************************************************************************)
(* The bytes of a posting list: pairs of an absolute document ID in        *)
(* variable-byte code and a term frequency in ONE byte, the two parsers    *)
(* that cut such bytes at pair boundaries (BuildBlocks has one, Merge has  *)
(* the other).                                                             *)
(* The code's byte has 7 value bits and a "more" bit; Radix, 0x80 there,   *)
(* is a parameter here, so that two-byte IDs and flagged frequencies occur *)
(* with small numbers.                                                     *)
(***************************************************************************)
EXTENDS Integers, Sequences, FiniteSetsExt, SequencesExt

CONSTANTS Radix,      \* 0x80: a byte at or above it announces another one
          TfScale     \* TF_SCALE of tf8_encode, 16 in the code

ASSUME PostingBytesAssumption == Radix \in Nat \ {0, 1} /\ TfScale \in Nat \ {0}

Fail == -1
More(byte) == byte >= Radix

\* x, f[x], f[f[x]], ...: the first n turns of a loop over one variable.
Iterates(f, x, n) ==
  LET turn[i \in 0 .. n] == IF i = 0 THEN x ELSE f[turn[i - 1]]
  IN  turn

---------------------------------------------------------------------------
(* Encoding *)

vb_write(v) ==
  LET write[n \in 0 .. v] == IF n < Radix THEN <<n>>
                             ELSE <<(n % Radix) + Radix>> \o write[n \div Radix]
  IN  write[v]

\* round(TfScale * log2(1 + tf)), clamped to a byte: the k at or above which it is.
tf8_encode(tf) ==
  Cardinality({k \in 1 .. 2 * Radix - 1 : 2 ^ (2 * k - 1) <= (1 + tf) ^ (2 * TfScale)})

encode(entries) ==
  FlattenSeq([i \in DOMAIN entries |->
                vb_write(entries[i].doc) \o <<tf8_encode(entries[i].tf)>>])

---------------------------------------------------------------------------
(* Parsing.  Offsets count the bytes already consumed. *)

\* The offset after the variable-byte number at offset, Fail if it is cut off.
readOne(data, offset) ==
  LET ends == {p \in offset + 1 .. Len(data) : ~More(data[p])}
  IN  IF ends = {} THEN Fail ELSE Min(ends)

VbValue(data, offset, end) ==
  LET value[p \in offset .. end] ==
        IF p = end THEN 0 ELSE (data[p + 1] % Radix) + Radix * value[p + 1]
  IN  value[offset]

\* The value at start and the offset after it; a cut-off number ends the data.
VbRead(data, start) ==
  LET Until(end) == [value |-> VbValue(data, start, end), end |-> end]
      one        == readOne(data, start)
  IN  Until(IF one = Fail THEN Len(data) ELSE one)

\* IndexSerializer: the frequency is one raw byte.
ReadVbcPairEnd(data, offset) ==
  LET id == readOne(data, offset)
  IN  IF id = Fail \/ id >= Len(data) THEN Fail ELSE id + 1

\* LeafTermBlockView: the frequency is read as a variable-byte number.
ReadVbPairEnd(data, offset) ==
  LET id == readOne(data, offset)
  IN  IF id = Fail THEN Fail ELSE readOne(data, id)

\* The end of the last whole pair that ends at or before limit.
RawPrefix(data, limit) ==
  LET Pair(cursor, end) == IF end = Fail \/ end > limit THEN cursor ELSE end
  IN  Iterates([cursor \in 0 .. limit |-> Pair(cursor, ReadVbcPairEnd(data, cursor))],
               0, limit)[limit]

PostingPrefixBytes(data, capacity) == RawPrefix(data, Min({Len(data), capacity}))

VbPrefix(data, limit) ==
  LET Pair(cursor, end) == IF end = Fail \/ end > limit THEN cursor ELSE end
  IN  Iterates([cursor \in 0 .. limit |-> Pair(cursor, ReadVbPairEnd(data, cursor))],
               0, limit)[limit]

PostingSplitLength(data, capacity) ==
  IF Len(data) <= capacity THEN Len(data) ELSE VbPrefix(data, capacity)

\* The last document ID of the pairs, 0 without a pair; the frequency is a
\* raw byte in IndexSerializer and a variable-byte number in the merge.
LastDoc(data, rawTf) ==
  LET last[cursor \in 0 .. Len(data), max \in Nat] ==
        LET id == VbRead(data, cursor)
        IN  IF cursor >= Len(data) \/ id.end >= Len(data) THEN max
            ELSE last[IF rawTf THEN id.end + 1 ELSE VbRead(data, id.end).end, id.value]
  IN  last[0, 0]

MaxDocIDInPairs(data)      == LastDoc(data, TRUE)
MergeMaxDocIDInPairs(data) == LastDoc(data, FALSE)

===========================================================================
