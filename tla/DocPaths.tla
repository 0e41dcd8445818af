------------------------------ MODULE DocPaths ------------------------------
(***************************************************************************)
(* The paths in DocData. A path is cut at its last separator: a record     *)
(* keeps the number of the directory (the prefix) and the file name; the   *)
(* prefixes of an index are in a sidecar of fixed size, interned in the    *)
(* order in which the records are encoded. Reading puts the two together   *)
(* with a separator that the prefix decides, not the path. Merge decodes   *)
(* every path with the table of its side and encodes it with the table of  *)
(* the merged index. A path is a sequence of bytes.                        *)
(***************************************************************************)
EXTENDS Integers, FiniteSetsExt, SequencesExt

CONSTANTS
  Character,         \* the bytes of a path
  Slash, Backslash,  \* the separators
  IsUtf8(_),         \* whether bytes are whole characters (from_utf8)
  PathOf,            \* the path of each document
  HashOrder,         \* the documents in the order the store's map has them
  FilenameMax,       \* DOC_PATH_FILENAME_MAX
  MaxPrefixes,       \* DOC_PATH_PREFIX_INVALID
  SidecarHeader,     \* 32
  SidecarEntry,      \* 8
  SidecarBytes       \* PATH_PREFIX_SIDECAR_BYTES

EmptyString == <<>>
Separators == {Slash, Backslash}

\* DOC_PATH_PREFIX_INVALID
InvalidPrefix == -1

ASSUME DocPathsAssumption ==
  /\ Separators \subseteq Character /\ Slash # Backslash
  /\ DOMAIN PathOf \subseteq Nat /\ HashOrder \in Seq(DOMAIN PathOf)
  /\ \A d \in DOMAIN PathOf : PathOf[d] \in Seq(Character)
  /\ {FilenameMax, MaxPrefixes, SidecarHeader, SidecarEntry, SidecarBytes} \subseteq Nat

---------------------------------------------------------------------------
(* Taking a path apart and putting it together *)

\* rfind(['/', '\\']); 0 when there is none.
LastSeparator(path) == Max({0} \cup {i \in DOMAIN path : path[i] \in Separators})

split_path_for_sidecar(path) ==
  LET at == LastSeparator(path)
  IN  [prefix |-> SubSeq(path, 1, at - 1), name |-> SubSeq(path, at + 1, Len(path))]

JoinPath(prefix, name) ==
  LET separator == IF Backslash \in ToSet(prefix) THEN Backslash ELSE Slash
  IN  IF prefix = EmptyString THEN name
      ELSE IF Last(prefix) \in Separators THEN prefix \o name
      ELSE Append(prefix, separator) \o name

FirstBytes(name) == IF Len(name) <= FilenameMax THEN name ELSE SubSeq(name, 1, FilenameMax)

from_utf8(bytes) == IF IsUtf8(bytes) THEN bytes ELSE EmptyString

---------------------------------------------------------------------------
(* The sidecar *)

path_prefix_sidecar_can_hold(count, bytes) ==
  SidecarHeader + count * SidecarEntry + bytes <= SidecarBytes

\* The string area after each of the prefixes.
Strings(prefixes) ==
  LET strings[i \in 0 .. Len(prefixes)] ==
        IF i = 0 THEN <<>> ELSE strings[i - 1] \o prefixes[i]
  IN  strings

EncodePathPrefixSidecar(prefixes) ==
  [entries |-> [i \in 1 .. Len(prefixes) |->
                  [offset |-> Len(Strings(prefixes)[i - 1]), length |-> Len(prefixes[i])]],
   strings |-> Strings(prefixes)[Len(prefixes)]]

DecodePathPrefixSidecar(sidecar) ==
  [i \in DOMAIN sidecar.entries |->
     LET e == sidecar.entries[i]
     IN  SubSeq(sidecar.strings, e.offset + 1, e.offset + e.length)]

---------------------------------------------------------------------------
(* Records: rec gives the record of each document encoded so far. *)

NoRecords == [prefixes |-> <<>>, bytes |-> 0, rec |-> <<>>]

HasPrefix(t, prefix) == prefix \in ToSet(t.prefixes)
HasRoom(t, prefix) ==
  /\ Len(t.prefixes) < MaxPrefixes
  /\ path_prefix_sidecar_can_hold(Len(t.prefixes) + 1, t.bytes + Len(prefix))

intern_path_prefix(t, prefix) ==
  IF HasPrefix(t, prefix) \/ ~HasRoom(t, prefix) THEN t
  ELSE [t EXCEPT !.prefixes = Append(@, prefix), !.bytes = @ + Len(prefix)]

PrefixId(t, prefix) ==
  IF HasPrefix(t, prefix) THEN (CHOOSE i \in DOMAIN t.prefixes : t.prefixes[i] = prefix) - 1
  ELSE InvalidPrefix

SetRecord(records, doc, record) ==
  [d \in DOMAIN records \cup {doc} |-> IF d = doc THEN record ELSE records[d]]

\* The empty path is kept as no path.
encode_doc_path(t, doc, path) ==
  LET split == split_path_for_sidecar(path)
      with  == intern_path_prefix(t, split.prefix)
  IN  IF path = EmptyString
      THEN [t EXCEPT !.rec = SetRecord(@, doc, [prefix |-> InvalidPrefix, name |-> EmptyString])]
      ELSE [with EXCEPT !.rec = SetRecord(@, doc, [prefix |-> PrefixId(with, split.prefix),
                                                   name |-> FirstBytes(split.name)])]

\* InvalidPrefix is no number of a prefix either.
DecodeDocPath(record, prefixes) ==
  IF record.prefix + 1 \notin DOMAIN prefixes THEN from_utf8(record.name)
  ELSE JoinPath(prefixes[record.prefix + 1], from_utf8(record.name))

\* The path of a document in an index read back from its file.
PathIn(t, doc) ==
  DecodeDocPath(t.rec[doc], DecodePathPrefixSidecar(EncodePathPrefixSidecar(t.prefixes)))

\* EncodeDocData: the documents of a store, one after the other.
Encoding(docs) ==
  LET done[i \in 0 .. Len(HashOrder)] ==
        IF i = 0 THEN NoRecords
        ELSE IF HashOrder[i] \notin docs THEN done[i - 1]
        ELSE encode_doc_path(done[i - 1], HashOrder[i], PathOf[HashOrder[i]])
  IN  done

EncodeDocPaths(docs) == Encoding(docs)[Len(HashOrder)]

\* Fault: the numbers of the prefixes are kept.
AppendWithoutInterning(t, source) ==
  [t EXCEPT !.rec = source.rec @@ @,
            !.prefixes = IF @ = <<>> THEN source.prefixes ELSE @]

\* AppendMergedDocData: the slots of one side in the order of the IDs; a slot
\* without its document is left as it is.
Appending(t, source, slots) ==
  LET done[i \in 0 .. slots] ==
        IF i = 0 THEN t
        ELSE IF i - 1 \notin DOMAIN source.rec THEN done[i - 1]
        ELSE encode_doc_path(done[i - 1], i - 1, PathIn(source, i - 1))
  IN  done

AppendMergedDocData(t, source) ==
  LET slots == 1 + Max({0} \cup DOMAIN source.rec)
  IN  Appending(t, source, slots)[slots]

MergeDocData(base, delta) ==
  AppendMergedDocData(AppendMergedDocData(NoRecords, base), delta)

---------------------------------------------------------------------------

\* The name of a path as a record gives it back.
NameOf(path) == from_utf8(FirstBytes(split_path_for_sidecar(path).name))

\* A path as it is read back when its directory has a number: '/x' as 'x', 'C:\x'
\* as 'C:/x', 'a//b' as 'a/b', a long name cut.
ReadBack(path) == JoinPath(split_path_for_sidecar(path).prefix, NameOf(path))

\* The paths that are read back as they are: the name fits, and the last separator, if
\* there is one, comes after a directory, not after another separator, and is a
\* backslash just when the directory has one.
Stable(path) ==
  LET at   == LastSeparator(path)
      name == SubSeq(path, at + 1, Len(path))
  IN  /\ Len(name) <= FilenameMax /\ IsUtf8(name)
      /\ at > 0 => /\ at > 1 /\ path[at - 1] \notin Separators
                   /\ path[at] = Backslash <=> \E i \in 1 .. at - 1 : path[i] = Backslash

\* path has arrived in the index t, or only its name because t has no room.
Arrived(t, doc, path) ==
  LET prefix == split_path_for_sidecar(path).prefix
  IN  \/ /\ PathIn(t, doc) = ReadBack(path)
         /\ Stable(path) => PathIn(t, doc) = path
      \/ /\ PathIn(t, doc) = NameOf(path)
         /\ ~HasPrefix(t, prefix) /\ ~HasRoom(t, prefix)
=============================================================================
