--------------------------- MODULE BlockCacheProofs ---------------------------
(***************************************************************************)
(* Proofs about BlockCache, for every number of readers, blocks and slots. *)
(***************************************************************************)
EXTENDS BlockCache, FiniteSetTheorems, TLAPS

LoadPCs  == {"read", "loaded", "failed"}
EmptyPCs == {"idle", "lookup", "wait", "end"}

\* Which callers own a slot, and which of them are readers.
Shape ==
  /\ \A c \in Callers : pc[c] \in EmptyPCs => slot[c] = NoSlot
  /\ \A c \in Callers : pc[c] \in LoadPCs \cup {"hold"} => slot[c] \in Slots /\ req[c] \in Blocks
  /\ \A c \in Callers : pc[c] = "notify" /\ slot[c] # NoSlot => req[c] \in Blocks
  /\ \A m \in Mergers : pc[m] \in {"idle", "hold", "end"}

LEMMA CallersFacts ==
  /\ IsFiniteSet(Callers)
  /\ \A r \in Readers : r \in Callers /\ r \notin Mergers
  /\ \A m \in Mergers : m \in Callers
<1>1. IsFiniteSet(Callers)
  BY CacheAssumption, FS_Union DEF Callers
<1>2. QED
  BY <1>1, CacheAssumption DEF Callers

\* Everything the sweep looks at is a slot of the pool.
LEMMA CandidateIsSlot ==
  ASSUME TypeOK, NEW i \in Probes
  PROVE  Candidate(i) \in Slots
<1>1. EvictSlot + i \in Nat
  BY CacheAssumption DEF TypeOK, Probes
<1>2. (EvictSlot + i) % EvictModulus \in Nat
  BY <1>1, CacheAssumption
<1>3. ((EvictSlot + i) % EvictModulus) % SlotCount \in 0 .. SlotCount - 1
  BY <1>2, CacheAssumption
<1>4. QED
  BY <1>3 DEF Candidate, Slots

-----------------------------------------------------------------------------
(* Type correctness *)

LEMMA InitTyped == Init => TypeOK /\ Shape
  BY CacheAssumption, CallersFacts
  DEF Init, TypeOK, Shape, PCs, LoadPCs, EmptyPCs, Callers, Blocks, Slots, NoSlot, NoBlock

LEMMA ReadTyped ==
  ASSUME TypeOK, Shape, NEW r \in Readers, Read(r)
  PROVE  TypeOK' /\ Shape'
<1> USE CacheAssumption, CallersFacts
<1> USE DEF PCs, LoadPCs, EmptyPCs, NoSlot, NoBlock, Torn, cacheVars
<1>1. ASSUME NEW b \in 0 .. TotalBlockCount, GetBlock(r, b) PROVE TypeOK' /\ Shape'
  BY <1>1 DEF GetBlock, TypeOK, Shape
<1>2. CASE OutOfRange(r)
  BY <1>2 DEF OutOfRange, TypeOK, Shape
<1>3. CASE Hit(r)
  <2>1. LogicTable[req[r]] \in Slots /\ req[r] \in Blocks
    BY <1>3 DEF Hit, Ready, Resident, TypeOK
  <2>2. QED
    BY <1>3, <2>1 DEF Hit, TypeOK, Shape
<1>4. CASE WaitWhileLoading(r)
  BY <1>4 DEF WaitWhileLoading, TypeOK, Shape
<1>5. CASE Refuse(r)
  <2>1. EvictSlot' \in 0 .. EvictModulus - 1
    BY <1>5 DEF Refuse, TypeOK
  <2>2. QED
    BY <1>5, <2>1 DEF Refuse, Missing, TypeOK, Shape
<1>6. CASE Evict(r)
  <2>1. PICK i \in Probes : TakeSlot(r, i, Candidate(i)) /\ Missing(r)
    BY <1>6 DEF Evict
  <2>2. Candidate(i) \in Slots
    BY CandidateIsSlot
  <2>3. EvictSlot' \in 0 .. EvictModulus - 1
    <3>1. EvictSlot + i + 1 \in Nat
      BY DEF TypeOK, Probes
    <3>2. QED
      BY <2>1, <3>1 DEF TakeSlot
  <2>4. req[r] \in Blocks
    BY <2>1 DEF Missing
  <2> DEFINE s == Candidate(i)
  <2> HIDE DEF s
  <2>5. LogicTable' \in [Blocks -> Slots \cup {NoSlot}]
    BY <2>1, <2>2 DEF TakeSlot, TypeOK, s
  <2>6. QED
    BY <2>1, <2>2, <2>3, <2>4, <2>5 DEF TakeSlot, TypeOK, Shape
<1>7. CASE ReadBlock(r)
  BY <1>7 DEF ReadBlock, TypeOK, Shape
<1>8. CASE FinishLoad(r)
  BY <1>8 DEF FinishLoad, TypeOK, Shape
<1>9. CASE AbortLoad(r)
  BY <1>9 DEF AbortLoad, TypeOK, Shape
<1>10. CASE Notify(r)
  BY <1>10 DEF Notify, TypeOK, Shape
<1>11. CASE Release(r)
  BY <1>11 DEF Release, Unpin, TypeOK, Shape
<1>12. QED
  BY <1>1, <1>2, <1>3, <1>4, <1>5, <1>6, <1>7, <1>8, <1>9, <1>10, <1>11 DEF Read, Fetch

LEMMA MergeTyped ==
  ASSUME TypeOK, Shape, NEW m \in Mergers, Merge(m)
  PROVE  TypeOK' /\ Shape'
<1> USE CacheAssumption, CallersFacts
<1> USE DEF PCs, LoadPCs, EmptyPCs, NoSlot, NoBlock, Torn, cacheVars
<1>1. CASE SeqHit(m)
  <2>1. LogicTable[req[m]] \in Slots /\ req[m] \in Blocks
    BY <1>1 DEF SeqHit, Resident, TypeOK
  <2>2. QED
    BY <1>1, <2>1 DEF SeqHit, TypeOK, Shape
<1>2. CASE SeqRefuse(m)
  BY <1>2 DEF SeqRefuse, SeqMissing, TypeOK, Shape
<1>3. CASE SeqLoadWindow(m)
  <2> DEFINE b == req[m]
             n == WindowLength(b)
  <2>1. /\ b \in Blocks
        /\ n \in 1 .. SlotCount
        /\ b + n - 1 \in Blocks
    BY <1>3 DEF SeqLoadWindow, SeqMissing, WindowLength, Blocks
  <2>2. ClearedTable \in [Blocks -> Slots \cup {NoSlot}]
    BY DEF ClearedTable, TypeOK
  <2>3. /\ LogicTable' = [x \in Blocks |-> IF x \in b .. b + n - 1 THEN x - b ELSE ClearedTable[x]]
        /\ BlockID'    = [s \in Slots |-> IF s < n THEN b + s ELSE NoBlock]
        /\ Page'       = [s \in Slots |-> IF s < n THEN b + s ELSE Page[s]]
        /\ EvictSlot'  = n % EvictModulus
    BY <1>3 DEF SeqLoadWindow
  <2> HIDE DEF b, n
  <2>4. LogicTable' \in [Blocks -> Slots \cup {NoSlot}]
    BY <2>1, <2>2, <2>3 DEF Blocks, Slots
  <2>5. /\ BlockID' \in [Slots -> Blocks \cup {NoBlock}]
        /\ Page' \in [Slots -> Blocks \cup {Torn}]
    BY <2>1, <2>3 DEF Blocks, Slots, TypeOK
  <2>6. EvictSlot' \in 0 .. EvictModulus - 1
    BY <2>1, <2>3
  <2>7. 0 \in Slots
    BY DEF Slots
  <2>8. QED
    BY <1>3, <2>1, <2>4, <2>5, <2>6, <2>7 DEF SeqLoadWindow, TypeOK, Shape, b
<1>4. CASE SeqLoadFails(m)
  <2>1. ClearedTable \in [Blocks -> Slots \cup {NoSlot}]
    BY DEF ClearedTable, TypeOK
  <2>2. QED
    BY <1>4, <2>1 DEF SeqLoadFails, SeqMissing, TypeOK, Shape
<1>5. CASE SeqAdvance(m)
  <2>1. req[m] + 1 \in 0 .. TotalBlockCount
    BY <1>5 DEF SeqAdvance, Unpin, Shape, Blocks
  <2>2. QED
    BY <1>5, <2>1 DEF SeqAdvance, Unpin, TypeOK, Shape
<1>6. CASE SeqEnd(m)
  BY <1>6 DEF SeqEnd, TypeOK, Shape
<1>7. QED
  BY <1>1, <1>2, <1>3, <1>4, <1>5, <1>6 DEF Merge

LEMMA StutterTyped == TypeOK /\ Shape /\ UNCHANGED vars => TypeOK' /\ Shape'
  BY DEF TypeOK, Shape, vars

LEMMA TypedStep == TypeOK /\ Shape /\ [Next]_vars => TypeOK' /\ Shape'
  BY ReadTyped, MergeTyped, StutterTyped DEF Next

LEMMA Typed == Spec => [](TypeOK /\ Shape)
  BY InitTyped, TypedStep, PTL DEF Spec

\* The tables and the callers' state keep their types whatever searches, merges
\* and failing reads do: in particular no slot number ever leaves the pool.
THEOREM TypeCorrect == Spec => []TypeOK
  BY Typed, PTL

-----------------------------------------------------------------------------
(* Counting the users of a slot *)

Users(f, s) == {c \in Callers : f[c] = s}

LEMMA UsersFinite ==
  ASSUME NEW f, NEW s
  PROVE  IsFiniteSet(Users(f, s)) /\ Cardinality(Users(f, s)) \in Nat
<1>1. Users(f, s) \subseteq Callers
  BY DEF Users
<1>2. IsFiniteSet(Users(f, s))
  BY <1>1, CallersFacts, FS_Subset
<1>3. QED
  BY <1>2, FS_CardinalityType

\* A caller without a slot takes slot t.
LEMMA UsersJoin ==
  ASSUME NEW f \in [Callers -> Slots \cup {NoSlot}], NEW c \in Callers, f[c] = NoSlot,
         NEW t \in Slots, NEW g \in [Callers -> Slots \cup {NoSlot}],
         \A d \in Callers : g[d] = IF d = c THEN t ELSE f[d]
  PROVE  /\ Cardinality(Users(g, t)) = Cardinality(Users(f, t)) + 1
         /\ \A s \in Slots : s # t => Users(g, s) = Users(f, s)
<1>1. c \notin Users(f, t)
  BY DEF Users, Slots, NoSlot
<1>2. Users(g, t) = Users(f, t) \cup {c}
  BY DEF Users
<1>3. IsFiniteSet(Users(f, t))
  BY UsersFinite
<1>4. Cardinality(Users(f, t) \cup {c}) = Cardinality(Users(f, t)) + 1
  BY <1>1, <1>3, FS_AddElement
<1>5. \A s \in Slots : s # t => Users(g, s) = Users(f, s)
  BY DEF Users, Slots, NoSlot
<1>6. QED
  BY <1>2, <1>4, <1>5

\* A caller gives its slot t back.
LEMMA UsersLeave ==
  ASSUME NEW f \in [Callers -> Slots \cup {NoSlot}], NEW c \in Callers,
         NEW t \in Slots, f[c] = t,
         NEW g \in [Callers -> Slots \cup {NoSlot}],
         \A d \in Callers : g[d] = IF d = c THEN NoSlot ELSE f[d]
  PROVE  /\ Cardinality(Users(g, t)) = Cardinality(Users(f, t)) - 1
         /\ Cardinality(Users(f, t)) >= 1
         /\ \A s \in Slots : s # t => Users(g, s) = Users(f, s)
<1>1. c \in Users(f, t)
  BY DEF Users
<1>2. Users(g, t) = Users(f, t) \ {c}
  BY DEF Users, Slots, NoSlot
<1>3. IsFiniteSet(Users(f, t)) /\ Cardinality(Users(f, t)) \in Nat
  BY UsersFinite
<1>4. Cardinality(Users(f, t) \ {c}) = Cardinality(Users(f, t)) - 1
  BY <1>1, <1>3, FS_RemoveElement
<1>5. Cardinality(Users(f, t)) # 0
  BY <1>1, <1>3, FS_EmptySet
<1>6. \A s \in Slots : s # t => Users(g, s) = Users(f, s)
  BY DEF Users, Slots, NoSlot
<1>7. QED
  <2> DEFINE k == Cardinality(Users(f, t))
  <2>1. k \in Nat /\ k # 0
    BY <1>3, <1>5
  <2> HIDE DEF k
  <2>2. k >= 1
    BY <2>1
  <2>3. QED
    BY <1>2, <1>4, <1>6, <2>2 DEF k

LEMMA HoldersUsers == \A s : Holders(s) = Users(slot, s)
  BY DEF Holders, Users

LEMMA HoldersUsersNext == \A s : Holders(s)' = Users(slot', s)
  BY DEF Holders, Users

-----------------------------------------------------------------------------
(* No pin is leaked *)

LEMMA SameHolders ==
  ASSUME NoPinLeak, slot' = slot, Ref' = Ref
  PROVE  NoPinLeak'
  BY HoldersUsers, HoldersUsersNext DEF NoPinLeak

LEMMA JoinKeepsPins ==
  ASSUME TypeOK, NoPinLeak, NEW c \in Callers, slot[c] = NoSlot, NEW t \in Slots,
         slot' = [slot EXCEPT ![c] = t],
         \A s \in Slots : Ref'[s] \in Nat /\ (s # t => Ref'[s] <= Ref[s]),
         Ref'[t] <= Ref[t] + 1
  PROVE  NoPinLeak'
<1>1. /\ slot \in [Callers -> Slots \cup {NoSlot}]
      /\ slot' \in [Callers -> Slots \cup {NoSlot}]
      /\ \A d \in Callers : slot'[d] = IF d = c THEN t ELSE slot[d]
  BY DEF TypeOK
<1>2. /\ Cardinality(Users(slot', t)) = Cardinality(Users(slot, t)) + 1
      /\ \A s \in Slots : s # t => Users(slot', s) = Users(slot, s)
  <2>1. slot[c] = NoSlot /\ c \in Callers /\ t \in Slots
    OBVIOUS
  <2>2. QED
    BY ONLY <1>1, <2>1, UsersJoin
<1>3. SUFFICES ASSUME NEW s \in Slots PROVE Ref'[s] <= Cardinality(Users(slot', s))
  BY HoldersUsersNext DEF NoPinLeak
<1>4. Ref[s] <= Cardinality(Users(slot, s)) /\ Ref[s] \in Nat
  BY HoldersUsers DEF NoPinLeak, TypeOK
<1>5. Cardinality(Users(slot, s)) \in Nat
  BY UsersFinite
<1>6. CASE s = t
  <2>1. Ref'[t] <= Ref[t] + 1 /\ Ref'[t] \in Nat
    OBVIOUS
  <2>2. QED
    BY ONLY <1>2, <1>4, <1>5, <1>6, <2>1
<1>7. CASE s # t
  <2>1. Ref'[s] <= Ref[s] /\ Ref'[s] \in Nat
    BY <1>7
  <2>2. QED
    BY ONLY <1>2, <1>3, <1>4, <1>5, <1>7, <2>1
<1>8. QED
  BY <1>6, <1>7

LEMMA LeaveKeepsPins ==
  ASSUME TypeOK, NoPinLeak, NEW c \in Callers, NEW t \in Slots, slot[c] = t,
         slot' = [slot EXCEPT ![c] = NoSlot],
         \A s \in Slots : s # t => Ref'[s] = Ref[s],
         Ref'[t] = 0 \/ Ref'[t] = Ref[t] - 1
  PROVE  NoPinLeak'
<1>1. /\ slot \in [Callers -> Slots \cup {NoSlot}]
      /\ slot' \in [Callers -> Slots \cup {NoSlot}]
      /\ \A d \in Callers : slot'[d] = IF d = c THEN NoSlot ELSE slot[d]
  BY DEF TypeOK
<1>2. /\ Cardinality(Users(slot', t)) = Cardinality(Users(slot, t)) - 1
      /\ Cardinality(Users(slot, t)) >= 1
      /\ \A s \in Slots : s # t => Users(slot', s) = Users(slot, s)
  <2>1. slot[c] = t /\ c \in Callers /\ t \in Slots
    OBVIOUS
  <2>2. QED
    BY ONLY <1>1, <2>1, UsersLeave
<1>3. SUFFICES ASSUME NEW s \in Slots PROVE Ref'[s] <= Cardinality(Users(slot', s))
  BY HoldersUsersNext DEF NoPinLeak
<1>4. Ref[s] <= Cardinality(Users(slot, s)) /\ Ref[s] \in Nat
  BY HoldersUsers DEF NoPinLeak, TypeOK
<1>5. Cardinality(Users(slot, s)) \in Nat
  BY UsersFinite
<1>6. CASE s = t
  BY <1>2, <1>4, <1>5, <1>6
<1>7. CASE s # t
  BY <1>2, <1>4, <1>5, <1>7
<1>8. QED
  BY <1>6, <1>7

LEMMA InitPins == Init => NoPinLeak
<1> SUFFICES ASSUME Init, NEW s \in Slots PROVE Ref[s] <= Cardinality(Holders(s))
  BY DEF NoPinLeak
<1>1. Cardinality(Users(slot, s)) \in Nat
  BY UsersFinite
<1>2. QED
  BY <1>1, HoldersUsers DEF Init

LEMMA UnpinKeepsPins ==
  ASSUME TypeOK, Shape, NoPinLeak, NEW c \in Callers, Unpin(c)
  PROVE  NoPinLeak'
<1>1. slot[c] \in Slots
  BY DEF Unpin, Shape
<1>2. /\ \A s \in Slots : s # slot[c] => Ref'[s] = Ref[s]
      /\ Ref'[slot[c]] = 0 \/ Ref'[slot[c]] = Ref[slot[c]] - 1
  BY <1>1 DEF Unpin, TypeOK
<1>3. QED
  BY <1>1, <1>2, LeaveKeepsPins DEF Unpin

LEMMA ReadKeepsPins ==
  ASSUME TypeOK, Shape, NoPinLeak, NEW r \in Readers, Read(r)
  PROVE  NoPinLeak'
<1> USE CallersFacts DEF cacheVars
<1>1. ASSUME NEW b \in 0 .. TotalBlockCount, GetBlock(r, b) PROVE NoPinLeak'
  BY <1>1, SameHolders DEF GetBlock
<1>2. CASE OutOfRange(r) \/ WaitWhileLoading(r) \/ Refuse(r)
  BY <1>2, SameHolders DEF OutOfRange, WaitWhileLoading, Refuse
<1>3. CASE Hit(r)
  <2>1. LogicTable[req[r]] \in Slots /\ slot[r] = NoSlot
    BY <1>3 DEF Hit, Ready, Resident, TypeOK, Shape, EmptyPCs
  <2>2. /\ \A s \in Slots : Ref'[s] \in Nat /\ (s # LogicTable[req[r]] => Ref'[s] <= Ref[s])
        /\ Ref'[LogicTable[req[r]]] <= Ref[LogicTable[req[r]]] + 1
    BY <1>3, <2>1 DEF Hit, TypeOK
  <2>3. QED
    BY <1>3, <2>1, <2>2, JoinKeepsPins DEF Hit
<1>4. CASE Evict(r)
  <2>1. PICK i \in Probes : TakeSlot(r, i, Candidate(i)) /\ Missing(r) /\ Free(Candidate(i))
    BY <1>4 DEF Evict
  <2>2. Candidate(i) \in Slots /\ slot[r] = NoSlot
    BY <2>1, CandidateIsSlot DEF Missing, Shape, EmptyPCs
  <2> DEFINE t == Candidate(i)
  <2> HIDE DEF t
  <2>3. /\ \A s \in Slots : Ref'[s] \in Nat /\ (s # t => Ref'[s] <= Ref[s])
        /\ Ref'[t] <= Ref[t] + 1
    BY <2>1, <2>2 DEF TakeSlot, Free, TypeOK, t
  <2>4. slot' = [slot EXCEPT ![r] = t] /\ t \in Slots
    BY <2>1, <2>2 DEF TakeSlot, t
  <2>5. QED
    BY <2>2, <2>3, <2>4, JoinKeepsPins
<1>5. CASE ReadBlock(r) \/ FinishLoad(r) \/ Notify(r)
  BY <1>5, SameHolders DEF ReadBlock, FinishLoad, Notify
<1>6. CASE AbortLoad(r)
  <2>1. slot[r] \in Slots
    BY <1>6 DEF AbortLoad, Shape, LoadPCs
  <2>2. (\A s \in Slots : s # slot[r] => Ref'[s] = Ref[s]) /\ Ref'[slot[r]] = 0
    BY <1>6, <2>1 DEF AbortLoad, TypeOK
  <2>3. QED
    BY <1>6, <2>1, <2>2, LeaveKeepsPins DEF AbortLoad
<1>7. CASE Release(r)
  BY <1>7, UnpinKeepsPins DEF Release
<1>8. QED
  BY <1>1, <1>2, <1>3, <1>4, <1>5, <1>6, <1>7 DEF Read, Fetch

LEMMA MergeKeepsPins ==
  ASSUME TypeOK, Shape, NoPinLeak, NEW m \in Mergers, Merge(m)
  PROVE  NoPinLeak'
<1> USE CallersFacts DEF cacheVars
<1>1. CASE SeqHit(m)
  <2>1. LogicTable[req[m]] \in Slots /\ slot[m] = NoSlot
    BY <1>1 DEF SeqHit, Resident, TypeOK, Shape, EmptyPCs
  <2>2. /\ \A s \in Slots : Ref'[s] \in Nat /\ (s # LogicTable[req[m]] => Ref'[s] <= Ref[s])
        /\ Ref'[LogicTable[req[m]]] <= Ref[LogicTable[req[m]]] + 1
    BY <1>1, <2>1 DEF SeqHit, TypeOK
  <2>3. QED
    BY <1>1, <2>1, <2>2, JoinKeepsPins DEF SeqHit
<1>2. CASE SeqRefuse(m) \/ SeqLoadFails(m) \/ SeqEnd(m)
  BY <1>2, SameHolders DEF SeqRefuse, SeqLoadFails, SeqEnd
<1>3. CASE SeqLoadWindow(m)
  <2>1. 0 \in Slots /\ slot[m] = NoSlot
    BY <1>3, CacheAssumption DEF SeqLoadWindow, SeqMissing, Slots, Shape, EmptyPCs
  <2>2. /\ \A s \in Slots : Ref'[s] \in Nat /\ (s # 0 => Ref'[s] <= Ref[s])
        /\ Ref'[0] <= Ref[0] + 1
    BY <1>3, <2>1 DEF SeqLoadWindow
  <2>3. QED
    BY <1>3, <2>1, <2>2, JoinKeepsPins DEF SeqLoadWindow
<1>4. CASE SeqAdvance(m)
  BY <1>4, UnpinKeepsPins DEF SeqAdvance
<1>5. QED
  BY <1>1, <1>2, <1>3, <1>4 DEF Merge

\* However searches, a merge and failing reads interleave, a slot never counts
\* more pins than it has users: GetBlock and Drop cannot leak a cache slot.
THEOREM PinsNeverLeak == Spec => []NoPinLeak
<1>1. TypeOK /\ Shape /\ NoPinLeak /\ [Next]_vars => NoPinLeak'
  <2>1. TypeOK /\ Shape /\ NoPinLeak /\ Next => NoPinLeak'
    BY ReadKeepsPins, MergeKeepsPins DEF Next
  <2>2. NoPinLeak /\ UNCHANGED vars => NoPinLeak'
    BY SameHolders DEF vars
  <2>3. QED
    BY <2>1, <2>2
<1>2. QED
  BY InitPins, Typed, <1>1, PTL DEF Spec

---------------------------------------------------------------------------
(* The cache is correct while searches and merges do not overlap: the      *)
(* inductive invariant of the pool, and what follows from it.              *)


\* A caller that loads a slot owns it alone until the load ends.
LoadersOwnTheirSlot ==
  /\ \A c \in Callers : pc[c] \in LoadPCs => slot[c] \in Loading /\ BlockID[slot[c]] = req[c]
  /\ \A c, d \in Callers : pc[c] \in LoadPCs /\ slot[d] = slot[c] => d = c
  /\ \A s \in Loading : \E c \in Callers : pc[c] \in LoadPCs /\ slot[c] = s

\* A page holds the block its slot claims, unless a load is under way.
PagesMatch ==
  /\ \A s \in Slots : s \notin Loading /\ BlockID[s] # NoBlock => Page[s] = BlockID[s]
  /\ \A c \in Callers : pc[c] = "loaded" => Page[slot[c]] = req[c]

\* A delivered slot is not loading, and still has the block that was asked for.
HandlesSettled ==
  \A c \in Callers : pc[c] \in {"hold", "notify"} /\ slot[c] # NoSlot =>
    slot[c] \notin Loading /\ BlockID[slot[c]] = req[c]

CacheInv == TablesAgree /\ PinsExact /\ LoadersOwnTheirSlot /\ PagesMatch /\ HandlesSettled

-----------------------------------------------------------------------------
(* Exact pins *)

LEMMA PinsSame ==
  ASSUME PinsExact, slot' = slot, Ref' = Ref
  PROVE  PinsExact'
  BY HoldersUsers, HoldersUsersNext DEF PinsExact

LEMMA PinsJoin ==
  ASSUME TypeOK, PinsExact, NEW c \in Callers, slot[c] = NoSlot, NEW t \in Slots,
         slot' = [slot EXCEPT ![c] = t],
         Ref' = [Ref EXCEPT ![t] = Ref[t] + 1]
  PROVE  PinsExact'
<1>1. /\ slot \in [Callers -> Slots \cup {NoSlot}]
      /\ slot' \in [Callers -> Slots \cup {NoSlot}]
      /\ \A d \in Callers : slot'[d] = IF d = c THEN t ELSE slot[d]
  BY DEF TypeOK
<1>2. /\ Cardinality(Users(slot', t)) = Cardinality(Users(slot, t)) + 1
      /\ \A s \in Slots : s # t => Users(slot', s) = Users(slot, s)
  <2>1. slot[c] = NoSlot /\ c \in Callers /\ t \in Slots
    OBVIOUS
  <2>2. QED
    BY ONLY <1>1, <2>1, UsersJoin
<1>3. \A s \in Slots : Ref[s] = Cardinality(Users(slot, s))
  BY HoldersUsers DEF PinsExact
<1>4. \A s \in Slots : Ref'[s] = IF s = t THEN Ref[t] + 1 ELSE Ref[s]
  BY DEF TypeOK
<1>5. t \in Slots
  OBVIOUS
<1>6. \A s \in Slots : Ref'[s] = Cardinality(Users(slot', s))
  BY ONLY <1>2, <1>3, <1>4, <1>5
<1>7. QED
  BY <1>6, HoldersUsersNext DEF PinsExact

LEMMA PinsLeave ==
  ASSUME TypeOK, PinsExact, NEW c \in Callers, NEW t \in Slots, slot[c] = t,
         slot' = [slot EXCEPT ![c] = NoSlot],
         Ref' = [Ref EXCEPT ![t] = Ref[t] - 1]
  PROVE  PinsExact'
<1>1. /\ slot \in [Callers -> Slots \cup {NoSlot}]
      /\ slot' \in [Callers -> Slots \cup {NoSlot}]
      /\ \A d \in Callers : slot'[d] = IF d = c THEN NoSlot ELSE slot[d]
  BY DEF TypeOK
<1>2. /\ Cardinality(Users(slot', t)) = Cardinality(Users(slot, t)) - 1
      /\ \A s \in Slots : s # t => Users(slot', s) = Users(slot, s)
  <2>1. slot[c] = t /\ c \in Callers /\ t \in Slots
    OBVIOUS
  <2>2. QED
    BY ONLY <1>1, <2>1, UsersLeave
<1>3. \A s \in Slots : Ref[s] = Cardinality(Users(slot, s))
  BY HoldersUsers DEF PinsExact
<1>4. \A s \in Slots : Ref'[s] = IF s = t THEN Ref[t] - 1 ELSE Ref[s]
  BY DEF TypeOK
<1>5. t \in Slots
  OBVIOUS
<1>6. \A s \in Slots : Ref'[s] = Cardinality(Users(slot', s))
  BY ONLY <1>2, <1>3, <1>4, <1>5
<1>7. QED
  BY <1>6, HoldersUsersNext DEF PinsExact

\* A slot whose count is 0 has no user, and one with a single user counts 1.
LEMMA UnpinnedHasNoUser ==
  ASSUME PinsExact, NEW s \in Slots, Ref[s] = 0
  PROVE  \A c \in Callers : slot[c] # s
<1>1. IsFiniteSet(Users(slot, s)) /\ Cardinality(Users(slot, s)) = 0
  BY UsersFinite, HoldersUsers DEF PinsExact
<1>2. Users(slot, s) = {}
  BY <1>1, FS_EmptySet
<1>3. QED
  BY <1>2 DEF Users

LEMMA SoleUserCounts ==
  ASSUME PinsExact, NEW r \in Callers, slot[r] \in Slots,
         \A d \in Callers : slot[d] = slot[r] => d = r
  PROVE  Ref[slot[r]] = 1
<1>1. Users(slot, slot[r]) = {r}
  BY DEF Users
<1>2. Cardinality({r}) = 1
  BY FS_Singleton
<1>3. QED
  BY <1>1, <1>2, HoldersUsers DEF PinsExact

LEMMA UserIsCounted ==
  ASSUME TypeOK, PinsExact, NEW c \in Callers, slot[c] \in Slots
  PROVE  Ref[slot[c]] >= 1
<1>1. IsFiniteSet(Users(slot, slot[c])) /\ Cardinality(Users(slot, slot[c])) \in Nat
  BY UsersFinite
<1>2. c \in Users(slot, slot[c])
  BY DEF Users
<1>3. Cardinality(Users(slot, slot[c])) # 0
  BY <1>1, <1>2, FS_EmptySet
<1>4. Ref[slot[c]] = Cardinality(Users(slot, slot[c]))
  BY HoldersUsers DEF PinsExact
<1>5. QED
  BY ONLY <1>1, <1>3, <1>4

-----------------------------------------------------------------------------
(* The invariant is inductive *)

LEMMA InitCacheInv == Init => CacheInv
<1> SUFFICES ASSUME Init PROVE CacheInv
  OBVIOUS
<1>1. PinsExact
  <2> SUFFICES ASSUME NEW s \in Slots PROVE Ref[s] = Cardinality(Users(slot, s))
    BY HoldersUsers DEF PinsExact
  <2>1. Users(slot, s) = {}
    BY DEF Init, Users, Slots, NoSlot
  <2>2. Cardinality({}) = 0
    BY FS_EmptySet
  <2>3. QED
    BY <2>1, <2>2 DEF Init
<1>2. TablesAgree
  BY CacheAssumption DEF Init, TablesAgree, Blocks, Slots, NoSlot
<1>3. QED
  BY <1>1, <1>2 DEF Init, CacheInv, LoadersOwnTheirSlot, PagesMatch, HandlesSettled, LoadPCs

LEMMA UnpinKeepsCacheInv ==
  ASSUME TypeOK, Shape, CacheInv, NEW c \in Callers, Unpin(c),
         req' \in [Callers -> 0 .. TotalBlockCount], \A d \in Callers : d # c => req'[d] = req[d]
  PROVE  CacheInv'
<1>1. slot[c] \in Slots
  BY DEF Unpin, Shape
<1>2. Ref[slot[c]] >= 1
  BY <1>1, UserIsCounted DEF CacheInv
<1>3. Ref' = [Ref EXCEPT ![slot[c]] = Ref[slot[c]] - 1]
  <2>1. Ref[slot[c]] \in Nat
    BY <1>1 DEF TypeOK
  <2>2. Ref[slot[c]] > 0
    BY ONLY <1>2, <2>1
  <2>3. QED
    BY <2>2 DEF Unpin
<1>4. PinsExact'
  BY <1>1, <1>3, PinsLeave DEF Unpin, CacheInv
<1>5. TablesAgree'
  BY DEF Unpin, CacheInv, TablesAgree
<1>6. LoadersOwnTheirSlot'
  <2>1. /\ slot' = [slot EXCEPT ![c] = NoSlot] /\ pc' = [pc EXCEPT ![c] = "idle"]
        /\ UNCHANGED <<BlockID, Loading>> /\ pc[c] = "hold"
    BY DEF Unpin
  <2>2. \A d \in Callers : pc[d] \in LoadPCs => slot[d] # NoSlot
    BY DEF Shape, Slots, NoSlot
  <2>3. QED
    BY <2>1, <2>2 DEF TypeOK, CacheInv, LoadersOwnTheirSlot, LoadPCs
<1>7. PagesMatch' /\ HandlesSettled'
  BY <1>1 DEF Unpin, TypeOK, CacheInv, PagesMatch, HandlesSettled
<1>8. QED
  BY <1>4, <1>5, <1>6, <1>7 DEF CacheInv

LEMMA ReadKeepsCacheInv ==
  ASSUME TypeOK, Shape, CacheInv, NEW r \in Readers, Read(r)
  PROVE  CacheInv'
<1> USE CallersFacts DEF cacheVars, LoadPCs
<1>a. TypeOK' /\ Shape'
  BY ReadTyped
<1>1. ASSUME NEW b \in 0 .. TotalBlockCount, GetBlock(r, b) PROVE CacheInv'
  <2>1. PinsExact'
    BY <1>1, PinsSame DEF GetBlock, CacheInv
  <2>2. QED
    BY <1>1, <2>1 DEF GetBlock, TypeOK, CacheInv, TablesAgree, LoadersOwnTheirSlot, PagesMatch, HandlesSettled
<1>2. CASE OutOfRange(r) \/ WaitWhileLoading(r) \/ Refuse(r)
  <2>1. PinsExact'
    BY <1>2, PinsSame DEF OutOfRange, WaitWhileLoading, Refuse, CacheInv
  <2>2. QED
    BY <1>2, <2>1 DEF OutOfRange, WaitWhileLoading, Refuse, Missing, TypeOK, CacheInv, TablesAgree,
       LoadersOwnTheirSlot, PagesMatch, HandlesSettled
<1>3. CASE Hit(r)
  <2> DEFINE t == LogicTable[req[r]]
  <2>1. /\ t \in Slots /\ t \notin Loading /\ req[r] \in Blocks /\ BlockID[t] = req[r]
        /\ slot[r] = NoSlot
    BY <1>3 DEF Hit, Ready, Resident, TypeOK, Shape, EmptyPCs
  <2>2. PinsExact'
    <3>1. slot' = [slot EXCEPT ![r] = t] /\ Ref' = [Ref EXCEPT ![t] = Ref[t] + 1]
      BY <1>3 DEF Hit
    <3> HIDE DEF t
    <3>2. QED
      BY <2>1, <3>1, PinsJoin DEF CacheInv
  <2>3. TablesAgree'
    BY <1>3 DEF Hit, CacheInv, TablesAgree
  <2>4. /\ slot' = [slot EXCEPT ![r] = t]
        /\ pc' = [pc EXCEPT ![r] = "hold"]
        /\ UNCHANGED <<LogicTable, BlockID, Loading, Page, req>>
    BY <1>3 DEF Hit
  <2> HIDE DEF t
  <2>5. LoadersOwnTheirSlot'
    BY <1>3, <2>1, <2>4 DEF Hit, TypeOK, CacheInv, LoadersOwnTheirSlot
  <2>6. PagesMatch' /\ HandlesSettled'
    BY <2>1, <2>4 DEF TypeOK, CacheInv, PagesMatch, HandlesSettled
  <2>7. QED
    BY <2>2, <2>3, <2>5, <2>6 DEF CacheInv
<1>4. CASE Evict(r)
  <2>1. PICK i \in Probes : TakeSlot(r, i, Candidate(i)) /\ Missing(r) /\ Free(Candidate(i))
    BY <1>4 DEF Evict
  <2> DEFINE t == Candidate(i)
  <2>2. t \in Slots /\ slot[r] = NoSlot /\ pc[r] = "lookup" /\ req[r] \in Blocks
    BY <2>1, CandidateIsSlot DEF Missing, Shape, EmptyPCs
  <2> HIDE DEF t
  <2>3. TakeSlot(r, i, t) /\ Ref[t] = 0 /\ t \notin Loading
    BY <2>1 DEF Free, t
  <2>4. \A c \in Callers : slot[c] # t
    BY <2>2, <2>3, UnpinnedHasNoUser DEF CacheInv
  <2>5. PinsExact'
    <3>1. slot' = [slot EXCEPT ![r] = t] /\ Ref' = [Ref EXCEPT ![t] = Ref[t] + 1]
      BY <2>3 DEF TakeSlot
    <3>2. QED
      BY <2>2, <3>1, PinsJoin DEF CacheInv
  <2>6. ~Resident(req[r])
    BY <2>1 DEF Missing, Ready, InFlight, Resident, CacheInv, TablesAgree, TypeOK
  <2>7. TablesAgree'
    BY <2>2, <2>3, <2>6 DEF TakeSlot, CacheInv, TablesAgree, TypeOK, Resident, NoSlot, NoBlock, Slots
  <2>8. LoadersOwnTheirSlot'
    BY <2>2, <2>3, <2>4 DEF TakeSlot, TypeOK, CacheInv, LoadersOwnTheirSlot
  <2>9. PagesMatch' /\ HandlesSettled'
    BY <2>2, <2>3, <2>4 DEF TakeSlot, TypeOK, CacheInv, PagesMatch, HandlesSettled
  <2>10. QED
    BY <2>5, <2>7, <2>8, <2>9 DEF CacheInv
<1>5. CASE ReadBlock(r)
  <2>1. PinsExact'
    BY <1>5, PinsSame DEF ReadBlock, CacheInv
  <2>2. slot[r] \in Slots /\ slot[r] \in Loading /\ BlockID[slot[r]] = req[r]
    BY <1>5 DEF ReadBlock, Shape, CacheInv, LoadersOwnTheirSlot
  <2>3. TablesAgree' /\ LoadersOwnTheirSlot' /\ HandlesSettled'
    BY <1>5 DEF ReadBlock, TypeOK, CacheInv, TablesAgree, LoadersOwnTheirSlot, HandlesSettled
  <2>4. PagesMatch'
    BY <1>5, <2>2 DEF ReadBlock, TypeOK, CacheInv, PagesMatch, LoadersOwnTheirSlot
  <2>5. QED
    BY <2>1, <2>3, <2>4 DEF CacheInv
<1>6. CASE FinishLoad(r)
  <2>1. PinsExact'
    BY <1>6, PinsSame DEF FinishLoad, CacheInv
  <2>2. /\ slot[r] \in Slots /\ slot[r] \in Loading /\ BlockID[slot[r]] = req[r]
        /\ Page[slot[r]] = req[r] /\ pc[r] = "loaded"
    BY <1>6 DEF FinishLoad, Shape, CacheInv, LoadersOwnTheirSlot, PagesMatch
  <2>3. TablesAgree'
    BY <1>6 DEF FinishLoad, CacheInv, TablesAgree
  <2>4. LoadersOwnTheirSlot'
    BY <1>6, <2>2 DEF FinishLoad, TypeOK, CacheInv, LoadersOwnTheirSlot
  <2>5. PagesMatch' /\ HandlesSettled'
    BY <1>6, <2>2 DEF FinishLoad, TypeOK, CacheInv, PagesMatch, HandlesSettled
  <2>6. QED
    BY <2>1, <2>3, <2>4, <2>5 DEF CacheInv
<1>7. CASE AbortLoad(r)
  <2> DEFINE t == slot[r]
  <2>1. /\ t \in Slots /\ t \in Loading /\ BlockID[t] = req[r] /\ req[r] \in Blocks
        /\ pc[r] = "failed" /\ \A d \in Callers : slot[d] = t => d = r
    BY <1>7 DEF AbortLoad, Shape, CacheInv, LoadersOwnTheirSlot
  <2>2. Ref[t] = 1
    BY <2>1, SoleUserCounts DEF CacheInv
  <2>3. Ref' = [Ref EXCEPT ![t] = Ref[t] - 1]
    BY <1>7, <2>2 DEF AbortLoad
  <2>4. PinsExact'
    <3>1. slot' = [slot EXCEPT ![r] = NoSlot] /\ slot[r] = t
      BY <1>7 DEF AbortLoad
    <3> HIDE DEF t
    <3>2. QED
      BY <2>1, <2>3, <3>1, PinsLeave DEF CacheInv
  <2>5. TablesAgree'
    <3>1. LogicTable[req[r]] = t
      BY <2>1 DEF CacheInv, TablesAgree
    <3>2. /\ LogicTable' = [LogicTable EXCEPT ![req[r]] = NoSlot]
          /\ BlockID' = [BlockID EXCEPT ![t] = NoBlock]
      BY <1>7, <3>1 DEF AbortLoad
    <3>3. t \in Slots /\ req[r] \in Blocks /\ BlockID[t] = req[r]
      BY <2>1
    <3> HIDE DEF t
    <3>4. QED
      BY <3>1, <3>2, <3>3 DEF CacheInv, TablesAgree, TypeOK, NoSlot, NoBlock, Slots, Blocks
  <2>6. LoadersOwnTheirSlot'
    <3>1. /\ slot' = [slot EXCEPT ![r] = NoSlot] /\ pc' = [pc EXCEPT ![r] = "notify"]
          /\ BlockID' = [BlockID EXCEPT ![t] = NoBlock]
          /\ Loading' = Loading \ {t} /\ req' = req
      BY <1>7 DEF AbortLoad
    <3>2. \A d \in Callers : pc[d] \in LoadPCs => slot[d] # NoSlot /\ slot[d] \in Slots
      BY DEF Shape, Slots, NoSlot
    <3>3. slot[r] = t
      OBVIOUS
    <3> HIDE DEF t
    <3>4. QED
      BY <2>1, <3>1, <3>2, <3>3 DEF TypeOK, CacheInv, LoadersOwnTheirSlot
  <2>7. PagesMatch' /\ HandlesSettled'
    BY <1>7, <2>1 DEF AbortLoad, TypeOK, CacheInv, PagesMatch, HandlesSettled
  <2>8. QED
    BY <2>4, <2>5, <2>6, <2>7 DEF CacheInv
<1>8. CASE Notify(r)
  <2>1. PinsExact'
    BY <1>8, PinsSame DEF Notify, CacheInv
  <2>2. QED
    BY <1>8, <2>1 DEF Notify, TypeOK, Shape, EmptyPCs, CacheInv, TablesAgree, LoadersOwnTheirSlot,
       PagesMatch, HandlesSettled
<1>9. CASE Release(r)
  BY <1>9, UnpinKeepsCacheInv DEF Release, TypeOK
<1>10. QED
  BY <1>1, <1>2, <1>3, <1>4, <1>5, <1>6, <1>7, <1>8, <1>9 DEF Read, Fetch

\* The window a merge loads: its tables agree again.
LEMMA WindowTablesAgree ==
  ASSUME TypeOK, TablesAgree, NEW m \in Mergers, SeqLoadWindow(m)
  PROVE  TablesAgree'
<1> DEFINE b == req[m]
           n == WindowLength(b)
<1>1. b \in Blocks /\ n \in 1 .. SlotCount /\ b + n - 1 \in Blocks
  <2>1. b \in Blocks
    BY DEF SeqLoadWindow, SeqMissing
  <2>2. QED
    BY ONLY <2>1, CacheAssumption DEF WindowLength, Blocks
<1>2. /\ LogicTable' = [x \in Blocks |-> IF x \in b .. b + n - 1 THEN x - b ELSE ClearedTable[x]]
      /\ BlockID'    = [s \in Slots |-> IF s < n THEN b + s ELSE NoBlock]
  BY DEF SeqLoadWindow
<1>3. \A x \in Blocks : ClearedTable[x] = NoSlot
  <2>1. \A x \in Blocks : LogicTable[x] = NoSlot \/ LogicTable[x] \in Slots
    BY DEF TypeOK
  <2>2. QED
    BY <2>1 DEF ClearedTable, TablesAgree
<1> HIDE DEF b, n
<1>4. SUFFICES ASSUME NEW x \in Blocks, NEW s \in Slots
               PROVE  LogicTable'[x] = s <=> BlockID'[s] = x
  BY DEF TablesAgree
<1>5. CASE x \in b .. b + n - 1
  <2>1. LogicTable'[x] = x - b /\ BlockID'[s] = IF s < n THEN b + s ELSE NoBlock
    BY <1>2, <1>5
  <2>2. QED
    BY ONLY <1>1, <1>5, <2>1, x \in Blocks, s \in Slots, CacheAssumption DEF Blocks, Slots, NoBlock
<1>6. CASE x \notin b .. b + n - 1
  <2>1. LogicTable'[x] = NoSlot /\ BlockID'[s] = IF s < n THEN b + s ELSE NoBlock
    BY <1>2, <1>3, <1>6
  <2>2. QED
    BY ONLY <1>1, <1>6, <2>1, x \in Blocks, s \in Slots, CacheAssumption
    DEF Blocks, Slots, NoSlot, NoBlock
<1>7. QED
  BY <1>5, <1>6

LEMMA MergeKeepsCacheInv ==
  ASSUME TypeOK, Shape, CacheInv, NEW m \in Mergers, Merge(m), Readers = {}
  PROVE  CacheInv'
<1> USE CallersFacts DEF cacheVars, LoadPCs
<1>a. \A c \in Callers : c \in Mergers /\ pc[c] \in {"idle", "hold", "end"}
  BY DEF Callers, Shape
<1>b. Loading = {}
  BY <1>a DEF CacheInv, LoadersOwnTheirSlot
<1>1. CASE SeqHit(m)
  <2> DEFINE t == LogicTable[req[m]]
  <2>1. t \in Slots /\ req[m] \in Blocks /\ BlockID[t] = req[m] /\ slot[m] = NoSlot
    BY <1>1 DEF SeqHit, Resident, TypeOK, Shape, EmptyPCs, CacheInv, TablesAgree
  <2>2. /\ slot' = [slot EXCEPT ![m] = t] /\ Ref' = [Ref EXCEPT ![t] = Ref[t] + 1]
        /\ pc' = [pc EXCEPT ![m] = "hold"]
        /\ UNCHANGED <<LogicTable, BlockID, Loading, Page, req>>
    BY <1>1 DEF SeqHit
  <2> HIDE DEF t
  <2>3. PinsExact'
    BY <2>1, <2>2, PinsJoin DEF CacheInv
  <2>4. TablesAgree' /\ LoadersOwnTheirSlot'
    BY <1>a, <1>b, <2>2 DEF TypeOK, CacheInv, TablesAgree, LoadersOwnTheirSlot
  <2>5. PagesMatch' /\ HandlesSettled'
    BY <1>b, <2>1, <2>2 DEF TypeOK, CacheInv, PagesMatch, HandlesSettled
  <2>6. QED
    BY <2>3, <2>4, <2>5 DEF CacheInv
<1>2. CASE SeqRefuse(m) \/ SeqEnd(m)
  <2>1. PinsExact'
    BY <1>2, PinsSame DEF SeqRefuse, SeqEnd, CacheInv
  <2>2. QED
    BY <1>2, <2>1 DEF SeqRefuse, SeqMissing, SeqEnd, TypeOK, CacheInv, TablesAgree,
       LoadersOwnTheirSlot, PagesMatch, HandlesSettled
<1>3. CASE SeqLoadWindow(m)
  <2>1. /\ 0 \in Slots /\ slot[m] = NoSlot /\ req[m] \in Blocks /\ pc[m] = "idle"
        /\ \A s \in Slots : Ref[s] = 0
    BY <1>3, CacheAssumption DEF SeqLoadWindow, SeqMissing, Slots, Shape, EmptyPCs
  <2>2. \A c \in Callers : slot[c] \notin Slots
    BY <2>1, UnpinnedHasNoUser DEF CacheInv
  <2>3. PinsExact'
    <3>1. slot' = [slot EXCEPT ![m] = 0] /\ Ref' = [s \in Slots |-> IF s = 0 THEN 1 ELSE 0]
      BY <1>3 DEF SeqLoadWindow
    <3>2. Ref \in [Slots -> Nat]
      BY DEF TypeOK
    <3>3. Ref' = [Ref EXCEPT ![0] = Ref[0] + 1]
      <4> DEFINE g == [Ref EXCEPT ![0] = Ref[0] + 1]
      <4>1. \A s \in Slots : Ref'[s] = g[s]
        BY ONLY <2>1, <3>1, <3>2
      <4>2. Ref' \in [Slots -> Nat] /\ g \in [Slots -> Nat]
        BY ONLY <2>1, <3>1, <3>2
      <4> HIDE DEF g
      <4>3. Ref' = g
        BY ONLY <4>1, <4>2
      <4>4. QED
        BY <4>3 DEF g
    <3>4. QED
      BY <2>1, <3>1, <3>3, PinsJoin DEF CacheInv
  <2>4. TablesAgree'
    BY <1>3, WindowTablesAgree DEF CacheInv
  <2>5. /\ slot' = [slot EXCEPT ![m] = 0] /\ pc' = [pc EXCEPT ![m] = "hold"] /\ req' = req
        /\ Loading' = {}
    BY <1>3 DEF SeqLoadWindow
  <2>6. LoadersOwnTheirSlot'
    BY <1>a, <2>5 DEF TypeOK, LoadersOwnTheirSlot
  <2>7. BlockID'[0] = req[m] /\ \A s \in Slots : BlockID'[s] # NoBlock => Page'[s] = BlockID'[s]
    <3>1. WindowLength(req[m]) > 0
      BY <2>1, CacheAssumption DEF WindowLength, Blocks
    <3>2. /\ BlockID' = [s \in Slots |-> IF s < WindowLength(req[m]) THEN req[m] + s ELSE NoBlock]
          /\ Page' = [s \in Slots |-> IF s < WindowLength(req[m]) THEN req[m] + s ELSE Page[s]]
      BY <1>3 DEF SeqLoadWindow
    <3>3. QED
      BY <2>1, <3>1, <3>2 DEF Blocks
  <2>8. PagesMatch' /\ HandlesSettled'
    <3>1. \A c \in Callers : c # m => pc'[c] # "hold" \/ slot'[c] = NoSlot
      BY <2>2, <2>5 DEF TypeOK
    <3>2. QED
      BY <1>a, <2>1, <2>5, <2>7, <3>1 DEF TypeOK, PagesMatch, HandlesSettled
  <2>9. QED
    BY <2>3, <2>4, <2>6, <2>8 DEF CacheInv
<1>4. CASE SeqLoadFails(m)
  <2>1. PinsExact'
    BY <1>4, PinsSame DEF SeqLoadFails, CacheInv
  <2>2. /\ \A s \in Slots : Ref[s] = 0
        /\ BlockID' = [s \in Slots |-> NoBlock] /\ Loading' = {} /\ slot' = slot
        /\ pc' = [pc EXCEPT ![m] = "end"] /\ LogicTable' = ClearedTable
    BY <1>4 DEF SeqLoadFails
  <2>3. \A c \in Callers : slot[c] = NoSlot
    BY <2>2, UnpinnedHasNoUser DEF CacheInv, TypeOK
  <2>4. TablesAgree'
    <3>1. \A x \in Blocks : ClearedTable[x] = NoSlot
      BY DEF ClearedTable, CacheInv, TablesAgree, TypeOK
    <3>2. QED
      BY <2>2, <3>1 DEF TablesAgree, Blocks, Slots, NoSlot, NoBlock
  <2>5. LoadersOwnTheirSlot' /\ PagesMatch' /\ HandlesSettled'
    BY <1>a, <2>2, <2>3 DEF TypeOK, LoadersOwnTheirSlot, PagesMatch, HandlesSettled
  <2>6. QED
    BY <2>1, <2>4, <2>5 DEF CacheInv
<1>5. CASE SeqAdvance(m)
  <2>1. req' \in [Callers -> 0 .. TotalBlockCount]
    BY MergeTyped DEF TypeOK
  <2>2. QED
    BY <1>5, <2>1, UnpinKeepsCacheInv DEF SeqAdvance, TypeOK
<1>6. QED
  BY <1>1, <1>2, <1>3, <1>4, <1>5 DEF Merge

LEMMA CacheInvStep ==
  ASSUME NoOverlap, TypeOK, Shape, CacheInv, [Next]_vars
  PROVE  CacheInv'
<1>1. CASE Next
  BY <1>1, ReadKeepsCacheInv, MergeKeepsCacheInv DEF Next, NoOverlap
<1>2. CASE UNCHANGED vars
  <2>1. PinsExact'
    BY <1>2, PinsSame DEF vars, CacheInv
  <2>2. QED
    BY <1>2, <2>1 DEF vars, CacheInv, TablesAgree, LoadersOwnTheirSlot, PagesMatch, HandlesSettled
<1>3. QED
  BY <1>1, <1>2

LEMMA CacheInvHolds ==
  ASSUME NoOverlap
  PROVE  Spec => [](TypeOK /\ Shape /\ CacheInv)
<1>1. TypeOK /\ Shape /\ CacheInv /\ [Next]_vars => CacheInv'
  BY CacheInvStep
<1>2. QED
  BY InitCacheInv, Typed, <1>1, PTL DEF Spec

\* While searches and merges do not overlap, no block is cached in two slots and no
\* slot is orphaned, whichever loads fail.
THEOREM TablesAlwaysAgree ==
  ASSUME NoOverlap
  PROVE  Spec => []TablesAgree
<1>1. CacheInv => TablesAgree
  BY DEF CacheInv
<1>2. QED
  BY CacheInvHolds, <1>1, PTL

\* ... a slot counts exactly the handles and loads that use it, so the reset of a
\* failed load takes no pin away from a handle.
THEOREM PinsAlwaysExact ==
  ASSUME NoOverlap
  PROVE  Spec => []PinsExact
<1>1. CacheInv => PinsExact
  BY DEF CacheInv
<1>2. QED
  BY CacheInvHolds, <1>1, PTL

LEMMA InvHandleSeesItsBlock == Shape /\ CacheInv => HandleSeesItsBlock
  BY DEF Shape, CacheInv, HandlesSettled, PagesMatch, HandleSeesItsBlock, LoadPCs, Slots, NoSlot,
         Blocks, NoBlock

\* ... the safety argument of Deref for BlockHandle holds: the page is initialized
\* with the block the owner of the handle asked for.
THEOREM HandlesReadTheirBlock ==
  ASSUME NoOverlap
  PROVE  Spec => []HandleSeesItsBlock
  BY CacheInvHolds, InvHandleSeesItsBlock, PTL

\* ... and so does the one of Send: a held page keeps its block until Drop.
THEOREM HeldPagesStay ==
  ASSUME NoOverlap
  PROVE  Spec => PinnedPageStays
<1>1. TypeOK /\ Shape /\ CacheInv /\ [Next]_vars =>
        [\A c \in Callers : pc[c] = "hold" /\ pc'[c] = "hold" =>
           BlockID'[slot[c]] = BlockID[slot[c]]]_vars
  <2> SUFFICES ASSUME TypeOK, Shape, CacheInv, Next, NEW c \in Callers,
                      pc[c] = "hold", pc'[c] = "hold"
               PROVE  BlockID'[slot[c]] = BlockID[slot[c]]
    BY DEF vars
  <2>1. CacheInv' /\ TypeOK' /\ Shape'
    BY CacheInvStep, TypedStep
  <2>2. slot'[c] = slot[c] /\ req'[c] = req[c]
    BY CallersFacts
    DEF Next, Read, Fetch, GetBlock, OutOfRange, Hit, WaitWhileLoading, Missing, Refuse, Evict, TakeSlot,
        ReadBlock, FinishLoad, AbortLoad, Notify, Release, Unpin, Merge, SeqHit, SeqMissing, SeqRefuse,
        SeqLoadWindow, SeqLoadFails, SeqAdvance, SeqEnd, TypeOK, cacheVars
  <2>3. slot[c] \in Slots /\ slot[c] # NoSlot
    BY DEF Shape, Slots, NoSlot
  <2>4. QED
    BY <2>1, <2>2, <2>3 DEF CacheInv, HandlesSettled
<1>2. QED
  BY CacheInvHolds, <1>1, PTL DEF Spec, PinnedPageStays

-----------------------------------------------------------------------------
(* The pool implements BlockStore *)

\* The request a reader has open, and, since a handle shows the block that was
\* asked for, what it holds.
Wanted == [r \in Readers |-> IF pc[r] \in {"idle", "hold", "end"} THEN NoBlock ELSE req[r]]
Held   == [r \in Readers |-> IF pc[r] = "hold" THEN req[r] ELSE NoBlock]
Shown  == [r \in Readers |-> IF pc[r] = "hold" THEN Page[slot[r]] ELSE NoBlock]

LEMMA ShownIsHeld ==
  /\ HandleSeesItsBlock => Shown = Held
  /\ HandleSeesItsBlock' => Shown' = Held'
  BY CallersFacts DEF HandleSeesItsBlock, Shown, Held

LEMMA ReadImplements ==
  ASSUME TypeOK, Shape, NEW r \in Readers, Read(r)
  PROVE  \/ \E b \in 0 .. TotalBlockCount :
              Wanted[r] = NoBlock /\ Held[r] = NoBlock /\ Wanted' = [Wanted EXCEPT ![r] = b] /\ Held' = Held
         \/ /\ Wanted[r] # NoBlock
            /\ Held' = [Held EXCEPT ![r] = Wanted[r]] /\ Wanted' = [Wanted EXCEPT ![r] = NoBlock]
         \/ Wanted[r] # NoBlock /\ Wanted' = [Wanted EXCEPT ![r] = NoBlock] /\ Held' = Held
         \/ Held[r] # NoBlock /\ Held' = [Held EXCEPT ![r] = NoBlock] /\ Wanted' = Wanted
         \/ Wanted' = Wanted /\ Held' = Held
<1> USE CallersFacts DEF cacheVars
<1>a. /\ pc \in [Callers -> PCs] /\ req \in [Callers -> 0 .. TotalBlockCount]
      /\ \A c \in Readers : req[c] # NoBlock
  BY CacheAssumption DEF TypeOK, NoBlock
<1>1. ASSUME NEW b \in 0 .. TotalBlockCount, GetBlock(r, b)
      PROVE  Wanted[r] = NoBlock /\ Held[r] = NoBlock /\ Wanted' = [Wanted EXCEPT ![r] = b] /\ Held' = Held
  BY <1>1, <1>a DEF GetBlock, Wanted, Held
<1>2. CASE OutOfRange(r) \/ Refuse(r)
  <2>1. Wanted[r] # NoBlock /\ Wanted' = [Wanted EXCEPT ![r] = NoBlock] /\ Held' = Held
    BY <1>2, <1>a DEF OutOfRange, Refuse, Missing, Wanted, Held
  <2>2. QED
    BY <2>1
<1>3. CASE Hit(r)
  <2>1. /\ Wanted[r] # NoBlock
        /\ Held' = [Held EXCEPT ![r] = Wanted[r]] /\ Wanted' = [Wanted EXCEPT ![r] = NoBlock]
    BY <1>3, <1>a DEF Hit, Wanted, Held
  <2>2. QED
    BY <2>1
<1>4. CASE WaitWhileLoading(r) \/ Evict(r) \/ ReadBlock(r) \/ FinishLoad(r) \/ AbortLoad(r)
  <2>1. Wanted' = Wanted /\ Held' = Held
    BY <1>4, <1>a DEF WaitWhileLoading, Evict, TakeSlot, Missing, ReadBlock, FinishLoad, AbortLoad, Wanted, Held
  <2>2. QED
    BY <2>1
<1>5. CASE Notify(r)
  <2>1. /\ pc[r] = "notify" /\ req' = req
        /\ \A c \in Callers : pc'[c] = IF c = r THEN IF slot[r] = NoSlot THEN "idle" ELSE "hold"
                                       ELSE IF pc[c] = "wait" THEN "lookup" ELSE pc[c]
    BY <1>5 DEF Notify
  <2>2. \A c \in Readers : c # r => Wanted'[c] = Wanted[c] /\ Held'[c] = Held[c]
    BY <2>1 DEF Wanted, Held
  <2>3. Wanted[r] = req[r] /\ Wanted[r] # NoBlock /\ Held[r] = NoBlock /\ Wanted'[r] = NoBlock
    BY <1>a, <2>1 DEF Wanted, Held
  <2>4. CASE slot[r] = NoSlot
    <3>1. Held'[r] = NoBlock
      BY <2>1, <2>4 DEF Held
    <3>2. Held' = Held /\ Wanted' = [Wanted EXCEPT ![r] = NoBlock]
      BY <2>2, <2>3, <3>1 DEF Wanted, Held
    <3>3. QED
      BY <2>3, <3>2
  <2>5. CASE slot[r] # NoSlot
    <3>1. Held'[r] = req[r]
      BY <2>1, <2>5 DEF Held
    <3>2. Held' = [Held EXCEPT ![r] = Wanted[r]] /\ Wanted' = [Wanted EXCEPT ![r] = NoBlock]
      BY <2>2, <2>3, <3>1 DEF Wanted, Held
    <3>3. QED
      BY <2>3, <3>2
  <2>6. QED
    BY <2>4, <2>5
<1>6. CASE Release(r)
  <2>1. Held[r] # NoBlock /\ Held' = [Held EXCEPT ![r] = NoBlock] /\ Wanted' = Wanted
    BY <1>6, <1>a DEF Release, Unpin, Wanted, Held
  <2>2. QED
    BY <2>1
<1>7. QED
  BY <1>1, <1>2, <1>3, <1>4, <1>5, <1>6 DEF Read, Fetch

LEMMA MergeImplements ==
  ASSUME Readers = {}
  PROVE  Wanted' = Wanted /\ Shown' = Shown
  BY DEF Wanted, Shown

\* While searches and merges do not overlap, the pool is a BlockStore for its
\* readers: each gets the bytes of the block it asked for or nothing, and they do
\* not change until it drops the handle, whoever evicts, loads or fails meanwhile.
THEOREM PoolImplementsStore ==
  ASSUME NoOverlap
  PROVE  Spec => ImplementsStore
<1>1. Init => Store!StoreInit
  BY CallersFacts DEF Init, Store!StoreInit, NoBlock
<1>2. ASSUME TypeOK, Shape, HandleSeesItsBlock, HandleSeesItsBlock', [Next]_vars
      PROVE  [Store!StoreNext]_(Store!storeVars)
  <2>1. ASSUME NEW r \in Readers, Read(r) PROVE [Store!StoreNext]_(Store!storeVars)
    <3>1. Shown = Held /\ Shown' = Held'
      BY <1>2, ShownIsHeld
    <3>2. CASE \E b \in 0 .. TotalBlockCount : Wanted[r] = NoBlock /\ Held[r] = NoBlock
                 /\ Wanted' = [Wanted EXCEPT ![r] = b] /\ Held' = Held
      <4>1. \E b \in 0 .. TotalBlockCount : Store!Ask(r, b)
        BY <3>1, <3>2 DEF Store!Ask, Wanted, Shown
      <4>2. QED
        BY <4>1 DEF Store!StoreNext
    <3>3. CASE /\ Wanted[r] # NoBlock
               /\ Held' = [Held EXCEPT ![r] = Wanted[r]] /\ Wanted' = [Wanted EXCEPT ![r] = NoBlock]
      <4>1. Store!Deliver(r)
        BY <3>1, <3>3 DEF Store!Deliver, Wanted, Shown
      <4>2. QED
        BY <4>1 DEF Store!StoreNext
    <3>4. CASE Wanted[r] # NoBlock /\ Wanted' = [Wanted EXCEPT ![r] = NoBlock] /\ Held' = Held
      <4>1. Store!Decline(r)
        BY <3>1, <3>4 DEF Store!Decline, Wanted, Shown
      <4>2. QED
        BY <4>1 DEF Store!StoreNext
    <3>5. CASE Held[r] # NoBlock /\ Held' = [Held EXCEPT ![r] = NoBlock] /\ Wanted' = Wanted
      <4>1. Store!LetGo(r)
        BY <3>1, <3>5 DEF Store!LetGo, Wanted, Shown
      <4>2. QED
        BY <4>1 DEF Store!StoreNext
    <3>6. CASE Wanted' = Wanted /\ Held' = Held
      BY <3>1, <3>6 DEF Store!storeVars, Wanted, Shown
    <3>7. QED
      BY <1>2, <2>1, <3>2, <3>3, <3>4, <3>5, <3>6, ReadImplements
  <2>2. ASSUME NEW m \in Mergers, Merge(m) PROVE [Store!StoreNext]_(Store!storeVars)
    BY <2>2, MergeImplements DEF Store!storeVars, Wanted, Shown, NoOverlap
  <2>3. CASE UNCHANGED vars
    BY <2>3 DEF vars, Store!storeVars
  <2>4. QED
    BY <1>2, <2>1, <2>2, <2>3 DEF Next
<1>3. QED
  BY <1>1, <1>2, HandlesReadTheirBlock, Typed, PTL DEF Spec, ImplementsStore, Store!StoreSpec

-----------------------------------------------------------------------------
(* The sweep of the eviction hand *)

LEMMA MultiplesApart ==
  ASSUME NEW n \in Nat \ {0}, NEW a \in Int, NEW b \in Int, a < b
  PROVE  a * n + n <= b * n
<1>1. PICK d \in Nat : b = a + 1 + d
  BY b - a - 1 \in Nat
<1>2. (a + 1 + d) * n = a * n + n + d * n
  OBVIOUS
<1>3. d * n \in Nat
  OBVIOUS
<1>4. QED
  BY <1>1, <1>2, <1>3

LEMMA Division ==
  ASSUME NEW n \in Nat \ {0}, NEW x \in Int
  PROVE  x % n \in 0 .. n - 1 /\ \E p \in Int : x = p * n + (x % n)
<1>1. x % n \in 0 .. n - 1 /\ x \div n \in Int
  OBVIOUS
<1>2. x = n * (x \div n) + (x % n)
  OBVIOUS
<1>3. x = (x \div n) * n + (x % n)
  BY <1>1, <1>2
<1>4. QED
  BY <1>1, <1>3

LEMMA RemainderIs ==
  ASSUME NEW n \in Nat \ {0}, NEW q \in Int, NEW r \in 0 .. n - 1
  PROVE  (q * n + r) % n = r
<1>1. q * n + r \in Int /\ q * n \in Int
  OBVIOUS
<1>2. PICK p \in Int, s \in 0 .. n - 1 : q * n + r = p * n + s /\ (q * n + r) % n = s
  BY <1>1, Division
<1>3. p * n \in Int
  OBVIOUS
<1>4. ~(p < q)
  BY <1>1, <1>2, <1>3, MultiplesApart
<1>5. ~(q < p)
  BY <1>1, <1>2, <1>3, MultiplesApart
<1>6. p = q
  BY <1>4, <1>5
<1>7. QED
  BY <1>1, <1>2, <1>6

\* SlotCount probes in a row look at every slot, when BCP_EvictSlot does not wrap.
LEMMA SweepSeesEverySlot ==
  ASSUME TypeOK, NoWrap, NEW s \in Slots
  PROVE  \E i \in Probes : Candidate(i) = s
<1> DEFINE S == SlotCount
           M == EvictModulus
           e == EvictSlot
<1>1. S \in Nat \ {0} /\ M \in Nat \ {0} /\ e \in 0 .. M - 1 /\ s \in 0 .. S - 1
  BY CacheAssumption DEF TypeOK, Slots
<1>2. e + S <= M
  BY DEF NoWrap
<1> HIDE DEF S, M, e
<1>3. PICK q \in Int, r \in 0 .. S - 1 : e = q * S + r
  <2>1. e \in Int
    BY <1>1
  <2>2. e % S \in 0 .. S - 1 /\ \E q \in Int : e = q * S + (e % S)
    BY <1>1, <2>1, Division
  <2>3. QED
    BY <2>2
<1>4. PICK p \in Int, i \in 0 .. S - 1 : e + i = p * S + s
  <2>1. q * S \in Int /\ (q + 1) * S = q * S + S
    BY <1>1
  <2>2. CASE s >= r
    <3>1. s - r \in 0 .. S - 1 /\ e + (s - r) = q * S + s
      BY <1>1, <1>3, <2>1, <2>2
    <3>2. QED
      BY <3>1
  <2>3. CASE s < r
    <3>1. s - r + S \in 0 .. S - 1 /\ e + (s - r + S) = (q + 1) * S + s /\ q + 1 \in Int
      BY <1>1, <1>3, <2>1, <2>3
    <3>2. QED
      BY <3>1
  <2>4. QED
    BY <1>1, <2>2, <2>3
<1>5. ((e + i) % M) % S = s
  <2>1. e + i \in Int /\ p * S \in Int
    BY <1>1
  <2>2. e + i \in 0 .. M - 1 /\ 0 * M + (e + i) = e + i
    BY <1>1, <1>2, <2>1
  <2>3. (e + i) % M = e + i
    BY <1>1, <2>2, RemainderIs
  <2>4. (p * S + s) % S = s
    BY <1>1, RemainderIs
  <2>5. QED
    BY <1>4, <2>3, <2>4
<1>6. QED
  BY <1>4, <1>5 DEF Probes, Candidate, S, M, e

\* A reader leaves GetBlock without a handle only through a sweep that found nothing.
LEMMA RefusalMeansFull ==
  ASSUME TypeOK, Next, NoWrap, NEW r \in Readers,
         pc[r] = "lookup", pc'[r] = "idle", req[r] \in Blocks
  PROVE  \A s \in Slots : ~Free(s)
<1>1. pc \in [Callers -> PCs] /\ r \in Callers
  BY DEF TypeOK, Callers
<1>2. Refuse(r)
  <2>1. ASSUME NEW c \in Readers, Read(c) PROVE Refuse(r)
    <3>1. \A b : ~GetBlock(c, b)
      BY <1>1, <2>1 DEF GetBlock
    <3>2. ~OutOfRange(c) /\ ~Hit(c) /\ ~WaitWhileLoading(c)
      BY <1>1, <2>1 DEF OutOfRange, Hit, WaitWhileLoading
    <3>3. ~Evict(c) /\ ~ReadBlock(c) /\ ~FinishLoad(c) /\ ~AbortLoad(c)
      BY <1>1, <2>1 DEF Evict, TakeSlot, ReadBlock, FinishLoad, AbortLoad
    <3>4. ~Notify(c) /\ ~Release(c)
      BY <1>1, <2>1 DEF Notify, Release, Unpin
    <3>5. Refuse(c)
      BY <2>1, <3>1, <3>2, <3>3, <3>4 DEF Read, Fetch
    <3>6. c = r
      BY <1>1, <3>5 DEF Refuse
    <3>7. QED
      BY <3>5, <3>6
  <2>2. ASSUME NEW m \in Mergers, Merge(m) PROVE FALSE
    BY <1>1, <2>2 DEF Merge, SeqHit, SeqRefuse, SeqMissing, SeqLoadWindow, SeqLoadFails,
                            SeqAdvance, Unpin, SeqEnd
  <2>3. QED
    BY <2>1, <2>2 DEF Next
<1>3. \A i \in Probes : ~Free(Candidate(i))
  BY <1>2 DEF Refuse
<1>4. QED
  BY <1>3, SweepSeesEverySlot

\* For every number of slots, GetBlock gives up on a missing block only when every slot
\* is pinned or being loaded: what is left is the one sweep in 2^32 probes that crosses
\* the wrap of BCP_EvictSlot.
THEOREM GivesUpOnlyWhenFull == Spec => RefusedOnlyWhenFull
<1>1. TypeOK /\ [Next]_vars =>
        [NoWrap => \A r \in Readers :
           pc[r] = "lookup" /\ pc'[r] = "idle" /\ req[r] \in Blocks => \A s \in Slots : ~Free(s)]_vars
  BY RefusalMeansFull
<1>2. QED
  BY <1>1, TypeCorrect, PTL DEF Spec, RefusedOnlyWhenFull
=============================================================================
