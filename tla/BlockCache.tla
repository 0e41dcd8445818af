------------------------------ MODULE BlockCache ------------------------------
(***************************************************************************)
(* One BlockCachePool of an IndexBlockTable (IndexAccess/BlockTable.rs):   *)
(* a fixed number of page slots that cache the 4 KB blocks of one section  *)
(* of the index file.                                                      *)
(*                                                                         *)
(* Two kinds of caller pin pages:                                          *)
(*   - a reader (an AdvancedIndexReader, or a term lookup) calls           *)
(*     GetBlock(.., sequential = false) and runs ProcessGetBlockLocked     *)
(*     itself: the direct access mode, the default;                        *)
(*   - a merger (the LeafTermBlockView cursor of IndexContext::Merge)      *)
(*     visits the blocks in order with GetBlock(.., sequential = true).    *)
(*                                                                         *)
(* An action is one critical section of BCP_State, or one step taken       *)
(* without the lock (the file read, the notification).                     *)
(***************************************************************************)
EXTENDS Integers, FiniteSets

CONSTANTS
  Readers,          \* callers of GetBlock(.., false)
  Mergers,          \* callers of GetBlock(.., true)
  TotalBlockCount,  \* BCP_TotalBlockCount: blocks of the file section
  SlotCount,        \* BCP_SlotCount: page slots
  EvictModulus,     \* values of BCP_EvictSlot before it wraps: 2^32 for the u32
  ReadsMayFail      \* whether FileAccess may report a failed or short read

ASSUME CacheAssumption ==
  /\ IsFiniteSet(Readers)
  /\ IsFiniteSet(Mergers)
  /\ Readers \cap Mergers = {}
  /\ TotalBlockCount \in Nat \ {0}
  /\ SlotCount \in 1..TotalBlockCount        \* Init takes slotCount.min(blockCount)
  /\ EvictModulus \in Nat \ {0}
  /\ ReadsMayFail \in BOOLEAN

VARIABLES
  LogicTable,  \* BCP_LogicTable: block -> slot, NoSlot when it is not resident
  BlockID,     \* BCP_SlotTable[s].BlockID, NoBlock for an empty slot
  Ref,         \* BCP_SlotTable[s].Ref: the pins
  Loading,     \* the slots whose BCP_SlotTable[s].Loading is set
  EvictSlot,   \* BCP_EvictSlot
  Page,        \* the block whose bytes are in a slot's page, Torn after a bad read
  pc,          \* where each caller is
  req,         \* the block it asks for (BlockRequest.BlockSeq; a merger's m_LeafBlockID)
  slot         \* the slot it was given (BlockRequest.Slot, BlockHandle.slot)

cacheVars == <<LogicTable, BlockID, Ref, Loading, EvictSlot, Page>>
vars == <<LogicTable, BlockID, Ref, Loading, EvictSlot, Page, pc, req, slot>>

Callers == Readers \cup Mergers
Blocks  == 0 .. TotalBlockCount - 1
Slots   == 0 .. SlotCount - 1
NoSlot  == -1
NoBlock == -1
Torn    == -2

(***************************************************************************)
(* idle     outside GetBlock, no handle                                    *)
(* lookup   about to enter the critical section of ProcessGetBlockLocked   *)
(* wait     in BCP_StateCv.wait                                            *)
(* read     owns a slot marked Loading, file read not done                 *)
(* loaded / failed   file read done, BCP_State not taken again yet         *)
(* notify   BCP_State released, notify_all not called yet                  *)
(* hold     owns a BlockHandle                                             *)
(* end      a merger's cursor has left its loop                            *)
(***************************************************************************)
PCs == {"idle", "lookup", "wait", "read", "loaded", "failed", "notify", "hold", "end"}

Init ==
  /\ LogicTable = [b \in Blocks |-> IF b < SlotCount THEN b ELSE NoSlot]
  /\ BlockID    = [s \in Slots |-> s]
  /\ Ref        = [s \in Slots |-> 0]
  /\ Loading    = {}
  /\ EvictSlot  = SlotCount % EvictModulus
  /\ Page       = [s \in Slots |-> s]
  /\ pc         = [c \in Callers |-> "idle"]
  /\ req        = [c \in Callers |-> 0]
  /\ slot       = [c \in Callers |-> NoSlot]

-----------------------------------------------------------------------------
(* GetBlock(kind, blockSeq, false), direct mode *)

\* The block may also be one past the end: a continuation of the last block.
GetBlock(r, b) ==
  /\ pc[r] = "idle"
  /\ pc'  = [pc EXCEPT ![r] = "lookup"]
  /\ req' = [req EXCEPT ![r] = b]
  /\ UNCHANGED <<cacheVars, slot>>

Resident(b) == b \in Blocks /\ LogicTable[b] # NoSlot

\* Fault: a block counts as ready while it is being loaded.
ReadyWhileLoading(b) == Resident(b) /\ BlockID[LogicTable[b]] = b

Ready(b)    == Resident(b) /\ LogicTable[b] \notin Loading /\ BlockID[LogicTable[b]] = b
InFlight(b) == Resident(b) /\ LogicTable[b] \in Loading

\* blockSeq >= BCP_TotalBlockCount: no handle.
OutOfRange(r) ==
  /\ pc[r] = "lookup"
  /\ req[r] \notin Blocks
  /\ pc' = [pc EXCEPT ![r] = "idle"]
  /\ UNCHANGED <<cacheVars, req, slot>>

\* Fault: the hit forgets to count its pin.
HitWithoutPin(r) ==
  /\ pc[r] = "lookup"
  /\ Ready(req[r])
  /\ slot' = [slot EXCEPT ![r] = LogicTable[req[r]]]
  /\ pc'   = [pc EXCEPT ![r] = "hold"]
  /\ UNCHANGED <<cacheVars, req>>

Hit(r) ==
  /\ pc[r] = "lookup"
  /\ Ready(req[r])
  /\ Ref'  = [Ref EXCEPT ![LogicTable[req[r]]] = @ + 1]
  /\ slot' = [slot EXCEPT ![r] = LogicTable[req[r]]]
  /\ pc'   = [pc EXCEPT ![r] = "hold"]
  /\ UNCHANGED <<LogicTable, BlockID, Loading, EvictSlot, Page, req>>

WaitWhileLoading(r) ==
  /\ pc[r] = "lookup"
  /\ InFlight(req[r])
  /\ pc' = [pc EXCEPT ![r] = "wait"]
  /\ UNCHANGED <<cacheVars, req, slot>>

Missing(r) ==
  /\ pc[r] = "lookup"
  /\ req[r] \in Blocks
  /\ ~Ready(req[r])
  /\ ~InFlight(req[r])

\* Fault: the sweep overlooks the pins.
FreeUnlessLoading(s) == s \notin Loading

Free(s) == Ref[s] = 0 /\ s \notin Loading

\* The i-th slot the eviction sweep looks at: BCP_EvictSlot is a wrapping u32.
Candidate(i) == ((EvictSlot + i) % EvictModulus) % SlotCount

\* Fault: the sweep stops one slot short.
ProbesOneShort == 0 .. SlotCount - 2

Probes == 0 .. SlotCount - 1

\* The sweep found no slot: no handle, but the hand has moved.
Refuse(r) ==
  /\ Missing(r)
  /\ \A i \in Probes : ~Free(Candidate(i))
  /\ EvictSlot' = (EvictSlot + SlotCount) % EvictModulus
  /\ pc' = [pc EXCEPT ![r] = "idle"]
  /\ UNCHANGED <<LogicTable, BlockID, Ref, Loading, Page, req, slot>>

\* Fault: the hand does not wrap.
TakeSlotNoWrap(r, i, s) ==
  /\ EvictSlot' = EvictSlot + i + 1
  /\ LogicTable' = [b \in Blocks |-> IF b = req[r] THEN s
                                     ELSE IF b = BlockID[s] THEN NoSlot
                                     ELSE LogicTable[b]]
  /\ BlockID' = [BlockID EXCEPT ![s] = req[r]]
  /\ Ref'     = [Ref EXCEPT ![s] = 1]
  /\ Loading' = Loading \cup {s}
  /\ slot'    = [slot EXCEPT ![r] = s]
  /\ pc'      = [pc EXCEPT ![r] = "read"]
  /\ UNCHANGED <<Page, req>>

\* The sweep found slot s at probe i: its block leaves, the new one is Loading.
TakeSlot(r, i, s) ==
  /\ EvictSlot' = (EvictSlot + i + 1) % EvictModulus
  /\ LogicTable' = [b \in Blocks |-> IF b = req[r] THEN s
                                     ELSE IF b = BlockID[s] THEN NoSlot
                                     ELSE LogicTable[b]]
  /\ BlockID' = [BlockID EXCEPT ![s] = req[r]]
  /\ Ref'     = [Ref EXCEPT ![s] = 1]
  /\ Loading' = Loading \cup {s}
  /\ slot'    = [slot EXCEPT ![r] = s]
  /\ pc'      = [pc EXCEPT ![r] = "read"]
  /\ UNCHANGED <<Page, req>>

Evict(r) ==
  /\ Missing(r)
  /\ \E i \in Probes :
       /\ Free(Candidate(i))
       /\ \A j \in 0 .. i - 1 : ~Free(Candidate(j))
       /\ TakeSlot(r, i, Candidate(i))

\* file.ReadBlock, outside BCP_State.
ReadBlock(r) ==
  /\ pc[r] = "read"
  /\ \/ /\ Page' = [Page EXCEPT ![slot[r]] = req[r]]
        /\ pc'   = [pc EXCEPT ![r] = "loaded"]
     \/ /\ ReadsMayFail
        /\ Page' = [Page EXCEPT ![slot[r]] = Torn]
        /\ pc'   = [pc EXCEPT ![r] = "failed"]
  /\ UNCHANGED <<LogicTable, BlockID, Ref, Loading, EvictSlot, req, slot>>

FinishLoad(r) ==
  /\ pc[r] = "loaded"
  /\ Loading' = Loading \ {slot[r]}
  /\ pc' = [pc EXCEPT ![r] = "notify"]
  /\ UNCHANGED <<LogicTable, BlockID, Ref, EvictSlot, Page, req, slot>>

\* Fault: the failed load leaves the block mapped to its slot.
AbortLoadKeepsMapping(r) ==
  /\ pc[r] = "failed"
  /\ BlockID' = [BlockID EXCEPT ![slot[r]] = NoBlock]
  /\ Ref'     = [Ref EXCEPT ![slot[r]] = 0]
  /\ Loading' = Loading \ {slot[r]}
  /\ slot'    = [slot EXCEPT ![r] = NoSlot]
  /\ pc'      = [pc EXCEPT ![r] = "notify"]
  /\ UNCHANGED <<LogicTable, EvictSlot, Page, req>>

\* Fault: the failed load keeps its pin.
AbortLoadKeepsPin(r) ==
  /\ pc[r] = "failed"
  /\ LogicTable' = [LogicTable EXCEPT ![req[r]] = IF @ = slot[r] THEN NoSlot ELSE @]
  /\ BlockID'    = [BlockID EXCEPT ![slot[r]] = NoBlock]
  /\ Loading'    = Loading \ {slot[r]}
  /\ slot'       = [slot EXCEPT ![r] = NoSlot]
  /\ pc'         = [pc EXCEPT ![r] = "notify"]
  /\ UNCHANGED <<Ref, EvictSlot, Page, req>>

\* The whole slot entry is reset, whatever its reference count says.
AbortLoad(r) ==
  /\ pc[r] = "failed"
  /\ LogicTable' = [LogicTable EXCEPT ![req[r]] = IF @ = slot[r] THEN NoSlot ELSE @]
  /\ BlockID'    = [BlockID EXCEPT ![slot[r]] = NoBlock]
  /\ Ref'        = [Ref EXCEPT ![slot[r]] = 0]
  /\ Loading'    = Loading \ {slot[r]}
  /\ slot'       = [slot EXCEPT ![r] = NoSlot]
  /\ pc'         = [pc EXCEPT ![r] = "notify"]
  /\ UNCHANGED <<EvictSlot, Page, req>>

\* Fault: only a successful load wakes the waiters.
NotifyOnSuccess(r) ==
  /\ pc[r] = "notify"
  /\ pc' = [c \in Callers |-> IF c = r THEN IF slot[r] = NoSlot THEN "idle" ELSE "hold"
                              ELSE IF pc[c] = "wait" /\ slot[r] # NoSlot THEN "lookup"
                              ELSE pc[c]]
  /\ UNCHANGED <<cacheVars, req, slot>>

\* BCP_StateCv.notify_all, then RequestHandle: None when the address is 0.
Notify(r) ==
  /\ pc[r] = "notify"
  /\ pc' = [c \in Callers |-> IF c = r THEN IF slot[r] = NoSlot THEN "idle" ELSE "hold"
                              ELSE IF pc[c] = "wait" THEN "lookup"
                              ELSE pc[c]]
  /\ UNCHANGED <<cacheVars, req, slot>>

\* Drop for BlockHandle.
Unpin(c) ==
  /\ pc[c] = "hold"
  /\ Ref'  = [Ref EXCEPT ![slot[c]] = IF @ > 0 THEN @ - 1 ELSE 0]
  /\ slot' = [slot EXCEPT ![c] = NoSlot]
  /\ pc'   = [pc EXCEPT ![c] = "idle"]
  /\ UNCHANGED <<LogicTable, BlockID, Loading, EvictSlot, Page>>

Release(r) == Unpin(r) /\ UNCHANGED req

-----------------------------------------------------------------------------
(* GetBlock(kind, blockSeq, true), called by the merge cursor: GoCurrent *)

\* A resident block is pinned without a look at its Loading flag.
SeqHit(m) ==
  /\ pc[m] = "idle"
  /\ Resident(req[m])
  /\ Ref'  = [Ref EXCEPT ![LogicTable[req[m]]] = @ + 1]
  /\ slot' = [slot EXCEPT ![m] = LogicTable[req[m]]]
  /\ pc'   = [pc EXCEPT ![m] = "hold"]
  /\ UNCHANGED <<LogicTable, BlockID, Loading, EvictSlot, Page, req>>

SeqMissing(m) ==
  /\ pc[m] = "idle"
  /\ req[m] \in Blocks
  /\ ~Resident(req[m])

\* LoadSequentialWindow refuses while anything is pinned, and GoCurrent takes
\* the missing handle for the end of the terms.
SeqRefuse(m) ==
  /\ SeqMissing(m)
  /\ \E s \in Slots : Ref[s] > 0
  /\ pc' = [pc EXCEPT ![m] = "end"]
  /\ UNCHANGED <<cacheVars, req, slot>>

WindowLength(b) ==
  IF SlotCount < TotalBlockCount - b THEN SlotCount ELSE TotalBlockCount - b

\* The mappings of the blocks in the slots are dropped before the read.
ClearedTable ==
  [b \in Blocks |-> IF \E s \in Slots : BlockID[s] = b THEN NoSlot ELSE LogicTable[b]]

\* LoadSequentialWindow reads a whole window under BCP_State; GetBlock then
\* pins its first slot.
SeqLoadWindow(m) ==
  /\ SeqMissing(m)
  /\ \A s \in Slots : Ref[s] = 0
  /\ LET b == req[m]
         n == WindowLength(req[m])
     IN  /\ LogicTable' = [x \in Blocks |-> IF x \in b .. b + n - 1 THEN x - b
                                            ELSE ClearedTable[x]]
         /\ BlockID'    = [s \in Slots |-> IF s < n THEN b + s ELSE NoBlock]
         /\ Page'       = [s \in Slots |-> IF s < n THEN b + s ELSE Page[s]]
         /\ EvictSlot'  = n % EvictModulus
  /\ Ref'     = [s \in Slots |-> IF s = 0 THEN 1 ELSE 0]
  /\ Loading' = {}
  /\ slot'    = [slot EXCEPT ![m] = 0]
  /\ pc'      = [pc EXCEPT ![m] = "hold"]
  /\ UNCHANGED req

\* The window read failed: the slots stay empty and the cursor ends.
SeqLoadFails(m) ==
  /\ ReadsMayFail
  /\ SeqMissing(m)
  /\ \A s \in Slots : Ref[s] = 0
  /\ LogicTable' = ClearedTable
  /\ BlockID'    = [s \in Slots |-> NoBlock]
  /\ Page'       = [s \in Slots |-> IF s < WindowLength(req[m]) THEN Torn ELSE Page[s]]
  /\ Loading'    = {}
  /\ pc'         = [pc EXCEPT ![m] = "end"]
  /\ UNCHANGED <<Ref, EvictSlot, req, slot>>

\* GoCurrent drops the leaf it has read and moves to the next block.
SeqAdvance(m) == Unpin(m) /\ req' = [req EXCEPT ![m] = @ + 1]

SeqEnd(m) ==
  /\ pc[m] = "idle"
  /\ req[m] = TotalBlockCount
  /\ pc' = [pc EXCEPT ![m] = "end"]
  /\ UNCHANGED <<cacheVars, req, slot>>

-----------------------------------------------------------------------------

\* What a caller inside GetBlock does next.
Fetch(r) ==
  \/ OutOfRange(r) \/ Hit(r) \/ WaitWhileLoading(r) \/ Refuse(r) \/ Evict(r)
  \/ ReadBlock(r) \/ FinishLoad(r) \/ AbortLoad(r) \/ Notify(r)

Read(r) == (\E b \in 0 .. TotalBlockCount : GetBlock(r, b)) \/ Fetch(r) \/ Release(r)

Merge(m) ==
  \/ SeqHit(m) \/ SeqRefuse(m) \/ SeqLoadWindow(m) \/ SeqLoadFails(m)
  \/ SeqAdvance(m) \/ SeqEnd(m)

Next == (\E r \in Readers : Read(r)) \/ (\E m \in Mergers : Merge(m))

Spec == Init /\ [][Next]_vars

\* A thread inside GetBlock is scheduled and its file read returns. Nothing
\* obliges a caller to call GetBlock, or to drop the handle it owns.
Fairness == \A r \in Readers : WF_vars(Fetch(r))

FairSpec == Spec /\ Fairness

-----------------------------------------------------------------------------
(* Properties *)

\* The types of the tables, and of the callers' state.
TypeOK ==
  /\ LogicTable \in [Blocks -> Slots \cup {NoSlot}]
  /\ BlockID \in [Slots -> Blocks \cup {NoBlock}]
  /\ Ref \in [Slots -> Nat]
  /\ Loading \in SUBSET Slots
  /\ EvictSlot \in 0 .. EvictModulus - 1
  /\ Page \in [Slots -> Blocks \cup {Torn}]
  /\ pc \in [Callers -> PCs]
  /\ req \in [Callers -> 0 .. TotalBlockCount]
  /\ slot \in [Callers -> Slots \cup {NoSlot}]

\* Searches and a merge never use the pool at the same time.
NoOverlap == Readers = {} \/ Mergers = {}

Holders(s) == {c \in Callers : slot[c] = s}

\* BCP_LogicTable and BCP_SlotTable are inverses of each other in every state
\* another thread can see: no block is cached twice, no slot is orphaned. Each
\* is written in several places, and a failed read undoes an eviction.
TablesAgree == \A b \in Blocks, s \in Slots : LogicTable[b] = s <=> BlockID[s] = b

\* A slot's reference count is the number of handles and loads that use it:
\* AbortLoad resets it to 0 and so relies on nobody else having pinned the slot.
PinsExact == \A s \in Slots : Ref[s] = Cardinality(Holders(s))

\* The safety argument of Deref for BlockHandle: the page a handle points at is
\* initialized, with the bytes of the block its owner asked for.
HandleSeesItsBlock == \A c \in Callers : pc[c] = "hold" => Page[slot[c]] = req[c]

\* The safety argument of Send for BlockHandle: a handle owns a cache pin, so the
\* page cannot be evicted until Drop.
PinnedPageStays ==
  [][\A c \in Callers : pc[c] = "hold" /\ pc'[c] = "hold" => BlockID'[slot[c]] = BlockID[slot[c]]]_vars

\* A pin is never leaked: when a slot's users are gone its count is back to 0,
\* so that it can be evicted again, and a sequential window loaded. True even
\* when searches, a merge and failing reads overlap.
NoPinLeak == \A s \in Slots : Ref[s] <= Cardinality(Holders(s))

\* The sweep that starts now ends before BCP_EvictSlot wraps.
NoWrap == EvictSlot + SlotCount <= EvictModulus

\* GetBlock gives up on a missing block only when every slot is pinned or being
\* loaded: the sweep of SlotCount probes looks at every slot, unless it crosses
\* the wrap of the 32-bit BCP_EvictSlot, which the slots need not divide.
RefusedOnlyWhenFull ==
  [][NoWrap => \A r \in Readers :
       pc[r] = "lookup" /\ pc'[r] = "idle" /\ req[r] \in Blocks => \A s \in Slots : ~Free(s)]_vars

\* No wake-up is lost: a thread in BCP_StateCv.wait is woken, however the load it
\* waits for ends, and whoever pins or evicts in between.
WaitersAreWoken == \A r \in Readers : pc[r] = "wait" ~> pc[r] # "wait"

\* The pool implements the BlockStore its readers count on.
Store == INSTANCE BlockStore WITH
  Clients <- Readers,
  Blocks  <- 0 .. TotalBlockCount,
  Nothing <- NoBlock,
  want    <- [r \in Readers |-> IF pc[r] \in {"idle", "hold", "end"} THEN NoBlock ELSE req[r]],
  got     <- [r \in Readers |-> IF pc[r] = "hold" THEN Page[slot[r]] ELSE NoBlock]

\* Every reader is given the bytes of the block it asked for, or nothing, and they
\* never change under its handle.
ImplementsStore == Store!StoreSpec
=============================================================================
