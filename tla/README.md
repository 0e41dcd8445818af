# MoonShot / RustBlade: TLA+ models, checks and proofs

MoonShot is a full-text and vector search engine. `src/RustBlade` is its Rust
implementation (a port of the C++ tree at the top of `src/`); the modules here
model the Rust code. Paths below are relative to `src/RustBlade/src`.

## 1. Inventory

| Part | State it keeps | Operations | What is hard | Correct means |
|---|---|---|---|---|
| Block cache pool (`IndexAccess/BlockTable.rs`) | `BCP_LogicTable` (block to slot), `BCP_SlotTable` (block, pins, loading flag), pages, eviction hand | `GetBlock`, `ProcessGetBlockLocked`, `LoadSequentialWindow`, drop of a `BlockHandle` | file reads outside the lock, condition-variable waits, failed reads, eviction under pins, wrap of the hand | a handle shows the block that was asked for until it is dropped; no pin leaks; no waiter is forgotten |
| Block worker thread (`BlockTable.rs`) | request queue of bounded length, thread, exit flag | `TryPinReadyOrWait`, `SubmitBlockRequest`, `BlockThreadMain`, `SetDirectBlockAccessEnabled` | one condition variable for two kinds of waiter, mode switches under load | every request is answered; switching modes ends |
| Search queue (`IndexAccess/IndexContext.rs`) | task queue, stop flag, worker threads with a snapshot of the context | `EnqueueWithMode`, `SearchWorkerLoop`, `StopSearchWorkers` | notification after unlock, stop while tasks are queued, panics | every search ends, against the context it was enqueued for |
| Index life cycle (`IndexContext.rs`, `IndexSerializer.rs`, `bin/moon.rs`) | posting store, loaded tables, write tables, delta context, files | `AddDocument`, `Build`, `SaveIndex`, `Merge`, `LoadIndex`, `index_path` | in-place writes, remove and rename, crashes, unreadable files, state that outlives a reload | IDs are unique and match DocData positions; saved documents stay |
| Posting store and blocks (`PostingStore.rs`, `IndexSerializer.rs`) | posting lists, index and leaf pages | `AddPosting`, `BuildBlocks` | lists over page boundaries, continuation blocks, full leaves | what was added is read back |
| Merge (`IndexContext.rs`) | two cursors, a batch of limited size, the tables of directories | `Merge`, `LeafTermBlockView`, `DumpBatch`, `AppendMergedDocData` | full batches, missing pages taken for the end, two parsers of one format, renumbered prefixes | the merged index has the postings of both, and their paths as the table reads them back |
| Readers (`IndexReaderImpl.rs`, `AdvancedIndexReader.rs`, `UnifiedDecoder.rs`) | position in each posting list, cached documents of the children | `GoNext`, `GoUntil`, `GetScore` of And / Or / weak-And / Boost / Not / vector | skipping by header, ends of lists, cached positions, a boost that lags | exactly the matching documents, in order, with their scores |
| Executor (`Executor/IndexSearchExecutor.rs`) | bounded heap | `ExecuteWithVector`, `ExecuteBounded` | ties, the heap at its limit, a document without DocData | the K best |
| Query compiler (`Compiler/`) | none | `CompileWithMode` | precedence, empty parts, repeated and one-letter words | the tree means the query |
| Term lookup (`BlockTable.rs`, `HashFunctions.rs`) | head entries, perfect hash | `FindTermData` | boundaries between leaves | finds a term exactly when it is there |
| Vector index, tokenizer, embeddings | graph, vectors | search, build | floating point | not modelled |
| moon, shennong, WASM viewer | one context | commands, HTTP | I/O | moon's interactive session and batch commands are modelled |

How they interact: readers, term lookup and the merge cursor call the block
cache; search workers run compiler, readers and executor on a snapshot of the
context (`SearchRuntime`); every operation that changes the context stops the
workers first, except `Merge`, which stops them when it has written its
temporary file, and `GetWriter`. `PROJECT.json` lists the hazards, each at its line.

## 2. Modules

| Module | Models | Uses |
|---|---|---|
| `BlockStore` | what a pool promises its readers (abstract) | |
| `BlockCache` | one `BlockCachePool` in direct mode, and the merge cursor | refines `BlockStore` |
| `BlockWorker` | the worker mode and the switch between modes | extends `BlockCache` |
| `SearchService` | what the search queue promises (abstract) | |
| `SearchQueue` | the search queue and its workers | refines `SearchService` |
| `IndexLifecycle` | documents, saves, deltas, merges, batches and crashes under the commands of moon | |
| `PostingBytes` | the bytes of a posting list and the two parsers that cut them | |
| `PostingBlocks` | `AddPosting` and `BuildBlocks` | extends `PostingBytes` |
| `PostingReader` | the decoder, the lookup of a term, `AdvancedIndexReader` | extends `PostingBlocks` |
| `DocPaths` | the paths of DocData and their table of directories | |
| `IndexMerge` | `Merge` | extends `PostingBlocks`, `DocPaths` |
| `IndexContents` | what a search finds in the indexes built and merged | extends `IndexMerge`, `PostingReader` |
| `QueryCompiler` | `IndexSearchCompiler` | |
| `IndexReaders` | the readers and the function that builds them | extends `PostingReader`, `QueryCompiler` |
| `SearchPipeline` | a search from the query to the answer | extends `IndexReaders` |
| `BlockCacheProofs` | theorems about `BlockCache` | extends it |
| `BlockWorkerProofs` | theorems about `BlockWorker` | extends it and `BlockCacheProofs` |
| `SearchQueueProofs` | theorems about `SearchQueue` | extends it |
| `IndexLifecycleProofs` | theorems about `IndexLifecycle` | extends it |
| `SequenceLemmas` | facts about sequences, prefixes, joined sequences; induction over the naturals | |
| `MergeLemmas` | lemmas about the operators of `PostingBytes`, `PostingBlocks` and `IndexMerge` | extends `IndexMerge` |
| `DocPathsProofs` | lemmas about `DocPaths` | extends it |
| `IndexMergeProofs` | theorems about `IndexMerge` | extends `MergeLemmas`, `DocPathsProofs` |
| `MC...` | the instances TLC checks | |

Definitions with a comment that begins with "Fault:" are not part of a
specification. Each is a plausible wrong version of the definition it precedes,
and the property named with it in `PROJECT.json` fails when it takes that place.

### BlockCache

A caller is a reader (`GetBlock(.., false)`) or a merger (the cursor of `Merge`,
`GetBlock(.., true)`); its `pc` says where in `GetBlock` it is. An action is one
critical section of `BCP_State`, or one step outside it: the file read
(`ReadBlock`) and the notification (`Notify`) are separate actions because other
threads run between them. `Page[s]` is the block whose bytes are in slot `s`,
`Torn` after a failed or short read. `Init` is the pool as `IndexBlockTable::Init`
leaves it: the first blocks are resident. A request for the block after the last
one stands for any out-of-range request. Statistics are left out; addresses are
slots; a lock that is poisoned (a panic inside a critical section) is not modelled.

### BlockWorker

A reader's `phase` says which branch of `GetBlock` it took and where it is;
`ProcessGetBlockLocked` is `Fetch` of `BlockCache`, run by the reader in direct mode
and by the block thread for a queued request. `BlockThreadMain` reads its exit flag
and then waits: `Doze` and `Sleep` are two actions, because `ExitBlockThread` takes
no lock and can come between them. Condition variables wake nobody without a
notification: a spurious wake-up is permitted but not promised by the library, so a
liveness property may not count on it, and every wait is in a loop that checks again.

### SearchQueue

The owner of the context is one thread (`&mut self`). A change of the context is a
`generation`; a worker's `runtime` is the generation of its snapshot, and a
search's `result` is the generation its answer was computed on. A panic in
`ExecuteSearchTask` drops the sender: `SearchTask::Wait` returns no results (`Lost`).

### IndexLifecycle

A document is a number and `ids` the ID it was given; an index is the sequence of
its documents in DocData order, 0 for an ID that is not used. Files are missing or
without the magic number (`none`), with the magic number and nothing readable behind
it (`torn`), or an index. `SaveIndex` is two actions (the file is truncated, the file
is complete), `Merge` with moon's clean-up is five, and `Crash` may come between any
two. An I/O error makes moon leave, which is the same as a crash at that place.

`/a` passes over files that cannot be read and changes nothing for them. The batch
commands (`index_path`: `BeginBatches` to `EndBatches`) give every file its ID before
they read it, so such a file leaves an ID unused; the file of a batch is complete
before it is renamed to its place, so its writing is one action with the reading
(`AddBatch`). `BatchRecords` is its DocData: a record for every ID from that of the first
file that could be read to that of the last, 0 for those in between that could not. `past` remembers whether a file was passed over or a session has
published a delta; only properties look at it.

### PostingBytes, PostingBlocks, PostingReader

A posting list is bytes: a document ID in variable-byte code and a frequency in one
byte. `Radix` (0x80 in the code), the page size, the header of a continuation block,
and the limits of a leaf are constants, so that two-byte IDs, lists over several
blocks and full leaves occur with small numbers. A term is its rank in the byte order
of the terms, with a length; the bytes of the header of a continuation block and those
of a leaf entry are records. Two parsers cut lists at pair boundaries, `ReadVbcPairEnd` of
`IndexSerializer` and `ReadVbPairEnd` of the merge; they differ in how they read the
frequency, and both are here. The readers, which are written with recursive operators, have
a module of their own, because the prover cannot work in a module that reaches one.

### IndexMerge and DocPaths

A base and a delta are filled in any order of documents, built, and merged. One turn
of the merge loop is one action: `MergeTerm` takes the least term, `DumpAndRetry` dumps
a full batch and tries again. Reads of leaf and index blocks may fail. `DocPaths` is
the part of DocData that the merge must translate: the numbers of the directories
belong to one index, and `AppendMergedDocData` encodes them anew. A path is a sequence of
bytes, because splitting and joining are not inverse: `split_path_for_sidecar` drops the
last separator, and `DecodeDocPath` puts in the one the directory decides, or none
(`JoinPath`). A name that is too long is cut, and reads as empty when the cut is inside a
character (`IsUtf8`, a constant operator). `ReadBack` is what one round of this makes of a
path and `Stable` says which paths it leaves alone: those with a name that fits and, before
it, no separator or one that follows a directory, not another separator, and is a backslash
just when the directory has one. The 16-bit length of a sidecar entry is not modelled (it
would take a directory of 65536 bytes). `HashOrder` is the order of the store's hash map, in
which directories are numbered.

### QueryCompiler, IndexReaders, SearchPipeline

A query is a sequence of items (`OR`, `NOT`, text with an optional minus and field) and
a text is its tokens. The readers are records; what the code changes in place is a new
record, and the scores and source masks, which in the code move the boost reader, are
computed on the reader after that move (`Evaluated`). A score is the span weight times
the frequency byte: the other factors of BM25 are the same whatever the reader has done
before. `SearchPipeline` joins writer, `BuildBlocks`, compiler, readers and executor.
It is one search at a time and has no other actor, because a worker searches a
snapshot (see `SearchQueue`). Its reference is stated on the contents of the documents
alone: `Matches` and `Value` give a tree its meaning, `Asked` gives it to a query.

## 3. Runs

| Run | Bounds | Shows |
|---|---|---|
| `cache_readers` | 3 readers, 3 blocks, 2 slots | the tables agree, pins are exact, a handle shows its block and keeps its page, readers get their block or nothing (refinement of `BlockStore`), refusals only when full (but for the sweep across the wrap) |
| `cache_overlap` | 2 readers, 1 merger, 3 blocks, 1 slot | no pin leaks and no waiter is forgotten even when merge and search overlap |
| `cache_uninitialized_page` | 2 readers, 1 merger | violation: a sequential hit on a page being loaded |
| `cache_pinned_page_evicted` | 2 readers, 1 merger, failing reads | violation: a failed read takes away the pin of a sequential handle and the block from its slot |
| `worker_mixed` | 3 readers, 2 blocks, 1 slot, queue of 1, 2 switches | requests accounted for and answered, submitters woken, `BlockStore` still implemented |
| `worker_exit` | 1 reader | violation: the lost wake-up of `ExitBlockThread` |
| `search_queue` | 2 workers, 3 searches, 2 changes, 1 panic | refinement of `SearchService`, every search ends, stop returns |
| `index_merge` | 4 documents, 4 terms, 2 postings on each side, pages of 1 or 2 pairs, batches of 1 leaf and 3 pages, 1 failing read | what is added is read back from the blocks, byte by byte and as postings; the merge keeps postings, or with an unreadable leaf is short but never wrong; paths are read back from their side and from the merged index; seeks find the first document; it fails only for a cause and always advances |
| `index_merge_tf` | the same with a frequency byte above `Radix` | violation: the merge cuts a list inside a pair |
| `search` | 4 documents (1 in the delta) of 4 contents or unused, 10 queries, 3 modes, 3 ways to build a weak AND, limits 1 and 2, bounds 1 and 3 | the readers deliver exactly the matches, the answer is the best, no search meets a document without a record, the default mode finds what is asked |
| `lifecycle` | 6 documents, 3 crashes, commands of up to 4 files in batches of 2 | DocData positions match IDs whatever crashes leave behind; IDs unique, the index keeps its documents, saves take what is pending, batches follow the index |
| `lifecycle_merge_fails` | 3 documents | violation: `/s` with nothing pending publishes a delta that `/m` cannot merge |

Why the bounds are enough. With two slots and three blocks every eviction displaces a
block somebody may want, with three readers one loads, one waits and one pins or evicts
in between; one slot is the smallest full pool. A queue of one makes two submitters
meet at the limit. Two workers are enough for one to run while the other waits, stops
or is dead. Six documents allow a base, a delta, a merge and another delta; four
files in batches of two give a batch that makes the index and one that is merged, each
with a file missing at either end.

In `index_merge` a page holds one or two pairs, so a list of two postings needs a
continuation block and a merged one two; one of the four terms is too long for a head
entry, leaves hold one or two of the others, and a batch of one leaf is full after them;
three directories compete for a table with room for two. In `search` lists of three
documents span pages, every subset of the IDs occurs with at least one document in the
base, and the limit for frequent terms is at two documents so that both sides of it occur.

`EvictModulus` stands for 2^32. The code's 25600 slots do not divide it, and the two slots
of `cache_readers` do not divide its modulus of 5: the sweep that crosses the wrap can look
at a slot twice and at another not at all. `RefusedOnlyWhenFull` therefore speaks of the
sweeps that end before the wrap (`NoWrap`); without that condition TLC finds, in the same
instance, the block that is refused although a slot is free. In the code this is one sweep
in 2^32 probes.

In `index_merge` the four paths stand for `/x`, `a\/xxa`, `b\x` with a character cut in two,
and `a/x`. Only the last is stable; the second is read as `a\xx` in its side and as `a/xx`
in the merged index.

`QuietSwitch` restricts `worker_mixed`: worker mode is left when no reader is inside
`GetBlock`. Without it a reader that has read the old mode submits to a thread that is
gone and waits for ever. moon switches modes before it searches, so the restriction is
how the code is used, not what `SetDirectBlockAccessEnabled` enforces.

`search_queue` and the assumption on panics: when all workers have panicked no search is
answered until the next change of the context, so fewer searches panic than there are
workers. The run switches deadlock checking off because searches and changes are
bounded: when both are used up and the workers wait, nothing is left to do.

`IdsUnique` and `IndexKeepsDocuments` speak of executions without a crash. A crash inside
`/s` or between the removal and the rename of `Merge` can leave a delta without its index;
a new index then restarts at ID 0 under the old delta. `IdsStayPositional` allows crashes,
or files that are passed over, not both: `Merge` compares the start of the delta with the
number of records of the index and not with the end of its IDs, so an index whose first
file was passed over can take a delta that a crash has left from an older index.
`BatchesMerge` leaves out commands after a file was passed over: one at the edge of a batch
makes the next batch's merge fail, and the delta that stays makes every later command fail.
`DefaultFindsWhatIsAsked` leaves out two excluded words in one part of a query (see
section 5). `MergedComplete` says of a merge that met an unreadable leaf what remains true:
a key has the whole list of a side or nothing of it, and misses a side only when the cursor
of that side has met such a leaf.

Fairness. `WF` of a thread's own steps: a thread that can run is scheduled, file reads
return, `ExecuteSearchTask` ends. Nothing obliges a caller to start an operation, to drop
a handle or to switch modes. No strong fairness is used: which waiter `notify_one` wakes
is left open. The merge needs none: `MergeProgress` is a measure that every turn of its
loop decreases.

## 4. Proofs

TLAPS proves the following for every value of the constants that satisfies the named
assumptions, which TLC evaluates in the runs. TLC has checked each inductive invariant on
the instance of the corresponding run.

### The pool (`BlockCacheProofs`)

For every set of readers and mergers, every number of blocks and slots, every modulus,
and failing reads (`CacheAssumption`):

- `TypeCorrect`: `TypeOK` is an invariant.
- `PinsNeverLeak`: `NoPinLeak`, also when merges and searches overlap. It needs, with the
  types, that each caller's `slot` agrees with its `pc` (`Shape`).
- `GivesUpOnlyWhenFull`: `RefusedOnlyWhenFull`, for every number of slots and every modulus.
  The lemma behind it is `SweepSeesEverySlot`: as many probes in a row as there are slots
  look at each of them, when the counter does not wrap in between.

When searches and merges do not overlap (`NoOverlap`: the pool has readers or mergers,
not both), the invariant `CacheInv` is inductive. Its parts: `TablesAgree` and
`PinsExact`; `LoadersOwnTheirSlot` (a slot is marked loading exactly while one caller
loads it, and nobody else uses it), without which a failed read could reset somebody's
pin; `PagesMatch` (a slot that is not loading holds the bytes of its block);
`HandlesSettled` (a held slot is not loading and carries the block that was asked for). From it:

- `TablesAlwaysAgree`, `PinsAlwaysExact`;
- `HandlesReadTheirBlock` and `HeldPagesStay`: the two SAFETY comments of `BlockHandle`;
- `PoolImplementsStore`: the pool implements `BlockStore`.

The hypothesis is needed: the two violation runs of the cache show that the conclusions
fail without it, so the proofs say precisely what the missing check of `Loading` in the
sequential branch costs.

### The worker mode (`BlockWorkerProofs`)

For every set of readers, ring size and number of switches, with `QuietSwitch` or
without it (`WorkerAssumption`; it also says that `BlockWorker` has no mergers, which is
`NoOverlap`):

- `WorkerModeIsPool`: `WorkerSpec => Spec`. Each step of the worker mode is a step of the
  pool or leaves it alone, whichever thread runs `ProcessGetBlockLocked`. All theorems
  about the pool therefore hold in worker mode; `WorkerKeepsTables` and
  `WorkerImplementsStore` state the important ones.
- `WorkerTypeCorrect`, `RequestsAlwaysAccounted`. The inductive invariant `WorkerInv` adds
  to them `Shape` of the pool and `ThreadOwned`: a block thread is started only where there
  is none. Without `ThreadOwned`, the start of a thread could forget the request that
  an earlier thread has taken from the queue.

### The search queue (`SearchQueueProofs`)

For all finite sets of workers and searches, every number of changes of the context and of
panics (`QueueAssumption`):

- `QueueTypeCorrect`, `WorkersNeverSeeAMutation` and `SearchesStayPlaced` (a pending search
  is in the queue once, or with exactly one worker). They are parts of the inductive
  invariant `QueueInv`, with `Barrier`: `stop` is set only while the owner stops the
  workers or when there are none, and workers are started and joined together.
  `Barrier` is what keeps a worker from starting between the join and the change.
- `QueueImplementsService`: the queue implements `SearchService`, when `MaxPanics` is
  less than the number of workers (`SomeWorkerSurvives`). It needs `DeadCounted`: while
  a search is queued, the workers that are gone are those that have panicked, so one is
  left to empty the queue before the owner's join returns. Without the hypothesis the
  conclusion is false: when every worker has panicked the owner joins them all at once,
  changes the context, and the next workers answer the searches that were left in the
  queue on the changed context. A worker panics only if a search panics
  (`ExecuteSearchTask` is called without `catch_unwind`), so the hypothesis says that
  fewer searches panic than there are workers, of which the code starts sixteen.

### The life of an index (`IndexLifecycleProofs`)

For every number of documents, crashes, files of a command, and every batch size
(`LifecycleAssumption`), `LifeInv` is inductive (`LifeInvariant`). Its parts:

- `Known`: every index holds documents that were given an ID, or 0, and starts with a document;
- `SessionInv`: at each step of a command, what the context holds in relation to the files,
  for example that a session's tables are those of the index file, and that `Merge` writes
  an index that begins with the old one;
- `WriteInv`: the write tables are the store, or were saved and repeat the start of the index;
- `StoreInv`: the store's IDs come after those of the index, and come after or extend
  those of the delta;
- `JobInv`: the IDs of a batch command go on where the index ends, or later after files
  were passed over;
- `ZeroInv`: if no file was passed over, every index starts at ID 0, which is why a delta
  that a crash left behind still cannot be merged in the wrong place;
- `CrashFreeInv`: if there was no crash, the file at the delta path follows the index or
  repeats its start;
- `PlacedInv`: in every file and table the position of a record is its ID less the first one.

The steps that only move indexes between files and tables (`MovesKeep`) are proved first,
then the three that make new ones, `AddDocument`, `WriteMerged` and `AddBatch`. From them:

- `IndexTypeCorrect`;
- `IdsArePositional`: `IdsStayPositional`, with crashes, or with files passed over;
- `IdsAreUnique`, `IndexIsKept`: `IdsUnique` and `IndexKeepsDocuments`, from `CrashFreeInv`
  and `StoreInv`;
- `PendingIsSaved`: `SaveTakesPending`, from `WriteInv`;
- `BatchesAreMerged`: `BatchesMerge`, from `JobInv` and `CrashFreeInv`.

### The merge (`MergeLemmas`, `DocPathsProofs`, `IndexMergeProofs`)

For every set of terms and postings, any lengths of keys, every size of pages, leaves,
batches and scratch memory, any `Radix`, and any number of failing reads
(`PostingBytesAssumption`, `PostingBlocksAssumption`, `DocPathsAssumption`,
`IndexMergeAssumption`). The assumptions say of the sizes what the constants of the code
say: a continuation header is shorter than a page, a key that is not too long for a head
entry fits into an empty leaf, a posting (11 bytes at most) fits into a continuation block,
and a batch has fewer blocks than the 16-bit count of continuation blocks can name. `MergeInv` is inductive (`MergeInvariant`). Its parts:

- `PostingsOk`: the lists in memory are sorted;
- `CursorsOk`: the tables are sound (`TableOk`: the directory ascends, the head is that of
  the leaves, the blocks of every entry exist) and each cursor stands at an entry, at the
  end, or at a leaf that could not be read;
- `BatchOk`: the numbering of the batch begins where the dumped files end, and a batch
  without entries has written nothing. This makes a retry after a dump meet an empty batch,
  and a second failure an error with a cause;
- `DirectoryOk`: the merged directory ascends, stays below the keys at the cursors, and every
  entry is `Settled`: its bytes lie in dumped blocks, or in the batch before the place where
  the next list may begin. Without `Settled` the next list could overwrite an earlier one
  that shares its block;
- `ListsOk`: `MergedLists` in the terms of the proof. It is inductive only together with the
  others.

The lemmas below it say what each operator does to the bytes: a cut of a list ends inside
it (`CutInside`), the parts of a placed list are joined to the list again
(`FlattenPieces`, `ContinuationReadsBack`, `NewEntryReads`), a later list leaves the
settled ones alone (`SettledStays`), a dump keeps all of them (`DumpBatchDumps`). From it:

- `MergeTypeCorrect`, `IndexStaysSorted`, `MergeKeepsLists`, `MergeFailsWithCause`;
- `MergeMakesProgress`: every turn of the loop takes a term, empties a batch that held
  something, or leaves the loop.

`ListsAreBuilt` is `BuiltLists`: a table read under a key gives the encoded list of the
store. `BuiltInv` adds to `PathInv` (below) that the tables are those `BuildBlocks` makes of
the stores; the rest is about `BuildBlocks` itself, term by term:

- the boundaries of the pairs of an encoded list are `Marks`: from each one `ReadVbcPairEnd`
  leads to the next (`EncodeMarks`). A prefix taken for a page ends at one and is not empty
  when the page has room for a pair (`PrefixOnMark`), and what is behind it has marks again
  (`MarksSuffix`), so the continuation blocks come to the end of the list
  (`BlockEndsReach`). Without the marks a cut could fall where no further pair is found, and
  the loop of `BuildBlocks` would leave the rest of the list out;
- the pages then hold the bytes (`ContinuationsHold`, `ListWritten`), and everything before
  the write position stays as it is while more is written (`ListClosed`, `ListStays`);
- so after each key all lists up to it can be read (`ListsIn`, `AddTermLists`,
  `BuiltListsIn`), and closing the last page changes none (`BuildBlocksLists`).

The theorem asks that the 16-bit count of continuation blocks can count: the list has fewer
than 65536 bytes, or the index fewer than 65536 blocks.

`MergeIsWhole` joins the two halves. When the merge has succeeded, both cursors are at their
ends and the batch is empty (`EndOk`); if no leaf was unreadable, they have passed every
entry. So the file has, under each key, the encoded list of the base's store followed by that
of the delta's (`MergedWhole`, in `IndexMerge`; the run `index_merge` checks its two parts,
and in `MergedComplete` what a reader makes of it). The bytes are all there also when the
frequency byte is misread (finding 5); what goes wrong then is where a block begins.

`PathsAlwaysArrive` is `PathsArrive`, from `PathInv`: with `MergeInv` and the property itself, the
documents of a side have IDs of that side (`DocsOk`), so that the merge writes no record
twice. For every alphabet, every set of paths and every notion of a whole character, a path
is read as `ReadBack` says, once for its side and once more for the merged index, or without
its directory when the table has no room. The lemmas about `DocPaths`: where the halves of a
path begin and end, and what joining them gives (`SplitIs`, `JoinIs`); a stable path is its
own `ReadBack` (`StableStays`), so it is the same in both indexes; the sidecar gives back the
prefixes it was made of (`SidecarGivesBack`); a table of prefixes only grows, so a number
stays valid when others are added (`InternGrows`, `EncodeGrows`); and after each record all
earlier ones are still read as they were (`RunRecords`, `EncodeRecords`, `AppendRecords`).

Loops are recursive functions here, `f[n \in 0 .. N] == ... f[n - 1] ...`. What they compute
for every input is proved with `NatSetInduction`, which is induction with a set in the place
of the property: the library's induction theorems take an operator, which the provers
cannot instantiate.

### Only model-checked

- Liveness: `WaitersAreWoken`, `RequestsAnswered`, `SubmittersWoken`, `EverySearchEnds`,
  `StopReturns`. Fairness and ENABLED are out of the prover's reach.
- What a reader delivers: `BuildKeepsPostings`, `MergedComplete` and `SeekFindsFirst` of the
  run `index_merge`, and `QueryCompiler`, `IndexReaders` and `SearchPipeline` with all
  properties of the run `search`. Decoders, trees of readers and queries are recursive
  operators, with which the prover loses its SMT backend. The proofs about the blocks and the
  merge end at the bytes of the lists, `encode` of what the stores have; that a reader decodes them is checked by the runs over
  the bounded inputs of section 3.
- The violations: a run shows each, and there is nothing to prove.

## 5. Findings

1. `GetBlock(.., true)` pins a page that is still being loaded (`BlockTable.rs:1058`),
   against the SAFETY comment at line 860.
2. A failed read resets the reference count of a page somebody else has pinned
   (`BlockTable.rs:1742`), against the SAFETY comment at line 843. Both need a search
   that runs during `Merge`: one that was enqueued and not waited for.
3. `ExitBlockThread` can lose its wake-up and join for ever (`BlockTable.rs:1500`); the C++
   original sets the flag under the mutex.
4. A second `/s` with nothing pending publishes the index as its own delta
   (`IndexContext.rs:1106`), and `/m` then fails. A `/s` in a later session, which
   replaces the earlier delta by the new additions only, fails in the same way.

5. `Merge` reads the frequency byte of a posting as a variable-byte number
   (`IndexContext.rs:2265`), against `docs/index-design.md:84`. From 250 occurrences of a
   term in a document on, a list that spans blocks is cut inside a pair.

Observations made while modelling, for which no run is kept:

- An empty or unreadable file at the edge of a batch of `-file`/`-dir` makes the next merge
  fail with `InvalidFormat` (`moon.rs:403`, `IndexContext.rs:1197`), and the delta left
  behind makes later commands fail as well.
- `a -b -c` in the default mode excludes only documents with both `b` and `c`
  (`build_minus_expression` compiles the excluded words like the others), while
  `docs/query-syntax.md:49` describes `-hello` word by word; parentheses
  (`docs/query-syntax.md:106`) are not parsed.
- A weak AND built as `FlatPruned` counts a word once per stream it occurs in.
- Words whose key is longer than `HEAD_TERM_KEY_MAX` are not indexed
  (`IndexSerializer.rs:921`); a search for one finds nothing.
- A leaf that cannot be read ends a side of the merge silently (`IndexContext.rs:2675`).
- A file name cut inside a multi-byte character is read back as empty.
- A path is not always read back as it was given (`IndexContext.rs:1675`, `1790`): `/x`
  becomes `x`, `C:\x` becomes `C:/x`, `a\b/c` becomes `a\b\c`, `a//b` becomes `a/b`. A merge
  does the same to what it has read, so `//x` is `/x` in the delta and `x` in the merged
  index. The tests have only relative paths with single slashes, and no document says that a
  path is kept exactly.
- The eviction sweep that crosses the wrap of `BCP_EvictSlot` may overlook a free slot
  (`BlockTable.rs:1682`).

## 6. Not modelled, and the plan

Not modelled: floating-point scoring and the vector graph, tokenizing and the text of
queries, the offsets of the sections of the index file, the perfect hash of terms (no index
has one), HTTP and command-line parsing, the WASM loaders, the C++ tree, memory
ordering weaker than the locks give (the atomics of a request are published by its mutex).

What is left:

1. proofs about the readers, which need `PostingReader` without recursive operators;
2. blocks that are refused while readers are open (`BlockCache` under `SearchPipeline`);
3. `RWSpinLock`; the loaders of the browser.
