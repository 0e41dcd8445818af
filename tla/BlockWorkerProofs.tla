--------------------------- MODULE BlockWorkerProofs ---------------------------
(***************************************************************************)
(* Proofs about BlockWorker: the worker mode and the switch between the    *)
(* modes take only steps of BlockCache, so that everything proved of the   *)
(* pool holds in worker mode; and the accounting of the request queue.     *)
(***************************************************************************)
EXTENDS BlockWorker, BlockCacheProofs, SequenceLemmas

\* The block thread is spawned only where there is none.
ThreadOwned ==
  /\ ctl = "start" => thread = "none" /\ ~direct
  /\ ctl = "rest" /\ direct => thread = "none"

WorkerInv == WorkerTypeOK /\ Shape /\ RequestsAccounted /\ ThreadOwned

-----------------------------------------------------------------------------
(* The worker mode takes steps of the pool *)

LEMMA WorkerStepIsPoolStep == [WorkerNext]_allVars => [Next]_vars
<1> SUFFICES ASSUME [WorkerNext]_allVars PROVE [Next]_vars
  OBVIOUS
<1>1. ASSUME NEW r \in Readers, NEW b \in 0 .. TotalBlockCount, Call(r, b) PROVE Next
  BY <1>1 DEF Call, Next, Read
<1>2. ASSUME NEW r \in Readers, DirectFetch(r) \/ Serve(r) \/ Drop(r) PROVE Next
  BY <1>2 DEF DirectFetch, Serve, Drop, Next, Read
<1>3. ASSUME NEW r \in Readers, TryPin(r) PROVE Next
  BY <1>3 DEF TryPin, Next, Read, Fetch
<1>4. ASSUME \/ \E r \in Readers : TryNothing(r) \/ SubmitWhenFull(r) \/ Submit(r) \/ Complete(r)
             \/ Doze \/ Sleep \/ Leave \/ Pop
             \/ EnableWorker \/ EnableDirect \/ SwitchStep
             \/ UNCHANGED allVars
      PROVE  UNCHANGED vars
  BY <1>4 DEF TryNothing, SubmitWhenFull, Submit, Complete, Doze, Sleep, Leave, Pop,
     EnableWorker, EnableDirect, SwitchStep, StartBlockThread, StoreExit, SignalExit, Join, allVars
<1>5. QED
  BY <1>1, <1>2, <1>3, <1>4 DEF WorkerNext, ReaderStep, ThreadStep

\* In worker mode, and while the mode is switched, the pool sees nothing but the
\* critical sections of ProcessGetBlockLocked, whichever thread runs them.
THEOREM WorkerModeIsPool == WorkerSpec => Spec
<1>1. WorkerInit => Init
  BY DEF WorkerInit
<1>2. QED
  BY <1>1, WorkerStepIsPoolStep, PTL DEF WorkerSpec, Spec

LEMMA WorkerNoOverlap == NoOverlap
  BY WorkerAssumption DEF NoOverlap

\* The readers get from the block thread, or from the page they pin themselves, the
\* bytes they asked for or nothing, and keep them until they drop the handle, also
\* across a switch of the mode.
THEOREM WorkerImplementsStore == WorkerSpec => ImplementsStore
  BY WorkerModeIsPool, WorkerNoOverlap, PoolImplementsStore, PTL

\* In worker mode the two tables stay inverses and every pin is counted once: the pin of
\* a served request is taken by the block thread and dropped by the reader.
THEOREM WorkerKeepsTables == WorkerSpec => [](TablesAgree /\ PinsExact /\ HandleSeesItsBlock)
  BY WorkerModeIsPool, WorkerNoOverlap, TablesAlwaysAgree, PinsAlwaysExact, HandlesReadTheirBlock, PTL

-----------------------------------------------------------------------------
(* The request queue *)

\* notify_one wakes the block thread or a submitter that waits for room, or nobody.
LEMMA NotifyOneEffect ==
  ASSUME WorkerTypeOK, NEW ph \in [Readers -> Phases], NotifyOne(ph),
         \A r \in Readers : phase[r] = "full" => ph[r] = "full"
  PROVE  /\ phase' \in [Readers -> Phases]
         /\ \A r \in Readers : phase'[r] = ph[r] \/ (ph[r] = "full" /\ phase'[r] = "submit")
         /\ thread' = thread \/ (thread = "asleep" /\ thread' = "check")
  BY DEF NotifyOne, Waiters, Phases

LEMMA InitWorkerInv == WorkerInit => WorkerInv
<1> SUFFICES ASSUME WorkerInit PROVE WorkerInv
  OBVIOUS
<1>1. TypeOK /\ Shape
  BY InitTyped DEF WorkerInit
<1>2. queue \in Seq(Readers) /\ Len(queue) = 0
  BY DEF WorkerInit
<1>3. WorkerTypeOK
  <2>1. direct \in BOOLEAN /\ ExitThread \in BOOLEAN
    BY DEF WorkerInit
  <2>2. Len(queue) <= RingSize /\ switches \in 0 .. MaxSwitches
    BY <1>2, WorkerAssumption DEF WorkerInit
  <2>3. phase \in [Readers -> Phases] /\ thread \in ThreadStates
    BY DEF WorkerInit, Phases, ThreadStates
  <2>4. ctl \in {"rest", "start", "exit", "notify", "join"}
    BY DEF WorkerInit
  <2>5. QED
    BY <1>1, <1>2, <2>1, <2>2, <2>3, <2>4 DEF WorkerTypeOK
<1>4. RequestsAccounted
  BY EmptyElements DEF WorkerInit, RequestsAccounted
<1>5. QED
  BY <1>1, <1>3, <1>4 DEF WorkerInv, ThreadOwned, WorkerInit

\* A step that leaves the queue and the thread alone and takes no reader into or out of
\* "queued" and "served".
LEMMA SameRequests ==
  ASSUME WorkerInv, UNCHANGED <<queue, thread>>,
         \A r \in Readers : \/ phase'[r] = phase[r]
                            \/ phase[r] \notin {"queued", "served"} /\ phase'[r] \notin {"queued", "served"}
  PROVE  RequestsAccounted'
  BY DEF WorkerInv, RequestsAccounted

LEMMA ReaderKeepsInv ==
  ASSUME WorkerInv, NEW r \in Readers,
         (\E b \in 0 .. TotalBlockCount : Call(r, b)) \/ ReaderStep(r) \/ Drop(r)
  PROVE  WorkerInv'
<1> USE WorkerAssumption DEF WorkerInv
<1>1. TypeOK' /\ Shape'
  <2>1. TypeOK /\ Shape /\ [Next]_vars
    BY WorkerStepIsPoolStep DEF WorkerNext, WorkerTypeOK
  <2>2. QED
    BY <2>1, TypedStep
<1>2. ASSUME NEW x \in Phases \ {"queued", "served"}, phase[r] \notin {"queued", "served"},
             phase' = [phase EXCEPT ![r] = x], UNCHANGED <<queue, thread, Switching>>
      PROVE  WorkerInv'
  <2>1. phase' \in [Readers -> Phases]
    BY <1>2 DEF WorkerTypeOK
  <2>2. RequestsAccounted'
    BY <1>2, SameRequests DEF WorkerTypeOK
  <2>3. WorkerTypeOK' /\ ThreadOwned'
    BY <1>1, <1>2, <2>1 DEF WorkerTypeOK, ThreadOwned, Switching
  <2>4. QED
    BY <1>1, <2>2, <2>3
<1>3. ASSUME NEW b \in 0 .. TotalBlockCount, Call(r, b) PROVE WorkerInv'
  BY <1>2, <1>3 DEF Call, Phases
<1>4. ASSUME DirectFetch(r) \/ TryPin(r) PROVE WorkerInv'
  BY <1>2, <1>4 DEF DirectFetch, TryPin, Outcome, Phases
<1>5. ASSUME TryNothing(r) \/ SubmitWhenFull(r) PROVE WorkerInv'
  BY <1>2, <1>5 DEF TryNothing, SubmitWhenFull, Phases
<1>6. ASSUME Submit(r) PROVE WorkerInv'
  <2> DEFINE ph == [phase EXCEPT ![r] = "queued"]
  <2>1. ph \in [Readers -> Phases] /\ \A q \in Readers : ph[q] = IF q = r THEN "queued" ELSE phase[q]
    BY DEF WorkerTypeOK, Phases
  <2>2. phase[r] = "submit" /\ NotifyOne(ph) /\ queue' = Append(queue, r)
    BY <1>6 DEF Submit
  <2> HIDE DEF ph
  <2>3. \A q \in Readers : phase[q] = "full" => ph[q] = "full"
    BY <2>1, <2>2
  <2>4. /\ phase' \in [Readers -> Phases]
        /\ \A q \in Readers : phase'[q] = ph[q] \/ (ph[q] = "full" /\ phase'[q] = "submit")
        /\ thread' = thread \/ (thread = "asleep" /\ thread' = "check")
    BY <2>1, <2>2, <2>3, NotifyOneEffect
  <2>5. /\ phase'[r] = "queued"
        /\ \A q \in Readers : q # r => (phase'[q] = "queued" <=> phase[q] = "queued")
        /\ \A q \in Readers : phase'[q] = "served" <=> phase[q] = "served"
    BY <2>1, <2>2, <2>4
  <2>6. /\ queue \in Seq(Readers) /\ queue' \in Seq(Readers) /\ Len(queue') <= RingSize
        /\ ToSet(queue') = ToSet(queue) \cup {r} /\ IsInjective(queue')
    <3>1. queue \in Seq(Readers) /\ Len(queue) < RingSize
      BY <1>6 DEF Submit, WorkerTypeOK
    <3>2. r \notin ToSet(queue) /\ IsInjective(queue)
      BY <2>2 DEF RequestsAccounted
    <3>3. queue' \in Seq(Readers) /\ Len(queue') = Len(queue) + 1 /\ Len(queue) \in Nat
      BY <2>2, <3>1
    <3>4. Len(queue') <= RingSize
      BY <3>1, <3>3
    <3>5. QED
      BY <2>2, <3>1, <3>2, <3>3, <3>4, AppendElements
  <2>7. thread' = "busy" <=> thread = "busy"
    BY <2>4
  <2>8. RequestsAccounted'
    BY <2>5, <2>6, <2>7 DEF RequestsAccounted
  <2>9. UNCHANGED Switching /\ thread' \in ThreadStates
    BY <1>6, <2>4 DEF Submit, WorkerTypeOK, ThreadStates
  <2>10. WorkerTypeOK' /\ ThreadOwned'
    BY <1>1, <2>4, <2>6, <2>9 DEF WorkerTypeOK, ThreadOwned, Switching
  <2>11. QED
    BY <1>1, <2>8, <2>10
<1>7. ASSUME Drop(r) PROVE WorkerInv'
  BY <1>1, <1>7 DEF Drop, workerVars, WorkerTypeOK, RequestsAccounted, ThreadOwned
<1>8. QED
  BY <1>3, <1>4, <1>5, <1>6, <1>7 DEF ReaderStep

LEMMA ThreadKeepsInv ==
  ASSUME WorkerInv, ThreadStep
  PROVE  WorkerInv'
<1> USE WorkerAssumption DEF WorkerInv
<1>1. TypeOK' /\ Shape'
  <2>1. TypeOK /\ Shape /\ [Next]_vars
    BY WorkerStepIsPoolStep DEF WorkerNext, WorkerTypeOK
  <2>2. QED
    BY <2>1, TypedStep
<1>2. ASSUME Doze \/ Sleep \/ Leave PROVE WorkerInv'
  <2>1. /\ UNCHANGED <<queue, phase, Switching>>
        /\ thread \notin {"busy", "none"} /\ thread' \in ThreadStates \ {"busy", "none"}
    BY <1>2 DEF Doze, Sleep, Leave, ThreadStates
  <2>2. QED
    BY <1>1, <2>1 DEF Switching, WorkerTypeOK, RequestsAccounted, ThreadOwned
<1>3. ASSUME Pop PROVE WorkerInv'
  <2>1. /\ queue \in Seq(Readers) /\ queue # <<>> /\ queue' = Tail(queue)
        /\ thread = "check" /\ thread' = "busy" /\ UNCHANGED Switching
    BY <1>3 DEF Pop, WorkerTypeOK
  <2>2. /\ Head(queue) \in Readers /\ queue' \in Seq(Readers) /\ Len(queue') <= RingSize
    BY <2>1 DEF WorkerTypeOK
  <2>3. /\ ToSet(queue) = ToSet(queue') \cup {Head(queue)}
        /\ IsInjective(queue') /\ Head(queue) \notin ToSet(queue')
    BY <2>1, PopElements DEF RequestsAccounted
  <2>4. \A r \in Readers : phase'[r] = IF r = Head(queue) THEN "served"
                                       ELSE IF phase[r] = "full" THEN "submit"
                                       ELSE phase[r]
    BY <1>3 DEF Pop
  <2>5. phase' \in [Readers -> Phases]
    BY <1>3 DEF Pop, WorkerTypeOK, Phases
  <2>6. \A r \in Readers : phase[r] # "served"
    BY <2>1 DEF RequestsAccounted
  <2>7. RequestsAccounted'
    <3>1. ToSet(queue') = {r \in Readers : phase'[r] = "queued"}
      BY <2>2, <2>3, <2>4 DEF RequestsAccounted
    <3>2. \A r \in Readers : phase'[r] = "served" <=> r = Head(queue)
      BY <2>4, <2>6
    <3>3. QED
      BY <2>1, <2>2, <2>3, <3>1, <3>2 DEF RequestsAccounted
  <2>8. WorkerTypeOK' /\ ThreadOwned'
    BY <1>1, <2>1, <2>2, <2>5 DEF WorkerTypeOK, ThreadOwned, Switching, ThreadStates
  <2>9. QED
    BY <1>1, <2>7, <2>8
<1>4. ASSUME NEW r \in Readers, Serve(r) PROVE WorkerInv'
  BY <1>1, <1>4 DEF Serve, workerVars, WorkerTypeOK, RequestsAccounted, ThreadOwned
<1>5. ASSUME NEW r \in Readers, Complete(r) PROVE WorkerInv'
  <2>1. /\ phase[r] = "served" /\ thread = "busy" /\ thread' = "check"
        /\ \A q \in Readers : phase'[q] = IF q = r THEN "out" ELSE phase[q]
        /\ UNCHANGED <<queue, Switching>>
    BY <1>5 DEF Complete, RequestsAccounted, WorkerTypeOK
  <2>2. phase' \in [Readers -> Phases]
    BY <1>5 DEF Complete, WorkerTypeOK, Phases
  <2>3. RequestsAccounted'
    BY <2>1 DEF RequestsAccounted
  <2>4. WorkerTypeOK' /\ ThreadOwned'
    BY <1>1, <2>1, <2>2 DEF WorkerTypeOK, ThreadOwned, Switching, ThreadStates
  <2>5. QED
    BY <1>1, <2>3, <2>4
<1>6. QED
  BY <1>2, <1>3, <1>4, <1>5 DEF ThreadStep

LEMMA SwitchKeepsInv ==
  ASSUME WorkerInv, EnableWorker \/ EnableDirect \/ SwitchStep
  PROVE  WorkerInv'
<1> USE WorkerAssumption DEF WorkerInv
<1>1. TypeOK' /\ Shape'
  <2>1. TypeOK /\ Shape /\ [Next]_vars
    BY WorkerStepIsPoolStep DEF WorkerNext, WorkerTypeOK
  <2>2. QED
    BY <2>1, TypedStep
<1>2. ASSUME EnableWorker \/ EnableDirect \/ StoreExit PROVE WorkerInv'
  <2>1. UNCHANGED <<queue, phase, thread>>
    BY <1>2 DEF EnableWorker, EnableDirect, StoreExit
  <2>2. RequestsAccounted'
    BY <2>1 DEF RequestsAccounted
  <2>3. WorkerTypeOK'
    <3>1. direct' \in BOOLEAN /\ ExitThread' \in BOOLEAN
      BY <1>2 DEF EnableWorker, EnableDirect, StoreExit, WorkerTypeOK
    <3>2. switches' \in 0 .. MaxSwitches /\ ctl' \in {"start", "exit", "notify"}
      BY <1>2 DEF EnableWorker, EnableDirect, StoreExit, WorkerTypeOK
    <3>3. QED
      BY <1>1, <2>1, <3>1, <3>2 DEF WorkerTypeOK
  <2>4. ThreadOwned'
    BY <1>2, <2>1 DEF EnableWorker, EnableDirect, StoreExit, ThreadOwned, WorkerTypeOK
  <2>5. QED
    BY <1>1, <2>2, <2>3, <2>4
<1>3. ASSUME StartBlockThread \/ Join PROVE WorkerInv'
  <2>1. /\ UNCHANGED <<queue, phase, direct, switches>> /\ ctl' = "rest"
        /\ thread # "busy" /\ thread' \in {"check", "none"}
        /\ ExitThread' \in BOOLEAN
    BY <1>3 DEF StartBlockThread, Join, ThreadOwned, WorkerTypeOK
  <2>2. RequestsAccounted'
    BY <2>1 DEF RequestsAccounted
  <2>3. WorkerTypeOK'
    BY <1>1, <2>1 DEF WorkerTypeOK, ThreadStates
  <2>4. ThreadOwned'
    BY <1>3 DEF StartBlockThread, Join, ThreadOwned
  <2>5. QED
    BY <1>1, <2>2, <2>3, <2>4
<1>4. ASSUME SignalExit PROVE WorkerInv'
  <2>1. phase \in [Readers -> Phases] /\ NotifyOne(phase)
    BY <1>4 DEF SignalExit, WorkerTypeOK
  <2>2. /\ phase' \in [Readers -> Phases]
        /\ \A q \in Readers : phase'[q] = phase[q] \/ (phase[q] = "full" /\ phase'[q] = "submit")
        /\ thread' = thread \/ (thread = "asleep" /\ thread' = "check")
    BY <2>1, NotifyOneEffect
  <2>3. UNCHANGED <<queue, direct, ExitThread, switches>> /\ ctl' = "join"
    BY <1>4 DEF SignalExit
  <2>4. RequestsAccounted'
    <3>1. \A q \in Readers : /\ phase'[q] = "queued" <=> phase[q] = "queued"
                             /\ phase'[q] = "served" <=> phase[q] = "served"
      BY <2>2
    <3>2. thread' = "busy" <=> thread = "busy"
      BY <2>2
    <3>3. QED
      BY <2>3, <3>1, <3>2 DEF RequestsAccounted
  <2>5. WorkerTypeOK' /\ ThreadOwned'
    BY <1>1, <2>2, <2>3 DEF WorkerTypeOK, ThreadOwned, ThreadStates
  <2>6. QED
    BY <1>1, <2>4, <2>5
<1>5. QED
  BY <1>2, <1>3, <1>4 DEF SwitchStep

LEMMA NextWorkerInv == WorkerInv /\ [WorkerNext]_allVars => WorkerInv'
<1> SUFFICES ASSUME WorkerInv, [WorkerNext]_allVars PROVE WorkerInv'
  OBVIOUS
<1>1. CASE UNCHANGED allVars
  <2>1. UNCHANGED <<vars, workerVars>>
    BY <1>1 DEF allVars
  <2>2. TypeOK' /\ Shape'
    BY <2>1, StutterTyped DEF WorkerInv, WorkerTypeOK
  <2>3. QED
    BY <2>1, <2>2 DEF workerVars, WorkerInv, WorkerTypeOK, RequestsAccounted, ThreadOwned
<1>2. QED
  BY <1>1, ReaderKeepsInv, ThreadKeepsInv, SwitchKeepsInv DEF WorkerNext

\* The queue keeps its bound and the threads stay in their states, for any number of
\* readers, slots, switches and any ring size.
THEOREM WorkerTypeCorrect == WorkerSpec => []WorkerTypeOK
<1>1. WorkerInv => WorkerTypeOK
  BY DEF WorkerInv
<1>2. QED
  BY <1>1, InitWorkerInv, NextWorkerInv, PTL DEF WorkerSpec

\* No request is lost, doubled or served by two: what waits is queued once, and the block
\* thread serves one request at a time, however the mode is switched meanwhile.
THEOREM RequestsAlwaysAccounted == WorkerSpec => []RequestsAccounted
<1>1. WorkerInv => RequestsAccounted
  BY DEF WorkerInv
<1>2. QED
  BY <1>1, InitWorkerInv, NextWorkerInv, PTL DEF WorkerSpec
=============================================================================
