--------------------------- MODULE SearchQueueProofs ---------------------------
(***************************************************************************)
(* Proofs about SearchQueue: its types, the barrier between the workers    *)
(* and a change of the context, where an unanswered search is, and the     *)
(* refinement of SearchService.                                            *)
(***************************************************************************)
EXTENDS SearchQueue, SequenceLemmas, FiniteSetTheorems, TLAPS

\* stop is set only while the workers are being stopped, or when there are none; they
\* are started and joined together.
Barrier ==
  /\ NoWorkers \/ \A w \in Workers : state[w] # "none"
  /\ stop => NoWorkers \/ owner \in {"stopped", "joining"}
  /\ owner \in {"stopped", "joining"} => stop
  /\ owner \in {"ensured", "pushed", "stopped", "joining"} => ~NoWorkers
  /\ owner = "ensured" => next \in Tasks /\ result[next] = Unasked

\* An unanswered search is in one place: once in the queue, or with one worker.
TasksPlaced ==
  /\ IsInjective(queue)
  /\ \A w \in Workers : task[w] \notin ToSet(queue)
  /\ \A v, w \in Workers : task[v] = task[w] /\ task[v] # NoTask => v = w
  /\ \A t \in Tasks :
       result[t] = Waiting <=> t \in ToSet(queue) \/ \E w \in Workers : task[w] = t

QueueInv == TypeOK /\ Barrier /\ NoWorkerSeesAMutation /\ TasksPlaced

LEMMA NoTaskIsNoTask == NoTask \notin Tasks
  BY QueueAssumption

LEMMA InitQueueInv == Init => QueueInv
<1> SUFFICES ASSUME Init PROVE QueueInv
  OBVIOUS
<1>1. TypeOK
  <2>1. queue \in Seq(Tasks)
    BY SeqTypes DEF Init
  <2>2. stop \in BOOLEAN /\ next \in Tasks \cup {NoTask}
    BY DEF Init
  <2>3. state \in [Workers -> States] /\ owner \in OwnerStates
    BY DEF Init, States, OwnerStates
  <2>4. /\ task \in [Workers -> Tasks \cup {NoTask}]
        /\ \A w \in Workers : state[w] = "run" <=> task[w] # NoTask
    BY DEF Init
  <2>5. result \in [Tasks -> Nat \cup {Unasked, Waiting, Lost}]
    BY DEF Init
  <2>6. runtime \in [Workers -> Nat] /\ generation \in Nat /\ panics \in 0 .. MaxPanics
    BY QueueAssumption DEF Init
  <2>7. QED
    BY <2>1, <2>2, <2>3, <2>4, <2>5, <2>6 DEF TypeOK
<1>2. Barrier /\ NoWorkerSeesAMutation
  BY DEF Init, Barrier, NoWorkerSeesAMutation, NoWorkers
<1>3. TasksPlaced
  BY NoTaskIsNoTask, EmptyElements DEF Init, TasksPlaced, Unasked, Waiting
<1>4. QED
  BY <1>1, <1>2, <1>3 DEF QueueInv

-----------------------------------------------------------------------------
(* Where a search is *)

LEMMA PlacedSame ==
  ASSUME TasksPlaced, UNCHANGED <<queue, task, result>>
  PROVE  TasksPlaced'
  BY DEF TasksPlaced

LEMMA PushPlaces ==
  ASSUME TypeOK, Barrier, TasksPlaced, Push
  PROVE  TasksPlaced'
<1>1. next \in Tasks /\ result[next] = Unasked
  BY DEF Push, Barrier
<1>2. result[next] # Waiting
  BY <1>1 DEF Unasked, Waiting
<1>3. next \notin ToSet(queue) /\ \A w \in Workers : task[w] # next
  BY <1>1, <1>2 DEF TasksPlaced
<1>4. ToSet(queue') = ToSet(queue) \cup {next} /\ IsInjective(queue')
  <2>1. queue \in Seq(Tasks) /\ IsInjective(queue) /\ queue' = Append(queue, next)
    BY DEF TypeOK, TasksPlaced, Push
  <2>2. QED
    BY <1>1, <1>3, <2>1, AppendElements
<1>5. \A t \in Tasks : result'[t] = IF t = next THEN Waiting ELSE result[t]
  BY <1>1 DEF Push, TypeOK
<1>6. task' = task
  BY DEF Push
<1>7. QED
  BY <1>1, <1>3, <1>4, <1>5, <1>6 DEF TasksPlaced

LEMMA PopMoves ==
  ASSUME TypeOK, TasksPlaced, NEW w \in Workers, Pop(w)
  PROVE  TasksPlaced'
<1>1. /\ Head(queue) \in Tasks
      /\ ToSet(queue) = ToSet(queue') \cup {Head(queue)}
      /\ IsInjective(queue') /\ Head(queue) \notin ToSet(queue')
  <2>1. queue \in Seq(Tasks) /\ IsInjective(queue) /\ queue # <<>> /\ queue' = Tail(queue)
    BY DEF TypeOK, TasksPlaced, Pop
  <2>2. QED
    BY <2>1, SeqTypes, PopElements
<1>2. task[w] = NoTask
  BY DEF Pop, TypeOK
<1>3. \A v \in Workers : task'[v] = IF v = w THEN Head(queue) ELSE task[v]
  BY DEF Pop, TypeOK
<1>4. result' = result
  BY DEF Pop
<1>5. \A v \in Workers : task'[v] \notin ToSet(queue')
  BY <1>1, <1>3 DEF TasksPlaced
<1>6. \A v, u \in Workers : task'[v] = task'[u] /\ task'[v] # NoTask => v = u
  BY <1>1, <1>3 DEF TasksPlaced
<1>7. ASSUME NEW t \in Tasks
      PROVE  result'[t] = Waiting <=> t \in ToSet(queue') \/ \E v \in Workers : task'[v] = t
  BY <1>1, <1>2, <1>3, <1>4, NoTaskIsNoTask DEF TasksPlaced
<1>8. QED
  BY <1>1, <1>5, <1>6, <1>7 DEF TasksPlaced

\* A worker ends its task: with results, or by a panic.
LEMMA EndOfTask ==
  ASSUME TypeOK, TasksPlaced, NEW w \in Workers, state[w] = "run", NEW r, r # Waiting,
         queue' = queue,
         task' = [task EXCEPT ![w] = NoTask],
         result' = [result EXCEPT ![task[w]] = r]
  PROVE  TasksPlaced'
<1>1. task[w] \in Tasks
  BY DEF TypeOK
<1>2. \A v \in Workers : task'[v] = IF v = w THEN NoTask ELSE task[v]
  BY DEF TypeOK
<1>3. \A t \in Tasks : result'[t] = IF t = task[w] THEN r ELSE result[t]
  BY DEF TypeOK
<1>4. NoTask \notin ToSet(queue)
  BY NoTaskIsNoTask DEF TypeOK, ToSet
<1>5. ASSUME NEW t \in Tasks
      PROVE  result'[t] = Waiting <=> t \in ToSet(queue') \/ \E v \in Workers : task'[v] = t
  <2>1. CASE t = task[w]
    BY <1>1, <1>2, <1>3, <2>1, NoTaskIsNoTask DEF TasksPlaced
  <2>2. CASE t # task[w]
    BY <1>2, <1>3, <2>2, NoTaskIsNoTask DEF TasksPlaced
  <2>3. QED
    BY <2>1, <2>2
<1>6. QED
  BY <1>2, <1>4, <1>5 DEF TasksPlaced

LEMMA NextTasksPlaced == QueueInv /\ [Next]_vars => TasksPlaced'
<1> SUFFICES ASSUME QueueInv, [Next]_vars PROVE TasksPlaced'
  OBVIOUS
<1>1. ASSUME Push PROVE TasksPlaced'
  BY <1>1, PushPlaces DEF QueueInv
<1>2. ASSUME NEW w \in Workers, Pop(w) PROVE TasksPlaced'
  BY <1>2, PopMoves DEF QueueInv
<1>3. ASSUME NEW w \in Workers, Reply(w) PROVE TasksPlaced'
  <2>1. runtime[w] # Waiting
    BY DEF QueueInv, TypeOK, Waiting
  <2>2. QED
    BY <1>3, <2>1, EndOfTask DEF Reply, QueueInv
<1>4. ASSUME NEW w \in Workers, Panic(w) PROVE TasksPlaced'
  <2>1. Lost # Waiting
    BY DEF Lost, Waiting
  <2>2. QED
    BY <1>4, <2>1, EndOfTask DEF Panic, QueueInv
<1>5. ASSUME \/ \E t \in Tasks : BeginEnqueue(t)
             \/ BeginMutation \/ NotifyOne \/ NotifyAll \/ JoinAll \/ Mutate
             \/ \E w \in Workers : Wait(w) \/ Return(w)
             \/ UNCHANGED vars
      PROVE  TasksPlaced'
  <2>1. UNCHANGED <<queue, task, result>>
    BY <1>5 DEF BeginEnqueue, BeginMutation, NotifyOne, NotifyAll, JoinAll, Mutate, Wait, Return, vars
  <2>2. QED
    BY <2>1, PlacedSame DEF QueueInv
<1>6. QED
  BY <1>1, <1>2, <1>3, <1>4, <1>5 DEF Next, OwnerStep, Step

-----------------------------------------------------------------------------
(* The types and the barrier *)

LEMMA NextQueueInv == QueueInv /\ [Next]_vars => QueueInv'
<1> SUFFICES ASSUME QueueInv, [Next]_vars PROVE QueueInv'
  OBVIOUS
<1> DEFINE Main == TypeOK /\ Barrier /\ NoWorkerSeesAMutation
<1> USE QueueAssumption, NoTaskIsNoTask DEF QueueInv
<1>1. ASSUME NEW t \in Tasks, BeginEnqueue(t) PROVE Main'
  <2>1. TypeOK'
    BY <1>1 DEF BeginEnqueue, StartWorkers, NoWorkers, TypeOK, States, OwnerStates, NoWorkerSeesAMutation
  <2>2. Barrier' /\ NoWorkerSeesAMutation'
    BY <1>1 DEF BeginEnqueue, StartWorkers, NoWorkers, Barrier, NoWorkerSeesAMutation, TypeOK
  <2>3. QED
    BY <2>1, <2>2
<1>2. ASSUME Push PROVE Main'
  <2>1. TypeOK'
    <3>1. next \in Tasks
      BY <1>2 DEF Push, Barrier
    <3>2. queue' \in Seq(Tasks)
      BY <1>2, <3>1, SeqTypes DEF Push, TypeOK
    <3>3. QED
      BY <1>2, <3>2 DEF Push, TypeOK, OwnerStates
  <2>2. Barrier' /\ NoWorkerSeesAMutation'
    BY <1>2 DEF Push, NoWorkers, Barrier, NoWorkerSeesAMutation, TypeOK
  <2>3. QED
    BY <2>1, <2>2
<1>3. ASSUME NotifyOne PROVE Main'
  <2>1. TypeOK'
    BY <1>3 DEF NotifyOne, TypeOK, States, OwnerStates
  <2>2. Barrier' /\ NoWorkerSeesAMutation'
    BY <1>3 DEF NotifyOne, NoWorkers, Barrier, NoWorkerSeesAMutation, TypeOK
  <2>3. QED
    BY <2>1, <2>2
<1>4. ASSUME NEW w \in Workers, Wait(w) \/ Return(w) PROVE Main'
  <2>1. TypeOK'
    BY <1>4 DEF Wait, Return, TypeOK, States
  <2>2. Barrier' /\ NoWorkerSeesAMutation'
    BY <1>4 DEF Wait, Return, NoWorkers, Barrier, NoWorkerSeesAMutation, TypeOK
  <2>3. QED
    BY <2>1, <2>2
<1>5. ASSUME NEW w \in Workers, Pop(w) PROVE Main'
  <2>1. TypeOK'
    <3>1. Head(queue) \in Tasks /\ queue' \in Seq(Tasks)
      BY <1>5, SeqTypes DEF Pop, TypeOK
    <3>2. QED
      BY <1>5, <3>1 DEF Pop, TypeOK, States
  <2>2. Barrier' /\ NoWorkerSeesAMutation'
    BY <1>5 DEF Pop, NoWorkers, Barrier, NoWorkerSeesAMutation, TypeOK
  <2>3. QED
    BY <2>1, <2>2
<1>6. ASSUME NEW w \in Workers, Reply(w) PROVE Main'
  <2>1. TypeOK'
    BY <1>6 DEF Reply, TypeOK, States
  <2>2. Barrier' /\ NoWorkerSeesAMutation'
    <3>1. task[w] \in Tasks /\ result[task[w]] = Waiting
      BY <1>6 DEF Reply, TypeOK, TasksPlaced
    <3>2. \A t \in Tasks : result[t] = Unasked => result'[t] = Unasked
      BY <1>6, <3>1 DEF Reply, TypeOK, Unasked, Waiting
    <3>3. QED
      BY <1>6, <3>2 DEF Reply, NoWorkers, Barrier, NoWorkerSeesAMutation, TypeOK
  <2>3. QED
    BY <2>1, <2>2
<1>7. ASSUME NEW w \in Workers, Panic(w) PROVE Main'
  <2>1. TypeOK'
    BY <1>7 DEF Panic, TypeOK, States
  <2>2. Barrier' /\ NoWorkerSeesAMutation'
    <3>1. task[w] \in Tasks /\ result[task[w]] = Waiting
      BY <1>7 DEF Panic, TypeOK, TasksPlaced
    <3>2. \A t \in Tasks : result[t] = Unasked => result'[t] = Unasked
      BY <1>7, <3>1 DEF Panic, TypeOK, Unasked, Waiting
    <3>3. QED
      BY <1>7, <3>2 DEF Panic, NoWorkers, Barrier, NoWorkerSeesAMutation, TypeOK
  <2>3. QED
    BY <2>1, <2>2
<1>8. ASSUME BeginMutation PROVE Main'
  <2>1. TypeOK'
    BY <1>8 DEF BeginMutation, TypeOK, OwnerStates
  <2>2. Barrier' /\ NoWorkerSeesAMutation'
    BY <1>8 DEF BeginMutation, NoWorkers, Barrier, NoWorkerSeesAMutation, TypeOK
  <2>3. QED
    BY <2>1, <2>2
<1>9. ASSUME NotifyAll PROVE Main'
  <2>1. TypeOK'
    BY <1>9 DEF NotifyAll, TypeOK, States, OwnerStates
  <2>2. Barrier' /\ NoWorkerSeesAMutation'
    BY <1>9 DEF NotifyAll, NoWorkers, Barrier, NoWorkerSeesAMutation, TypeOK
  <2>3. QED
    BY <2>1, <2>2
<1>10. ASSUME JoinAll PROVE Main'
  <2>1. TypeOK'
    BY <1>10 DEF JoinAll, TypeOK, States, OwnerStates
  <2>2. Barrier' /\ NoWorkerSeesAMutation'
    BY <1>10 DEF JoinAll, NoWorkers, Barrier, NoWorkerSeesAMutation, TypeOK
  <2>3. QED
    BY <2>1, <2>2
<1>11. ASSUME Mutate PROVE Main'
  <2>1. TypeOK'
    BY <1>11 DEF Mutate, TypeOK, OwnerStates
  <2>2. Barrier' /\ NoWorkerSeesAMutation'
    BY <1>11 DEF Mutate, NoWorkers, Barrier, NoWorkerSeesAMutation, TypeOK
  <2>3. QED
    BY <2>1, <2>2
<1>12. ASSUME UNCHANGED vars PROVE Main'
  BY <1>12 DEF vars, TypeOK, Barrier, NoWorkerSeesAMutation, NoWorkers
<1>13. Main'
  BY <1>1, <1>2, <1>3, <1>4, <1>5, <1>6, <1>7, <1>8, <1>9, <1>10, <1>11, <1>12
     DEF Next, OwnerStep, Step
<1>14. QED
  BY <1>13, NextTasksPlaced

\* The queue, the workers and the owner keep their types, and a worker has a task exactly
\* while it runs one, whatever the number of workers, searches, changes and panics.
THEOREM QueueTypeCorrect == Spec => []TypeOK
<1>1. QueueInv => TypeOK
  BY DEF QueueInv
<1>2. QED
  BY <1>1, InitQueueInv, NextQueueInv, PTL DEF Spec

\* StopSearchWorkers is a barrier: when the context changes no worker is alive, and a
\* worker that is alive was started on the context as it is.
THEOREM WorkersNeverSeeAMutation == Spec => []NoWorkerSeesAMutation
<1>1. QueueInv => NoWorkerSeesAMutation
  BY DEF QueueInv
<1>2. QED
  BY <1>1, InitQueueInv, NextQueueInv, PTL DEF Spec

\* Every unanswered search is in one place, once in the queue or with one worker, and
\* nothing else is there: neither stop nor a panic drops or duplicates a task of another.
THEOREM SearchesStayPlaced == Spec => []TasksPlaced
<1>1. QueueInv => TasksPlaced
  BY DEF QueueInv
<1>2. QED
  BY <1>1, InitQueueInv, NextQueueInv, PTL DEF Spec

-----------------------------------------------------------------------------
(* The service *)

\* Some worker survives: without it the owner joins sixteen dead workers, changes the
\* context, and the next workers answer the queue that was left on the new context.
SomeWorkerSurvives == MaxPanics < Cardinality(Workers)

Dead(st) == {w \in Workers : st[w] = "dead"}

\* A worker returns only when the queue is empty, and nothing is pushed once one may
\* return: while a task is queued, the dead workers are those that panicked.
DeadCounted ==
  /\ ~stop \/ queue # <<>> => Cardinality(Dead(state)) <= panics
  /\ NoWorkers => queue = <<>>

LEMMA DeadFinite ==
  ASSUME NEW st
  PROVE  IsFiniteSet(Dead(st)) /\ Cardinality(Dead(st)) \in Nat
<1>1. Dead(st) \in SUBSET Workers
  BY DEF Dead
<1>2. IsFiniteSet(Dead(st))
  BY <1>1, QueueAssumption, FS_Subset
<1>3. QED
  BY <1>2, FS_CardinalityType

LEMMA InitDeadCounted == Init => DeadCounted
<1> SUFFICES ASSUME Init PROVE DeadCounted
  OBVIOUS
<1>1. Dead(state) = {}
  BY DEF Init, Dead
<1>2. Cardinality({}) = 0
  BY FS_EmptySet
<1>3. queue = <<>> /\ panics = 0
  BY DEF Init
<1>4. Cardinality(Dead(state)) <= panics
  BY ONLY <1>1, <1>2, <1>3
<1>5. QED
  BY ONLY <1>3, <1>4 DEF DeadCounted

LEMMA NextDeadCounted ==
  ASSUME SomeWorkerSurvives, QueueInv, DeadCounted, [Next]_vars
  PROVE  DeadCounted'
<1> USE QueueAssumption DEF QueueInv
<1>1. ASSUME NEW t \in Tasks, BeginEnqueue(t) PROVE DeadCounted'
  <2>1. CASE NoWorkers /\ StartWorkers
    <3>1. Dead(state') = {} /\ queue' = queue /\ panics' = panics
      BY <1>1, <2>1 DEF BeginEnqueue, StartWorkers, Dead
    <3>2. Cardinality({}) = 0 /\ panics \in Nat
      BY FS_EmptySet DEF TypeOK
    <3>3. ~NoWorkers'
      BY <2>1 DEF StartWorkers, NoWorkers
    <3>4. Cardinality(Dead(state')) <= panics'
      BY <3>1, <3>2
    <3>5. QED
      BY <3>3, <3>4 DEF DeadCounted
  <2>2. CASE UNCHANGED <<stop, state, runtime>>
    BY <1>1, <2>2 DEF BeginEnqueue, DeadCounted, NoWorkers
  <2>3. QED
    BY <1>1, <2>1, <2>2 DEF BeginEnqueue
<1>2. ASSUME Push PROVE DeadCounted'
  <2>1. ~stop /\ ~NoWorkers
    BY <1>2 DEF Push, Barrier
  <2>2. QED
    BY <1>2, <2>1 DEF Push, DeadCounted, NoWorkers
<1>3. ASSUME NotifyOne \/ NotifyAll PROVE DeadCounted'
  <2>1. Dead(state') = Dead(state)
    BY <1>3 DEF NotifyOne, NotifyAll, Dead, TypeOK
  <2>2. UNCHANGED <<stop, queue, panics>>
    BY <1>3 DEF NotifyOne, NotifyAll
  <2>3. NoWorkers' => NoWorkers
    BY <1>3 DEF NotifyOne, NotifyAll, NoWorkers, TypeOK
  <2>4. QED
    BY <2>1, <2>2, <2>3 DEF DeadCounted
<1>4. ASSUME NEW w \in Workers, Wait(w) \/ Reply(w) PROVE DeadCounted'
  <2>1. Dead(state') = Dead(state)
    BY <1>4 DEF Wait, Reply, Dead, TypeOK
  <2>2. UNCHANGED <<stop, queue, panics>>
    BY <1>4 DEF Wait, Reply
  <2>3. ~NoWorkers'
    BY <1>4 DEF Wait, Reply, NoWorkers, TypeOK
  <2>4. QED
    BY <2>1, <2>2, <2>3 DEF DeadCounted
<1>5. ASSUME NEW w \in Workers, Return(w) PROVE DeadCounted'
  BY <1>5 DEF Return, DeadCounted
<1>6. ASSUME NEW w \in Workers, Pop(w) PROVE DeadCounted'
  <2>1. Dead(state') = Dead(state)
    BY <1>6 DEF Pop, Dead, TypeOK
  <2>2. queue # <<>> /\ UNCHANGED <<stop, panics>>
    BY <1>6 DEF Pop
  <2>3. ~NoWorkers'
    BY <1>6 DEF Pop, NoWorkers, TypeOK
  <2>4. QED
    BY <2>1, <2>2, <2>3 DEF DeadCounted
<1>7. ASSUME NEW w \in Workers, Panic(w) PROVE DeadCounted'
  <2>1. Dead(state') = Dead(state) \cup {w} /\ w \notin Dead(state)
    BY <1>7 DEF Panic, Dead, TypeOK
  <2>2. Cardinality(Dead(state')) = Cardinality(Dead(state)) + 1
    BY <2>1, DeadFinite, FS_AddElement
  <2>3. UNCHANGED <<stop, queue>> /\ panics' = panics + 1 /\ panics \in Nat
    BY <1>7 DEF Panic, TypeOK
  <2>4. ~NoWorkers'
    BY <1>7 DEF Panic, NoWorkers, TypeOK
  <2>5. Cardinality(Dead(state)) \in Nat
    BY DeadFinite
  <2>6. ~stop \/ queue # <<>> => Cardinality(Dead(state)) + 1 <= panics + 1
    BY <2>3, <2>5 DEF DeadCounted
  <2>7. QED
    BY <2>2, <2>3, <2>4, <2>6 DEF DeadCounted
<1>8. ASSUME BeginMutation PROVE DeadCounted'
  BY <1>8 DEF BeginMutation, DeadCounted, NoWorkers
<1>9. ASSUME JoinAll PROVE DeadCounted'
  <2>1. Dead(state) = Workers
    BY <1>9 DEF JoinAll, Dead
  <2>2. Cardinality(Workers) \in Nat
    BY FS_CardinalityType
  <2>3. queue = <<>>
    BY <2>1, <2>2 DEF DeadCounted, SomeWorkerSurvives, TypeOK
  <2>4. stop /\ UNCHANGED <<stop, queue>>
    BY <1>9 DEF JoinAll, Barrier
  <2>5. QED
    BY <2>3, <2>4 DEF DeadCounted
<1>10. ASSUME Mutate \/ UNCHANGED vars PROVE DeadCounted'
  BY <1>10 DEF Mutate, vars, DeadCounted, NoWorkers
<1>11. QED
  BY <1>1, <1>2, <1>3, <1>4, <1>5, <1>6, <1>7, <1>8, <1>9, <1>10 DEF Next, OwnerStep, Step

\* Once the workers are joined, no search waits.
LEMMA NobodyWaits ==
  ASSUME QueueInv, DeadCounted, NoWorkers
  PROVE  \A t \in Tasks : result[t] # Waiting
<1>1. ToSet(queue) = {}
  BY EmptyElements DEF DeadCounted
<1>2. \A w \in Workers : task[w] = NoTask
  BY DEF QueueInv, TypeOK, NoWorkers
<1>3. QED
  BY <1>1, <1>2, NoTaskIsNoTask DEF QueueInv, TasksPlaced

LEMMA StepImplements ==
  ASSUME QueueInv, DeadCounted, [Next]_vars
  PROVE  [Service!ServiceNext]_(Service!serviceVars)
<1> USE DEF QueueInv
<1>1. ASSUME Push PROVE Service!ServiceNext
  <2>1. next \in Tasks /\ Service!Ask(next)
    BY <1>1 DEF Push, Barrier, Service!Ask
  <2>2. QED
    BY <2>1 DEF Service!ServiceNext
<1>2. ASSUME NEW w \in Workers, Reply(w) PROVE Service!ServiceNext
  <2>1. task[w] \in Tasks /\ result[task[w]] = Waiting
    BY <1>2 DEF Reply, TypeOK, TasksPlaced
  <2>2. runtime[w] = generation
    BY <1>2 DEF Reply, NoWorkerSeesAMutation
  <2>3. Service!Answer(task[w])
    BY <1>2, <2>1, <2>2 DEF Reply, Service!Answer
  <2>4. QED
    BY <2>1, <2>3 DEF Service!ServiceNext
<1>3. ASSUME NEW w \in Workers, Panic(w) PROVE Service!ServiceNext
  <2>1. task[w] \in Tasks /\ result[task[w]] = Waiting
    BY <1>3 DEF Panic, TypeOK, TasksPlaced
  <2>2. Service!Lose(task[w])
    BY <1>3, <2>1 DEF Panic, Service!Lose
  <2>3. QED
    BY <2>1, <2>2 DEF Service!ServiceNext
<1>4. ASSUME Mutate PROVE Service!ServiceNext
  <2>1. NoWorkers
    BY <1>4 DEF Mutate, NoWorkerSeesAMutation
  <2>2. Service!Change
    BY <1>4, <2>1, NobodyWaits DEF Mutate, Service!Change
  <2>3. QED
    BY <2>2 DEF Service!ServiceNext
<1>5. ASSUME \/ \E t \in Tasks : BeginEnqueue(t)
             \/ BeginMutation \/ NotifyOne \/ NotifyAll \/ JoinAll
             \/ \E w \in Workers : Wait(w) \/ Return(w) \/ Pop(w)
             \/ UNCHANGED vars
      PROVE  UNCHANGED Service!serviceVars
  BY <1>5 DEF BeginEnqueue, BeginMutation, NotifyOne, NotifyAll, JoinAll, Wait, Return, Pop, vars,
     Service!serviceVars
<1>6. QED
  BY <1>1, <1>2, <1>3, <1>4, <1>5 DEF Next, OwnerStep, Step

\* While some worker survives its searches, the queue, its workers and the stop before
\* each change are a SearchService: every search is answered at most once, from the
\* context it was enqueued against, and no task survives into a later context.
THEOREM QueueImplementsService ==
  ASSUME SomeWorkerSurvives
  PROVE  Spec => ImplementsService
<1>1. Init => Service!ServiceInit
  BY DEF Init, Service!ServiceInit
<1>2. QueueInv /\ DeadCounted /\ [Next]_vars => DeadCounted'
  BY NextDeadCounted
<1>3. QueueInv /\ DeadCounted /\ [Next]_vars => [Service!ServiceNext]_(Service!serviceVars)
  BY StepImplements
<1>4. QED
  BY <1>1, <1>2, <1>3, InitQueueInv, NextQueueInv, InitDeadCounted, PTL
     DEF Spec, ImplementsService, Service!ServiceSpec
=============================================================================
