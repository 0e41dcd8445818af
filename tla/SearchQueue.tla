------------------------------ MODULE SearchQueue ------------------------------
(***************************************************************************)
(* The search queue of an IndexContext (IndexAccess/IndexContext.rs): the  *)
(* thread that owns the context enqueues searches, a pool of workers runs  *)
(* them on a snapshot of the context (a SearchRuntime), and every          *)
(* operation that changes the context first stops the workers.             *)
(*                                                                         *)
(* All of Enqueue, StopSearchWorkers and the mutations take &mut self:     *)
(* there is one owner. A worker that panics in ExecuteSearchTask is gone,  *)
(* and drops the sender of its task.                                       *)
(***************************************************************************)
EXTENDS Integers, Sequences, FiniteSets, SequencesExt

CONSTANTS
  Workers,        \* the worker threads: 16 in EnqueueWithMode
  Tasks,          \* the searches that may be enqueued
  MaxMutations,   \* bound on the changes of the context
  MaxPanics       \* bound on the searches that panic

NoTask == "no task"

ASSUME QueueAssumption ==
  /\ IsFiniteSet(Workers) /\ Workers # {}
  /\ IsFiniteSet(Tasks) /\ NoTask \notin Tasks
  /\ MaxMutations \in Nat
  /\ MaxPanics \in Nat

VARIABLES
  queue,       \* SearchQueueState.queue
  stop,        \* SearchQueueState.stop
  state,       \* where each worker is
  task,        \* the task a worker runs
  runtime,     \* the SearchRuntime a worker was spawned with: a generation
  generation,  \* how often the context was changed
  owner,       \* where the owner of the context is
  next,        \* the task it is enqueuing
  result,      \* what the receiver of each task's SearchTask sees
  panics       \* how many searches have panicked

vars == <<queue, stop, state, task, runtime, generation, owner, next, result, panics>>

\* What a receiver sees is a generation (the results were computed on it), or:
Unasked == -1
Waiting == -2
Lost    == -3          \* the sender was dropped: Wait returns the default, no results

\* none: not in m_SearchWorkers; dead: panicked or returned, its handle not joined.
States == {"none", "check", "wait", "run", "dead"}

\* free: outside the context. ensured, pushed: in EnqueueWithMode, after
\* EnsureSearchWorkersStarted and after the push. stopped, joining: in StopSearchWorkers,
\* after stop = true and after notify_all. quiet: past the barrier, about to mutate.
OwnerStates == {"free", "ensured", "pushed", "stopped", "joining", "quiet"}

Init ==
  /\ queue      = <<>>
  /\ stop       = FALSE
  /\ state      = [w \in Workers |-> "none"]
  /\ task       = [w \in Workers |-> NoTask]
  /\ runtime    = [w \in Workers |-> 0]
  /\ generation = 0
  /\ owner      = "free"
  /\ next       = NoTask
  /\ result     = [t \in Tasks |-> Unasked]
  /\ panics     = 0

-----------------------------------------------------------------------------
(* EnqueueWithMode *)

NoWorkers == \A w \in Workers : state[w] = "none"     \* m_SearchWorkers.is_empty()

\* EnsureSearchWorkersStarted: all workers share one snapshot of the context.
StartWorkers ==
  /\ stop'    = FALSE
  /\ state'   = [w \in Workers |-> "check"]
  /\ runtime' = [w \in Workers |-> generation]

BeginEnqueue(t) ==
  /\ owner = "free"
  /\ result[t] = Unasked
  /\ \/ NoWorkers /\ StartWorkers
     \/ ~NoWorkers /\ UNCHANGED <<stop, state, runtime>>
  /\ next'  = t
  /\ owner' = "ensured"
  /\ UNCHANGED <<queue, task, generation, result, panics>>

Push ==
  /\ owner = "ensured"
  /\ queue'  = Append(queue, next)
  /\ result' = [result EXCEPT ![next] = Waiting]
  /\ owner'  = "pushed"
  /\ UNCHANGED <<stop, state, task, runtime, generation, next, panics>>

\* cv.notify_one, after the mutex of the queue is released.
NotifyOne ==
  /\ owner = "pushed"
  /\ IF \E w \in Workers : state[w] = "wait"
     THEN \E w \in Workers : state[w] = "wait" /\ state' = [state EXCEPT ![w] = "check"]
     ELSE UNCHANGED state
  /\ next'  = NoTask
  /\ owner' = "free"
  /\ UNCHANGED <<queue, stop, task, runtime, generation, result, panics>>

-----------------------------------------------------------------------------
(* SearchWorkerLoop *)

\* Fault: the worker waits without looking at the queue.
WaitBlindly(w) ==
  /\ state[w] = "check"
  /\ ~stop
  /\ state' = [state EXCEPT ![w] = "wait"]
  /\ UNCHANGED <<queue, stop, task, runtime, generation, owner, next, result, panics>>

Wait(w) ==
  /\ state[w] = "check"
  /\ queue = <<>>
  /\ ~stop
  /\ state' = [state EXCEPT ![w] = "wait"]
  /\ UNCHANGED <<queue, stop, task, runtime, generation, owner, next, result, panics>>

\* Fault: stop makes a worker leave tasks in the queue.
ReturnAtOnce(w) ==
  /\ state[w] = "check"
  /\ stop
  /\ state' = [state EXCEPT ![w] = "dead"]
  /\ UNCHANGED <<queue, stop, task, runtime, generation, owner, next, result, panics>>

Return(w) ==
  /\ state[w] = "check"
  /\ queue = <<>>
  /\ stop
  /\ state' = [state EXCEPT ![w] = "dead"]
  /\ UNCHANGED <<queue, stop, task, runtime, generation, owner, next, result, panics>>

\* Queued tasks are run even when stop is set.
Pop(w) ==
  /\ state[w] = "check"
  /\ queue # <<>>
  /\ task'  = [task EXCEPT ![w] = Head(queue)]
  /\ queue' = Tail(queue)
  /\ state' = [state EXCEPT ![w] = "run"]
  /\ UNCHANGED <<stop, runtime, generation, owner, next, result, panics>>

\* Fault: the worker keeps the task it has answered.
ReplyKeepsTask(w) ==
  /\ state[w] = "run"
  /\ result' = [result EXCEPT ![task[w]] = runtime[w]]
  /\ state'  = [state EXCEPT ![w] = "check"]
  /\ UNCHANGED <<queue, stop, task, runtime, generation, owner, next, panics>>

\* ExecuteSearchTask, then reply.send: the results come from the worker's runtime.
Reply(w) ==
  /\ state[w] = "run"
  /\ result' = [result EXCEPT ![task[w]] = runtime[w]]
  /\ task'   = [task EXCEPT ![w] = NoTask]
  /\ state'  = [state EXCEPT ![w] = "check"]
  /\ UNCHANGED <<queue, stop, runtime, generation, owner, next, panics>>

Panic(w) ==
  /\ state[w] = "run"
  /\ panics < MaxPanics
  /\ panics' = panics + 1
  /\ result' = [result EXCEPT ![task[w]] = Lost]
  /\ task'   = [task EXCEPT ![w] = NoTask]
  /\ state'  = [state EXCEPT ![w] = "dead"]
  /\ UNCHANGED <<queue, stop, runtime, generation, owner, next>>

-----------------------------------------------------------------------------
(* StopSearchWorkers, and a mutation: AddDocument, Build, SaveIndex, LoadIndex,
   SetQueryParameters, ResetLoadedRuntimeState ... *)

\* Fault: an operation that does not call StopSearchWorkers.
BeginMutationUnstopped ==
  /\ owner = "free"
  /\ generation < MaxMutations
  /\ owner' = "quiet"
  /\ UNCHANGED <<queue, stop, state, task, runtime, generation, next, result, panics>>

BeginMutation ==
  /\ owner = "free"
  /\ generation < MaxMutations
  /\ \/ NoWorkers /\ owner' = "quiet" /\ UNCHANGED stop
     \/ ~NoWorkers /\ owner' = "stopped" /\ stop' = TRUE
  /\ UNCHANGED <<queue, state, task, runtime, generation, next, result, panics>>

\* Fault: one waiting worker is woken.
StopNotifiesOne ==
  /\ owner = "stopped"
  /\ IF \E w \in Workers : state[w] = "wait"
     THEN \E w \in Workers : state[w] = "wait" /\ state' = [state EXCEPT ![w] = "check"]
     ELSE UNCHANGED state
  /\ owner' = "joining"
  /\ UNCHANGED <<queue, stop, task, runtime, generation, next, result, panics>>

NotifyAll ==
  /\ owner = "stopped"
  /\ state' = [w \in Workers |-> IF state[w] = "wait" THEN "check" ELSE state[w]]
  /\ owner' = "joining"
  /\ UNCHANGED <<queue, stop, task, runtime, generation, next, result, panics>>

\* join returns for a worker that has returned, and for one that has panicked.
JoinAll ==
  /\ owner = "joining"
  /\ \A w \in Workers : state[w] = "dead"
  /\ state' = [w \in Workers |-> "none"]
  /\ owner' = "quiet"
  /\ UNCHANGED <<queue, stop, task, runtime, generation, next, result, panics>>

Mutate ==
  /\ owner = "quiet"
  /\ generation' = generation + 1
  /\ owner' = "free"
  /\ UNCHANGED <<queue, stop, state, task, runtime, next, result, panics>>

-----------------------------------------------------------------------------

Step(w) == Wait(w) \/ Return(w) \/ Pop(w) \/ Reply(w) \/ Panic(w)

OwnerStep == Push \/ NotifyOne \/ NotifyAll \/ JoinAll \/ Mutate

Next ==
  \/ \E t \in Tasks : BeginEnqueue(t)
  \/ BeginMutation
  \/ OwnerStep
  \/ \E w \in Workers : Step(w)

Spec == Init /\ [][Next]_vars

\* Threads that can run are scheduled, and ExecuteSearchTask ends. Nothing obliges
\* the owner to enqueue another search or to change the context.
Fairness == WF_vars(OwnerStep) /\ \A w \in Workers : WF_vars(Step(w))

FairSpec == Spec /\ Fairness

-----------------------------------------------------------------------------
(* Properties *)

\* The types of the queue, the workers and the owner; a worker has a task while it runs it.
TypeOK ==
  /\ queue \in Seq(Tasks)
  /\ stop \in BOOLEAN
  /\ state \in [Workers -> States]
  /\ task \in [Workers -> Tasks \cup {NoTask}]
  /\ \A w \in Workers : state[w] = "run" <=> task[w] # NoTask
  /\ runtime \in [Workers -> Nat]
  /\ generation \in Nat
  /\ owner \in OwnerStates
  /\ next \in Tasks \cup {NoTask}
  /\ result \in [Tasks -> Nat \cup {Unasked, Waiting, Lost}]
  /\ panics \in 0 .. MaxPanics

\* "Runtime-owning fields are never replaced while workers can still observe them":
\* when the context changes no worker is alive, and none sees an older context than
\* the current one.
NoWorkerSeesAMutation ==
  /\ owner = "quiet" => NoWorkers
  /\ \A w \in Workers : state[w] # "none" => runtime[w] = generation

\* Every search that was asked is answered, with results or, if its worker panicked,
\* with none: the notification after the unlock is never lost, and no stop drops a task.
EverySearchEnds == \A t \in Tasks : result[t] = Waiting ~> result[t] # Waiting

\* StopSearchWorkers returns, also when workers are waiting, running or dead.
StopReturns == owner = "stopped" ~> owner = "free"

Service == INSTANCE SearchService WITH
  Searches <- Tasks,
  index    <- generation,
  outcome  <- result

\* Every search is answered from the context it was enqueued against, once, and no
\* task survives into a later context.
ImplementsService == Service!ServiceSpec
=============================================================================
