------------------------------ MODULE BlockWorker ------------------------------
(***************************************************************************)
(* The worker access mode of a BlockCachePool, on top of BlockCache: a     *)
(* caller pins a ready page itself (TryPinReadyOrWait), otherwise it puts  *)
(* a BlockRequest in the bounded queue BCP_Requests and waits until the    *)
(* block thread has run ProcessGetBlockLocked for it. The readers'         *)
(* actions of BlockCache are ProcessGetBlockLocked, run by the reader      *)
(* itself in direct mode and by the block thread for a queued request.     *)
(*                                                                         *)
(* SetDirectBlockAccessEnabled switches between the modes at run time: it  *)
(* starts the block thread, or stops it (ExitBlockThread) and joins it.    *)
(*                                                                         *)
(* BCP_RequestCv is shared by the block thread (waiting for a request) and *)
(* by the submitters (waiting for room).                                   *)
(***************************************************************************)
EXTENDS BlockCache, Sequences, SequencesExt

CONSTANTS
  RingSize,      \* BLOCK_REQUEST_RING_SIZE: the most requests that may be queued
  MaxSwitches,   \* bound on the calls of SetDirectBlockAccessEnabled
  QuietSwitch    \* worker mode is left only when no reader is inside GetBlock

ASSUME WorkerAssumption ==
  /\ RingSize \in Nat \ {0}
  /\ MaxSwitches \in Nat
  /\ QuietSwitch \in BOOLEAN
  /\ Mergers = {}

VARIABLES
  direct,      \* m_DirectBlockAccess
  queue,       \* BCP_Requests: the readers whose requests are queued
  phase,       \* where each reader's GetBlock is
  thread,      \* the block thread
  ExitThread,  \* BCP_ExitThread
  ctl,         \* where SetDirectBlockAccessEnabled is
  switches     \* how often it was called

workerVars == <<direct, queue, phase, thread, ExitThread, ctl, switches>>
allVars == <<vars, workerVars>>

(***************************************************************************)
(* out     outside GetBlock, or with a handle                              *)
(* direct  runs ProcessGetBlockLocked itself                               *)
(* try     in TryPinReadyOrWait                                            *)
(* submit  about to take the mutex of BCP_Requests in SubmitBlockRequest   *)
(* full    in BCP_RequestCv.wait there                                     *)
(* queued  in BlockRequest::Wait, the request is in the queue              *)
(* served  in BlockRequest::Wait, the block thread works on the request    *)
(***************************************************************************)
Phases == {"out", "direct", "try", "submit", "full", "queued", "served"}

(***************************************************************************)
(* none    not spawned, or joined                                          *)
(* check   about to take the mutex of BCP_Requests                         *)
(* drowsy  has seen an empty queue and no exit, still holds the mutex      *)
(* asleep  in BCP_RequestCv.wait                                           *)
(* busy    works on a request                                              *)
(* done    has left BlockThreadMain                                        *)
(***************************************************************************)
ThreadStates == {"none", "check", "drowsy", "asleep", "busy", "done"}

WorkerInit ==
  /\ Init
  /\ direct     = TRUE
  /\ queue      = <<>>
  /\ phase      = [r \in Readers |-> "out"]
  /\ thread     = "none"
  /\ ExitThread = FALSE
  /\ ctl        = "rest"
  /\ switches   = 0

Switching == <<direct, ExitThread, ctl, switches>>

-----------------------------------------------------------------------------
(* GetBlock *)

\* GetBlock reads m_DirectBlockAccess once.
Call(r, b) ==
  /\ phase[r] = "out"
  /\ GetBlock(r, b)
  /\ phase' = [phase EXCEPT ![r] = IF direct THEN "direct" ELSE "try"]
  /\ UNCHANGED <<queue, thread, Switching>>

\* Back outside when ProcessGetBlockLocked and RequestHandle are done.
Outcome(r) == IF pc'[r] \in {"idle", "hold"} THEN "out" ELSE phase[r]

DirectFetch(r) ==
  /\ phase[r] = "direct"
  /\ Fetch(r)
  /\ phase' = [phase EXCEPT ![r] = Outcome(r)]
  /\ UNCHANGED <<queue, thread, Switching>>

Drop(r) ==
  /\ phase[r] = "out"
  /\ Release(r)
  /\ UNCHANGED workerVars

\* Fault: a resident page is pinned even when it is in flight.
TryPinInFlight(r) ==
  /\ phase[r] = "try"
  /\ pc[r] = "lookup"
  /\ Resident(req[r])
  /\ Ref'   = [Ref EXCEPT ![LogicTable[req[r]]] = @ + 1]
  /\ slot'  = [slot EXCEPT ![r] = LogicTable[req[r]]]
  /\ pc'    = [pc EXCEPT ![r] = "hold"]
  /\ phase' = [phase EXCEPT ![r] = "out"]
  /\ UNCHANGED <<LogicTable, BlockID, Loading, EvictSlot, Page, req, queue, thread, Switching>>

\* TryPinReadyOrWait pins a ready page or waits for one in flight.
TryPin(r) ==
  /\ phase[r] = "try"
  /\ Hit(r) \/ WaitWhileLoading(r)
  /\ phase' = [phase EXCEPT ![r] = Outcome(r)]
  /\ UNCHANGED <<queue, thread, Switching>>

\* Out of range, or not resident: the request goes to the block thread.
TryNothing(r) ==
  /\ phase[r] = "try"
  /\ pc[r] = "lookup"
  /\ req[r] \in Blocks => Missing(r)
  /\ phase' = [phase EXCEPT ![r] = "submit"]
  /\ UNCHANGED <<vars, queue, thread, Switching>>

QueueMutexFree == thread # "drowsy"

Waiters == {r \in Readers : phase[r] = "full"}

SubmitWhenFull(r) ==
  /\ phase[r] = "submit"
  /\ QueueMutexFree
  /\ Len(queue) = RingSize
  /\ phase' = [phase EXCEPT ![r] = "full"]
  /\ UNCHANGED <<vars, queue, thread, Switching>>

\* BCP_RequestCv.notify_one picks any waiter, the block thread or a submitter;
\* ph is the readers' phases but for the one it wakes.
NotifyOne(ph) ==
  IF Waiters = {} /\ thread # "asleep"
  THEN phase' = ph /\ UNCHANGED thread
  ELSE \/ /\ thread = "asleep"
          /\ thread' = "check"
          /\ phase' = ph
       \/ \E w \in Waiters : phase' = [ph EXCEPT ![w] = "submit"] /\ UNCHANGED thread

\* Fault: the ring takes one request too many.
SubmitPastRoom(r) ==
  /\ phase[r] = "submit"
  /\ QueueMutexFree
  /\ Len(queue) <= RingSize
  /\ queue' = Append(queue, r)
  /\ NotifyOne([phase EXCEPT ![r] = "queued"])
  /\ UNCHANGED <<vars, Switching>>

\* Fault: nobody is told of the request.
SubmitSilently(r) ==
  /\ phase[r] = "submit"
  /\ QueueMutexFree
  /\ Len(queue) < RingSize
  /\ queue' = Append(queue, r)
  /\ phase' = [phase EXCEPT ![r] = "queued"]
  /\ UNCHANGED <<vars, thread, Switching>>

Submit(r) ==
  /\ phase[r] = "submit"
  /\ QueueMutexFree
  /\ Len(queue) < RingSize
  /\ queue' = Append(queue, r)
  /\ NotifyOne([phase EXCEPT ![r] = "queued"])
  /\ UNCHANGED <<vars, Switching>>

-----------------------------------------------------------------------------
(* BlockThreadMain *)

\* The while condition is read under the mutex, ExitThread is not written under it.
Doze ==
  /\ thread = "check"
  /\ ~ExitThread
  /\ queue = <<>>
  /\ thread' = "drowsy"
  /\ UNCHANGED <<vars, queue, phase, Switching>>

Sleep ==
  /\ thread = "drowsy"
  /\ thread' = "asleep"
  /\ UNCHANGED <<vars, queue, phase, Switching>>

Leave ==
  /\ thread = "check"
  /\ ExitThread
  /\ queue = <<>>
  /\ thread' = "done"
  /\ UNCHANGED <<vars, queue, phase, Switching>>

\* Fault: the request is looked at and stays in the queue.
PopKeepsRequest ==
  /\ thread = "check"
  /\ queue # <<>>
  /\ phase' = [r \in Readers |-> IF r = Head(queue) THEN "served"
                                 ELSE IF phase[r] = "full" THEN "submit"
                                 ELSE phase[r]]
  /\ thread' = "busy"
  /\ UNCHANGED <<vars, queue, Switching>>

\* Fault: the submitters are not told that there is room.
PopSilently ==
  /\ thread = "check"
  /\ queue # <<>>
  /\ queue' = Tail(queue)
  /\ phase' = [phase EXCEPT ![Head(queue)] = "served"]
  /\ thread' = "busy"
  /\ UNCHANGED <<vars, Switching>>

\* Requests left in the queue are served before the thread leaves. notify_all.
Pop ==
  /\ thread = "check"
  /\ queue # <<>>
  /\ queue' = Tail(queue)
  /\ phase' = [r \in Readers |-> IF r = Head(queue) THEN "served"
                                 ELSE IF phase[r] = "full" THEN "submit"
                                 ELSE phase[r]]
  /\ thread' = "busy"
  /\ UNCHANGED <<vars, Switching>>

\* ProcessGetBlockLocked for the request of r.
Serve(r) ==
  /\ phase[r] = "served"
  /\ Fetch(r)
  /\ UNCHANGED workerVars

\* BlockRequest::Complete; Wait returns and RequestHandle makes the handle.
Complete(r) ==
  /\ phase[r] = "served"
  /\ pc[r] \in {"idle", "hold"}
  /\ phase' = [phase EXCEPT ![r] = "out"]
  /\ thread' = "check"
  /\ UNCHANGED <<vars, queue, Switching>>

-----------------------------------------------------------------------------
(* SetDirectBlockAccessEnabled *)

EnableWorker ==
  /\ ctl = "rest"
  /\ direct
  /\ switches < MaxSwitches
  /\ switches' = switches + 1
  /\ direct' = FALSE
  /\ ctl' = "start"
  /\ UNCHANGED <<vars, queue, phase, thread, ExitThread>>

StartBlockThread ==
  /\ ctl = "start"
  /\ ExitThread' = FALSE
  /\ thread' = "check"
  /\ ctl' = "rest"
  /\ UNCHANGED <<vars, direct, queue, phase, switches>>

EnableDirect ==
  /\ ctl = "rest"
  /\ ~direct
  /\ QuietSwitch => \A r \in Readers : phase[r] = "out"
  /\ switches < MaxSwitches
  /\ switches' = switches + 1
  /\ direct' = TRUE
  /\ ctl' = "exit"
  /\ UNCHANGED <<vars, queue, phase, thread, ExitThread>>

\* ExitBlockThread: the flag is stored and the condition variable notified
\* without the mutex of BCP_Requests.
StoreExit ==
  /\ ctl = "exit"
  /\ ExitThread' = TRUE
  /\ ctl' = "notify"
  /\ UNCHANGED <<vars, direct, queue, phase, thread, switches>>

SignalExit ==
  /\ ctl = "notify"
  /\ NotifyOne(phase)
  /\ ctl' = "join"
  /\ UNCHANGED <<vars, direct, queue, ExitThread, switches>>

Join ==
  /\ ctl = "join"
  /\ thread = "done"
  /\ thread' = "none"
  /\ ctl' = "rest"
  /\ UNCHANGED <<vars, direct, queue, phase, ExitThread, switches>>

-----------------------------------------------------------------------------

ReaderStep(r) ==
  \/ DirectFetch(r) \/ TryPin(r) \/ TryNothing(r) \/ SubmitWhenFull(r) \/ Submit(r)

ThreadStep ==
  Doze \/ Sleep \/ Leave \/ Pop \/ \E r \in Readers : Serve(r) \/ Complete(r)

SwitchStep == StartBlockThread \/ StoreExit \/ SignalExit \/ Join

WorkerNext ==
  \/ \E r \in Readers : \/ \E b \in 0 .. TotalBlockCount : Call(r, b)
                        \/ ReaderStep(r)
                        \/ Drop(r)
  \/ ThreadStep
  \/ EnableWorker \/ EnableDirect \/ SwitchStep

WorkerSpec == WorkerInit /\ [][WorkerNext]_allVars

\* Every thread that can run is scheduled, and file reads return. Nobody is
\* obliged to call GetBlock or SetDirectBlockAccessEnabled, or to drop a handle.
WorkerFairness ==
  /\ \A r \in Readers : WF_allVars(ReaderStep(r))
  /\ WF_allVars(ThreadStep)
  /\ WF_allVars(SwitchStep)

FairWorkerSpec == WorkerSpec /\ WorkerFairness

-----------------------------------------------------------------------------
(* Properties *)

\* The types of the queue, the threads and the mode switch; the queue keeps its bound.
WorkerTypeOK ==
  /\ TypeOK
  /\ direct \in BOOLEAN
  /\ queue \in Seq(Readers) /\ Len(queue) <= RingSize
  /\ phase \in [Readers -> Phases]
  /\ thread \in ThreadStates
  /\ ExitThread \in BOOLEAN
  /\ ctl \in {"rest", "start", "exit", "notify", "join"}
  /\ switches \in 0 .. MaxSwitches

\* A request is in the queue exactly while its reader waits for it, and at most
\* one is being served, by a live thread.
RequestsAccounted ==
  /\ IsInjective(queue)
  /\ ToSet(queue) = {r \in Readers : phase[r] = "queued"}
  /\ \A r, q \in Readers : phase[r] = "served" /\ phase[q] = "served" => r = q
  /\ (\E r \in Readers : phase[r] = "served") <=> thread = "busy"

\* Every queued request is answered, with a handle or with nothing: the single
\* notify_one of SubmitBlockRequest always reaches the sleeping block thread, although
\* submitters wait on the same condition variable; and the mode switch strands nobody.
RequestsAnswered == \A r \in Readers : phase[r] = "queued" ~> phase[r] = "out"

\* A submitter that found the queue full is woken when there is room.
SubmittersWoken == \A r \in Readers : phase[r] = "full" ~> phase[r] # "full"

\* A call of SetDirectBlockAccessEnabled(true) returns: ExitBlockThread joins the thread.
ExitReturns == ctl = "join" ~> ctl = "rest"
=============================================================================
