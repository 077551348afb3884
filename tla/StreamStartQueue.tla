-------------------------- MODULE StreamStartQueue --------------------------
(***************************************************************************)
(* streaming::StreamStartQueue (src/src/streaming/stream_start_queue.cpp): *)
(* the thread pool that runs gateway->Start() behind HandleStartStream.    *)
(*                                                                         *)
(* Workers block on cv_ with queue_mutex_ held while they evaluate its     *)
(* predicate.  Enqueue pushes under the mutex and notifies after it.  Stop *)
(* stores running_ and notifies without taking the mutex at all, so its    *)
(* steps fall anywhere between those of a worker.                          *)
(*                                                                         *)
(* The queue is destroyed by its last owner, and Stop is called by the     *)
(* destructor only: no Enqueue is under way then or comes later.           *)
(***************************************************************************)
EXTENDS Naturals, FiniteSets, Sequences

CONSTANTS
  Workers,   (* the threads of workers_                                     *)
  Tasks,     (* the StartTasks that may be enqueued, each once              *)
  MaxQueue,  (* max_queue_size_                                             *)
  None       (* a worker without a task                                     *)

ASSUME StreamStartQueueAssumption ==
  /\ IsFiniteSet(Workers) /\ Workers # {}
  /\ MaxQueue \in Nat
  /\ None \notin Tasks

VARIABLES
  queue,     (* queue_                                                      *)
  running,   (* running_                                                    *)
  pc,        (* where each worker is in WorkerLoop                          *)
  task,      (* the task each worker has taken                              *)
  notifying, (* tasks pushed whose notify_one is still to come              *)
  stop,      (* how far Stop has come                                       *)
  answer     (* what the submitter of each task knows of it                 *)

vars == <<queue, running, pc, task, notifying, stop, answer>>

-----------------------------------------------------------------------------
\* "loop" is the test of the while loop, "block" the moment between a false
\* predicate and the wait proper: only there does a worker hold queue_mutex_
\* over more than one step.
PC == {"loop", "lock", "block", "waiting", "exec", "exit"}

At(p) == {w \in Workers : pc[w] = p}

\* Workers on their way to the mutex.
Awake == At("loop") \cup At("lock")

\* Mutant: the predicate is evaluated without the mutex.
MutexFreeAlways == TRUE

MutexFree == At("block") = {}

\* Mutant: one task more than max_queue_size_ is let in.
FullLater == Len(queue) > MaxQueue

Full == Len(queue) >= MaxQueue

-----------------------------------------------------------------------------
(* Enqueue, from HTTP threads.                                             *)

Enqueue(t) ==
  /\ answer[t] = "new" /\ stop = "no"
  /\ MutexFree
  /\ IF Full
     THEN /\ answer' = [answer EXCEPT ![t] = "rejected"]
          /\ UNCHANGED <<queue, notifying>>
     ELSE /\ answer' = [answer EXCEPT ![t] = "accepted"]
          /\ queue' = Append(queue, t)
          /\ notifying' = notifying \cup {t}
  /\ UNCHANGED <<running, pc, task, stop>>

\* Mutant: nobody is notified.
WokenNobody(w) == pc

\* One of the waiting workers goes back for the mutex.
Woken(w) == [pc EXCEPT ![w] = "lock"]

NotifyOne(t) ==
  /\ t \in notifying
  /\ notifying' = notifying \ {t}
  /\ \/ At("waiting") = {} /\ UNCHANGED pc
     \/ \E w \in At("waiting") : pc' = Woken(w)
  /\ UNCHANGED <<queue, running, task, stop, answer>>

-----------------------------------------------------------------------------
(* WorkerLoop.                                                             *)

LoopTest(w) ==
  /\ pc[w] = "loop"
  /\ pc' = [pc EXCEPT ![w] = IF running THEN "lock" ELSE "exit"]
  /\ UNCHANGED <<queue, running, task, notifying, stop, answer>>

\* The worker gets the mutex and evaluates the predicate.  running_ only goes
\* from true to false, so the second test of it, after the wait, decides nothing
\* the first has not: a worker leaves when the queue is empty and running_ is
\* false, and "continue" is never reached.
Take(w) ==
  /\ pc[w] = "lock" /\ MutexFree
  /\ queue # <<>>
  /\ task' = [task EXCEPT ![w] = Head(queue)]
  /\ queue' = Tail(queue)
  /\ pc' = [pc EXCEPT ![w] = "exec"]
  /\ UNCHANGED <<running, notifying, stop, answer>>

FindNothing(w) ==
  /\ pc[w] = "lock" /\ MutexFree
  /\ queue = <<>>
  /\ pc' = [pc EXCEPT ![w] = IF running THEN "block" ELSE "exit"]
  /\ UNCHANGED <<queue, running, task, notifying, stop, answer>>

Block(w) ==
  /\ pc[w] = "block"
  /\ pc' = [pc EXCEPT ![w] = "waiting"]
  /\ UNCHANGED <<queue, running, task, notifying, stop, answer>>

\* A condition variable may wake a waiter for no reason.
SpuriousWakeup(w) ==
  /\ pc[w] = "waiting"
  /\ pc' = [pc EXCEPT ![w] = "lock"]
  /\ UNCHANGED <<queue, running, task, notifying, stop, answer>>

\* gateway->Start() has returned or thrown; the callback tells the submitter.
ExecuteTask(w, success) ==
  /\ pc[w] = "exec"
  /\ answer' = [answer EXCEPT ![task[w]] = IF success THEN "completed" ELSE "failed"]
  /\ task' = [task EXCEPT ![w] = None]
  /\ pc' = [pc EXCEPT ![w] = "loop"]
  /\ UNCHANGED <<queue, running, notifying, stop>>

-----------------------------------------------------------------------------
(* Stop.                                                                   *)

StopBegin ==
  /\ stop = "no" /\ notifying = {}
  /\ running' = FALSE
  /\ stop' = "notify"
  /\ UNCHANGED <<queue, pc, task, notifying, answer>>

NotifyAll ==
  /\ stop = "notify"
  /\ pc' = [w \in Workers |-> IF pc[w] = "waiting" THEN "lock" ELSE pc[w]]
  /\ stop' = "join"
  /\ UNCHANGED <<queue, running, task, notifying, answer>>

Joined ==
  /\ stop = "join"
  /\ \A w \in Workers : pc[w] = "exit"
  /\ stop' = "stopped"
  /\ UNCHANGED <<queue, running, pc, task, notifying, answer>>

-----------------------------------------------------------------------------
Init ==
  /\ queue = <<>>
  /\ running = TRUE
  /\ pc = [w \in Workers |-> "loop"]
  /\ task = [w \in Workers |-> None]
  /\ notifying = {}
  /\ stop = "no"
  /\ answer = [t \in Tasks |-> "new"]

Submit(t) == Enqueue(t) \/ NotifyOne(t)

WorkerStep(w) ==
  \/ LoopTest(w) \/ Take(w) \/ FindNothing(w) \/ Block(w)
  \/ \E success \in BOOLEAN : ExecuteTask(w, success)

Stop == StopBegin \/ NotifyAll \/ Joined

Next ==
  \/ \E t \in Tasks : Submit(t)
  \/ \E w \in Workers : WorkerStep(w) \/ SpuriousWakeup(w)
  \/ Stop

Spec == Init /\ [][Next]_vars

\* Threads that can run do, and a start attempt returns: the probes and the
\* process start behind it all have time limits.  Nobody has to enqueue, to stop
\* the queue, or to be woken for no reason.
FairSpec ==
  /\ Spec
  /\ \A w \in Workers : WF_vars(WorkerStep(w))
  /\ \A t \in Tasks : WF_vars(NotifyOne(t))
  /\ WF_vars(NotifyAll) /\ WF_vars(Joined)

-----------------------------------------------------------------------------
(* Properties.                                                             *)

\* Every variable holds values of its type.
TypeOK ==
  /\ queue \in Seq(Tasks)
  /\ running \in BOOLEAN
  /\ pc \in [Workers -> PC]
  /\ task \in [Workers -> Tasks \cup {None}]
  /\ notifying \subseteq Tasks
  /\ stop \in {"no", "notify", "join", "stopped"}
  /\ answer \in [Tasks -> {"new", "accepted", "rejected", "completed", "failed"}]

\* No wakeup is lost while the queue runs: as long as a worker sleeps, there are
\* at least as many notifications still to come and workers on their way to the
\* mutex as there are tasks in the queue.
NoLostWakeup ==
  running /\ At("waiting") # {} =>
    Len(queue) <= Cardinality(notifying) + Cardinality(Awake)

\* The queue implements the pool its users see, with each worker a slot.
Pool == INSTANCE StartPool WITH
  Slots <- Workers, waiting <- queue, serving <- task, open <- running

ImplementsPool == Pool!FairSpec

\* Whoever was told "starting" is called back, unless the queue is stopped.
EveryTaskAnswered ==
  \A t \in Tasks :
    answer[t] = "accepted" ~> answer[t] \in {"completed", "failed"} \/ ~running

\* Stop waits for the workers, and they all leave: Stop returns.
StopReturns == (stop = "notify") ~> (stop = "stopped")
=============================================================================
