----------------------- MODULE StreamStartQueue_proofs -----------------------
(***************************************************************************)
(* Proofs about StreamStartQueue, for any number of workers and tasks and  *)
(* any queue size.                                                         *)
(***************************************************************************)
EXTENDS StreamStartQueue, FiniteSetTheorems, TLAPS

-----------------------------------------------------------------------------
(* The inductive invariant.                                                *)

\* A worker has a task while it executes it, and no longer.
TaskOK == \A w \in Workers : pc[w] = "exec" <=> task[w] # None

\* The predicate a worker is about to sleep on is still false for the queue:
\* it holds the mutex.
BlockOK == At("block") # {} => queue = <<>>

\* Submitters that have still to notify have pushed their task.
NotifyingOK ==
  /\ IsFiniteSet(notifying)
  /\ \A t \in notifying : answer[t] # "new"

QueueOK == Len(queue) <= MaxQueue /\ (running <=> stop = "no")

IInv == TypeOK /\ TaskOK /\ BlockOK /\ NotifyingOK /\ QueueOK /\ NoLostWakeup

LEMMA AwakeFinite ==
  /\ IsFiniteSet(Awake) /\ Cardinality(Awake) \in Nat
  /\ IsFiniteSet(Awake)' /\ Cardinality(Awake)' \in Nat
<1>1. Awake \subseteq Workers /\ Awake' \subseteq Workers
  BY DEF Awake, At
<1>2. IsFiniteSet(Awake) /\ IsFiniteSet(Awake')
  BY <1>1, FS_Subset, StreamStartQueueAssumption
<1>. QED BY <1>2, FS_CardinalityType

-----------------------------------------------------------------------------
(* One lemma for each step that the count of wakeups depends on.           *)

LEMMA EnqueueStep ==
  ASSUME IInv, NEW t \in Tasks, Enqueue(t)
  PROVE  IInv'
<1>1. CASE Full
  BY <1>1 DEF IInv, Enqueue, TypeOK, TaskOK, BlockOK, NotifyingOK, QueueOK,
              NoLostWakeup, At, Awake
<1>2. CASE ~Full
  <2>1. /\ answer' = [answer EXCEPT ![t] = "accepted"]
        /\ queue' = Append(queue, t)
        /\ notifying' = notifying \cup {t}
        /\ UNCHANGED <<running, pc, task, stop>>
        /\ t \notin notifying /\ MutexFree
    BY <1>2 DEF Enqueue, IInv, NotifyingOK
  <2>2. /\ IsFiniteSet(notifying') /\ Cardinality(notifying) \in Nat
        /\ Cardinality(notifying') = Cardinality(notifying) + 1
    BY <2>1, FS_AddElement, FS_CardinalityType DEF IInv, NotifyingOK
  <2>3. Len(queue') = Len(queue) + 1 /\ Len(queue) \in Nat
    BY <2>1 DEF IInv, TypeOK
  <2>4. TypeOK'
    BY <2>1 DEF IInv, TypeOK
  <2>5. TaskOK' /\ BlockOK'
    BY <2>1 DEF IInv, TaskOK, BlockOK, MutexFree, At
  <2>6. NotifyingOK'
    BY <2>1, <2>2 DEF IInv, NotifyingOK, TypeOK
  <2>7. QueueOK'
    BY <1>2, <2>1, <2>3, StreamStartQueueAssumption DEF IInv, QueueOK, Full
  <2>8. NoLostWakeup'
    <3>1. Awake' = Awake /\ At("waiting")' = At("waiting")
      BY <2>1 DEF Awake, At
    <3>2. SUFFICES ASSUME running, At("waiting") # {}
                   PROVE  Len(queue') <= Cardinality(notifying') + Cardinality(Awake)
      BY <2>1, <3>1 DEF NoLostWakeup
    <3>3. Len(queue) <= Cardinality(notifying) + Cardinality(Awake)
      BY <3>2 DEF IInv, NoLostWakeup
    <3>. QED BY <2>2, <2>3, <3>3, AwakeFinite
  <2>. QED BY <2>4, <2>5, <2>6, <2>7, <2>8 DEF IInv
<1>. QED BY <1>1, <1>2

LEMMA NotifyOneStep ==
  ASSUME IInv, NEW t \in Tasks, NotifyOne(t)
  PROVE  IInv'
<1>1. /\ t \in notifying /\ notifying' = notifying \ {t}
      /\ UNCHANGED <<queue, running, task, stop, answer>>
  BY DEF NotifyOne
<1>2. /\ IsFiniteSet(notifying') /\ Cardinality(notifying) \in Nat
      /\ Cardinality(notifying') = Cardinality(notifying) - 1
  BY <1>1, FS_RemoveElement, FS_CardinalityType DEF IInv, NotifyingOK
<1>3. NotifyingOK' /\ QueueOK'
  BY <1>1, <1>2 DEF IInv, NotifyingOK, QueueOK
<1>4. CASE At("waiting") = {} /\ UNCHANGED pc
  BY <1>1, <1>3, <1>4
     DEF IInv, TypeOK, TaskOK, BlockOK, NoLostWakeup, At
<1>5. ASSUME NEW w \in At("waiting"), pc' = Woken(w) PROVE IInv'
  <2>1. /\ w \in Workers /\ pc[w] = "waiting"
        /\ pc' = [pc EXCEPT ![w] = "lock"]
    BY <1>5 DEF At, Woken
  <2>2. TypeOK'
    BY <1>1, <2>1 DEF IInv, TypeOK, PC
  <2>3. TaskOK' /\ BlockOK'
    BY <1>1, <2>1 DEF IInv, TypeOK, TaskOK, BlockOK, At
  <2>4. Awake' = Awake \cup {w} /\ w \notin Awake
    BY <2>1 DEF IInv, TypeOK, Awake, At
  <2>5. Cardinality(Awake') = Cardinality(Awake) + 1
    BY <2>4, AwakeFinite, FS_AddElement
  <2>6. running => Len(queue) <= Cardinality(notifying) + Cardinality(Awake)
    BY <1>5 DEF IInv, NoLostWakeup
  <2>7. NoLostWakeup'
    BY <1>1, <1>2, <2>5, <2>6, AwakeFinite DEF NoLostWakeup, IInv, TypeOK
  <2>. QED BY <1>3, <2>2, <2>3, <2>7 DEF IInv
<1>. QED BY <1>4, <1>5 DEF NotifyOne

LEMMA TakeStep ==
  ASSUME IInv, NEW w \in Workers, Take(w)
  PROVE  IInv'
<1>1. /\ pc[w] = "lock" /\ MutexFree /\ queue # <<>> /\ queue \in Seq(Tasks)
      /\ task' = [task EXCEPT ![w] = Head(queue)]
      /\ queue' = Tail(queue)
      /\ pc' = [pc EXCEPT ![w] = "exec"]
      /\ UNCHANGED <<running, notifying, stop, answer>>
  BY DEF Take, IInv, TypeOK
<1>2. /\ Head(queue) \in Tasks /\ Tail(queue) \in Seq(Tasks)
      /\ Len(queue) \in Nat /\ Len(queue') = Len(queue) - 1
  BY <1>1
<1>3. TypeOK'
  BY <1>1, <1>2 DEF IInv, TypeOK, PC
<1>4. TaskOK'
  BY <1>1, <1>2, StreamStartQueueAssumption DEF IInv, TypeOK, TaskOK
<1>5. BlockOK' /\ NotifyingOK'
  BY <1>1 DEF IInv, TypeOK, BlockOK, NotifyingOK, MutexFree, At
<1>6. QueueOK'
  BY <1>1, <1>2, StreamStartQueueAssumption DEF IInv, QueueOK
<1>7. NoLostWakeup'
  <2>1. Awake' = Awake \ {w} /\ w \in Awake /\ At("waiting")' = At("waiting")
    BY <1>1 DEF IInv, TypeOK, Awake, At
  <2>2. Cardinality(Awake') = Cardinality(Awake) - 1
    BY <2>1, AwakeFinite, FS_RemoveElement
  <2>3. SUFFICES ASSUME running, At("waiting") # {}
                 PROVE  Len(queue') <= Cardinality(notifying) + Cardinality(Awake')
    BY <1>1, <2>1 DEF NoLostWakeup
  <2>4. Len(queue) <= Cardinality(notifying) + Cardinality(Awake)
    BY <2>3 DEF IInv, NoLostWakeup
  <2>5. Cardinality(notifying) \in Nat
    BY FS_CardinalityType DEF IInv, NotifyingOK
  <2>. QED BY <1>2, <2>2, <2>4, <2>5, AwakeFinite
<1>. QED BY <1>3, <1>4, <1>5, <1>6, <1>7 DEF IInv

\* Steps that move a worker to the loop or the mutex and leave the queue alone.
LEMMA AwakenedStep ==
  ASSUME IInv, NEW w \in Workers,
         SpuriousWakeup(w) \/ \E success \in BOOLEAN : ExecuteTask(w, success)
  PROVE  IInv'
<1>1. /\ UNCHANGED <<queue, running, notifying, stop>>
      /\ pc[w] \in {"waiting", "exec"}
      /\ \E p \in {"loop", "lock"} : pc' = [pc EXCEPT ![w] = p]
  BY DEF SpuriousWakeup, ExecuteTask
<1>2. answer' \in [Tasks -> {"new", "accepted", "rejected", "completed", "failed"}]
      /\ \A t \in Tasks : answer'[t] = "new" => answer[t] = "new"
  BY DEF SpuriousWakeup, ExecuteTask, IInv, TypeOK
<1>3. task' \in [Workers -> Tasks \cup {None}] /\ TaskOK'
  BY DEF SpuriousWakeup, ExecuteTask, IInv, TypeOK, TaskOK
<1>4. TypeOK'
  BY <1>1, <1>2, <1>3 DEF IInv, TypeOK, PC
<1>5. BlockOK' /\ NotifyingOK' /\ QueueOK'
  BY <1>1, <1>2 DEF IInv, TypeOK, BlockOK, NotifyingOK, QueueOK, At
<1>6. NoLostWakeup'
  <2>1. Awake' = Awake \cup {w} /\ w \notin Awake
    BY <1>1 DEF IInv, TypeOK, Awake, At
  <2>2. Cardinality(Awake') = Cardinality(Awake) + 1
    BY <2>1, AwakeFinite, FS_AddElement
  <2>3. At("waiting")' \subseteq At("waiting")
    BY <1>1 DEF IInv, TypeOK, At
  <2>4. SUFFICES ASSUME running, At("waiting") # {}
                 PROVE  Len(queue) <= Cardinality(notifying) + Cardinality(Awake')
    BY <1>1, <2>3 DEF NoLostWakeup
  <2>5. Len(queue) <= Cardinality(notifying) + Cardinality(Awake)
    BY <2>4 DEF IInv, NoLostWakeup
  <2>6. Cardinality(notifying) \in Nat /\ Len(queue) \in Nat
    BY FS_CardinalityType DEF IInv, NotifyingOK, TypeOK
  <2>. QED BY <2>2, <2>5, <2>6, AwakeFinite
<1>. QED BY <1>3, <1>4, <1>5, <1>6 DEF IInv

\* Steps of a worker that finds running_ false or the queue empty, or that only
\* goes from the loop to the mutex.
LEMMA IdleStep ==
  ASSUME IInv, NEW w \in Workers, LoopTest(w) \/ FindNothing(w) \/ Block(w)
  PROVE  IInv'
<1>1. UNCHANGED <<queue, running, task, notifying, stop, answer>>
  BY DEF LoopTest, FindNothing, Block
<1>2. /\ pc[w] \in {"loop", "lock", "block"}
      /\ \E p \in {"lock", "exit", "block", "waiting"} : pc' = [pc EXCEPT ![w] = p]
  BY DEF LoopTest, FindNothing, Block
<1>3. TypeOK' /\ TaskOK'
  BY <1>1, <1>2 DEF IInv, TypeOK, PC, TaskOK
<1>4. NotifyingOK' /\ QueueOK'
  BY <1>1 DEF IInv, NotifyingOK, QueueOK
<1>5. CASE LoopTest(w) /\ running
  <2>1. Awake' = Awake /\ At("waiting")' = At("waiting") /\ At("block")' = At("block")
    BY <1>5 DEF LoopTest, IInv, TypeOK, Awake, At
  <2>2. BlockOK' /\ NoLostWakeup'
    BY <1>1, <2>1 DEF IInv, BlockOK, NoLostWakeup
  <2>. QED BY <1>3, <1>4, <2>2 DEF IInv
<1>6. CASE LoopTest(w) /\ ~running
  <2>1. At("block")' = At("block")
    BY <1>6 DEF LoopTest, IInv, TypeOK, At
  <2>2. BlockOK' /\ NoLostWakeup'
    BY <1>1, <1>6, <2>1 DEF IInv, BlockOK, NoLostWakeup
  <2>. QED BY <1>3, <1>4, <2>2 DEF IInv
<1>7. CASE FindNothing(w) \/ Block(w)
  <2>1. queue = <<>>
    BY <1>7 DEF FindNothing, Block, IInv, BlockOK, At
  <2>2. Cardinality(notifying) \in Nat
    BY FS_CardinalityType DEF IInv, NotifyingOK
  <2>3. BlockOK'
    BY <1>1, <2>1 DEF BlockOK
  <2>4. Len(queue') = 0
    BY <1>1, <2>1
  <2>5. NoLostWakeup'
    BY <1>1, <2>2, <2>4, AwakeFinite DEF NoLostWakeup
  <2>. QED BY <1>3, <1>4, <2>3, <2>5 DEF IInv
<1>. QED BY <1>5, <1>6, <1>7

LEMMA StopStep == IInv /\ Stop => IInv'
<1>1. ASSUME IInv, StopBegin PROVE IInv'
  BY <1>1 DEF IInv, StopBegin, TypeOK, TaskOK, BlockOK, NotifyingOK, QueueOK,
              NoLostWakeup, At
<1>2. ASSUME IInv, NotifyAll PROVE IInv'
  BY <1>2 DEF IInv, NotifyAll, TypeOK, PC, TaskOK, BlockOK, NotifyingOK, QueueOK,
              NoLostWakeup, At
<1>3. ASSUME IInv, Joined PROVE IInv'
  BY <1>3 DEF IInv, Joined, TypeOK, TaskOK, BlockOK, NotifyingOK, QueueOK,
              NoLostWakeup, At
<1>. QED BY <1>1, <1>2, <1>3 DEF Stop

-----------------------------------------------------------------------------
LEMMA InitIInv == Init => IInv
<1>. SUFFICES ASSUME Init PROVE IInv
  OBVIOUS
<1>1. IsFiniteSet(notifying) /\ Cardinality(notifying) = 0
  BY FS_EmptySet DEF Init
<1>2. At("waiting") = {} /\ At("block") = {}
  BY DEF Init, At
<1>. QED BY <1>1, <1>2, StreamStartQueueAssumption
   DEF Init, IInv, TypeOK, PC, TaskOK, BlockOK, NotifyingOK, QueueOK, NoLostWakeup

LEMMA NextIInv == IInv /\ [Next]_vars => IInv'
<1>. SUFFICES ASSUME IInv, [Next]_vars PROVE IInv'
  OBVIOUS
<1>1. ASSUME NEW t \in Tasks, Submit(t) PROVE IInv'
  BY <1>1, EnqueueStep, NotifyOneStep DEF Submit
<1>2. ASSUME NEW w \in Workers, WorkerStep(w) \/ SpuriousWakeup(w) PROVE IInv'
  BY <1>2, TakeStep, IdleStep, AwakenedStep DEF WorkerStep
<1>3. CASE Stop
  BY <1>3, StopStep
<1>4. CASE UNCHANGED vars
  BY <1>4 DEF vars, IInv, TypeOK, TaskOK, BlockOK, NotifyingOK, QueueOK,
              NoLostWakeup, At, Awake
<1>. QED BY <1>1, <1>2, <1>3, <1>4 DEF Next

\* The invariant the others follow from.
THEOREM Invariance == Spec => []IInv
BY InitIInv, NextIInv, PTL DEF Spec

\* However workers, submitters and Stop interleave, no task is left in the queue
\* with every worker asleep and nobody about to wake one.
THEOREM WakeupsSuffice == Spec => []NoLostWakeup
<1>1. IInv => NoLostWakeup
  BY DEF IInv
<1>. QED BY Invariance, <1>1, PTL

-----------------------------------------------------------------------------
(* The queue implements the pool.                                          *)

LEMMA StepRefines == IInv /\ [Next]_vars => [Pool!Next]_Pool!vars
<1>. SUFFICES ASSUME IInv, Next PROVE [Pool!Next]_Pool!vars
  BY DEF vars, Pool!vars
<1>1. ASSUME NEW t \in Tasks, Enqueue(t) PROVE Pool!Next
  <2>1. CASE Full
    <3>1. Len(queue) = MaxQueue
      BY <2>1, StreamStartQueueAssumption DEF Full, IInv, QueueOK, TypeOK
    <3>2. Pool!Reject(t)
      BY <1>1, <2>1, <3>1 DEF Enqueue, Pool!Reject, IInv, QueueOK
    <3>. QED BY <3>2 DEF Pool!Next
  <2>2. CASE ~Full
    <3>1. Len(queue) < MaxQueue
      BY <2>2, StreamStartQueueAssumption DEF Full, IInv, TypeOK
    <3>2. Pool!Accept(t)
      BY <1>1, <2>2, <3>1 DEF Enqueue, Pool!Accept, IInv, QueueOK
    <3>. QED BY <3>2 DEF Pool!Next
  <2>. QED BY <2>1, <2>2
<1>2. ASSUME NEW t \in Tasks, NotifyOne(t) PROVE UNCHANGED Pool!vars
  BY <1>2 DEF NotifyOne, Pool!vars
<1>3. ASSUME NEW w \in Workers, Take(w) PROVE Pool!Next
  <2>1. Pool!Begin(w)
    BY <1>3 DEF Take, Pool!Begin, IInv, TaskOK
  <2>. QED BY <2>1 DEF Pool!Next, Pool!Serve
<1>4. ASSUME NEW w \in Workers, NEW success \in BOOLEAN, ExecuteTask(w, success)
      PROVE  Pool!Next
  <2>1. Pool!Finish(w, IF success THEN "completed" ELSE "failed")
    BY <1>4 DEF ExecuteTask, Pool!Finish, IInv, TaskOK
  <2>. QED BY <2>1 DEF Pool!Next, Pool!Serve
<1>5. ASSUME NEW w \in Workers,
             LoopTest(w) \/ FindNothing(w) \/ Block(w) \/ SpuriousWakeup(w)
      PROVE  UNCHANGED Pool!vars
  BY <1>5 DEF LoopTest, FindNothing, Block, SpuriousWakeup, Pool!vars
<1>6. CASE StopBegin
  <2>1. Pool!Close
    BY <1>6 DEF StopBegin, Pool!Close, IInv, QueueOK
  <2>. QED BY <2>1 DEF Pool!Next
<1>7. CASE NotifyAll \/ Joined
  BY <1>7 DEF NotifyAll, Joined, Pool!vars
<1>. QED BY <1>1, <1>2, <1>3, <1>4, <1>5, <1>6, <1>7
        DEF Next, Submit, WorkerStep, Stop

\* The queue, its mutex and its condition variable implement the pool: a task
\* that was let in is served once, in order, by one worker at a time.
THEOREM QueueIsPool == Spec => Pool!Spec
<1>1. Init => Pool!Init
  BY DEF Init, Pool!Init
<1>. QED BY <1>1, StepRefines, Invariance, PTL DEF Spec, Pool!Spec
=============================================================================
