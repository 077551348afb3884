------------------------------ MODULE StartPool ------------------------------
(***************************************************************************)
(* What HandleStartStream relies on when it hands a start task to the      *)
(* queue and answers "starting" at once: a bounded line of tasks that a    *)
(* fixed number of slots serve in order, each task once.                   *)
(***************************************************************************)
EXTENDS Naturals, Sequences

CONSTANTS
  Slots,     (* one for each worker                                         *)
  Tasks,     (* the tasks that may be submitted                             *)
  MaxQueue,  (* how many may wait                                           *)
  None       (* a slot that serves no task                                  *)

VARIABLES
  waiting,   (* the tasks accepted and not begun, oldest first              *)
  serving,   (* the task of every slot                                      *)
  answer,    (* what is known of every task                                 *)
  open       (* FALSE once the pool is being closed                         *)

vars == <<waiting, serving, answer, open>>

Init ==
  /\ waiting = <<>>
  /\ serving = [s \in Slots |-> None]
  /\ answer = [t \in Tasks |-> "new"]
  /\ open = TRUE

Accept(t) ==
  /\ open /\ answer[t] = "new"
  /\ Len(waiting) < MaxQueue
  /\ waiting' = Append(waiting, t)
  /\ answer' = [answer EXCEPT ![t] = "accepted"]
  /\ UNCHANGED <<serving, open>>

Reject(t) ==
  /\ open /\ answer[t] = "new"
  /\ Len(waiting) = MaxQueue
  /\ answer' = [answer EXCEPT ![t] = "rejected"]
  /\ UNCHANGED <<waiting, serving, open>>

\* A free slot takes the oldest task.  Closing does not stop a slot that is
\* about to take one.
Begin(s) ==
  /\ serving[s] = None /\ waiting # <<>>
  /\ serving' = [serving EXCEPT ![s] = Head(waiting)]
  /\ waiting' = Tail(waiting)
  /\ UNCHANGED <<answer, open>>

Finish(s, result) ==
  /\ serving[s] # None
  /\ answer' = [answer EXCEPT ![serving[s]] = result]
  /\ serving' = [serving EXCEPT ![s] = None]
  /\ UNCHANGED <<waiting, open>>

Close ==
  /\ open /\ open' = FALSE
  /\ UNCHANGED <<waiting, serving, answer>>

Serve(s) == Begin(s) \/ \E result \in {"completed", "failed"} : Finish(s, result)

Next ==
  \/ \E t \in Tasks : Accept(t) \/ Reject(t)
  \/ \E s \in Slots : Serve(s)
  \/ Close

Spec == Init /\ [][Next]_vars

\* While the pool is open, tasks that wait are begun whenever a slot is free,
\* and what was begun is finished.
FairSpec ==
  /\ Spec
  /\ WF_vars(open /\ \E s \in Slots : Begin(s))
  /\ \A s \in Slots : WF_vars(\E result \in {"completed", "failed"} : Finish(s, result))
=============================================================================
