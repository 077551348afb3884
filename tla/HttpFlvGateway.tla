--------------------------- MODULE HttpFlvGateway ---------------------------
(***************************************************************************)
(* HTTP-FLV sources: gateway/httpflv/httpflv_gateway.cpp.                  *)
(*                                                                         *)
(* The address of an RTMP source is refused, and streams_mutex_ is then    *)
(* unlocked by hand under a lock_guard that unlocks it again.  That is     *)
(* undefined; the build's mutex is let go of a second time, whoever holds  *)
(* it by then.                                                             *)
(***************************************************************************)
EXTENDS PullGateway

VARIABLE
  stolen       (* history: the lock was taken from a start that held it     *)

\* The old process is stopped, and the old proxy deleted.
CheckStreamExists(t) == Check(t, HasProcess(call[t].stream), TRUE)

\* An RTMP address: the entry says Error, and the lock is let go of by hand.
Refuse(t) ==
  /\ At(t, "process") /\ Move(t, "refused") /\ Unlock(t)
  /\ streams' = [streams EXCEPT ![call[t].stream] = Entry(call[t], "Error", FALSE)]
  /\ UNCHANGED <<up, proxy, process, requests, history>>

\* The registry has been told, and the lock_guard goes.
UnlockAgain(t) ==
  /\ At(t, "refused") /\ Return(t)
  /\ lock' = None
  /\ stolen' = (stolen \/ ~Free)
  /\ UNCHANGED <<up, media, requests, history>>

Start(t) ==
  \/ UnlockAgain(t)
  \/ /\ BeginPull(t) \/ CheckStreamExists(t) \/ LockAndPull(t) \/ Refuse(t) \/ Process(t)
     /\ UNCHANGED stolen

StopStream == \E s \in Streams : Stop(s, TRUE)

IsRunning == \E s \in Streams : Observe(s, CheckIsRunning(s))

\* Nothing in the repository calls it; whoever links the gateway may.
GetStatus == \E s \in Streams : Observe(s, CheckStatus(s))

\* The destructor stops the processes, and deletes every proxy.
Destructor == Destroy({s \in Streams : streams[s].here})

Next ==
  \/ \E t \in Threads : Start(t)
  \/ (StopStream \/ IsRunning \/ GetStatus \/ Destructor) /\ UNCHANGED stolen
=============================================================================
