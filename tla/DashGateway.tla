---------------------------- MODULE DashGateway ----------------------------
(* DASH sources: gateway/dash/dash_gateway.cpp.  There are no proxies.      *)
EXTENDS PullGateway

\* The old process is stopped.
CheckStreamExists(t) == Check(t, HasProcess(call[t].stream), FALSE)

Start(t) == BeginPull(t) \/ CheckStreamExists(t) \/ LockAndPull(t) \/ NoProxy(t) \/ Transcode(t)

StopStream == \E s \in Streams : Stop(s, FALSE)

IsRunning == \E s \in Streams : Observe(s, ByProcess(s))

\* Nothing in the repository calls it; whoever links the gateway may.
GetStatus == \E s \in Streams : Observe(s, ByProcess(s))

\* The destructor stops the processes.
Destructor == Destroy({})

Next == StopStream \/ IsRunning \/ GetStatus \/ Destructor \/ \E t \in Threads : Start(t)
=============================================================================
