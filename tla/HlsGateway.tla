---------------------------- MODULE HlsGateway -----------------------------
(* HLS sources: gateway/hls/hls_gateway.cpp.  They always go through FFmpeg, *)
(* although Start has a way to a proxy.                                    *)
EXTENDS PullGateway

\* The old process is stopped, and the old proxy deleted.
CheckStreamExists(t) == Check(t, HasProcess(call[t].stream), TRUE)

Start(t) == BeginPull(t) \/ CheckStreamExists(t) \/ LockAndPull(t) \/ NoProxy(t) \/ Transcode(t)

StopStream == \E s \in Streams : Stop(s, TRUE)

IsRunning == \E s \in Streams : Observe(s, CheckIsRunning(s))

\* Nothing in the repository calls it; whoever links the gateway may.
GetStatus == \E s \in Streams : Observe(s, CheckStatus(s))

\* The destructor stops the processes, and deletes the proxies of streams without.
Destructor == Destroy(HadNone)

Next == StopStream \/ IsRunning \/ GetStatus \/ Destructor \/ \E t \in Threads : Start(t)
=============================================================================
