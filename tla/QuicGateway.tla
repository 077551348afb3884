---------------------------- MODULE QuicGateway ----------------------------
(***************************************************************************)
(* QUIC sources: gateway/quic/quic_gateway.cpp, quic_server.cpp and        *)
(* ts_to_ffmpeg_bridge.cpp.  There are no proxies.                         *)
(*                                                                         *)
(* A quic:// address makes the gateway a server: what is received goes     *)
(* through a named pipe to an FFmpeg of its own, whose pid nobody knows.   *)
(* It ends when the other end of its pipe is closed; one that was late to  *)
(* open the pipe, and found no writer, waits for one for ever, and is left. *)
(***************************************************************************)
EXTENDS PullGateway

VARIABLES
  server,      (* quic_server_started_                                      *)
  fed          (* streams whose bridge has both ends of its pipe open       *)

quicVars == <<server, fed>>

\* The old process is stopped by its pid; a bridge has none.
CheckStreamExists(t) == Check(t, HasProcess(call[t].stream), FALSE)

\* Once started, the server is not asked again.  It may be switched off, and its
\* port may be taken.
QuicServerStart == IF server THEN {TRUE} ELSE BOOLEAN

QuicServerStop == server' = FALSE

\* A bridge goes with its entry: the pipe is closed, and FFmpeg ends.
WithoutBridge(s) == fed \ {s}

\* FFmpeg has opened the pipe within a second; or it has not, and nobody opens
\* the other end any more.
StartFFmpeg(s) ==
  \/ fed' = fed \cup {s} /\ UNCHANGED left
  \/ fed' = WithoutBridge(s) /\ left' = left \cup {s}

\* The server, the pipe and FFmpeg may each fail.
StartQuicServerMode(t) ==
  LET s == call[t].stream IN
  /\ At(t, "process")
  /\ \E started \in QuicServerStart :
       /\ server' = started
       /\ \/ /\ fed' = WithoutBridge(s) /\ UNCHANGED left
             /\ Finish(t, Entry(call[t], "Error", FALSE))
          \/ started /\ StartFFmpeg(s) /\ Finish(t, Entry(call[t], "Running", FALSE))
  /\ UNCHANGED <<up, proxy, alive, requests, history>>

Start(t) ==
  \/ (BeginPull(t) \/ CheckStreamExists(t) \/ LockAndPull(t) \/ NoProxy(t)) /\ UNCHANGED quicVars
  \/ Transcode(t) /\ fed' = WithoutBridge(call[t].stream) /\ UNCHANGED server
  \/ StartQuicServerMode(t)

\* StopFFmpeg has no pid to kill; the bridge is destroyed with its pipe.
StopQuicServerMode(s) == fed' = IF streams[s].here THEN WithoutBridge(s) ELSE fed

StopStream ==
  /\ \E s \in Streams : Stop(s, FALSE) /\ StopQuicServerMode(s)
  /\ UNCHANGED server

\* A bridge has no pid, so its stream does not run.
IsRunning == (\E s \in Streams : Observe(s, ByProcess(s))) /\ UNCHANGED quicVars

\* Nothing in the repository calls it; whoever links the gateway may.
GetStatus == (\E s \in Streams : Observe(s, ByProcess(s))) /\ UNCHANGED quicVars

\* The destructor stops processes, bridges and the server.
Destructor == Destroy({}) /\ fed' = {} /\ QuicServerStop

\* FFmpeg ends by itself.
BridgeEnds ==
  /\ \E s \in fed : fed' = fed \ {s}
  /\ UNCHANGED <<pullVars, server>>

Next ==
  StopStream \/ IsRunning \/ GetStatus \/ Destructor \/ BridgeEnds \/ \E t \in Threads : Start(t)
=============================================================================
