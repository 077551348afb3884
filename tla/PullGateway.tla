---------------------------- MODULE PullGateway ----------------------------
(***************************************************************************)
(* What the gateways that pull a stream from an address have in common:    *)
(* streams_, and the start, stop and status of a stream that ZLMediaKit    *)
(* pulls by proxy or FFmpeg pushes to it.  RtmpGateway, HlsGateway,        *)
(* HttpFlvGateway, DashGateway and QuicGateway are given the address;      *)
(* DeviceGateway says how those of network cameras ask for it.             *)
(* PullGateways puts all of them together.                                 *)
(*                                                                         *)
(* A start looks for its stream under streams_mutex_, lets go of it, and   *)
(* takes it again for all the rest, the whole of ProcessStream included.   *)
(* What ProcessStream and the handlers tell the registry is left to        *)
(* StreamLifecycle, which follows the RTSP gateway in every detail.        *)
(*                                                                         *)
(* Nobody looks whether a stream could be deleted, or its process stopped. *)
(***************************************************************************)
EXTENDS Naturals, FiniteSets

CONSTANTS
  Devices, Channels, Streams, Threads,
  Creds,         (* credentials users give                                  *)
  Anonymous,     (* the lack of any                                         *)
  None,          (* no address, no thread                                   *)
  MaxRequests    (* bound: calls                                            *)

ASSUME PullGatewayAssumption ==
  /\ Anonymous \notin Creds
  /\ None \notin Threads \cup Streams
  /\ MaxRequests \in Nat

VARIABLES
  up,          (* FALSE once the destructor has run                         *)
  streams,     (* streams_                                                  *)
  lock,        (* the start that holds streams_mutex_ while it waits        *)
  call,        (* what each thread is at                                    *)
  proxy,       (* the address ZLMediaKit's proxy of each stream pulls       *)
  alive,       (* streams whose FFmpeg process is alive                     *)
  left,        (* streams with a live process that no stop reaches          *)
  requests,    (* calls so far                                              *)
  overlapped,  (* history: streams started, or found to run, during a start *)
  lingering    (* history: streams whose proxy was late, or not deleted     *)

process  == <<alive, left>>
media    == <<streams, proxy, process>>
history  == <<overlapped, lingering>>
pullVars == <<up, media, lock, call, requests, history>>

-----------------------------------------------------------------------------
NoEntry == [here |-> FALSE]
Idle    == [pc |-> "idle"]

\* Where a stream comes from: a channel of a device, with credentials or not.
Address(d, c, k) == [dev |-> d, chan |-> c, cred |-> k]

\* Mutant: the status of the result is not copied.
StaleEntry(x, status, p) ==
  [here |-> TRUE, status |-> IF status = "Error" THEN status ELSE "Starting",
   url |-> x.url, ffmpeg |-> p]

\* The entry a call leaves.  What was asked for is kept with the address that stands
\* for it, and never looked at again.
Entry(x, status, p) == [here |-> TRUE, status |-> status, url |-> x.url, ffmpeg |-> p]

HasProcess(s)    == streams[s].here /\ streams[s].ffmpeg
HadNone          == {s \in Streams : streams[s].here /\ ~HasProcess(s)}
Free             == lock = None
At(t, pc)        == call[t].pc = pc
InFlight(t)      == call[t].pc # "idle"
Starting(t, s)   == InFlight(t) /\ call[t].stream = s
Busy(s)          == \E t \in Threads : Starting(t, s)
Move(t, pc)      == call' = [call EXCEPT ![t].pc = pc]
Return(t)        == call' = [call EXCEPT ![t] = Idle]
Unlock(t)        == lock' = IF lock = t THEN None ELSE lock

-----------------------------------------------------------------------------
(* What the gateways ask of ZLMediaKit and of FFmpegProcessHelper.         *)

\* AddStreamProxy.  A proxy that is there already counts as the one asked for.
Added(s, u) == IF proxy[s] = None THEN u ELSE proxy[s]

\* Mutant: the proxy of a stream that FFmpeg pushes is not deleted.
WithoutProxyByPid(ss) ==
  [s \in Streams |-> IF s \in ss /\ ~HasProcess(s) THEN None ELSE proxy[s]]

WithoutProxy(ss) == [s \in Streams |-> IF s \in ss THEN None ELSE proxy[s]]

\* DeleteStream of each stream in ss; it may fail, or not be answered in time.
DeleteStreams(ss) ==
  \E failed \in SUBSET ss :
    /\ proxy' = WithoutProxy(ss \ failed)
    /\ lingering' = (lingering \ ss) \cup {s \in failed : proxy[s] # None}

\* The manager has started a process, or has one it takes to be running; when it
\* gives none, the executor forks one.  A process there may be besides is left.
StartProcess(s) ==
  /\ alive' = alive \cup {s}
  /\ left' \in {left, left \cup ({s} \cap alive)}

\* StopProcess of each stream in ss.  The manager does not know a process that the
\* executor has forked, which lives on.
StopProcesses(ss) ==
  \E forked \in SUBSET (ss \cap alive) :
    /\ alive' = alive \ ss
    /\ left' = left \cup forked

-----------------------------------------------------------------------------
(* A start.                                                                *)

Begin(t, s, asked) ==
  /\ up /\ ~InFlight(t) /\ requests < MaxRequests
  /\ requests' = requests + 1
  /\ call' = [call EXCEPT ![t] = [pc |-> "check", stream |-> s, asked |-> asked]]
  /\ overlapped' = IF Busy(s) THEN overlapped \cup {s} ELSE overlapped
  /\ UNCHANGED <<up, media, lock, lingering>>

\* The address is given, credentials and all.
BeginPull(t) ==
  \E s \in Streams, d \in Devices, c \in Channels : Begin(t, s, Address(d, c, Anonymous))

\* Mutant: only a stream that FFmpeg pushes counts as running.
RunsByPid(e) == e.here /\ e.status = "Running" /\ e.ffmpeg

Runs(e) == e.here /\ e.status = "Running"

\* CheckStreamExists.  A stream that says it runs is believed; of any other the
\* process is stopped if kills says so, and the proxy deleted if deletes does.  The
\* entry says Stopped then, or Error, as the manager tells: not what became of a
\* process it did not know.
Check(t, kills, deletes) ==
  LET s == call[t].stream  e == streams[s] IN
  /\ At(t, "check") /\ Free
  /\ IF Runs(e) THEN Return(t) /\ UNCHANGED <<media, lingering>>
     ELSE /\ Move(t, "lock")
          /\ IF e.here /\ deletes THEN DeleteStreams({s}) ELSE UNCHANGED <<proxy, lingering>>
          /\ IF e.here /\ kills
             THEN /\ StopProcesses({s})
                  /\ \E status \in {"Stopped", "Error"} :
                       streams' = [streams EXCEPT ![s].status = status]
             ELSE UNCHANGED <<streams, process>>
  /\ UNCHANGED <<up, lock, requests, overlapped>>

\* The start knows the address to pull.
Pull(t, u) ==
  call' = [call EXCEPT ![t] =
    [pc |-> "process", stream |-> @.stream, asked |-> @.asked, url |-> u]]

\* The lock is taken again; the address is the one that was asked for.
LockAndPull(t) ==
  /\ At(t, "lock") /\ Free
  /\ lock' = t /\ Pull(t, call[t].asked)
  /\ UNCHANGED <<up, media, requests, history>>

-----------------------------------------------------------------------------
(* ProcessStream, under streams_mutex_.                                    *)

Finish(t, e) ==
  /\ streams' = [streams EXCEPT ![call[t].stream] = e]
  /\ Return(t) /\ Unlock(t)

\* The proxy is up and sends, or none was added where the stream exists already.
ProxySends(t) ==
  LET s == call[t].stream IN
  /\ At(t, "process")
  /\ proxy' \in {proxy, [proxy EXCEPT ![s] = Added(s, call[t].url)]}
  /\ Finish(t, Entry(call[t], "Running", FALSE))
  /\ UNCHANGED <<up, process, requests, history>>

\* It is refused; or there but silent, and deleted; or that fails, or it is not
\* there yet and left to come.  FFmpeg is next.
ProxyFails(t) ==
  LET s == call[t].stream IN
  /\ At(t, "process") /\ Move(t, "ffmpeg")
  /\ \/ UNCHANGED <<proxy, lingering>>
     \/ proxy' = WithoutProxy({s}) /\ lingering' = lingering \ {s}
     \/ /\ proxy' = [proxy EXCEPT ![s] = Added(s, call[t].url)]
        /\ lingering' = lingering \cup {s}
  /\ UNCHANGED <<up, streams, process, lock, requests, overlapped>>

\* FFmpeg is chosen for the codecs at hand, or the gateway has no proxies.
NoProxy(t) ==
  /\ At(t, "process") /\ Move(t, "ffmpeg")
  /\ UNCHANGED <<up, media, lock, requests, history>>

\* StartFFmpegTranscode: the stream has come, or has not come in time though the
\* process lives; or the process is found dead, or there is none.
Transcode(t) ==
  LET s == call[t].stream IN
  /\ At(t, "ffmpeg")
  /\ \/ /\ StartProcess(s)
        /\ \E status \in {"Running", "Error"} : Finish(t, Entry(call[t], status, TRUE))
     \/ /\ alive' \in {alive, alive \ {s}} /\ UNCHANGED left
        /\ \E pid \in BOOLEAN : Finish(t, Entry(call[t], "Error", pid))
  /\ UNCHANGED <<up, proxy, requests, history>>

Process(t) == ProxySends(t) \/ ProxyFails(t) \/ NoProxy(t) \/ Transcode(t)

-----------------------------------------------------------------------------
(* The status of a stream: what its entry may become, by whether its       *)
(* process lives and whether ZLMediaKit says that the stream is active.    *)

Lives(s) == streams[s].ffmpeg /\ s \in alive

\* IsProcessAlive.  A dead child that nobody has waited for is found, too.
Sees(s) == IF Lives(s) THEN {TRUE} ELSE {FALSE, streams[s].ffmpeg}

ByProcess(s) ==
  {[streams[s] EXCEPT !.status = IF seen THEN "Running" ELSE "Stopped"] : seen \in Sees(s)}

\* ZLMediaKit hears of the stream, or does not though its process lives, or does
\* not and has none.
Checked(s, unheard) ==
  UNION {{[streams[s] EXCEPT !.status = status, !.ffmpeg = seen] :
            status \in {"Running", IF seen THEN unheard
                                   ELSE IF streams[s].ffmpeg THEN "Error" ELSE "Stopped"}} :
          seen \in Sees(s)}

CheckIsRunning(s) == Checked(s, streams[s].status)

CheckStatus(s) == Checked(s, "Starting")

\* Asking for the status of a stream writes it to its entry.
Observe(s, entries) ==
  /\ up /\ Free /\ streams[s].here
  /\ \E e \in entries : streams' = [streams EXCEPT ![s] = e]
  /\ overlapped' = IF Busy(s) /\ ~Runs(streams[s]) /\ Runs(streams'[s])
                   THEN overlapped \cup {s} ELSE overlapped
  /\ UNCHANGED <<up, proxy, process, lock, call, requests, lingering>>

-----------------------------------------------------------------------------
\* StopWithFFmpeg: one critical section.
Stop(s, deletes) ==
  /\ up /\ Free
  /\ IF ~streams[s].here THEN UNCHANGED <<media, lingering>>
     ELSE /\ IF streams[s].ffmpeg THEN StopProcesses({s}) ELSE UNCHANGED process
          /\ IF deletes THEN DeleteStreams({s}) ELSE UNCHANGED <<proxy, lingering>>
          /\ streams' = [streams EXCEPT ![s] = NoEntry]
  /\ UNCHANGED <<up, lock, call, requests, overlapped>>

\* The destructor.  There is no call under way by then.
Destroy(deleted) ==
  /\ up /\ \A t \in Threads : ~InFlight(t)
  /\ up' = FALSE
  /\ StopProcesses({s \in Streams : HasProcess(s)}) /\ DeleteStreams(deleted)
  /\ streams' = [s \in Streams |-> NoEntry]
  /\ UNCHANGED <<lock, call, requests, overlapped>>

\* ZLMediaKit gives a proxy up, or someone deletes it; FFmpeg ends.
ProxyEnds(s) ==
  /\ proxy[s] # None /\ proxy' = [proxy EXCEPT ![s] = None]
  /\ UNCHANGED <<up, streams, process, lock, call, requests, history>>

ProcessEnds(s) ==
  /\ \/ s \in alive /\ alive' = alive \ {s} /\ UNCHANGED left
     \/ s \in left /\ left' = left \ {s} /\ UNCHANGED alive
  /\ UNCHANGED <<up, streams, proxy, lock, call, requests, history>>

PullInit ==
  /\ up = TRUE
  /\ streams = [s \in Streams |-> NoEntry]
  /\ lock = None
  /\ call = [t \in Threads |-> Idle]
  /\ proxy = [s \in Streams |-> None]
  /\ alive = {} /\ left = {}
  /\ requests = 0
  /\ overlapped = {} /\ lingering = {}
=============================================================================
