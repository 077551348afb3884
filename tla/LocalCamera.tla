---------------------------- MODULE LocalCamera ----------------------------
(***************************************************************************)
(* Streams of local cameras: gateway/local_camera/local_camera_gateway.cpp *)
(* and health_monitor.cpp, with the processes they start.                  *)
(*                                                                         *)
(* A start runs on a thread of the start queue ("api"), or on one the      *)
(* health monitor forks to bring a dead stream back ("recover").  It takes *)
(* streams_mutex_ for its first look at the stream only; the search for    *)
(* another stream on the same camera and the store of the new entry do not *)
(* take it.  A stop holds it throughout.  The monitor works on a copy of   *)
(* the list.                                                               *)
(*                                                                         *)
(* FFmpeg is seen through FFmpegProcessHelper, which names a process by    *)
(* its stream: StopProcess looks at the pid it is given only to see that   *)
(* it is not zero.  ProcessManager models the manager behind it, with its  *)
(* own restarts; here it has one process for a stream.  When it gives      *)
(* none, FFmpegExecutor forks one by itself.  No stop reaches that one:    *)
(* it fails for a stream the manager does not know, and the gateway goes   *)
(* on as if it had not.                                                    *)
(* CameraDevices models the list of devices, DeviceManager.                *)
(***************************************************************************)
EXTENDS Naturals, FiniteSets, RegistryView

CONSTANTS
  Streams, Cameras, Pids, NoPid, NoCamera,
  MaxRecover,      (* health_monitor.max_recover_attempts                   *)
  MaxRequests,     (* bound: requests for a start                           *)
  MaxForked        (* bound: live processes forked beside the manager       *)

ASSUME LocalCameraAssumption ==
  /\ NoPid \notin Pids /\ NoCamera \notin Cameras
  /\ MaxRecover \in Nat \ {0} /\ MaxRequests \in Nat /\ MaxForked \in Nat

VARIABLES
  up,          (* FALSE once the destructor has run                         *)
  streams,     (* streams_                                                  *)
  managed,     (* the process ProcessManager has for each stream            *)
  forked,      (* live processes the executor has forked for each stream    *)
  left,        (* those among them that a stop has not reached              *)
  reads,       (* the camera each live process reads                        *)
  reg,         (* the registry's status of each stream                      *)
  start,       (* each starting thread: where it is and what it holds       *)
  copy,        (* the monitor's copy of the entries it has still to check   *)
  failing,     (* the copy it has just found unhealthy                      *)
  requests,    (* requests for a start so far                               *)
  overlapped,  (* history: streams that two starts worked on at once        *)
  raced        (* history: cameras two streams were started on at once      *)

process == <<managed, forked, left, reads>>
monitor == <<copy, failing>>
history == <<overlapped, raced>>
vars    == <<up, streams, process, reg, start, monitor, requests, history>>

-----------------------------------------------------------------------------
Pid     == Pids \cup {NoPid}
Threads == Streams \X {"api", "recover"}
NoEntry == [here |-> FALSE]
Idle    == [pc |-> "idle"]

\* A new StreamInfo.  Its last_recover_time is set with its recover_attempts, and
\* so set when they are not zero.  Nobody tells Stopped from Error: both are "Down".
Entry(c, status, p) ==
  [here |-> TRUE, cam |-> c, status |-> status, pid |-> p, attempts |-> 0]

Here(s)         == streams[s].here
InFlight(t)     == start[t].pc # "idle"
Busy(s)         == \E t \in Threads : t[1] = s /\ InFlight(t)
At(t, pc)       == start[t].pc = pc
Move(t, pc)     == start' = [start EXCEPT ![t].pc = pc]

alive    == {p \in Pids : reads[p] # NoCamera}
Forked   == UNION {forked[s] : s \in Streams}
Sends(s) == managed[s] \in alive \/ forked[s] # {}

\* The processes of s, but for those a stop did not reach.
Live(s) == alive \cap ({managed[s]} \cup (forked[s] \ left))
Runs(s) == Live(s) # {}

Killed(r, pids) == [p \in Pids |-> IF p \in pids THEN NoCamera ELSE r[p]]

\* FFmpegProcessHelper::StopProcess on the entry e of s.
Stops(s, e) == e.here /\ e.pid # NoPid

\* What the manager has for the stream is stopped, whatever pid the entry has.
StopProcess(s) ==
  /\ reads' = Killed(reads, {managed[s]})
  /\ managed' = [managed EXCEPT ![s] = NoPid]
  /\ left' = left \cup (forked[s] \cap {streams[s].pid})
  /\ UNCHANGED forked

\* The way out of StartCameraStream, with r the registry's status.  The queue's
\* callback writes the result of a request there (UpdateStreamStatus, which
\* StreamLifecycle keeps apart); the monitor only logs it.
Return(t, ok, r) ==
  /\ start' = [start EXCEPT ![t] = Idle]
  /\ reg' = [reg EXCEPT ![t[1]] =
       IF t[2] = "api" /\ r # "none" THEN IF ok THEN "Running" ELSE "Error" ELSE r]

-----------------------------------------------------------------------------
(* Start and StartCameraStream.                                            *)

\* A request: the handler registers it and the queue runs it.
HandleStart(s, c) ==
  LET t == <<s, "api">> IN
  /\ up /\ ~InFlight(t) /\ requests < MaxRequests
  /\ requests' = requests + 1
  /\ start' = [start EXCEPT ![t] = [pc |-> "resolve", cam |-> c]]
  /\ reg' = [reg EXCEPT ![s] = Requested(@)]
  /\ overlapped' = IF Busy(s) THEN overlapped \cup {s} ELSE overlapped
  /\ UNCHANGED <<up, streams, process, monitor, raced>>

\* Mutant: the failure is not reported.
ReportedRequestOnly(r) == Requested(r)

\* OnStreamCreateRequested and OnStreamCreateResult.
Reported(r) == Resulting(Requested(r), FALSE)

\* Start resolves the device, StartCameraStream does so again; only the second
\* tells the registry when there is none, and ends what it has begun there.
ResolveFails(t) ==
  /\ At(t, "resolve")
  /\ \E r \in {reg[t[1]], Reported(reg[t[1]])} : Return(t, FALSE, r)
  /\ UNCHANGED <<up, requests, streams, process, monitor, history>>

\* The look under the lock.  A stream on another camera is stopped and
\* forgotten, one that says Running is believed, any other is stopped.
CheckOccupancy(t) ==
  LET s == t[1]  e == streams[s] IN
  /\ At(t, "resolve")
  /\ IF Here(s) /\ e.cam = start[t].cam /\ e.status = "Running"
     THEN Return(t, TRUE, reg[s]) /\ UNCHANGED <<streams, process>>
     ELSE /\ Move(t, "scan") /\ UNCHANGED reg
          /\ IF Stops(s, e) THEN StopProcess(s) ELSE UNCHANGED process
          /\ streams' = [streams EXCEPT ![s] =
               IF ~Here(s) \/ e.cam # start[t].cam THEN NoEntry
               ELSE [e EXCEPT !.status = "Down"]]
  /\ UNCHANGED <<up, requests, monitor, history>>

\* Mutant: only starts still under way count as occupying the camera.
OccupiesWhileStarting(o, c) == streams[o].here /\ streams[o].cam = c /\ streams[o].status = "Starting"

\* No entry says Starting: an entry is stored when its start has ended.
Occupies(o, c) ==
  /\ streams[o].here /\ streams[o].cam = c /\ streams[o].status = "Running"
  /\ streams[o].pid # NoPid

OnCamera(t, c) ==
  start[t].pc \in {"spawn", "validate", "register", "store"} /\ start[t].cam = c

\* Without the lock: another stream that says it runs on this camera, and whose
\* process lives, as far as kill(pid, 0) can tell.
ScanOccupied(t) ==
  LET c == start[t].cam IN
  /\ At(t, "scan")
  /\ \E seen \in SUBSET Pids :
       /\ alive \subseteq seen
       /\ IF \E o \in Streams \ {t[1]} : Occupies(o, c) /\ streams[o].pid \in seen
          THEN Return(t, FALSE, reg[t[1]]) /\ UNCHANGED raced
          ELSE /\ Move(t, "spawn") /\ UNCHANGED reg
               /\ raced' = IF \E other \in Threads : other[1] # t[1] /\ OnCamera(other, c)
                           THEN raced \cup {c} ELSE raced
  /\ UNCHANGED <<up, requests, streams, process, monitor, overlapped>>

\* The manager is content with a process it takes to be running, or replaces it.
\* A pid it still lists is not given out again: the dead child it belongs to is a
\* zombie.
ManagerStarts(s, c, p) ==
  \/ p = managed[s] /\ p # NoPid /\ UNCHANGED process
  \/ /\ p \in Pids \ (Forked \cup {managed[o] : o \in Streams \ {s}})
     /\ managed' = [managed EXCEPT ![s] = p]
     /\ reads' = [Killed(reads, {managed[s]}) EXCEPT ![p] = c]
     /\ UNCHANGED <<forked, left>>

\* It is at its limit, or has failed to start one in place of what it had, and the
\* executor forks, or cannot do so either.
ExecutorForks(s, c, p) ==
  \E gone \in {{}, {managed[s]}} :
    /\ managed' = [managed EXCEPT ![s] = IF @ \in gone THEN NoPid ELSE @]
    /\ \/ /\ p = NoPid /\ UNCHANGED <<forked, left>>
          /\ reads' = Killed(reads, gone)
       \/ /\ Cardinality(Forked) < MaxForked
          /\ p \in Pids \ (Forked \cup {managed[o] : o \in Streams})
          /\ forked' = [forked EXCEPT ![s] = @ \cup {p}]
          /\ reads' = [Killed(reads, gone) EXCEPT ![p] = c]
          /\ UNCHANGED left

\* FFmpegProcessHelper::StartProcess gives p.
StartProcess(s, c, p) == ManagerStarts(s, c, p) \/ ExecutorForks(s, c, p)

\* ProcessStream up to the new process; a direct proxy is never tried.
Spawn(t) ==
  LET s == t[1]  c == start[t].cam IN
  /\ At(t, "spawn")
  /\ reg' = [reg EXCEPT ![s] = Requested(@)]
  /\ \E p \in Pid :
       /\ StartProcess(s, c, p)
       /\ start' = [start EXCEPT ![t] =
            IF p = NoPid THEN [pc |-> "register", cam |-> c, pid |-> NoPid, ok |-> FALSE]
            ELSE [pc |-> "validate", cam |-> c, pid |-> p]]
  /\ UNCHANGED <<up, requests, streams, monitor, history>>

\* StreamStartValidator: the stream has come to ZLMediaKit, has not come in time
\* (and its process is left to run), or the process is found dead.
Validate(t) ==
  LET s == t[1]  p == start[t].pid IN
  /\ At(t, "validate")
  /\ \E ok \in BOOLEAN, kept \in {p, NoPid} :
       /\ ok => Sends(s) /\ kept = p
       /\ kept = NoPid => p \notin alive
       /\ start' = [start EXCEPT ![t] =
            [pc |-> "register", cam |-> @.cam, pid |-> kept, ok |-> ok]]
  /\ UNCHANGED <<up, requests, streams, process, reg, monitor, history>>

\* RegisterStream and OnStreamCreateResult.
Register(t) ==
  /\ At(t, "register") /\ Move(t, "store")
  /\ LET ok == start[t].ok IN
     reg' = [reg EXCEPT ![t[1]] =
       Resulting(Reregistered(@, IF ok THEN "Running" ELSE "Starting"), ok)]
  /\ UNCHANGED <<up, requests, streams, process, monitor, history>>

\* Mutant: a start that failed does not keep its pid.
StoredIfRunning(x) == Entry(x.cam, IF x.ok THEN "Running" ELSE "Down", IF x.ok THEN x.pid ELSE NoPid)

\* The count of recoveries starts again with every start, the monitor's too.
Stored(x) == Entry(x.cam, IF x.ok THEN "Running" ELSE "Down", x.pid)

Store(t) ==
  /\ At(t, "store") /\ Return(t, start[t].ok, reg[t[1]])
  /\ streams' = [streams EXCEPT ![t[1]] = Stored(start[t])]
  /\ UNCHANGED <<up, requests, process, monitor, history>>

StartStep(t) ==
  ResolveFails(t) \/ CheckOccupancy(t) \/ ScanOccupied(t) \/ Spawn(t) \/ Validate(t)
  \/ Register(t) \/ Store(t)

-----------------------------------------------------------------------------
(* StopCameraStream: one critical section.                                 *)

StopCameraStream(s) ==
  /\ up
  /\ IF Stops(s, streams[s]) THEN StopProcess(s) ELSE UNCHANGED process
  /\ streams' = [streams EXCEPT ![s] = NoEntry]
  /\ reg' = [reg EXCEPT ![s] = "none"]
  /\ UNCHANGED <<up, requests, start, monitor, history>>

-----------------------------------------------------------------------------
(* HealthMonitor::MonitorThread.                                           *)

MonitorFree == \A s \in Streams : ~copy[s].here /\ ~failing[s].here

\* Mutant: the list is the one of all entries.
ListedAll(e) == e.here

\* The list callback: entries that say they run.
Listed(e) == e.here /\ e.status = "Running"

CopyStreams ==
  /\ up /\ MonitorFree
  /\ \E s \in Streams : Listed(streams[s])
  /\ copy' = [s \in Streams |-> IF Listed(streams[s]) THEN streams[s] ELSE NoEntry]
  /\ UNCHANGED <<up, requests, streams, process, reg, start, failing, history>>

\* Mutant: ZLMediaKit is not asked, and kill(pid, 0) finds the dead child.
HealthyByPid(s) == {TRUE}

\* CheckStreamHealth.  The stream is not in ZLMediaKit without a process that
\* sends it, and may be missing there even with one.
Healthy(s) == IF Sends(s) THEN BOOLEAN ELSE {FALSE}

\* The look, and update_status and UpdateStreamStatus where it says no.  They
\* find their stream by name, whichever entry is there by now.
CheckStreamHealth(s) ==
  /\ copy[s].here /\ \A o \in Streams : ~failing[o].here
  /\ copy' = [copy EXCEPT ![s] = NoEntry]
  /\ \E healthy \in Healthy(s) :
       IF healthy THEN UNCHANGED <<streams, reg, failing>>
       ELSE /\ failing' = [failing EXCEPT ![s] = copy[s]]
            /\ streams' = [streams EXCEPT ![s] =
                 IF Here(s) THEN [@ EXCEPT !.status = "Down"] ELSE @]
            /\ reg' = [reg EXCEPT ![s] = IF @ = "none" THEN @ ELSE "Error"]
  /\ UNCHANGED <<up, requests, process, start, history>>

\* The cool-down has passed or not, if there was a recovery before.
MayRecover(e, passed) == (e.attempts = 0 \/ passed) /\ e.attempts < MaxRecover

\* The copy decides whether to recover; the entry gets the new count and time.
Recover(s) ==
  LET e == failing[s]  t == <<s, "recover">> IN
  /\ e.here /\ failing' = [failing EXCEPT ![s] = NoEntry]
  /\ \E passed \in BOOLEAN :
     IF ~MayRecover(e, passed) THEN UNCHANGED <<streams, start, overlapped>>
     ELSE /\ ~InFlight(t)      \* bound: one recovery of a stream at a time
          /\ streams' = [streams EXCEPT ![s] =
               IF Here(s) THEN [@ EXCEPT !.attempts = e.attempts + 1] ELSE @]
          /\ start' = [start EXCEPT ![t] = [pc |-> "resolve", cam |-> e.cam]]
          /\ overlapped' = IF Busy(s) THEN overlapped \cup {s} ELSE overlapped
  /\ UNCHANGED <<up, requests, process, reg, copy, raced>>

MonitorStep == CopyStreams \/ \E s \in Streams : CheckStreamHealth(s) \/ Recover(s)

-----------------------------------------------------------------------------
\* FFmpeg ends: the camera was unplugged, or it crashed.
Crash(p) ==
  /\ p \in alive
  /\ reads' = Killed(reads, {p})
  /\ forked' = [s \in Streams |-> forked[s] \ {p}]
  /\ left' = left \ {p}
  /\ UNCHANGED <<up, requests, streams, managed, reg, start, monitor, history>>

\* The destructor, once the monitor has come to its end and its recoveries are
\* joined.  The API has no request under way by then.
Destroy ==
  /\ up /\ MonitorFree /\ \A t \in Threads : ~InFlight(t)
  /\ up' = FALSE
  /\ LET stopped == {s \in Streams : Stops(s, streams[s])} IN
     /\ reads' = Killed(reads, {managed[s] : s \in stopped})
     /\ managed' = [s \in Streams |-> IF s \in stopped THEN NoPid ELSE managed[s]]
     /\ left' = left \cup UNION {forked[s] \cap {streams[s].pid} : s \in stopped}
  /\ streams' = [s \in Streams |-> NoEntry]
  /\ UNCHANGED <<requests, forked, reg, start, monitor, history>>

Init ==
  /\ up = TRUE
  /\ streams = [s \in Streams |-> NoEntry]
  /\ managed = [s \in Streams |-> NoPid]
  /\ forked = [s \in Streams |-> {}] /\ left = {}
  /\ reads = [p \in Pids |-> NoCamera]
  /\ reg = [s \in Streams |-> "none"]
  /\ start = [t \in Threads |-> Idle]
  /\ copy = [s \in Streams |-> NoEntry]
  /\ failing = [s \in Streams |-> NoEntry]
  /\ requests = 0
  /\ overlapped = {} /\ raced = {}

Next ==
  \/ \E s \in Streams, c \in Cameras : HandleStart(s, c)
  \/ \E t \in Threads : StartStep(t)
  \/ \E s \in Streams : StopCameraStream(s)
  \/ MonitorStep
  \/ \E p \in Pids : Crash(p)
  \/ Destroy

Spec == Init /\ [][Next]_vars

\* The monitor thread runs, and so does a recovery: each of its waits has a
\* timeout.
FairSpec ==
  Spec /\ WF_vars(MonitorStep) /\ \A s \in Streams : WF_vars(StartStep(<<s, "recover">>))

-----------------------------------------------------------------------------
(* Properties.                                                             *)

Entries == {NoEntry} \cup
  [here : {TRUE}, cam : Cameras, status : {"Running", "Down"}, pid : Pid,
   attempts : 0..MaxRecover]

Places == {"idle", "resolve", "scan", "spawn", "validate", "register", "store"}

\* Every variable holds values of its type; what the monitor copies said Running.
TypeOK ==
  /\ up \in BOOLEAN
  /\ streams \in [Streams -> Entries]
  /\ managed \in [Streams -> Pid] /\ reads \in [Pids -> Cameras \cup {NoCamera}]
  /\ forked \in [Streams -> SUBSET Pids] /\ left \subseteq Pids
  /\ reg \in [Streams -> Statuses]
  /\ \A t \in Threads : start[t].pc \in Places
  /\ \A s \in Streams : \A e \in {copy[s], failing[s]} : e \in Entries /\ (e.here => e.status = "Running")
  /\ requests \in 0..MaxRequests
  /\ overlapped \subseteq Streams /\ raced \subseteq Cameras

\* Whoever holds a pid for s: its entry, or a start past its spawn.
Holds(s, p) ==
  \/ Here(s) /\ streams[s].pid = p
  \/ \E t \in Threads : t[1] = s /\ start[t].pc \in {"validate", "register", "store"} /\ start[t].pid = p

\* No live process is forgotten: each has its pid in the stream's entry or in a
\* start under way, so that a stop gets as far as StopProcess and no camera stays
\* open for a stream nobody knows.  Two things break that: two starts that worked
\* on the stream at once, and a stop, which does not reach what was forked beside
\* the manager.
NoOrphan ==
  \A s \in Streams \ overlapped : \A p \in Live(s) : Holds(s, p)

\* Two streams that both run do not hold the same camera ("Device busy"),
\* unless they were started on it at the same time or one of them twice.
CameraExclusive ==
  \A s, o \in Streams : \A p \in Live(s), q \in Live(o) :
    s # o /\ reads[p] = reads[q] /\ Listed(streams[s]) /\ Listed(streams[o])
    => reads[p] \in raced \/ {s, o} \cap overlapped # {}

\* No start is left in limbo: the registry says Starting only while one is
\* under way, whichever way it ends and whoever asked for it.
NoLimbo == \A s \in Streams : reg[s] = "Starting" => Busy(s)

\* The monitor notices every stream that no process sends any more.
CrashNoticed ==
  \A s \in Streams : up /\ Listed(streams[s]) /\ ~Sends(s)
    ~> ~(up /\ Listed(streams[s]) /\ ~Sends(s))
=============================================================================
