--------------------------- MODULE StreamLifecycle ---------------------------
(***************************************************************************)
(* One stream, from the requests that start it to those that stop it: the  *)
(* HTTP handlers (api/handlers/stream_handler.cpp), the start queue, a     *)
(* gateway that pushes through FFmpeg (gateway/rtsp/rtsp_gateway.cpp), the *)
(* stream processor under it (gateway/utils/smart_stream_processor.cpp),   *)
(* the process manager and the registry.                                   *)
(*                                                                         *)
(* Each of them has a lock of its own and holds it for one step here.  A   *)
(* request is a thread that goes from one to the next:                     *)
(*                                                                         *)
(*   start: idle > asked > queued > check > create > launch > getpid >     *)
(*          validate > register > report > store > callback > done         *)
(*   stop:  idle > stopping > gateway > ask > finish > stopped             *)
(*                                                                         *)
(* The queue is StartPool, which StreamStartQueue implements.  Registry    *)
(* and process manager are reduced to what one stream sees of              *)
(* StreamManager and ProcessManager; time is left out, so whatever waits   *)
(* for a while in the code may happen at any time here.                    *)
(***************************************************************************)
EXTENDS Naturals, FiniteSets, Sequences

CONSTANTS
  Starts,    (* requests to start the stream                                *)
  Stops,     (* requests to stop it                                         *)
  Workers,   (* of the start queue                                          *)
  MaxQueue,  (* tasks that may wait in the start queue                      *)
  Pids,      (* what fork may return; bounds the processes alive at once    *)
  NoPid,     (* a pid of 0                                                  *)
  None       (* a worker without a task                                     *)

ASSUME StreamLifecycleAssumption ==
  /\ NoPid \notin Pids
  /\ None \notin Starts
  /\ MaxQueue \in Nat \ {0}

VARIABLES
  start,       (* the start requests: place, pid and result                 *)
  stop,        (* the stop requests: place, what was read, result           *)
  waiting, serving, answer, open,   (* the queue: see StartPool; never closed here *)
  reg,         (* the registry's entry of the stream                        *)
  manual,      (* whether it is on the manual-stop list                     *)
  table,       (* the gateway's entry of the stream, in streams_            *)
  managed,     (* the pid in the process manager's entry of the stream      *)
  failed,      (* that entry is in Error                                    *)
  alive,       (* the pids of live FFmpeg processes of the stream           *)
  overlapped,  (* history: two starts have been in the gateway at once      *)
  disturbed    (* history: stops during which a start was in progress       *)

pool     == <<waiting, serving, answer, open>>
registry == <<reg, manual>>
process  == <<managed, failed, alive>>
vars == <<start, stop, pool, registry, table, process, overlapped, disturbed>>

Pool == INSTANCE StartPool WITH Slots <- Workers, Tasks <- Starts

-----------------------------------------------------------------------------
StartPlaces == {"idle", "asked", "queued", "refused", "check", "create", "launch",
                "getpid", "simple", "validate", "register", "report", "store",
                "callback", "done"}
StopPlaces  == {"idle", "already", "stopping", "gateway", "ask", "finish",
                "unknown", "wasStopped", "stopped", "failed"}
Ended       == {"unknown", "wasStopped", "stopped", "failed"}

Statuses == {"none", "Stopped", "Starting", "Running", "Stopping", "Error"}
Absent   == [status |-> "none", native |-> FALSE]
NoEntry  == [here |-> FALSE, running |-> FALSE, pid |-> NoPid]

Pid == Pids \cup {NoPid}

At(t, place)      == start[t].pc = place
Move(t, place)    == start' = [start EXCEPT ![t].pc = place]
StopMove(s, place) == stop' = [stop EXCEPT ![s].pc = place]

\* The queue serves t.  A start on demand runs on a thread of its own.
Served(t) == \E w \in Workers : serving[w] = t

\* A queued start goes on with its callback, one on demand has come to its end.
AfterGateway(t) == IF Served(t) THEN "callback" ELSE "done"

-----------------------------------------------------------------------------
(* The registry, as StreamManager has it.                                  *)

Registered == reg.status # "none"

Requested(r) ==
  [status |-> IF r.status = "Running" THEN "Running" ELSE "Starting", native |-> FALSE]

\* RegisterStream with status Running or Starting never takes Running back.
Reregistered(r, s) ==
  [status |-> IF r.status = "Running" THEN "Running" ELSE s, native |-> FALSE]

\* Mutant: only a success is reported to the registry.
ResultingSuccessOnly(r, ok) ==
  IF r.status = "none" \/ ~ok THEN r ELSE [r EXCEPT !.status = "Running"]

\* OnStreamCreateResult.
Resulting(r, ok) ==
  IF r.status = "none" THEN r
  ELSE [r EXCEPT !.status = IF ok \/ @ = "Running" THEN "Running" ELSE "Error"]

\* UpdateStreamStatus.
Forced(r, s) == IF r.status = "none" THEN r ELSE [r EXCEPT !.status = s]

UnregisterStream == reg' = Absent /\ manual' = TRUE

-----------------------------------------------------------------------------
(* A start request: the handler.                                           *)

HandleStartStream(t) ==
  /\ At(t, "idle") /\ Move(t, "asked")
  /\ reg' = Requested(reg)
  /\ UNCHANGED <<stop, pool, manual, table, process>>

Enqueue(t) ==
  /\ At(t, "asked")
  /\ \/ Pool!Accept(t) /\ Move(t, "queued")
     \/ Pool!Reject(t) /\ Move(t, "refused")
  /\ UNCHANGED <<stop, registry, table, process>>

\* The 503 answer.
RefuseStart(t) ==
  /\ At(t, "refused") /\ Move(t, "done")
  /\ reg' = Forced(reg, "Error")
  /\ UNCHANGED <<stop, pool, manual, table, process>>

WorkerTakes(w) ==
  /\ Pool!Begin(w)
  /\ Move(Head(waiting), "check")
  /\ UNCHANGED <<stop, registry, table, process>>

\* The stream_not_found hook, with CreateStreamOnDemand on a detached thread.
HandleStreamNotFound(t) ==
  /\ At(t, "idle") /\ Move(t, "check")
  /\ reg.status \in {"none", "Stopped"}
  /\ UNCHANGED <<stop, pool, registry, table, process>>

Callback(t) ==
  /\ At(t, "callback") /\ Move(t, "done")
  /\ \E w \in Workers :
       serving[w] = t /\ Pool!Finish(w, IF start[t].ok THEN "completed" ELSE "failed")
  /\ reg' = Forced(reg, IF start[t].ok THEN "Running" ELSE "Error")
  /\ UNCHANGED <<stop, manual, table, process>>

-----------------------------------------------------------------------------
(* The gateway's Start.                                                    *)

\* FFmpegExecutor::StopProcess: whatever process the manager has for the stream.
StopManaged == managed' = NoPid /\ failed' = FALSE /\ alive' = alive \ {managed}

HasPid(e) == e.here /\ e.pid # NoPid

\* The first lock: an entry that says Running is believed; the process of any
\* other is stopped, and the entry keeps its pid.
CheckExisting(t) ==
  /\ At(t, "check")
  /\ IF table.running
     THEN /\ start' = [start EXCEPT ![t].pc = AfterGateway(t), ![t].ok = TRUE]
          /\ UNCHANGED process
     ELSE /\ Move(t, "create")
          /\ IF HasPid(table) THEN StopManaged ELSE UNCHANGED process
  /\ UNCHANGED <<stop, pool, registry, table>>

CreateRequested(t) ==
  /\ At(t, "create") /\ Move(t, "launch")
  /\ reg' = Requested(reg)
  /\ UNCHANGED <<stop, pool, manual, table, process>>

\* ZLMediaKit pulls the source itself.
DirectProxy(t) ==
  /\ At(t, "launch")
  /\ start' = [start EXCEPT ![t] = [pc |-> "register", pid |-> NoPid, ok |-> TRUE]]
  /\ UNCHANGED <<stop, pool, registry, table, process>>

\* FFmpegExecutor::StartProcess, first half.  The manager is content with an
\* entry that is Running and replaces the process of any other.
StartProcess(t) ==
  /\ At(t, "launch") /\ Move(t, "getpid")
  /\ IF managed # NoPid /\ ~failed
     THEN UNCHANGED process
     ELSE \E p \in Pids \ (alive \ {managed}), lives \in BOOLEAN :
            /\ managed' = p /\ failed' = FALSE
            /\ alive' = (alive \ {managed}) \cup (IF lives THEN {p} ELSE {})
  /\ UNCHANGED <<stop, pool, registry, table>>

\* The manager refuses at its limit, or fails to fork.
StartProcessRefused(t) ==
  /\ At(t, "launch") /\ Move(t, "simple")
  /\ \/ UNCHANGED process
     \/ (managed = NoPid \/ failed) /\ StopManaged
  /\ UNCHANGED <<stop, pool, registry, table>>

\* Second half: the entry may be gone by now.
GetPid(t) ==
  /\ At(t, "getpid")
  /\ IF managed # NoPid
     THEN start' = [start EXCEPT ![t].pc = "validate", ![t].pid = managed]
     ELSE Move(t, "simple")
  /\ UNCHANGED <<stop, pool, registry, table, process>>

\* The fallback forks outside the manager's table.
StartProcessSimple(t) ==
  /\ At(t, "simple")
  /\ \/ \E p \in Pids \ alive, lives \in BOOLEAN :
          /\ start' = [start EXCEPT ![t].pc = "validate", ![t].pid = p]
          /\ alive' = alive \cup (IF lives THEN {p} ELSE {})
     \/ /\ start' = [start EXCEPT ![t] = [pc |-> "register", pid |-> NoPid, ok |-> FALSE]]
        /\ UNCHANGED alive
  /\ UNCHANGED <<stop, pool, registry, table, managed, failed>>

\* StreamStartValidator.  A process found dead in the first wait costs the pid;
\* one that is late, or dies later, does not, and is left to run.
ValidateSimple(t) ==
  /\ At(t, "validate")
  /\ \E ok \in BOOLEAN, p \in {start[t].pid, NoPid} :
       /\ p = NoPid => ~ok /\ start[t].pid \notin alive
       /\ start' = [start EXCEPT ![t] = [pc |-> "register", pid |-> p, ok |-> ok]]
  /\ UNCHANGED <<stop, pool, registry, table, process>>

RegisterStream(t) ==
  /\ At(t, "register") /\ Move(t, "report")
  /\ reg' = Reregistered(reg, IF start[t].ok THEN "Running" ELSE "Starting")
  /\ UNCHANGED <<stop, pool, manual, table, process>>

ReportStreamResult(t) ==
  /\ At(t, "report") /\ Move(t, "store")
  /\ reg' = Resulting(reg, start[t].ok)
  /\ UNCHANGED <<stop, pool, manual, table, process>>

\* Mutant: the pid of a start that failed is not kept.
StoredRunningOnly(c) ==
  [here |-> TRUE, running |-> c.ok, pid |-> IF c.ok THEN c.pid ELSE NoPid]

Stored(c) == [here |-> TRUE, running |-> c.ok, pid |-> c.pid]

\* The second lock: whatever the entry has become meanwhile is overwritten.
StoreEntry(t) ==
  /\ At(t, "store") /\ Move(t, AfterGateway(t))
  /\ table' = Stored(start[t])
  /\ UNCHANGED <<stop, pool, registry, process>>

-----------------------------------------------------------------------------
(* A stop request.                                                         *)

StopsAt(status) ==
  CASE status = "none"    -> "unknown"
    [] status = "Stopped" -> "already"
    [] OTHER              -> "stopping"

\* GetStreamMetadata.  A stream the registry does not know is only deleted from
\* ZLMediaKit; the gateway is not asked.
HandleStopStream(s) ==
  /\ stop[s].pc = "idle"
  /\ stop' = [stop EXCEPT ![s] =
       [pc |-> StopsAt(reg.status), native |-> reg.native, ok |-> FALSE]]
  /\ UNCHANGED <<start, pool, registry, table, process>>

\* "Stream already stopped": the gateway is not asked either.
AlreadyStopped(s) ==
  /\ stop[s].pc = "already" /\ StopMove(s, "wasStopped")
  /\ UnregisterStream
  /\ UNCHANGED <<start, pool, table, process>>

\* A stream of type "native" has no gateway to ask.
MarkStopping(s) ==
  /\ stop[s].pc = "stopping"
  /\ stop' = [stop EXCEPT ![s].pc = IF stop[s].native THEN "finish" ELSE "gateway",
                          ![s].ok = stop[s].native]
  /\ reg' = Forced(reg, "Stopping")
  /\ UNCHANGED <<start, pool, manual, table, process>>

\* Mutant: only an entry that says Running has its process stopped.
StopsProcessIfRunning(e) == e.running /\ e.pid # NoPid

StopsProcess(e) == HasPid(e)

\* The gateway's Stop, under its lock.  The manager reports a success where it
\* has an entry; one without a pid is not told from none here.
GatewayStop(s) ==
  /\ stop[s].pc = "gateway"
  /\ \E ok \in IF StopsProcess(table) /\ managed = NoPid THEN BOOLEAN ELSE {TRUE} :
       stop' = [stop EXCEPT ![s].pc = "ask", ![s].ok = ok]
  /\ IF StopsProcess(table) THEN StopManaged ELSE UNCHANGED process
  /\ table' = NoEntry
  /\ UNCHANGED <<start, pool, registry>>

\* StreamStatusChecker::CheckIsRunning on the gateway's entry e.  "seen" is what
\* kill(pid, 0) says, which finds zombies too; "active" what ZLMediaKit says.
Rechecked(e, seen, active) ==
  CASE HasPid(e) /\ seen  -> [e EXCEPT !.running = @ \/ active]
    [] HasPid(e) /\ ~seen -> [e EXCEPT !.running = active, !.pid = NoPid]
    [] OTHER              -> [e EXCEPT !.running = e.here /\ active]

\* IsRunning: the gateway may have an entry again by now.
AskIsRunning(s) ==
  /\ stop[s].pc = "ask"
  /\ \E seen, active \in BOOLEAN :
       /\ table.pid \in alive => seen
       /\ table' = Rechecked(table, seen, active)
  /\ stop' = [stop EXCEPT ![s].pc = "finish", ![s].ok = @ \/ ~table'.running]
  /\ UNCHANGED <<start, pool, registry, process>>

FinishStop(s) ==
  /\ stop[s].pc = "finish"
  /\ IF stop[s].ok
     THEN UnregisterStream /\ StopMove(s, "stopped")
     ELSE /\ reg' = Forced(reg, "Error") /\ StopMove(s, "failed")
          /\ UNCHANGED manual
  /\ UNCHANGED <<start, pool, table, process>>

-----------------------------------------------------------------------------
(* Everything else.                                                        *)

Crash(p) ==
  /\ p \in alive /\ alive' = alive \ {p}
  /\ UNCHANGED <<start, stop, pool, registry, table, managed, failed>>

\* The monitor's verdict, which may be about an earlier process.  The restart
\* that should follow never comes: see ErrorsRestarted in ProcessManager.
MonitorVerdict ==
  /\ managed # NoPid /\ failed' = TRUE
  /\ UNCHANGED <<start, stop, pool, registry, table, managed, alive>>

\* A hook or a pass of the sync thread sets the status from what ZLMediaKit
\* said some time ago, ...
ZLMStatus(s) ==
  /\ Registered /\ reg' = [reg EXCEPT !.status = s]
  /\ UNCHANGED <<start, stop, pool, manual, table, process>>

\* ... a pass drops an entry that was dead when it was copied, ...
SyncRemoves ==
  /\ Registered /\ reg' = Absent
  /\ UNCHANGED <<start, stop, pool, manual, table, process>>

\* ... or adopts the stream.
AutoRegister(s) ==
  /\ ~Registered /\ ~manual
  /\ reg' = [status |-> s, native |-> TRUE]
  /\ UNCHANGED <<start, stop, pool, manual, table, process>>

-----------------------------------------------------------------------------
\* Between the two locks of the gateway's Start.
InGateway(c) == c.pc \in {"create", "launch", "getpid", "simple", "validate",
                          "register", "report", "store"}
InProgress(c) == c.pc \notin {"idle", "done"}

History ==
  /\ overlapped' = (overlapped \/ \E t, u \in Starts :
                      t # u /\ InGateway(start'[t]) /\ InGateway(start'[u]))
  /\ disturbed' = disturbed \cup
       {s \in Stops : /\ stop[s].pc \notin Ended /\ stop'[s].pc # "idle"
                      /\ \E t \in Starts : InProgress(start'[t])}

Init ==
  /\ start = [t \in Starts |-> [pc |-> "idle", pid |-> NoPid, ok |-> FALSE]]
  /\ stop = [s \in Stops |-> [pc |-> "idle", native |-> FALSE, ok |-> FALSE]]
  /\ Pool!Init
  /\ reg = Absent /\ manual = FALSE
  /\ table = NoEntry
  /\ managed = NoPid /\ failed = FALSE /\ alive = {}
  /\ overlapped = FALSE /\ disturbed = {}

StartStep(t) ==
  \/ HandleStartStream(t) \/ Enqueue(t) \/ RefuseStart(t) \/ HandleStreamNotFound(t)
  \/ CheckExisting(t) \/ CreateRequested(t)
  \/ DirectProxy(t) \/ StartProcess(t) \/ StartProcessRefused(t)
  \/ GetPid(t) \/ StartProcessSimple(t) \/ ValidateSimple(t)
  \/ RegisterStream(t) \/ ReportStreamResult(t) \/ StoreEntry(t) \/ Callback(t)

StopStep(s) ==
  \/ HandleStopStream(s) \/ AlreadyStopped(s) \/ MarkStopping(s)
  \/ GatewayStop(s) \/ AskIsRunning(s) \/ FinishStop(s)

Environment ==
  \/ \E p \in Pids : Crash(p)
  \/ MonitorVerdict
  \/ \E s \in {"Running", "Stopped", "Error"} : ZLMStatus(s)
  \/ SyncRemoves
  \/ \E s \in {"Running", "Stopped"} : AutoRegister(s)

Step ==
  \/ \E t \in Starts : StartStep(t)
  \/ \E w \in Workers : WorkerTakes(w)
  \/ \E s \in Stops : StopStep(s)
  \/ Environment

Next == Step /\ History

Spec == Init /\ [][Next]_vars

-----------------------------------------------------------------------------
(* Properties.                                                             *)

StartOK == start \in [Starts -> [pc : StartPlaces, pid : Pid, ok : BOOLEAN]]

StopOK == stop \in [Stops -> [pc : StopPlaces, native : BOOLEAN, ok : BOOLEAN]]

PoolOK ==
  /\ waiting \in Seq(Starts)
  /\ serving \in [Workers -> Starts \cup {None}]
  /\ answer \in [Starts -> {"new", "accepted", "rejected", "completed", "failed"}]
  /\ open = TRUE

RegistryOK == reg \in [status : Statuses, native : BOOLEAN] /\ manual \in BOOLEAN

ProcessOK ==
  /\ table \in [here : BOOLEAN, running : BOOLEAN, pid : Pid]
  /\ managed \in Pid /\ failed \in BOOLEAN /\ alive \subseteq Pids

HistoryOK == overlapped \in BOOLEAN /\ disturbed \subseteq Stops

\* Every variable holds values of its type.
TypeOK == StartOK /\ StopOK /\ PoolOK /\ RegistryOK /\ ProcessOK /\ HistoryOK

\* A start that has still to write Running or Error into the registry.
Owes(t) ==
  \/ start[t].pc \in {"asked", "queued", "refused", "create", "launch", "getpid",
                      "simple", "validate", "register", "report", "callback"}
  \/ start[t].pc \in {"check", "store"} /\ Served(t)

\* The registry never stays in a transient status: Starting is shown only while
\* a start that will replace it is in progress, and Stopping only during a
\* stop, however starts, stops, hooks and the sync thread overlap.
NoLimbo ==
  /\ reg.status = "Starting" => \E t \in Starts : Owes(t)
  /\ reg.status = "Stopping" =>
       \E s \in Stops : stop[s].pc \in {"gateway", "ask", "finish"}

\* A start that is about to learn, or holds, the pid p.
Holds(t, p) ==
  \/ start[t].pc = "getpid"
  \/ start[t].pc \in {"validate", "register", "report", "store"} /\ start[t].pid = p

\* As long as no two starts have been in the gateway at once, the process the
\* manager runs for the stream is never lost: the gateway's entry has its pid,
\* or a start in progress will put it there, so that a later Stop reaches it.
NothingLost ==
  ~overlapped /\ managed \in alive =>
    \/ table.here /\ table.pid = managed
    \/ \E t \in Starts : Holds(t, managed)

\* A stop that went through the gateway, and during which no start was in
\* progress, is answered only after the stream's process is gone.
StopLeavesNothing ==
  [][\A s \in Stops :
       /\ stop[s].pc = "finish" /\ stop'[s].pc # "finish" /\ ~stop[s].native
       /\ ~overlapped' /\ s \notin disturbed'
       => managed' \notin alive']_vars

\* "Stream already stopped" is answered for streams that are stopped: no start
\* is in progress, and no process of the stream is left.
AlreadyStoppedIsStopped ==
  [][\A s \in Stops :
       /\ stop[s].pc = "already" /\ stop'[s].pc = "wasStopped"
       /\ s \notin disturbed'
       => managed' \notin alive']_vars

\* "Stream stopped successfully" is answered only when the process of the stream
\* is gone, the one that was forked outside the manager's table included.
StoppedIsStopped ==
  [][\A s \in Stops :
       /\ stop[s].pc = "finish" /\ stop'[s].pc = "stopped" /\ ~stop[s].native
       /\ ~overlapped' /\ s \notin disturbed'
       => alive' = {}]_vars
=============================================================================
