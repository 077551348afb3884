--------------------------- MODULE ProcessManager ---------------------------
(***************************************************************************)
(* FFmpeg processes: process::ProcessManager, the FFmpegExecutor in front  *)
(* of it and the process table of the kernel behind both                   *)
(* (src/src/process/process_manager.cpp, ffmpeg_executor.cpp).             *)
(*                                                                         *)
(* StartProcess and StopProcess hold mutex_ to their end, the waits for    *)
(* the child included, so each is one action.  The monitor thread copies   *)
(* an entry, looks at the process without the lock, and takes the lock     *)
(* again to record what it saw and to restart.  FFmpegExecutor starts a    *)
(* process through the manager, asks the manager for its pid in a second   *)
(* call, and forks by itself when either gives it nothing.                 *)
(*                                                                         *)
(* Nothing in the gateway waits for these children, so a dead one stays a  *)
(* zombie, and kill(pid, 0) finds it, unless the gateway was started with  *)
(* SIGCHLD ignored.                                                        *)
(*                                                                         *)
(* When the monitor looks at an entry depends on its tier (1 to 60 s); the *)
(* model lets it look at any entry at any time.                            *)
(***************************************************************************)
EXTENDS Naturals, FiniteSets

CONSTANTS
  Ids,           (* process ids, one for each app/stream                    *)
  Pids,          (* the pids the kernel may give out; their number is the   *)
                 (* bound on forks where dead children stay zombies         *)
  NoPid,         (* info.pid = 0                                            *)
  MaxProcesses,  (* max_processes_, not zero                                *)
  MaxRestarts,   (* the default of StartProcess: no caller passes another   *)
  Dispositions   (* whether SIGCHLD may be (TRUE), or not be, ignored       *)

ASSUME ProcessManagerAssumption ==
  /\ IsFiniteSet(Ids)
  /\ NoPid \notin Pids
  /\ MaxProcesses \in Nat \ {0}
  /\ MaxRestarts \in Nat \ {0}
  /\ Dispositions \subseteq BOOLEAN

VARIABLES
  ignored,   (* the disposition of SIGCHLD this process inherited           *)
  child,     (* the kernel's view of every pid                              *)
  loose,     (* pids forked by StartProcessSimple, which no table holds     *)
  table,     (* processes_                                                  *)
  mon,       (* the monitor thread: where it is and what it has copied      *)
  starting,  (* the FFmpegExecutor::StartProcess call of each id            *)
  held       (* ids whose gateway keeps a pid for its stream                *)

kernel == <<ignored, child, loose>>
vars   == <<kernel, table, mon, starting, held>>

-----------------------------------------------------------------------------
Statuses == {"absent", "Stopped", "Running", "Error"}
Errors   == {"none", "restartable", "fatal"}

Entry  == [status : Statuses, pid : Pids \cup {NoPid}, error : Errors,
           restarts : 0 .. MaxRestarts, tried : BOOLEAN]
Absent == [status |-> "absent", pid |-> NoPid, error |-> "none",
           restarts |-> 0, tried |-> FALSE]

Monitor == [pc : {"idle", "check", "update", "restart"}, id : Ids \cup {NoPid},
            pid : Pids \cup {NoPid}, running : BOOLEAN, budget : BOOLEAN,
            verdict : Errors]
Idle    == [pc |-> "idle", id |-> NoPid, pid |-> NoPid, running |-> FALSE,
            budget |-> FALSE, verdict |-> "none"]

Present(id) == table[id].status # "absent"

-----------------------------------------------------------------------------
(* The kernel.                                                             *)

Dead == IF ignored THEN "free" ELSE "zombie"

\* SIGTERM, then SIGKILL: a live process dies, a zombie stays what it is.
Killed(c, p) ==
  IF p # NoPid /\ c[p] = "alive" THEN [c EXCEPT ![p] = Dead] ELSE c

\* kill(pid, 0) finds zombies too.
IsProcessAlive(p) == p # NoPid /\ child[p] # "free"

\* What fork and the first second may give: nothing, a process that lives, or
\* one that has died by then.
Forks(c) ==
  {[pid |-> NoPid, lives |-> FALSE]} \cup
  [pid : {p \in Pids : c[p] = "free"}, lives : BOOLEAN]

Forked(c, f) ==
  IF f.pid = NoPid THEN c
  ELSE [c EXCEPT ![f.pid] = IF f.lives THEN "alive" ELSE Dead]

\* StartFFmpegProcess checks the new pid after a second: only a child that was
\* reaped by then counts as failed.
Launched(f) == f.pid # NoPid /\ (f.lives \/ ~ignored)

-----------------------------------------------------------------------------
(* ProcessManager's methods.                                               *)

\* StopFFmpegProcess leaves an entry without a pid as it is.
Halted(e) == IF e.pid = NoPid THEN e ELSE [e EXCEPT !.status = "Stopped", !.pid = NoPid]

NewEntry(p) == [Absent EXCEPT !.status = "Running", !.pid = p]

AtLimit == Cardinality({id \in Ids : Present(id)}) >= MaxProcesses

\* Mutant: the process of an entry in Error is taken to be dead.
ReplacedUnlessError(id) ==
  IF table[id].status = "Error" THEN child ELSE Killed(child, table[id].pid)

\* The processes once StartProcess has stopped the one of an older entry.
Replaced(id) == Killed(child, table[id].pid)

Launch(id, f) ==
  /\ child' = Forked(Replaced(id), f)
  /\ loose' = loose \ {f.pid}

\* The limit is tested before anything else, an entry that is Running counts as
\* a success, and any other is stopped first.  A failed start leaves the older
\* entry, stopped, in the table.
StartProcess(id, started) ==
  IF AtLimit
  THEN ~started /\ UNCHANGED <<child, loose, table>>
  ELSE IF table[id].status = "Running"
  THEN started /\ UNCHANGED <<child, loose, table>>
  ELSE \E f \in Forks(Replaced(id)) :
         /\ started = Launched(f)
         /\ Launch(id, f)
         /\ table' = [table EXCEPT ![id] =
              IF Launched(f) THEN NewEntry(f.pid) ELSE Halted(@)]

StopProcess(id) ==
  /\ child' = Killed(child, table[id].pid)
  /\ table' = [table EXCEPT ![id] = Absent]

-----------------------------------------------------------------------------
(* FFmpegExecutor, called by the gateways.                                 *)

ExecutorStart(id) ==
  /\ starting[id] = "no"
  /\ \E started \in BOOLEAN :
       /\ StartProcess(id, started)
       /\ starting' = [starting EXCEPT ![id] = IF started THEN "started" ELSE "simple"]
  /\ UNCHANGED <<ignored, mon, held>>

\* GetProcessInfo, after a pause: by now the entry may be gone, and then the
\* executor falls back as if the manager had refused.
ExecutorGetPid(id) ==
  /\ starting[id] = "started"
  /\ IF table[id].pid # NoPid
     THEN /\ held' = held \cup {id}
          /\ starting' = [starting EXCEPT ![id] = "no"]
     ELSE /\ starting' = [starting EXCEPT ![id] = "simple"]
          /\ UNCHANGED held
  /\ UNCHANGED <<kernel, table, mon>>

\* The fallback forks and returns the pid without looking at the child.
StartProcessSimple(id) ==
  /\ starting[id] = "simple"
  /\ \E f \in Forks(child) :
       /\ child' = Forked(child, f)
       /\ loose' = (loose \cup {f.pid}) \ {NoPid}
       /\ held' = IF f.pid = NoPid THEN held \ {id} ELSE held \cup {id}
  /\ starting' = [starting EXCEPT ![id] = "no"]
  /\ UNCHANGED <<ignored, table, mon>>

\* With a manager at hand the pid is only tested for being there: what is
\* stopped is whatever the manager has under this id.
ExecutorStop(id) ==
  /\ id \in held
  /\ StopProcess(id)
  /\ held' = held \ {id}
  /\ UNCHANGED <<ignored, loose, mon, starting>>

-----------------------------------------------------------------------------
(* The monitor thread.                                                     *)

MonitorCopy(id) ==
  /\ mon.pc = "idle" /\ Present(id)
  /\ mon' = [Idle EXCEPT !.pc = "check", !.id = id, !.pid = table[id].pid,
               !.running = table[id].status = "Running",
               !.budget = table[id].restarts < MaxRestarts]
  /\ UNCHANGED <<kernel, table, starting, held>>

\* Mutant: the monitor reaps the children it finds dead.
WaitedFor(p) == IF p # NoPid /\ child[p] = "zombie" THEN [child EXCEPT ![p] = "free"] ELSE child

\* The monitor only looks.
Seen(p) == child

\* Without the lock: is the copied pid alive, and if not, what does the log
\* say?  Every stream logs to the same file, so it may say anything.
MonitorCheck ==
  /\ mon.pc = "check"
  /\ \E verdict \in IF mon.running /\ ~IsProcessAlive(mon.pid)
                    THEN Errors \ {"none"} ELSE {"none"} :
       mon' = [Idle EXCEPT !.pc = "update", !.id = mon.id, !.verdict = verdict,
                 !.budget = mon.budget /\ verdict = "restartable"]
  /\ child' = Seen(mon.pid)
  /\ UNCHANGED <<ignored, loose, table, starting, held>>

\* The entry now under that id gets the verdict, whichever process it is for.
MonitorUpdate ==
  /\ mon.pc = "update"
  /\ IF mon.verdict # "none" /\ Present(mon.id)
     THEN /\ table' = [table EXCEPT ![mon.id].status = "Error",
                                    ![mon.id].error = mon.verdict]
          /\ mon' = IF mon.budget THEN [Idle EXCEPT !.pc = "restart", !.id = mon.id]
                    ELSE Idle
     ELSE mon' = Idle /\ UNCHANGED table
  /\ UNCHANGED <<kernel, starting, held>>

\* Whether the back-off has passed.  The first attempt stamps
\* last_restart_time with "now" and so measures an elapsed time of zero.
BackoffPassed(e, elapsed) == e.tried /\ elapsed

TryRestartProcess ==
  /\ mon.pc = "restart"
  /\ mon' = Idle
  /\ \E elapsed \in BOOLEAN :
       LET e == table[mon.id] IN
       IF ~Present(mon.id) THEN UNCHANGED <<child, loose, table>>
       ELSE IF e.restarts >= MaxRestarts
       THEN /\ table' = [table EXCEPT ![mon.id].status = "Error"]
            /\ UNCHANGED <<child, loose>>
       ELSE IF ~BackoffPassed(e, elapsed)
       THEN /\ table' = [table EXCEPT ![mon.id].tried = TRUE]
            /\ UNCHANGED <<child, loose>>
       ELSE \E f \in Forks(Replaced(mon.id)) :
              /\ Launch(mon.id, f)
              /\ table' = [table EXCEPT ![mon.id] =
                   [e EXCEPT !.status   = IF Launched(f) THEN "Running" ELSE "Error",
                             !.pid      = f.pid,
                             !.restarts = @ + 1]]
  /\ UNCHANGED <<ignored, starting, held>>

-----------------------------------------------------------------------------
\* A process ends by itself: its source went away, or it crashed.
Crash(p) ==
  /\ child[p] = "alive"
  /\ child' = [child EXCEPT ![p] = Dead]
  /\ UNCHANGED <<ignored, loose, table, mon, starting, held>>

Init ==
  /\ ignored \in Dispositions
  /\ child = [p \in Pids |-> "free"]
  /\ loose = {}
  /\ table = [id \in Ids |-> Absent]
  /\ mon = Idle
  /\ starting = [id \in Ids |-> "no"]
  /\ held = {}

Executor(id) == ExecutorStart(id) \/ ExecutorGetPid(id) \/ StartProcessSimple(id)
                \/ ExecutorStop(id)

MonitorLoop == MonitorCheck \/ MonitorUpdate \/ TryRestartProcess

Next ==
  \/ \E id \in Ids : Executor(id) \/ MonitorCopy(id)
  \/ MonitorLoop
  \/ \E p \in Pids : Crash(p)

Spec == Init /\ [][Next]_vars

\* The monitor thread runs, and comes back to every entry.
FairSpec ==
  Spec /\ WF_vars(MonitorLoop) /\ \A id \in Ids : SF_vars(MonitorCopy(id))

-----------------------------------------------------------------------------
(* Properties.                                                             *)

\* Every variable holds values of its type.
TypeOK ==
  /\ ignored \in BOOLEAN
  /\ child \in [Pids -> {"free", "alive", "zombie"}]
  /\ loose \subseteq Pids
  /\ table \in [Ids -> Entry]
  /\ mon \in Monitor
  /\ starting \in [Ids -> {"no", "started", "simple"}]
  /\ held \subseteq Ids

Alive   == {p \in Pids : child[p] = "alive"}
Managed == {p \in Pids : \E id \in Ids : table[id].pid = p}

\* Every live process the manager started is the one of an entry, so that a
\* later StopProcess reaches it: neither a start over an older entry nor a
\* verdict the monitor reached about an earlier process loses one.
NoOrphan == Alive \subseteq Managed \cup loose

\* The manager keeps no more processes alive than it was allowed.
LimitHeld == Cardinality(Alive \ loose) <= MaxProcesses

\* As long as nobody reaps dead children, a pid in the table is that of one
\* entry and of no process outside the table, so StopFFmpegProcess signals the
\* process of its own entry, even one that has died, and no other.
OwnPids ==
  ~ignored => \A id \in Ids :
    LET p == table[id].pid IN
    p # NoPid => p \notin loose /\ \A other \in Ids \ {id} : table[other].pid # p

\* The manager detects a process that exits: it does not stay Running.
ExitDetected ==
  \A id \in Ids :
    table[id].status = "Running" /\ table[id].pid \notin Alive
      ~> table[id].status # "Running"

\* An entry whose process ended with an error worth a restart is restarted (or
\* stopped), as long as it has restarts left.
ErrorsRestarted ==
  \A id \in Ids :
    table[id].status = "Error" /\ table[id].error = "restartable"
      ~> table[id].status # "Error"
=============================================================================
