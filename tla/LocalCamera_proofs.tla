-------------------------- MODULE LocalCamera_proofs --------------------------
(***************************************************************************)
(* Proofs about LocalCamera, for any streams, cameras and pids, and about  *)
(* BitrateAllocator, whose rates the gateway's thread keeps up to date.    *)
(***************************************************************************)
EXTENDS LocalCamera, BitrateAllocator, FiniteSetTheorems, WellFoundedInduction, TLAPS

-----------------------------------------------------------------------------
(* The inductive invariant.                                                *)

Looking(t) == start[t].pc \in {"scan", "spawn"}
Holding(t) == start[t].pc \in {"validate", "register", "store"}

Shapes ==
  {Idle}
    \cup [pc : {"resolve", "scan", "spawn"}, cam : Cameras]
    \cup [pc : {"validate"}, cam : Cameras, pid : Pids]
    \cup [pc : {"register", "store"}, cam : Cameras, pid : Pid, ok : BOOLEAN]

\* TypeOK, with the records of the threads and the monitor in full.
Typed ==
  /\ TypeOK
  /\ start \in [Threads -> Shapes]
  /\ copy \in [Streams -> Entries] /\ failing \in [Streams -> Entries]

\* Two threads that start one stream make it overlapped.
Alone ==
  \A s \in Streams \ overlapped : ~(InFlight(<<s, "api">>) /\ InFlight(<<s, "recover">>))

\* Starting is what a request waits for, or what a recovery has written and will
\* write over.
WhoStarts ==
  \A s \in Streams : reg[s] = "Starting" =>
    InFlight(<<s, "api">>) \/ start[<<s, "recover">>].pc \in {"validate", "register"}

\* A live process is one whose pid an entry has, or a start past its spawn.
Owned ==
  \A s \in Streams \ overlapped : \A p \in Live(s) :
    \/ Here(s) /\ streams[s].pid = p
    \/ \E t \in Threads : t[1] = s /\ Holding(t) /\ start[t].pid = p

\* A start that goes on has stopped what there was; what runs after its spawn is
\* what it has spawned, on its camera.
Clear ==
  \A t \in Threads : t[1] \notin overlapped =>
    /\ Looking(t) => ~Runs(t[1])
    /\ Holding(t) => \A p \in Live(t[1]) : start[t].pid = p /\ start[t].cam = reads[p]
    /\ Looking(t) \/ Holding(t) => ~Listed(streams[t[1]])

\* An entry that says Running has the pid and the camera of the process.
ListedOwn ==
  \A s \in Streams \ overlapped : Listed(streams[s]) =>
    \A p \in Live(s) : streams[s].pid = p /\ streams[s].cam = reads[p]

\* A camera is claimed from the scan on, and as long as the stream runs.
Claims(s, c) ==
  \/ \E t \in Threads : t[1] = s /\ OnCamera(t, c)
  \/ Listed(streams[s]) /\ streams[s].cam = c /\ Runs(s)

Exclusive ==
  \A s, o \in Streams \ overlapped, c \in Cameras \ raced :
    Claims(s, c) /\ Claims(o, c) => s = o

Processes == Owned /\ Clear /\ ListedOwn /\ Exclusive
IInv == Typed /\ Alone /\ WhoStarts /\ Processes

-----------------------------------------------------------------------------
(* Types and records.                                                      *)

LEMMA ThreadParts ==
  /\ \A t \in Threads : t[1] \in Streams /\ t[2] \in {"api", "recover"} /\ t = <<t[1], t[2]>>
  /\ \A s \in Streams : \A w \in {"api", "recover"} :
       <<s, w>> \in Threads /\ <<s, w>>[1] = s /\ <<s, w>>[2] = w
BY DEF Threads

\* Entries that are there.
Used ==
  [here : {TRUE}, cam : Cameras, status : {"Running", "Down"}, pid : Pid,
   attempts : 0..MaxRecover]

LEMMA EntryParts ==
  /\ NoEntry \in Entries /\ NoEntry.here = FALSE
  /\ \A e \in Entries :
       /\ e.here \in BOOLEAN
       /\ ~e.here => e = NoEntry
       /\ e.here => e \in Used
<1>1. NoEntry \in Entries /\ NoEntry.here = FALSE
  BY DEF Entries, NoEntry
<1>2. \A e \in Entries : e = NoEntry \/ e \in Used
  BY DEF Entries, Used
<1>3. \A e \in Used : e.here = TRUE
  BY DEF Used
<1>. QED BY <1>1, <1>2, <1>3

LEMMA EntryChanges ==
  ASSUME NEW e \in Entries, e.here
  PROVE  /\ \A k \in {"Running", "Down"} :
              /\ [e EXCEPT !.status = k] \in Entries
              /\ [e EXCEPT !.status = k].here /\ [e EXCEPT !.status = k].status = k
              /\ [e EXCEPT !.status = k].cam = e.cam /\ [e EXCEPT !.status = k].pid = e.pid
         /\ \A n \in 0..MaxRecover :
              /\ [e EXCEPT !.attempts = n] \in Entries
              /\ [e EXCEPT !.attempts = n].here
              /\ [e EXCEPT !.attempts = n].status = e.status
              /\ [e EXCEPT !.attempts = n].cam = e.cam /\ [e EXCEPT !.attempts = n].pid = e.pid
<1>1. e \in Used /\ Used \subseteq Entries
  BY EntryParts DEF Entries, Used
<1>2. ASSUME NEW k \in {"Running", "Down"}
      PROVE  /\ [e EXCEPT !.status = k] \in Used
             /\ [e EXCEPT !.status = k].here /\ [e EXCEPT !.status = k].status = k
             /\ [e EXCEPT !.status = k].cam = e.cam /\ [e EXCEPT !.status = k].pid = e.pid
  BY <1>1 DEF Used
<1>3. ASSUME NEW n \in 0..MaxRecover
      PROVE  /\ [e EXCEPT !.attempts = n] \in Used
             /\ [e EXCEPT !.attempts = n].here
             /\ [e EXCEPT !.attempts = n].status = e.status
             /\ [e EXCEPT !.attempts = n].cam = e.cam /\ [e EXCEPT !.attempts = n].pid = e.pid
  BY <1>1 DEF Used
<1>. QED BY <1>1, <1>2, <1>3

LEMMA ShapeParts ==
  /\ Idle \in Shapes /\ Idle.pc = "idle"
  /\ \A x \in Shapes :
       /\ x.pc \in Places
       /\ x.pc = "idle" => x = Idle
       /\ x.pc \in {"resolve", "scan", "spawn"} =>
            x \in [pc : {"resolve", "scan", "spawn"}, cam : Cameras]
       /\ x.pc = "validate" => x \in [pc : {"validate"}, cam : Cameras, pid : Pids]
       /\ x.pc \in {"register", "store"} =>
            x \in [pc : {"register", "store"}, cam : Cameras, pid : Pid, ok : BOOLEAN]
BY DEF Shapes, Idle, Places

LEMMA ShapeFields ==
  \A x \in Shapes :
    /\ x.pc # "idle" => x.cam \in Cameras
    /\ x.pc \in {"validate", "register", "store"} => x.pid \in Pid
    /\ x.pc \in {"register", "store"} => x.ok \in BOOLEAN
BY ShapeParts DEF Places, Pid

\* A thread that moves on keeps what it holds.
LEMMA Moved ==
  ASSUME start \in [Threads -> Shapes], NEW t \in Threads, NEW from, NEW to,
         <<from, to>> \in {<<"resolve", "scan">>, <<"scan", "spawn">>, <<"register", "store">>},
         At(t, from), Move(t, to)
  PROVE  /\ start' \in [Threads -> Shapes]
         /\ start'[t].pc = to /\ start'[t].cam = start[t].cam
         /\ from = "register" => start'[t].pid = start[t].pid /\ start'[t].ok = start[t].ok
         /\ \A u \in Threads : u # t => start'[u] = start[u]
<1>1. start[t] \in Shapes /\ start[t].pc = from /\ start'[t] = [start[t] EXCEPT !.pc = to]
      /\ \A u \in Threads : u # t => start'[u] = start[u]
  BY DEF At, Move
<1>2. CASE from = "register"
  <2>1. start[t] \in [pc : {"register", "store"}, cam : Cameras, pid : Pid, ok : BOOLEAN]
    BY <1>1, <1>2, ShapeParts
  <2>2. to = "store"
    BY <1>2
  <2>3. start'[t] \in [pc : {"register", "store"}, cam : Cameras, pid : Pid, ok : BOOLEAN]
        /\ start'[t].pc = to /\ start'[t].cam = start[t].cam
        /\ start'[t].pid = start[t].pid /\ start'[t].ok = start[t].ok
    BY <1>1, <2>1, <2>2
  <2>. QED BY <1>1, <2>3 DEF Shapes, Move
<1>3. CASE from # "register"
  <2>1. from \in {"resolve", "scan"} /\ to \in {"scan", "spawn"}
    BY <1>3
  <2>2. start[t] \in [pc : {"resolve", "scan", "spawn"}, cam : Cameras]
    BY <1>1, <2>1, ShapeParts
  <2>3. start'[t] \in [pc : {"resolve", "scan", "spawn"}, cam : Cameras]
        /\ start'[t].pc = to /\ start'[t].cam = start[t].cam
    BY <1>1, <2>1, <2>2
  <2>. QED BY <1>1, <1>3, <2>3 DEF Shapes, Move
<1>. QED BY <1>2, <1>3

LEMMA RegistryCalls ==
  ASSUME NEW r \in Statuses
  PROVE  /\ Requested(r) \in {"Running", "Starting"}
         /\ Reported(r) \in {"Running", "Error"}
         /\ \A k \in {"Running", "Starting"}, ok \in BOOLEAN :
              Resulting(Reregistered(r, k), ok) \in {"Running", "Error"}
BY DEF Statuses, Requested, Reported, Resulting, Reregistered

-----------------------------------------------------------------------------
(* Processes.                                                              *)

LEMMA Types ==
  ASSUME IInv
  PROVE  /\ up \in BOOLEAN /\ streams \in [Streams -> Entries]
         /\ managed \in [Streams -> Pid] /\ reads \in [Pids -> Cameras \cup {NoCamera}]
         /\ forked \in [Streams -> SUBSET Pids] /\ left \subseteq Pids
         /\ alive \subseteq Pids /\ NoPid \notin alive /\ reg \in [Streams -> Statuses]
         /\ start \in [Threads -> Shapes]
         /\ copy \in [Streams -> Entries] /\ failing \in [Streams -> Entries]
         /\ overlapped \subseteq Streams /\ raced \subseteq Cameras
BY LocalCameraAssumption DEF IInv, Typed, TypeOK, alive

\* The variables of the processes have their types.
ProcessTypes ==
  /\ managed \in [Streams -> Pid] /\ reads \in [Pids -> Cameras \cup {NoCamera}]
  /\ forked \in [Streams -> SUBSET Pids] /\ left \subseteq Pids

\* Two threads in flight for a stream that is not overlapped are the same.
LEMMA OneThread ==
  ASSUME Alone, NEW t \in Threads, NEW u \in Threads, InFlight(t), InFlight(u),
         t[1] = u[1], t[1] \notin overlapped
  PROVE  t = u
BY ThreadParts DEF Alone

\* No stream has a process it did not have, and none changes its camera.
Fewer ==
  \A x \in Streams : \A p \in Live(x)' : p \in Live(x) /\ reads'[p] = reads[p]

LEMMA ProcessesKept ==
  ASSUME IInv, UNCHANGED process
  PROVE  Fewer /\ ProcessTypes' /\ alive' = alive /\ \A x \in Streams : Live(x)' = Live(x)
<1>1. UNCHANGED <<managed, forked, left, reads>>
  BY DEF process
<1>2. alive' = alive
  BY <1>1 DEF alive
<1>3. \A x \in Streams : Live(x)' = Live(x)
  BY <1>1, <1>2 DEF Live
<1>. QED BY <1>1, <1>2, <1>3, Types DEF Fewer, ProcessTypes

\* Processes that are killed.
LEMMA KilledOnes ==
  ASSUME IInv, NEW d
  PROVE  /\ Killed(reads, d) \in [Pids -> Cameras \cup {NoCamera}]
         /\ \A p \in Pids : Killed(reads, d)[p] = IF p \in d THEN NoCamera ELSE reads[p]
BY Types DEF Killed

LEMMA StopEnds ==
  ASSUME IInv, NEW s \in Streams, StopProcess(s)
  PROVE  /\ Fewer /\ ProcessTypes' /\ streams[s].pid \notin Live(s)'
<1>1. /\ managed' \in [Streams -> Pid] /\ managed'[s] = NoPid
      /\ \A x \in Streams : x # s => managed'[x] = managed[x]
  BY Types DEF StopProcess, Pid
<1>2. /\ forked' = forked /\ left \subseteq left' /\ left' \subseteq Pids
      /\ forked[s] \cap {streams[s].pid} \subseteq left'
  BY Types DEF StopProcess
<1>3. /\ reads' \in [Pids -> Cameras \cup {NoCamera}]
      /\ \A p \in Pids : reads'[p] = IF p \in {managed[s]} THEN NoCamera ELSE reads[p]
  BY KilledOnes DEF StopProcess
<1>4. alive' \subseteq alive /\ managed[s] \notin alive' /\ NoPid \notin alive'
      /\ \A p \in alive' : reads'[p] = reads[p]
  BY <1>3, LocalCameraAssumption DEF alive
<1>5. Fewer
  <2>. SUFFICES ASSUME NEW x \in Streams, NEW p \in Live(x)'
                PROVE  p \in Live(x) /\ reads'[p] = reads[p]
    BY DEF Fewer
  <2>1. p \in alive' /\ (p = managed'[x] \/ p \in forked'[x] \ left')
    BY DEF Live
  <2>2. p # NoPid
    BY <1>4, <2>1
  <2>3. p = managed'[x] => p = managed[x]
    BY <1>1, <2>2
  <2>. QED BY <1>2, <1>4, <2>1, <2>3 DEF Live
<1>6. streams[s].pid \notin Live(s)'
  BY <1>1, <1>2, <1>4 DEF Live
<1>. QED BY <1>1, <1>2, <1>3, <1>5, <1>6, Types DEF ProcessTypes

\* Nothing new runs and no claim is made: then only what stands for the processes
\* counts.
LEMMA ClaimsShrink ==
  ASSUME IInv, overlapped \subseteq overlapped', raced \subseteq raced',
         \A x \in Streams \ overlapped', c \in Cameras \ raced' : Claims(x, c)' => Claims(x, c)
  PROVE  Exclusive'
BY DEF IInv, Processes, Exclusive

\* Steps that leave every process to the stream that has it, every entry its place,
\* and no start past its spawn.
LEMMA QuietStep ==
  ASSUME IInv, Fewer,
         overlapped \subseteq overlapped', raced \subseteq raced',
         \A x \in Streams : Here(x)' = Here(x) /\ (Here(x) =>
           /\ streams'[x].cam = streams[x].cam /\ streams'[x].pid = streams[x].pid
           /\ streams'[x].status = "Running" => streams[x].status = "Running"),
         \A u \in Threads :
           \/ start'[u] = start[u]
           \/ ~Holding(u) /\ start'[u].pc \in {"idle", "resolve"}
           \/ /\ Holding(u) /\ Holding(u)' /\ start'[u].cam = start[u].cam
              /\ start'[u].pid = start[u].pid \/ start[u].pid \notin alive
  PROVE  Processes'
<1>1. \A x \in Streams : Live(x)' \subseteq Live(x) /\ Live(x) \subseteq alive
                         /\ (Runs(x)' => Runs(x))
  BY DEF Fewer, Live, Runs
<1>2. \A x \in Streams : Listed(streams'[x]) => Listed(streams[x])
  BY DEF Listed, Here
<1>3. \A u \in Threads :
        /\ Holding(u) => Holding(u)'
        /\ Looking(u)' => Looking(u)
        /\ Holding(u)' => Holding(u) /\ start'[u].cam = start[u].cam
                          /\ (start'[u].pid = start[u].pid \/ start[u].pid \notin alive)
        /\ start'[u].pc = "spawn" => start'[u] = start[u]
  BY DEF Holding, Looking
<1>4. Owned'
  <2>. SUFFICES ASSUME NEW s \in Streams \ overlapped', NEW p \in Live(s)'
                PROVE  \/ Here(s)' /\ streams'[s].pid = p
                       \/ \E t \in Threads : t[1] = s /\ Holding(t)' /\ start'[t].pid = p
    BY DEF Owned
  <2>1. p \in Live(s) /\ p \in alive /\ s \notin overlapped
    BY <1>1
  <2>2. CASE Here(s) /\ streams[s].pid = p
    BY <2>2
  <2>3. ASSUME NEW t \in Threads, t[1] = s, Holding(t), start[t].pid = p
        PROVE  Holding(t)' /\ start'[t].pid = p
    BY <1>3, <2>1, <2>3
  <2>. QED BY <2>1, <2>2, <2>3 DEF IInv, Processes, Owned
<1>5. Clear'
  <2>. SUFFICES ASSUME NEW t \in Threads, t[1] \notin overlapped'
                PROVE  /\ Looking(t)' => ~Runs(t[1])'
                       /\ Holding(t)' => \A p \in Live(t[1])' :
                            start'[t].pid = p /\ start'[t].cam = reads'[p]
                       /\ Looking(t)' \/ Holding(t)' => ~Listed(streams'[t[1]])
    BY DEF Clear
  <2>1. t[1] \in Streams /\ t[1] \notin overlapped
    BY ThreadParts
  <2>2. Looking(t)' => ~Runs(t[1])'
    BY <1>1, <1>3, <2>1 DEF IInv, Processes, Clear
  <2>3. ASSUME Holding(t)', NEW p \in Live(t[1])'
        PROVE  start'[t].pid = p /\ start'[t].cam = reads'[p]
    <3>1. p \in Live(t[1]) /\ p \in alive /\ reads'[p] = reads[p]
      BY <1>1, <2>1, <2>3 DEF Fewer
    <3>2. Holding(t)
      BY <1>3, <2>3
    <3>3. start[t].pid = p /\ start[t].cam = reads[p]
      BY <2>1, <3>1, <3>2 DEF IInv, Processes, Clear
    <3>. QED BY <1>3, <2>3, <3>1, <3>3
  <2>4. Looking(t)' \/ Holding(t)' => ~Listed(streams'[t[1]])
    BY <1>2, <1>3, <2>1 DEF IInv, Processes, Clear
  <2>. QED BY <2>2, <2>3, <2>4
<1>6. ListedOwn'
  <2>. SUFFICES ASSUME NEW s \in Streams \ overlapped', Listed(streams'[s]), NEW p \in Live(s)'
                PROVE  streams'[s].pid = p /\ streams'[s].cam = reads'[p]
    BY DEF ListedOwn
  <2>1. /\ p \in Live(s) /\ reads'[p] = reads[p] /\ s \notin overlapped
        /\ Listed(streams[s]) /\ Here(s)
    BY <1>2 DEF Fewer, Listed, Here
  <2>. QED BY <2>1 DEF IInv, Processes, ListedOwn
<1>7. Exclusive'
  <2>1. ASSUME NEW x \in Streams, NEW c \in Cameras, Claims(x, c)'
        PROVE  Claims(x, c)
    <3>1. ASSUME NEW t \in Threads, t[1] = x, OnCamera(t, c)'
          PROVE  OnCamera(t, c)
      BY <1>3, <3>1 DEF OnCamera, Holding
    <3>2. Listed(streams'[x]) /\ streams'[x].cam = c /\ Runs(x)'
            => Listed(streams[x]) /\ streams[x].cam = c /\ Runs(x)
      BY <1>1, <1>2 DEF Listed, Here
    <3>. QED BY <2>1, <3>1, <3>2 DEF Claims
  <2>. QED BY <2>1, ClaimsShrink
<1>. QED BY <1>4, <1>5, <1>6, <1>7 DEF Processes

\* A stream that is stopped, or looked at by a start of its own: nothing runs for it
\* afterwards but what a start has spawned, and its entry does not say Running.
LEMMA EndedStep ==
  ASSUME IInv, NEW s \in Streams, Fewer, UNCHANGED history,
         \A x \in Streams : x # s => streams'[x] = streams[x],
         ~Listed(streams'[s]),
         s \notin overlapped => \A p \in Live(s)' :
           \E t \in Threads : t[1] = s /\ Holding(t)' /\ start'[t].pid = p,
         \A u \in Threads : start'[u] = start[u] \/
           (u[1] = s /\ start'[u].pc \in {"idle", "scan"} /\ ~Holding(u)
              /\ (start'[u].pc = "scan" /\ s \notin overlapped => ~Runs(s)'))
  PROVE  Processes'
<1>0. UNCHANGED <<overlapped, raced>>
  BY DEF history
<1>1. \A u \in Threads :
        /\ Holding(u) => Holding(u)'
        /\ Holding(u)' => start'[u] = start[u]
        /\ start'[u].pc = "spawn" => start'[u] = start[u]
        /\ Looking(u)' => start'[u] = start[u] \/
             (u[1] = s /\ (s \notin overlapped => ~Runs(s)'))
        /\ u[1] # s => start'[u] = start[u]
  BY DEF Holding, Looking
<1>2. Owned'
  <2>. SUFFICES ASSUME NEW x \in Streams \ overlapped', NEW p \in Live(x)'
                PROVE  \/ Here(x)' /\ streams'[x].pid = p
                       \/ \E t \in Threads : t[1] = x /\ Holding(t)' /\ start'[t].pid = p
    BY DEF Owned
  <2>1. CASE x = s
    BY <1>0, <2>1
  <2>2. CASE x # s
    <3>1. p \in Live(x) /\ streams'[x] = streams[x] /\ x \notin overlapped
      BY <1>0, <2>2 DEF Fewer
    <3>2. CASE Here(x) /\ streams[x].pid = p
      BY <3>1, <3>2 DEF Here
    <3>3. ASSUME NEW t \in Threads, t[1] = x, Holding(t), start[t].pid = p
          PROVE  Holding(t)' /\ start'[t].pid = p
      BY <1>1, <2>2, <3>3
    <3>. QED BY <3>1, <3>2, <3>3 DEF IInv, Processes, Owned
  <2>. QED BY <2>1, <2>2
<1>3. Clear'
  <2>. SUFFICES ASSUME NEW t \in Threads, t[1] \notin overlapped'
                PROVE  /\ Looking(t)' => ~Runs(t[1])'
                       /\ Holding(t)' => \A p \in Live(t[1])' :
                            start'[t].pid = p /\ start'[t].cam = reads'[p]
                       /\ Looking(t)' \/ Holding(t)' => ~Listed(streams'[t[1]])
    BY DEF Clear
  <2>1. t[1] \in Streams /\ t[1] \notin overlapped
    BY <1>0, ThreadParts
  <2>2. Runs(t[1])' => Runs(t[1])
    BY <2>1 DEF Fewer, Runs
  <2>3. /\ Looking(t) => ~Runs(t[1])
        /\ Holding(t) => \A p \in Live(t[1]) : start[t].pid = p /\ start[t].cam = reads[p]
        /\ Looking(t) \/ Holding(t) => ~Listed(streams[t[1]])
    BY <2>1 DEF IInv, Processes, Clear
  <2>4. Looking(t)' => ~Runs(t[1])'
    BY <1>1, <2>1, <2>2, <2>3 DEF Looking
  <2>5. Holding(t)' => Holding(t)
    BY <1>1 DEF Holding
  <2>6. Looking(t)' \/ Holding(t)' => ~Listed(streams'[t[1]])
    <3>1. CASE t[1] = s
      BY <3>1
    <3>2. CASE t[1] # s
      BY <1>1, <2>1, <2>3, <2>5, <3>2 DEF Looking
    <3>. QED BY <3>1, <3>2
  <2>7. ASSUME Holding(t)', NEW p \in Live(t[1])'
        PROVE  start'[t].pid = p /\ start'[t].cam = reads'[p]
    <3>1. p \in Live(t[1]) /\ reads'[p] = reads[p]
      BY <2>1, <2>7 DEF Fewer
    <3>. QED BY <1>1, <2>3, <2>5, <2>7, <3>1
  <2>. QED BY <2>4, <2>6, <2>7
<1>4. ListedOwn'
  <2>. SUFFICES ASSUME NEW x \in Streams \ overlapped', Listed(streams'[x]), NEW p \in Live(x)'
                PROVE  streams'[x].pid = p /\ streams'[x].cam = reads'[p]
    BY DEF ListedOwn
  <2>1. x # s /\ streams'[x] = streams[x] /\ x \notin overlapped
    BY <1>0
  <2>2. p \in Live(x) /\ reads'[p] = reads[p]
    BY DEF Fewer
  <2>. QED BY <2>1, <2>2 DEF IInv, Processes, ListedOwn
<1>5. Exclusive'
  <2>1. ASSUME NEW x \in Streams, NEW c \in Cameras, Claims(x, c)'
        PROVE  Claims(x, c)
    <3>1. ASSUME NEW t \in Threads, OnCamera(t, c)'
          PROVE  OnCamera(t, c)
      BY <1>1, <3>1 DEF OnCamera, Holding
    <3>2. Listed(streams'[x]) /\ streams'[x].cam = c /\ Runs(x)'
            => Listed(streams[x]) /\ streams[x].cam = c /\ Runs(x)
      BY DEF Fewer, Runs
    <3>. QED BY <2>1, <3>1, <3>2 DEF Claims
  <2>. QED BY <1>0, <2>1, ClaimsShrink
<1>. QED BY <1>2, <1>3, <1>4, <1>5 DEF Processes

-----------------------------------------------------------------------------
(* Threads and the registry.                                               *)

LEMMA AloneKept ==
  ASSUME IInv, overlapped \subseteq overlapped',
         \A u \in Threads : InFlight(u)' => InFlight(u)
  PROVE  Alone'
BY ThreadParts DEF IInv, Alone

LEMMA WhoStartsKept ==
  ASSUME IInv,
         \A x \in Streams : reg'[x] = "Starting" => reg[x] = "Starting",
         \A u \in Threads : start[u].pc \in {"validate", "register"} \/ (InFlight(u) /\ u[2] = "api")
           => reg'[u[1]] # "Starting" \/ start'[u].pc \in {"validate", "register"}
                \/ (InFlight(u)' /\ u[2] = "api")
  PROVE  WhoStarts'
<1>. SUFFICES ASSUME NEW s \in Streams, reg'[s] = "Starting"
              PROVE  InFlight(<<s, "api">>)' \/ start'[<<s, "recover">>].pc \in {"validate", "register"}
  BY DEF WhoStarts
<1>1. InFlight(<<s, "api">>) \/ start[<<s, "recover">>].pc \in {"validate", "register"}
  BY DEF IInv, WhoStarts
<1>. QED BY <1>1, ThreadParts DEF InFlight

LEMMA Returned ==
  ASSUME IInv, NEW t \in Threads, NEW ok \in BOOLEAN, NEW r \in Statuses, Return(t, ok, r),
         start[t].pc \notin {"validate", "register"},
         r = "Starting" => reg[t[1]] = "Starting",
         overlapped \subseteq overlapped'
  PROVE  /\ start' \in [Threads -> Shapes] /\ start'[t] = Idle
         /\ \A u \in Threads : u # t => start'[u] = start[u]
         /\ reg' \in [Streams -> Statuses] /\ Alone' /\ WhoStarts'
<1>1. t[1] \in Streams /\ t[2] \in {"api", "recover"}
  BY ThreadParts
<1>2. /\ start' \in [Threads -> Shapes] /\ start'[t] = Idle
      /\ \A u \in Threads : u # t => start'[u] = start[u]
  BY Types, ShapeParts DEF Return
<1>3. /\ \A x \in Streams : x # t[1] => reg'[x] = reg[x]
      /\ reg'[t[1]] = IF t[2] = "api" /\ r # "none" THEN IF ok THEN "Running" ELSE "Error" ELSE r
  BY <1>1, Types DEF Return
<1>4. reg' \in [Streams -> Statuses]
  BY <1>1, Types DEF Return, Statuses
<1>5. Alone'
  BY <1>2, ShapeParts, AloneKept DEF InFlight
<1>6. WhoStarts'
  <2>1. \A x \in Streams : reg'[x] = "Starting" => reg[x] = "Starting"
    BY <1>3
  <2>2. t[2] = "api" => reg'[t[1]] # "Starting"
    BY <1>3
  <2>. QED BY <1>2, <2>1, <2>2, ThreadParts, WhoStartsKept DEF InFlight
<1>. QED BY <1>2, <1>4, <1>5, <1>6

-----------------------------------------------------------------------------
(* The steps of a start.                                                   *)

LEMMA HandleStartStep ==
  ASSUME IInv, NEW s \in Streams, NEW c \in Cameras, HandleStart(s, c)
  PROVE  IInv'
<1>. DEFINE t == <<s, "api">>
            x == [pc |-> "resolve", cam |-> c]
<1>1. /\ up /\ ~InFlight(t) /\ requests < MaxRequests /\ requests' = requests + 1
      /\ start' = [start EXCEPT ![t] = x]
      /\ reg' = [reg EXCEPT ![s] = Requested(@)]
      /\ overlapped' = IF Busy(s) THEN overlapped \cup {s} ELSE overlapped
      /\ UNCHANGED <<up, streams, process, monitor, raced>>
  BY DEF HandleStart
<1>2. t \in Threads /\ t[1] = s /\ x \in Shapes /\ x.pc = "resolve"
  BY ThreadParts DEF Shapes
<1>. HIDE DEF t, x
<1>3. /\ start' \in [Threads -> Shapes] /\ start'[t].pc = "resolve"
      /\ \A u \in Threads : u # t => start'[u] = start[u]
  BY <1>1, <1>2, Types
<1>4. /\ reg' \in [Streams -> Statuses]
      /\ \A y \in Streams : y # s => reg'[y] = reg[y]
  BY <1>1, Types, RegistryCalls DEF Statuses
<1>5. overlapped \subseteq overlapped' /\ overlapped' \subseteq Streams
  BY <1>1, Types
<1>6. Typed'
  <2>1. requests \in 0..MaxRequests
    BY DEF IInv, Typed, TypeOK
  <2>2. requests' \in 0..MaxRequests
    BY <1>1, <2>1, LocalCameraAssumption
  <2>. QED
    BY <1>1, <1>3, <1>4, <1>5, <2>2, ShapeParts DEF IInv, Typed, TypeOK, process, monitor
<1>7. Alone'
  <2>. SUFFICES ASSUME NEW y \in Streams \ overlapped', InFlight(<<y, "api">>)',
                       InFlight(<<y, "recover">>)'
                PROVE  FALSE
    BY DEF Alone
  <2>1. CASE y = s
    <3>1. <<s, "recover">> # t /\ <<s, "recover">> \in Threads
      BY ThreadParts DEF t
    <3>2. InFlight(<<s, "recover">>)
      BY <1>3, <2>1, <3>1 DEF InFlight
    <3>3. Busy(s)
      BY <3>1, <3>2, ThreadParts DEF Busy
    <3>. QED BY <1>1, <2>1, <3>3
  <2>2. CASE y # s
    <3>1. <<y, "api">> # t /\ <<y, "recover">> # t
      BY <2>2, ThreadParts DEF t
    <3>. QED BY <1>3, <1>5, <3>1, ThreadParts DEF IInv, Alone, InFlight
  <2>. QED BY <2>1, <2>2
<1>8. WhoStarts'
  <2>. SUFFICES ASSUME NEW y \in Streams, reg'[y] = "Starting"
                PROVE  InFlight(<<y, "api">>)' \/ start'[<<y, "recover">>].pc \in {"validate", "register"}
    BY DEF WhoStarts
  <2>1. CASE y = s
    BY <1>3, <2>1 DEF InFlight, t
  <2>2. CASE y # s
    <3>1. <<y, "api">> # t /\ <<y, "recover">> # t
      BY <2>2, ThreadParts DEF t
    <3>. QED BY <1>3, <1>4, <2>2, <3>1, ThreadParts DEF IInv, WhoStarts, InFlight
  <2>. QED BY <2>1, <2>2
<1>9. Processes'
  <2>1. ~Holding(t)
    BY <1>1 DEF InFlight, Holding
  <2>. QED BY <1>1, <1>3, <1>5, <2>1, ProcessesKept, QuietStep DEF Here
<1>. QED BY <1>6, <1>7, <1>8, <1>9 DEF IInv

LEMMA ResolveFailsStep ==
  ASSUME IInv, NEW t \in Threads, ResolveFails(t)
  PROVE  IInv'
<1>1. PICK r \in {reg[t[1]], Reported(reg[t[1]])} : Return(t, FALSE, r)
  BY DEF ResolveFails
<1>2. start[t].pc = "resolve" /\ UNCHANGED <<up, requests, streams, process, monitor, history>>
  BY DEF ResolveFails, At
<1>3. reg[t[1]] \in Statuses /\ r \in Statuses /\ (r = "Starting" => reg[t[1]] = "Starting")
  <2>1. reg[t[1]] \in Statuses
    BY Types, ThreadParts
  <2>2. Reported(reg[t[1]]) \in {"Running", "Error"}
    BY <2>1, RegistryCalls
  <2>. QED BY <2>1, <2>2 DEF Statuses
<1>4. /\ start' \in [Threads -> Shapes] /\ start'[t] = Idle
      /\ \A u \in Threads : u # t => start'[u] = start[u]
      /\ reg' \in [Streams -> Statuses] /\ Alone' /\ WhoStarts'
  BY <1>1, <1>2, <1>3, Returned DEF history
<1>5. Typed'
  BY <1>2, <1>4, ShapeParts DEF IInv, Typed, TypeOK, process, monitor, history
<1>6. Processes'
  BY <1>2, <1>4, ShapeParts, ProcessesKept, QuietStep DEF history, Here, Holding
<1>. QED BY <1>4, <1>5, <1>6 DEF IInv

LEMMA CheckOccupancyStep ==
  ASSUME IInv, NEW t \in Threads, CheckOccupancy(t)
  PROVE  IInv'
<1>. DEFINE s == t[1]
            e == streams[s]
            n == IF ~Here(s) \/ e.cam # start[t].cam THEN NoEntry
                 ELSE [e EXCEPT !.status = "Down"]
<1>1. /\ At(t, "resolve") /\ UNCHANGED <<up, requests, monitor, history>>
      /\ IF Here(s) /\ e.cam = start[t].cam /\ e.status = "Running"
         THEN Return(t, TRUE, reg[s]) /\ UNCHANGED <<streams, process>>
         ELSE /\ Move(t, "scan") /\ UNCHANGED reg
              /\ IF Stops(s, e) THEN StopProcess(s) ELSE UNCHANGED process
              /\ streams' = [streams EXCEPT ![s] = n]
  BY DEF CheckOccupancy
<1>2. s \in Streams /\ reg[s] \in Statuses /\ e \in Entries /\ start[t].pc = "resolve"
  BY <1>1, Types, ThreadParts DEF At
<1>3. CASE Here(s) /\ e.cam = start[t].cam /\ e.status = "Running"
  <2>1. Return(t, TRUE, reg[s]) /\ UNCHANGED <<streams, process>>
    BY <1>1, <1>3
  <2>2. /\ start' \in [Threads -> Shapes] /\ start'[t] = Idle
        /\ \A u \in Threads : u # t => start'[u] = start[u]
        /\ reg' \in [Streams -> Statuses] /\ Alone' /\ WhoStarts'
    BY <1>1, <1>2, <2>1, Returned DEF history
  <2>3. Typed'
    BY <1>1, <2>1, <2>2, ShapeParts DEF IInv, Typed, TypeOK, process, monitor, history
  <2>4. Processes'
    BY <1>1, <1>2, <2>1, <2>2, ShapeParts, ProcessesKept, QuietStep DEF history, Here, Holding
  <2>. QED BY <2>2, <2>3, <2>4 DEF IInv
<1>4. CASE ~(Here(s) /\ e.cam = start[t].cam /\ e.status = "Running")
  <2>1. /\ Move(t, "scan") /\ UNCHANGED reg /\ streams' = [streams EXCEPT ![s] = n]
        /\ IF Stops(s, e) THEN StopProcess(s) ELSE UNCHANGED process
    BY <1>1, <1>4
  <2>2. n \in Entries /\ ~Listed(n)
    BY <1>2, <1>4, EntryParts, EntryChanges DEF Listed, Here
  <2>. HIDE DEF n
  <2>3. /\ streams' \in [Streams -> Entries] /\ streams'[s] = n
        /\ \A x \in Streams : x # s => streams'[x] = streams[x]
    BY <1>2, <2>1, <2>2, Types
  <2>4. /\ start' \in [Threads -> Shapes] /\ start'[t].pc = "scan"
        /\ \A u \in Threads : u # t => start'[u] = start[u]
    BY <1>1, <2>1, Types, Moved
  <2>5. ASSUME s \notin overlapped, NEW p \in Live(s)
        PROVE  Stops(s, e) /\ streams[s].pid = p
    <3>1. \A u \in Threads : u[1] = s => ~Holding(u)
      <4>. SUFFICES ASSUME NEW u \in Threads, u[1] = s, Holding(u)
                    PROVE  FALSE
        OBVIOUS
      <4>1. InFlight(u) /\ InFlight(t) /\ u # t
        BY <1>2 DEF Holding, InFlight
      <4>. QED BY <2>5, <4>1, OneThread DEF IInv
    <3>2. Here(s) /\ streams[s].pid = p
      BY <1>2, <2>5, <3>1 DEF IInv, Processes, Owned
    <3>3. p # NoPid
      BY <2>5, Types DEF Live
    <3>. QED BY <3>2, <3>3 DEF Stops, Here
  <2>10. Fewer /\ ProcessTypes' /\ (s \notin overlapped => ~Runs(s)')
    <3>1. CASE Stops(s, e)
      <4>1. Fewer /\ ProcessTypes' /\ streams[s].pid \notin Live(s)'
        BY <1>2, <2>1, <3>1, StopEnds
      <4>. QED BY <1>2, <2>5, <4>1 DEF Fewer, Runs
    <3>2. CASE ~Stops(s, e)
      <4>1. Fewer /\ ProcessTypes' /\ Live(s)' = Live(s)
        BY <1>2, <2>1, <3>2, ProcessesKept
      <4>. QED BY <2>5, <3>2, <4>1 DEF Runs
    <3>. QED BY <3>1, <3>2
  <2>6. Typed'
    BY <1>1, <2>1, <2>3, <2>4, <2>10, ShapeParts DEF IInv, Typed, TypeOK, ProcessTypes, monitor, history
  <2>7. Alone' /\ WhoStarts'
    <3>1. \A u \in Threads : InFlight(u)' <=> InFlight(u)
      BY <1>2, <2>4 DEF InFlight
    <3>2. Alone'
      BY <1>1, <3>1, AloneKept DEF history
    <3>3. WhoStarts'
      BY <1>2, <2>1, <2>4, <3>1, WhoStartsKept
    <3>. QED BY <3>2, <3>3
  <2>8. Processes'
    <3>1. \A u \in Threads : start'[u] = start[u] \/
           (u[1] = s /\ start'[u].pc \in {"idle", "scan"} /\ ~Holding(u)
              /\ (start'[u].pc = "scan" /\ s \notin overlapped => ~Runs(s)'))
      BY <1>2, <2>4, <2>10 DEF Holding
    <3>2. s \notin overlapped => \A p \in Live(s)' :
            \E u \in Threads : u[1] = s /\ Holding(u)' /\ start'[u].pid = p
      BY <2>10 DEF Runs
    <3>. HIDE DEF s
    <3>. QED BY <1>1, <1>2, <2>2, <2>3, <2>10, <3>1, <3>2, EndedStep
  <2>. QED BY <2>6, <2>7, <2>8 DEF IInv
<1>. QED BY <1>3, <1>4

LEMMA ScanOccupiedStep ==
  ASSUME IInv, NEW t \in Threads, ScanOccupied(t)
  PROVE  IInv'
<1>. DEFINE s == t[1]
            c == start[t].cam
<1>1. /\ start[t].pc = "scan" /\ At(t, "scan")
      /\ UNCHANGED <<up, requests, streams, process, monitor, overlapped>>
  BY DEF ScanOccupied, At
<1>2. PICK seen \in SUBSET Pids :
        /\ alive \subseteq seen
        /\ IF \E o \in Streams \ {s} : Occupies(o, c) /\ streams[o].pid \in seen
           THEN Return(t, FALSE, reg[s]) /\ UNCHANGED raced
           ELSE /\ Move(t, "spawn") /\ UNCHANGED reg
                /\ raced' = IF \E other \in Threads : other[1] # s /\ OnCamera(other, c)
                            THEN raced \cup {c} ELSE raced
  BY DEF ScanOccupied
<1>3. s \in Streams /\ reg[s] \in Statuses /\ c \in Cameras
  BY <1>1, Types, ThreadParts, ShapeFields
<1>. HIDE DEF c
<1>4. CASE \E o \in Streams \ {s} : Occupies(o, c) /\ streams[o].pid \in seen
  <2>1. Return(t, FALSE, reg[s]) /\ UNCHANGED raced
    BY <1>2, <1>4
  <2>2. /\ start' \in [Threads -> Shapes] /\ start'[t] = Idle
        /\ \A u \in Threads : u # t => start'[u] = start[u]
        /\ reg' \in [Streams -> Statuses] /\ Alone' /\ WhoStarts'
    BY <1>1, <1>3, <2>1, Returned
  <2>3. Typed'
    BY <1>1, <2>1, <2>2, ShapeParts DEF IInv, Typed, TypeOK, process, monitor
  <2>4. Processes'
    BY <1>1, <2>1, <2>2, ShapeParts, ProcessesKept, QuietStep DEF Here, Holding
  <2>. QED BY <2>2, <2>3, <2>4 DEF IInv
<1>5. CASE ~\E o \in Streams \ {s} : Occupies(o, c) /\ streams[o].pid \in seen
  <2>1. /\ Move(t, "spawn") /\ UNCHANGED reg
        /\ raced' = IF \E other \in Threads : other[1] # s /\ OnCamera(other, c)
                    THEN raced \cup {c} ELSE raced
    BY <1>2, <1>5
  <2>2. raced \subseteq raced' /\ raced' \subseteq Cameras
    BY <1>3, <2>1, Types
  <2>3. /\ start' \in [Threads -> Shapes] /\ start'[t].pc = "spawn"
        /\ start'[t].cam = c
        /\ \A u \in Threads : u # t => start'[u] = start[u]
    BY <1>1, <2>1, Types, Moved DEF c
  <2>4. Typed'
    BY <1>1, <2>1, <2>2, <2>3, ShapeParts DEF IInv, Typed, TypeOK, process, monitor
  <2>5. Alone' /\ WhoStarts'
    <3>1. \A u \in Threads : InFlight(u)' <=> InFlight(u)
      BY <1>1, <2>3 DEF InFlight
    <3>2. Alone'
      BY <1>1, <3>1, AloneKept
    <3>3. WhoStarts'
      BY <1>1, <2>1, <2>3, <3>1, WhoStartsKept
    <3>. QED BY <3>2, <3>3
  <2>6. Owned' /\ Clear' /\ ListedOwn'
    <3>1. \A u \in Threads : /\ Looking(u)' <=> Looking(u)
                             /\ Holding(u)' <=> Holding(u)
                             /\ Holding(u) => start'[u] = start[u]
      BY <1>1, <2>3 DEF Looking, Holding
    <3>2. /\ UNCHANGED <<streams, reads, overlapped>>
          /\ \A x \in Streams : Live(x)' = Live(x) /\ (Runs(x)' <=> Runs(x))
      BY <1>1, ProcessesKept DEF process, Runs
    <3>3. Owned'
      BY <3>1, <3>2 DEF IInv, Processes, Owned, Here
    <3>4. Clear'
      BY <3>1, <3>2, ThreadParts DEF IInv, Processes, Clear
    <3>5. ListedOwn'
      BY <3>2 DEF IInv, Processes, ListedOwn
    <3>. QED BY <3>3, <3>4, <3>5
  <2>7. Exclusive'
    <3>. HIDE DEF s
    <3>1. ASSUME NEW x \in Streams, NEW k \in Cameras, Claims(x, k)', x # s \/ k # c
          PROVE  Claims(x, k)
      <4>1. \A u \in Threads : u[1] = x /\ OnCamera(u, k)' => OnCamera(u, k)
        BY <2>3, <3>1 DEF OnCamera, s
      <4>2. UNCHANGED streams /\ Live(x)' = Live(x)
        BY <1>1, <3>1, ProcessesKept
      <4>. QED BY <3>1, <4>1, <4>2 DEF Claims, Runs
    <3>2. ASSUME NEW o \in Streams \ overlapped', o # s, NEW k \in Cameras \ raced',
                 k = c, Claims(o, k)'
          PROVE  FALSE
      <4>1. Claims(o, k) /\ o \notin overlapped
        BY <1>1, <1>3, <3>1, <3>2
      <4>2. CASE \E u \in Threads : u[1] = o /\ OnCamera(u, k)
        BY <2>1, <3>2, <4>2
      <4>3. CASE Listed(streams[o]) /\ streams[o].cam = k /\ Runs(o)
        <5>1. streams[o].pid \in alive
          BY <4>1, <4>3 DEF IInv, Processes, ListedOwn, Runs, Live
        <5>2. Occupies(o, c) /\ streams[o].pid \in seen
          BY <1>2, <3>2, <4>3, <5>1, Types DEF Occupies, Listed
        <5>. QED BY <1>5, <3>2, <5>2
      <4>. QED BY <4>1, <4>2, <4>3 DEF Claims
    <3>3. ASSUME NEW x \in Streams \ overlapped', NEW o \in Streams \ overlapped',
                 NEW k \in Cameras \ raced', Claims(x, k)', Claims(o, k)', x # o
          PROVE  FALSE
      <4>1. k \notin raced /\ x \notin overlapped /\ o \notin overlapped
        BY <1>1, <2>2
      <4>2. CASE k = c /\ (x = s \/ o = s)
        BY <3>2, <3>3, <4>2
      <4>3. CASE k # c \/ (x # s /\ o # s)
        BY <3>1, <3>3, <4>1, <4>3 DEF IInv, Processes, Exclusive
      <4>. QED BY <4>2, <4>3
    <3>. QED BY <3>3 DEF Exclusive
  <2>. QED BY <2>4, <2>5, <2>6, <2>7 DEF IInv, Processes
<1>. QED BY <1>4, <1>5

\* What a new process changes: nothing for the other streams, and for its own it is
\* what the start holds.
StartedOnly(s, c, p) ==
  /\ ProcessTypes'
  /\ \A x \in Streams \ {s} : \A q \in Live(x)' : q \in Live(x) /\ reads'[q] = reads[q]
  /\ \A q \in Live(s)' : q \in Live(s) \/ (q = p /\ reads'[q] = c)

LEMMA ManagerStarted ==
  ASSUME IInv, NEW s \in Streams, NEW c \in Cameras, NEW p \in Pid, ManagerStarts(s, c, p)
  PROVE  StartedOnly(s, c, p)
<1>1. CASE UNCHANGED process
  <2>1. Fewer /\ ProcessTypes'
    BY <1>1, ProcessesKept
  <2>. QED BY <2>1 DEF Fewer, StartedOnly
<1>2. CASE /\ p \in Pids \ (Forked \cup {managed[o] : o \in Streams \ {s}})
           /\ managed' = [managed EXCEPT ![s] = p]
           /\ reads' = [Killed(reads, {managed[s]}) EXCEPT ![p] = c]
           /\ UNCHANGED <<forked, left>>
  <2>1. /\ managed' \in [Streams -> Pid] /\ managed'[s] = p
        /\ \A x \in Streams : x # s => managed'[x] = managed[x]
    BY <1>2, Types DEF Pid
  <2>2. /\ reads' \in [Pids -> Cameras \cup {NoCamera}] /\ reads'[p] = c
        /\ \A q \in Pids : q # p => reads'[q] \in {reads[q], NoCamera}
    BY <1>2, KilledOnes
  <2>3. \A q \in alive' : q # p => q \in alive /\ reads'[q] = reads[q]
    BY <2>2 DEF alive
  <2>4. ASSUME NEW x \in Streams \ {s}, NEW q \in Live(x)'
        PROVE  q \in Live(x) /\ reads'[q] = reads[q]
    <3>1. p # managed[x] /\ p \notin forked[x] /\ managed'[x] = managed[x]
      BY <1>2, <2>1 DEF Forked
    <3>. QED BY <1>2, <2>3, <2>4, <3>1 DEF Live
  <2>5. ASSUME NEW q \in Live(s)'
        PROVE  q \in Live(s) \/ (q = p /\ reads'[q] = c)
    BY <1>2, <2>1, <2>2, <2>3, <2>5 DEF Live
  <2>. QED BY <1>2, <2>1, <2>2, <2>4, <2>5, Types DEF StartedOnly, ProcessTypes
<1>. QED BY <1>1, <1>2 DEF ManagerStarts

LEMMA ExecutorForked ==
  ASSUME IInv, NEW s \in Streams, NEW c \in Cameras, NEW p \in Pid, ExecutorForks(s, c, p)
  PROVE  StartedOnly(s, c, p)
<1>1. PICK dropped \in {{}, {managed[s]}} :
        /\ managed' = [managed EXCEPT ![s] = IF @ \in dropped THEN NoPid ELSE @]
        /\ \/ /\ p = NoPid /\ UNCHANGED <<forked, left>>
              /\ reads' = Killed(reads, dropped)
           \/ /\ p \in Pids \ (Forked \cup {managed[o] : o \in Streams})
              /\ forked' = [forked EXCEPT ![s] = @ \cup {p}]
              /\ reads' = [Killed(reads, dropped) EXCEPT ![p] = c]
              /\ UNCHANGED left
  BY DEF ExecutorForks
<1>2. /\ managed' \in [Streams -> Pid] /\ managed'[s] \in {managed[s], NoPid}
      /\ \A x \in Streams : x # s => managed'[x] = managed[x]
  BY <1>1, Types DEF Pid
<1>3. /\ forked' \in [Streams -> SUBSET Pids] /\ left' = left
      /\ forked'[s] \subseteq forked[s] \cup {p}
      /\ \A x \in Streams : x # s => forked'[x] = forked[x]
  BY <1>1, Types
<1>4. /\ reads' \in [Pids -> Cameras \cup {NoCamera}]
      /\ p \in Pids => reads'[p] = c
      /\ \A q \in Pids : q # p => reads'[q] \in {reads[q], NoCamera}
  BY <1>1, KilledOnes, LocalCameraAssumption
<1>5. /\ alive' \subseteq Pids /\ NoPid \notin alive'
      /\ \A q \in alive' : q # p => q \in alive /\ reads'[q] = reads[q]
  BY <1>4, LocalCameraAssumption DEF alive
<1>6. ASSUME NEW x \in Streams \ {s}, NEW q \in Live(x)'
      PROVE  q \in Live(x) /\ reads'[q] = reads[q]
  <2>1. q \in alive' /\ q \in {managed[x]} \cup (forked[x] \ left)
    BY <1>2, <1>3, <1>6 DEF Live
  <2>2. q # p
    <3>1. CASE p = NoPid
      BY <1>5, <2>1, <3>1
    <3>2. CASE p \in Pids \ (Forked \cup {managed[o] : o \in Streams})
      BY <2>1, <3>2 DEF Forked
    <3>. QED BY <1>1, <3>1, <3>2
  <2>. QED BY <1>5, <2>1, <2>2 DEF Live
<1>7. ASSUME NEW q \in Live(s)'
      PROVE  q \in Live(s) \/ (q = p /\ reads'[q] = c)
  <2>1. q \in alive' /\ q \in {managed'[s]} \cup (forked'[s] \ left')
    BY <1>7 DEF Live
  <2>2. q \in Pids /\ q # NoPid
    BY <1>5, <2>1
  <2>3. CASE q = p
    BY <1>4, <2>2, <2>3
  <2>4. CASE q # p
    BY <1>2, <1>3, <1>5, <2>1, <2>2, <2>4 DEF Live
  <2>. QED BY <2>3, <2>4
<1>. QED BY <1>2, <1>3, <1>4, <1>6, <1>7, Types DEF StartedOnly, ProcessTypes

LEMMA SpawnStep ==
  ASSUME IInv, NEW t \in Threads, Spawn(t)
  PROVE  IInv'
<1>. DEFINE s == t[1]
            c == start[t].cam
<1>1. /\ start[t].pc = "spawn" /\ reg' = [reg EXCEPT ![s] = Requested(@)]
      /\ UNCHANGED <<up, requests, streams, monitor, history>>
  BY DEF Spawn, At
<1>2. PICK p \in Pid :
        /\ StartProcess(s, c, p)
        /\ start' = [start EXCEPT ![t] =
             IF p = NoPid THEN [pc |-> "register", cam |-> c, pid |-> NoPid, ok |-> FALSE]
             ELSE [pc |-> "validate", cam |-> c, pid |-> p]]
  BY DEF Spawn
<1>3. s \in Streams /\ reg[s] \in Statuses /\ c \in Cameras
  BY <1>1, Types, ThreadParts, ShapeFields
<1>4. UNCHANGED <<up, requests, streams, copy, failing, overlapped, raced>>
  BY <1>1 DEF monitor, history
<1>5. /\ start' \in [Threads -> Shapes] /\ start'[t].pc \in {"validate", "register"}
      /\ start'[t].cam = c /\ start'[t].pid = p
      /\ \A u \in Threads : u # t => start'[u] = start[u]
  <2>1. p = NoPid => [pc |-> "register", cam |-> c, pid |-> NoPid, ok |-> FALSE] \in Shapes
    BY <1>3 DEF Shapes, Pid
  <2>2. p # NoPid => [pc |-> "validate", cam |-> c, pid |-> p] \in Shapes
    BY <1>3 DEF Shapes, Pid
  <2>. QED BY <1>2, <2>1, <2>2, Types
<1>6. /\ reg' \in [Streams -> Statuses]
      /\ \A x \in Streams : x # s => reg'[x] = reg[x]
  BY <1>1, <1>3, Types, RegistryCalls DEF Statuses
<1>. HIDE DEF s, c
<1>7. /\ ProcessTypes'
      /\ \A x \in Streams \ {s} : \A q \in Live(x)' : q \in Live(x) /\ reads'[q] = reads[q]
      /\ \A q \in Live(s)' : q \in Live(s) \/ (q = p /\ reads'[q] = c)
  BY <1>2, <1>3, ManagerStarted, ExecutorForked DEF StartProcess, StartedOnly
<1>8. Typed'
  BY <1>4, <1>5, <1>6, <1>7, ShapeParts DEF IInv, Typed, TypeOK, ProcessTypes
<1>9. Alone'
  <2>1. \A u \in Threads : InFlight(u)' => InFlight(u)
    BY <1>1, <1>5 DEF InFlight
  <2>. QED BY <1>4, <2>1, AloneKept
<1>10. WhoStarts'
  <2>. SUFFICES ASSUME NEW x \in Streams, reg'[x] = "Starting"
                PROVE  InFlight(<<x, "api">>)' \/ start'[<<x, "recover">>].pc \in {"validate", "register"}
    BY DEF WhoStarts
  <2>1. CASE x = s
    BY <1>5, <2>1, ThreadParts DEF InFlight, s
  <2>2. CASE x # s
    <3>1. <<x, "api">> # t /\ <<x, "recover">> # t
      BY <2>2, ThreadParts DEF s
    <3>. QED BY <1>5, <1>6, <2>2, <3>1, ThreadParts DEF IInv, WhoStarts, InFlight
  <2>. QED BY <2>1, <2>2
<1>11. s \notin overlapped => ~Runs(s) /\ ~Listed(streams[s])
  BY <1>1 DEF IInv, Processes, Clear, Looking, s
<1>12. \A u \in Threads : u[1] = s /\ s \notin overlapped /\ u # t => ~InFlight(u)
  <2>1. InFlight(t)
    BY <1>1 DEF InFlight
  <2>. QED BY <2>1, OneThread DEF IInv, s
<1>13. \A u \in Threads : /\ u # t => (Looking(u)' <=> Looking(u)) /\ (Holding(u)' <=> Holding(u))
                          /\ ~Holding(t) /\ Holding(t)' /\ ~Looking(t)'
  BY <1>1, <1>5 DEF Looking, Holding
<1>14. Owned'
  <2>. SUFFICES ASSUME NEW x \in Streams \ overlapped', NEW q \in Live(x)'
                PROVE  \/ Here(x)' /\ streams'[x].pid = q
                       \/ \E u \in Threads : u[1] = x /\ Holding(u)' /\ start'[u].pid = q
    BY DEF Owned
  <2>1. CASE x = s
    <3>1. q = p
      BY <1>4, <1>7, <1>11, <2>1 DEF Runs
    <3>. QED BY <1>5, <1>13, <2>1, <3>1 DEF s
  <2>2. CASE x # s
    <3>1. q \in Live(x) /\ x \notin overlapped
      BY <1>4, <1>7, <2>2
    <3>2. ASSUME NEW u \in Threads, u[1] = x, Holding(u), start[u].pid = q
          PROVE  Holding(u)' /\ start'[u].pid = q
      BY <1>5, <1>13, <2>2, <3>2 DEF s
    <3>. QED BY <1>4, <3>1, <3>2 DEF IInv, Processes, Owned, Here
  <2>. QED BY <2>1, <2>2
<1>15. Clear'
  <2>. SUFFICES ASSUME NEW u \in Threads, u[1] \notin overlapped'
                PROVE  /\ Looking(u)' => ~Runs(u[1])'
                       /\ Holding(u)' => \A q \in Live(u[1])' :
                            start'[u].pid = q /\ start'[u].cam = reads'[q]
                       /\ Looking(u)' \/ Holding(u)' => ~Listed(streams'[u[1]])
    BY DEF Clear
  <2>1. CASE u = t
    <3>1. \A q \in Live(s)' : q = p /\ reads'[q] = c
      BY <1>4, <1>7, <1>11, <2>1 DEF s, Runs
    <3>. QED BY <1>4, <1>5, <1>11, <1>13, <2>1, <3>1 DEF s
  <2>2. CASE u # t /\ u[1] = s
    BY <1>4, <1>12, <1>13, <2>2 DEF InFlight, Looking, Holding
  <2>3. CASE u[1] # s
    <3>1. u # t /\ u[1] \in Streams /\ u[1] \notin overlapped
      BY <1>4, <2>3, ThreadParts DEF s
    <3>2. \A q \in Live(u[1])' : q \in Live(u[1]) /\ reads'[q] = reads[q]
      BY <1>7, <2>3, <3>1
    <3>3. /\ Looking(u) => ~Runs(u[1])
          /\ Holding(u) => \A q \in Live(u[1]) : start[u].pid = q /\ start[u].cam = reads[q]
          /\ Looking(u) \/ Holding(u) => ~Listed(streams[u[1]])
      BY <3>1 DEF IInv, Processes, Clear
    <3>. QED BY <1>4, <1>5, <1>13, <3>1, <3>2, <3>3 DEF Runs
  <2>. QED BY <2>1, <2>2, <2>3
<1>16. ListedOwn'
  <2>. SUFFICES ASSUME NEW x \in Streams \ overlapped', Listed(streams'[x]), NEW q \in Live(x)'
                PROVE  streams'[x].pid = q /\ streams'[x].cam = reads'[q]
    BY DEF ListedOwn
  <2>1. x # s /\ x \notin overlapped /\ streams'[x] = streams[x]
    BY <1>4, <1>11
  <2>2. q \in Live(x) /\ reads'[q] = reads[q]
    BY <1>7, <2>1
  <2>. QED BY <2>1, <2>2 DEF IInv, Processes, ListedOwn
<1>17. Exclusive'
  <2>1. ASSUME NEW x \in Streams \ overlapped', NEW k \in Cameras \ raced', Claims(x, k)'
        PROVE  Claims(x, k)
    <3>1. \A u \in Threads : OnCamera(u, k)' => OnCamera(u, k)
      BY <1>1, <1>5 DEF OnCamera, c
    <3>2. Listed(streams'[x]) /\ streams'[x].cam = k /\ Runs(x)'
            => Listed(streams[x]) /\ streams[x].cam = k /\ Runs(x)
      BY <1>4, <1>7, <1>11, <2>1 DEF Runs
    <3>. QED BY <2>1, <3>1, <3>2 DEF Claims
  <2>. QED BY <1>4, <2>1, ClaimsShrink
<1>. QED BY <1>8, <1>9, <1>10, <1>14, <1>15, <1>16, <1>17 DEF IInv, Processes

LEMMA ValidateStep ==
  ASSUME IInv, NEW t \in Threads, Validate(t)
  PROVE  IInv'
<1>1. PICK ok \in BOOLEAN, kept \in {start[t].pid, NoPid} :
        /\ kept = NoPid => start[t].pid \notin alive
        /\ start' = [start EXCEPT ![t] =
             [pc |-> "register", cam |-> @.cam, pid |-> kept, ok |-> ok]]
  BY DEF Validate
<1>2. start[t].pc = "validate"
      /\ UNCHANGED <<up, requests, streams, process, reg, monitor, history>>
  BY DEF Validate, At
<1>3. start[t].cam \in Cameras /\ kept \in Pid
  BY <1>1, <1>2, Types, ShapeFields DEF Pid
<1>4. /\ start' \in [Threads -> Shapes] /\ start'[t].pc = "register"
      /\ start'[t].cam = start[t].cam /\ start'[t].pid = kept
      /\ \A u \in Threads : u # t => start'[u] = start[u]
  <2>1. [pc |-> "register", cam |-> start[t].cam, pid |-> kept, ok |-> ok] \in Shapes
    BY <1>3 DEF Shapes
  <2>. QED BY <1>1, <2>1, Types
<1>5. Typed'
  BY <1>2, <1>4, ShapeParts DEF IInv, Typed, TypeOK, process, monitor, history
<1>6. \A u \in Threads : InFlight(u)' <=> InFlight(u)
  BY <1>2, <1>4 DEF InFlight
<1>7. Alone' /\ WhoStarts'
  <2>1. Alone'
    BY <1>2, <1>6, AloneKept DEF history
  <2>2. WhoStarts'
    BY <1>2, <1>4, <1>6, WhoStartsKept
  <2>. QED BY <2>1, <2>2
<1>8. Processes'
  <2>1. Holding(t) /\ Holding(t)' /\ (start'[t].pid = start[t].pid \/ start[t].pid \notin alive)
    BY <1>1, <1>2, <1>4 DEF Holding
  <2>. QED BY <1>2, <1>4, <2>1, ProcessesKept, QuietStep DEF history, Here
<1>. QED BY <1>5, <1>7, <1>8 DEF IInv

LEMMA RegisterStep ==
  ASSUME IInv, NEW t \in Threads, Register(t)
  PROVE  IInv'
<1>. DEFINE r == Resulting(Reregistered(reg[t[1]], IF start[t].ok THEN "Running" ELSE "Starting"),
                           start[t].ok)
<1>1. /\ start[t].pc = "register" /\ At(t, "register") /\ Move(t, "store")
      /\ reg' = [reg EXCEPT ![t[1]] = r]
      /\ UNCHANGED <<up, requests, streams, process, monitor, history>>
  BY DEF Register, At
<1>2. t[1] \in Streams /\ reg[t[1]] \in Statuses /\ start[t].ok \in BOOLEAN
  BY <1>1, Types, ThreadParts, ShapeFields
<1>3. r \in {"Running", "Error"}
  BY <1>2, RegistryCalls
<1>. HIDE DEF r
<1>4. /\ reg' \in [Streams -> Statuses] /\ reg'[t[1]] # "Starting"
      /\ \A x \in Streams : x # t[1] => reg'[x] = reg[x]
  BY <1>1, <1>2, <1>3, Types DEF Statuses
<1>5. /\ start' \in [Threads -> Shapes] /\ start'[t].pc = "store"
      /\ start'[t].cam = start[t].cam /\ start'[t].pid = start[t].pid
      /\ \A u \in Threads : u # t => start'[u] = start[u]
  BY <1>1, Types, Moved
<1>6. Typed'
  BY <1>1, <1>4, <1>5, ShapeParts DEF IInv, Typed, TypeOK, process, monitor, history
<1>7. Alone' /\ WhoStarts'
  <2>1. \A u \in Threads : InFlight(u)' <=> InFlight(u)
    BY <1>1, <1>5 DEF InFlight
  <2>2. Alone'
    BY <1>1, <2>1, AloneKept DEF history
  <2>3. WhoStarts'
    BY <1>2, <1>4, <1>5, <2>1, WhoStartsKept
  <2>. QED BY <2>2, <2>3
<1>8. Processes'
  <2>1. Holding(t) /\ Holding(t)'
    BY <1>1, <1>5 DEF Holding
  <2>. QED BY <1>1, <1>5, <2>1, ProcessesKept, QuietStep DEF history, Here
<1>. QED BY <1>6, <1>7, <1>8 DEF IInv

LEMMA StoreStep ==
  ASSUME IInv, NEW t \in Threads, Store(t)
  PROVE  IInv'
<1>. DEFINE s == t[1]
            n == Stored(start[t])
<1>1. /\ start[t].pc = "store" /\ Return(t, start[t].ok, reg[s])
      /\ streams' = [streams EXCEPT ![s] = n]
      /\ UNCHANGED <<up, requests, process, monitor, history>>
  BY DEF Store, At
<1>2. /\ s \in Streams /\ reg[s] \in Statuses
      /\ start[t].ok \in BOOLEAN /\ start[t].cam \in Cameras /\ start[t].pid \in Pid
  BY <1>1, Types, ThreadParts, ShapeFields
<1>3. n \in Entries /\ n.here /\ n.cam = start[t].cam /\ n.pid = start[t].pid
  <2>1. n \in Used /\ n.here /\ n.cam = start[t].cam /\ n.pid = start[t].pid
    BY <1>2, LocalCameraAssumption DEF Stored, Entry, Used
  <2>. QED BY <2>1 DEF Entries, Used
<1>. HIDE DEF n
<1>4. /\ streams' \in [Streams -> Entries] /\ streams'[s] = n
      /\ \A x \in Streams : x # s => streams'[x] = streams[x]
  BY <1>1, <1>2, <1>3, Types
<1>5. /\ start' \in [Threads -> Shapes] /\ start'[t] = Idle
      /\ \A u \in Threads : u # t => start'[u] = start[u]
      /\ reg' \in [Streams -> Statuses] /\ Alone' /\ WhoStarts'
  BY <1>1, <1>2, Returned DEF history
<1>6. Typed'
  BY <1>1, <1>4, <1>5, ShapeParts DEF IInv, Typed, TypeOK, process, monitor, history
<1>7. UNCHANGED <<reads, overlapped, raced>>
  BY <1>1 DEF process, history
<1>8. \A x \in Streams : Live(x)' = Live(x) /\ (Runs(x)' <=> Runs(x))
  BY <1>1, ProcessesKept DEF Runs
<1>9. \A u \in Threads : u[1] = s /\ s \notin overlapped /\ u # t => ~InFlight(u)
  <2>1. InFlight(t)
    BY <1>1 DEF InFlight
  <2>. QED BY <2>1, OneThread DEF IInv
<1>10. s \notin overlapped => \A p \in Live(s) : start[t].pid = p /\ start[t].cam = reads[p]
  BY <1>1 DEF IInv, Processes, Clear, Holding
<1>11. /\ ~Looking(t)' /\ ~Holding(t)'
       /\ \A u \in Threads : u # t => (Looking(u)' <=> Looking(u)) /\ (Holding(u)' <=> Holding(u))
  BY <1>5, ShapeParts DEF Looking, Holding
<1>. HIDE DEF s
<1>12. Owned'
  <2>. SUFFICES ASSUME NEW x \in Streams \ overlapped', NEW p \in Live(x)'
                PROVE  \/ Here(x)' /\ streams'[x].pid = p
                       \/ \E u \in Threads : u[1] = x /\ Holding(u)' /\ start'[u].pid = p
    BY DEF Owned
  <2>1. CASE x = s
    BY <1>3, <1>4, <1>7, <1>8, <1>10, <2>1 DEF Here
  <2>2. CASE x # s
    <3>1. p \in Live(x) /\ x \notin overlapped
      BY <1>7, <1>8
    <3>2. ASSUME NEW u \in Threads, u[1] = x, Holding(u), start[u].pid = p
          PROVE  Holding(u)' /\ start'[u].pid = p
      BY <1>5, <1>11, <2>2, <3>2 DEF s
    <3>. QED BY <1>4, <2>2, <3>1, <3>2 DEF IInv, Processes, Owned, Here
  <2>. QED BY <2>1, <2>2
<1>13. Clear'
  <2>. SUFFICES ASSUME NEW u \in Threads, u[1] \notin overlapped'
                PROVE  /\ Looking(u)' => ~Runs(u[1])'
                       /\ Holding(u)' => \A p \in Live(u[1])' :
                            start'[u].pid = p /\ start'[u].cam = reads'[p]
                       /\ Looking(u)' \/ Holding(u)' => ~Listed(streams'[u[1]])
    BY DEF Clear
  <2>1. CASE u = t
    BY <1>11, <2>1
  <2>2. CASE u # t /\ u[1] = s
    BY <1>7, <1>9, <1>11, <2>2 DEF InFlight, Looking, Holding
  <2>3. CASE u[1] # s
    <3>1. u # t /\ u[1] \in Streams /\ u[1] \notin overlapped
      BY <1>7, <2>3, ThreadParts DEF s
    <3>. QED BY <1>4, <1>5, <1>7, <1>8, <1>11, <2>3, <3>1 DEF IInv, Processes, Clear
  <2>. QED BY <2>1, <2>2, <2>3
<1>14. ListedOwn'
  BY <1>3, <1>4, <1>7, <1>8, <1>10 DEF IInv, Processes, ListedOwn
<1>15. Exclusive'
  <2>1. ASSUME NEW x \in Streams \ overlapped', NEW k \in Cameras \ raced', Claims(x, k)'
        PROVE  Claims(x, k)
    <3>1. \A u \in Threads : OnCamera(u, k)' => OnCamera(u, k)
      BY <1>5, ShapeParts DEF OnCamera
    <3>2. CASE Listed(streams'[x]) /\ streams'[x].cam = k /\ Runs(x)'
      <4>1. CASE x = s
        <5>1. t[1] = x /\ OnCamera(t, k)
          BY <1>1, <1>3, <1>4, <3>2, <4>1 DEF OnCamera, s
        <5>. QED BY <5>1 DEF Claims
      <4>2. CASE x # s
        BY <1>4, <1>8, <3>2, <4>2 DEF Claims
      <4>. QED BY <4>1, <4>2
    <3>. QED BY <2>1, <3>1, <3>2 DEF Claims
  <2>. QED BY <1>7, <2>1, ClaimsShrink
<1>. QED BY <1>5, <1>6, <1>12, <1>13, <1>14, <1>15 DEF IInv, Processes

-----------------------------------------------------------------------------
(* The stop and the monitor.                                               *)

LEMMA StopCameraStreamStep ==
  ASSUME IInv, NEW s \in Streams, StopCameraStream(s)
  PROVE  IInv'
<1>1. /\ IF Stops(s, streams[s]) THEN StopProcess(s) ELSE UNCHANGED process
      /\ streams' = [streams EXCEPT ![s] = NoEntry]
      /\ reg' = [reg EXCEPT ![s] = "none"]
      /\ UNCHANGED <<up, requests, start, monitor, history>>
  BY DEF StopCameraStream
<1>2. /\ streams' \in [Streams -> Entries] /\ ~Listed(streams'[s])
      /\ \A x \in Streams : x # s => streams'[x] = streams[x]
  BY <1>1, Types, EntryParts DEF Listed
<1>3. /\ reg' \in [Streams -> Statuses]
      /\ \A x \in Streams : reg'[x] = "Starting" => reg[x] = "Starting"
  BY <1>1, Types DEF Statuses
<1>4. /\ Fewer /\ ProcessTypes'
      /\ s \notin overlapped => \A p \in Live(s)' :
           \E t \in Threads : t[1] = s /\ Holding(t)' /\ start'[t].pid = p
  <2>1. /\ Fewer /\ ProcessTypes'
        /\ \A p \in Live(s)' : ~(Here(s) /\ streams[s].pid = p)
    <3>1. CASE Stops(s, streams[s])
      BY <1>1, <3>1, StopEnds
    <3>2. CASE ~Stops(s, streams[s])
      <4>1. Fewer /\ ProcessTypes' /\ Live(s)' = Live(s) /\ NoPid \notin Live(s)
        BY <1>1, <3>2, ProcessesKept, Types DEF Live
      <4>. QED BY <3>2, <4>1 DEF Stops, Here
    <3>. QED BY <3>1, <3>2
  <2>2. ASSUME s \notin overlapped, NEW p \in Live(s)'
        PROVE  \E t \in Threads : t[1] = s /\ Holding(t)' /\ start'[t].pid = p
    <3>1. p \in Live(s)
      BY <2>1, <2>2 DEF Fewer
    <3>2. \E t \in Threads : t[1] = s /\ Holding(t) /\ start[t].pid = p
      BY <2>1, <2>2, <3>1 DEF IInv, Processes, Owned
    <3>. QED BY <1>1, <3>2 DEF Holding
  <2>. QED BY <2>1, <2>2
<1>5. Typed'
  BY <1>1, <1>2, <1>3, <1>4 DEF IInv, Typed, TypeOK, ProcessTypes, monitor, history
<1>6. Alone' /\ WhoStarts'
  <2>1. Alone'
    BY <1>1, AloneKept DEF history, InFlight
  <2>2. WhoStarts'
    BY <1>1, <1>3, WhoStartsKept DEF InFlight
  <2>. QED BY <2>1, <2>2
<1>7. Processes'
  BY <1>1, <1>2, <1>4, EndedStep
<1>. QED BY <1>5, <1>6, <1>7 DEF IInv

LEMMA CopyStreamsStep ==
  ASSUME IInv, CopyStreams
  PROVE  IInv'
<1>1. /\ copy' = [s \in Streams |-> IF Listed(streams[s]) THEN streams[s] ELSE NoEntry]
      /\ UNCHANGED <<up, requests, streams, process, reg, start, failing, history>>
  BY DEF CopyStreams
<1>2. copy' \in [Streams -> Entries]
      /\ \A s \in Streams : copy'[s].here => copy'[s].status = "Running"
  BY <1>1, Types, EntryParts DEF Listed
<1>3. Typed'
  BY <1>1, <1>2 DEF IInv, Typed, TypeOK, process, history
<1>4. Alone' /\ WhoStarts'
  BY <1>1 DEF IInv, Alone, WhoStarts, InFlight, history
<1>5. Processes'
  BY <1>1, ProcessesKept, QuietStep DEF history, Here
<1>. QED BY <1>3, <1>4, <1>5 DEF IInv

LEMMA CheckStreamHealthStep ==
  ASSUME IInv, NEW s \in Streams, CheckStreamHealth(s)
  PROVE  IInv'
<1>1. /\ copy[s].here /\ copy' = [copy EXCEPT ![s] = NoEntry]
      /\ UNCHANGED <<up, requests, process, start, history>>
      /\ \/ UNCHANGED <<streams, reg, failing>>
         \/ /\ failing' = [failing EXCEPT ![s] = copy[s]]
            /\ streams' = [streams EXCEPT ![s] =
                 IF Here(s) THEN [@ EXCEPT !.status = "Down"] ELSE @]
            /\ reg' = [reg EXCEPT ![s] = IF @ = "none" THEN @ ELSE "Error"]
  BY DEF CheckStreamHealth
<1>2. /\ copy' \in [Streams -> Entries] /\ failing' \in [Streams -> Entries]
      /\ \A x \in Streams : \A e \in {copy'[x], failing'[x]} : e.here => e.status = "Running"
  <2>1. \A x \in Streams : \A e \in {copy[x], failing[x]} : e.here => e.status = "Running"
    BY DEF IInv, Typed, TypeOK
  <2>2. \A x \in Streams : copy'[x] = (IF x = s THEN NoEntry ELSE copy[x])
                           /\ failing'[x] \in {copy[x], failing[x]}
    BY <1>1, Types
  <2>3. copy' \in [Streams -> Entries] /\ failing' \in [Streams -> Entries]
    BY <1>1, Types, EntryParts
  <2>. QED BY <2>1, <2>2, <2>3, EntryParts
<1>3. /\ streams' \in [Streams -> Entries]
      /\ \A x \in Streams : Here(x)' = Here(x) /\ (Here(x) =>
           /\ streams'[x].cam = streams[x].cam /\ streams'[x].pid = streams[x].pid
           /\ streams'[x].status = "Running" => streams[x].status = "Running")
  <2>1. streams[s] \in Entries
    BY Types
  <2>. DEFINE n == IF Here(s) THEN [streams[s] EXCEPT !.status = "Down"] ELSE streams[s]
  <2>2. /\ n \in Entries /\ n.here = Here(s)
        /\ Here(s) => n.cam = streams[s].cam /\ n.pid = streams[s].pid /\ n.status = "Down"
    BY <2>1, EntryParts, EntryChanges DEF Here
  <2>3. UNCHANGED streams \/ streams' = [streams EXCEPT ![s] = n]
    BY <1>1
  <2>. HIDE DEF n
  <2>4. CASE UNCHANGED streams
    BY <2>4, Types DEF Here
  <2>5. CASE streams' = [streams EXCEPT ![s] = n]
    BY <2>2, <2>5, Types DEF Here
  <2>. QED BY <2>3, <2>4, <2>5
<1>4. /\ reg' \in [Streams -> Statuses]
      /\ \A x \in Streams : reg'[x] = "Starting" => reg[x] = "Starting"
  BY <1>1, Types DEF Statuses
<1>5. Typed'
  BY <1>1, <1>2, <1>3, <1>4 DEF IInv, Typed, TypeOK, process, history
<1>6. Alone' /\ WhoStarts'
  <2>1. Alone'
    BY <1>1, AloneKept DEF history, InFlight
  <2>2. WhoStarts'
    BY <1>1, <1>4, WhoStartsKept DEF InFlight
  <2>. QED BY <2>1, <2>2
<1>7. Processes'
  BY <1>1, <1>3, ProcessesKept, QuietStep DEF history
<1>. QED BY <1>5, <1>6, <1>7 DEF IInv

LEMMA RecoverStep ==
  ASSUME IInv, NEW s \in Streams, Recover(s)
  PROVE  IInv'
<1>. DEFINE e == failing[s]
            t == <<s, "recover">>
            x == [pc |-> "resolve", cam |-> e.cam]
<1>1. /\ e.here /\ failing' = [failing EXCEPT ![s] = NoEntry]
      /\ UNCHANGED <<up, requests, process, reg, copy, raced>>
      /\ \/ UNCHANGED <<streams, start, overlapped>>
         \/ /\ e.attempts < MaxRecover /\ ~InFlight(t)
            /\ streams' = [streams EXCEPT ![s] =
                 IF Here(s) THEN [@ EXCEPT !.attempts = e.attempts + 1] ELSE @]
            /\ start' = [start EXCEPT ![t] = x]
            /\ overlapped' = IF Busy(s) THEN overlapped \cup {s} ELSE overlapped
  BY DEF Recover, MayRecover
<1>2. e \in Used
  BY <1>1, Types, EntryParts
<1>3. e.cam \in Cameras /\ e.attempts \in 0..MaxRecover
  BY <1>2 DEF Used
<1>4. t \in Threads /\ t[1] = s /\ x \in Shapes /\ x.pc = "resolve"
  BY <1>3, ThreadParts DEF Shapes
<1>5. /\ failing' \in [Streams -> Entries]
      /\ \A y \in Streams : failing'[y].here => failing'[y].status = "Running"
  <2>1. \A y \in Streams : failing[y].here => failing[y].status = "Running"
    BY DEF IInv, Typed, TypeOK
  <2>. QED BY <1>1, <2>1, Types, EntryParts
<1>. DEFINE n == IF Here(s) THEN [streams[s] EXCEPT !.attempts = e.attempts + 1] ELSE streams[s]
<1>6. CASE UNCHANGED <<streams, start, overlapped>>
  <2>1. Typed'
    BY <1>1, <1>5, <1>6 DEF IInv, Typed, TypeOK, process
  <2>2. Alone' /\ WhoStarts'
    BY <1>1, <1>6 DEF IInv, Alone, WhoStarts, InFlight
  <2>3. Processes'
    BY <1>1, <1>6, ProcessesKept, QuietStep DEF Here
  <2>. QED BY <2>1, <2>2, <2>3 DEF IInv
<1>7. CASE /\ e.attempts < MaxRecover /\ ~InFlight(t)
           /\ streams' = [streams EXCEPT ![s] = n]
           /\ start' = [start EXCEPT ![t] = x]
           /\ overlapped' = IF Busy(s) THEN overlapped \cup {s} ELSE overlapped
  <2>1. e.attempts + 1 \in 0..MaxRecover
    BY <1>3, <1>7, LocalCameraAssumption
  <2>2. streams[s] \in Entries
    BY Types
  <2>3. /\ n \in Entries /\ n.here = Here(s)
        /\ Here(s) => n.cam = streams[s].cam /\ n.pid = streams[s].pid
                      /\ n.status = streams[s].status
    <3>1. CASE Here(s)
      <4>1. n = [streams[s] EXCEPT !.attempts = e.attempts + 1]
        BY <3>1
      <4>. DEFINE y == streams[s]
                  k == e.attempts + 1
      <4>2. y \in Entries /\ y.here /\ k \in 0..MaxRecover
        BY <2>1, <2>2, <3>1 DEF Here
      <4>3. n = [y EXCEPT !.attempts = k]
        BY <4>1
      <4>. HIDE DEF n, e, y, k
      <4>4. n \in Entries /\ n.here /\ n.cam = y.cam /\ n.pid = y.pid /\ n.status = y.status
        BY <4>2, <4>3, EntryChanges
      <4>. QED BY <3>1, <4>4 DEF y
    <3>2. CASE ~Here(s)
      BY <2>2, <3>2 DEF Here
    <3>. QED BY <3>1, <3>2
  <2>. HIDE DEF e, t, x, n
  <2>4. /\ streams' \in [Streams -> Entries] /\ streams'[s] = n
        /\ \A y \in Streams : y # s => streams'[y] = streams[y]
    BY <1>7, <2>3, Types
  <2>5. /\ start' \in [Threads -> Shapes] /\ start'[t].pc = "resolve"
        /\ \A u \in Threads : u # t => start'[u] = start[u]
    BY <1>4, <1>7, Types
  <2>6. overlapped \subseteq overlapped' /\ overlapped' \subseteq Streams
    BY <1>7, Types
  <2>7. Typed'
    BY <1>1, <1>5, <2>4, <2>5, <2>6, ShapeParts DEF IInv, Typed, TypeOK, process
  <2>8. Alone'
    <3>. SUFFICES ASSUME NEW y \in Streams \ overlapped', InFlight(<<y, "api">>)',
                         InFlight(<<y, "recover">>)'
                  PROVE  FALSE
      BY DEF Alone
    <3>1. CASE y = s
      <4>1. <<s, "api">> # t /\ <<s, "api">> \in Threads
        BY ThreadParts DEF t
      <4>2. InFlight(<<s, "api">>)
        BY <2>5, <3>1, <4>1 DEF InFlight
      <4>3. Busy(s)
        BY <4>1, <4>2, ThreadParts DEF Busy
      <4>. QED BY <1>7, <3>1, <4>3
    <3>2. CASE y # s
      <4>1. <<y, "api">> # t /\ <<y, "recover">> # t
        BY <3>2, ThreadParts DEF t
      <4>. QED BY <2>5, <2>6, <4>1, ThreadParts DEF IInv, Alone, InFlight
    <3>. QED BY <3>1, <3>2
  <2>9. WhoStarts'
    <3>1. start[t].pc = "idle"
      BY <1>7 DEF InFlight
    <3>. QED BY <1>1, <1>4, <2>5, <3>1, WhoStartsKept DEF InFlight
  <2>10. Processes'
    <3>1. ~Holding(t)
      BY <1>7 DEF InFlight, Holding
    <3>2. \A y \in Streams : Here(y)' = Here(y) /\ (Here(y) =>
           /\ streams'[y].cam = streams[y].cam /\ streams'[y].pid = streams[y].pid
           /\ streams'[y].status = "Running" => streams[y].status = "Running")
      BY <2>3, <2>4 DEF Here
    <3>. QED BY <1>1, <2>5, <2>6, <3>1, <3>2, ProcessesKept, QuietStep
  <2>. QED BY <2>7, <2>8, <2>9, <2>10 DEF IInv
<1>. QED BY <1>1, <1>6, <1>7

-----------------------------------------------------------------------------
(* The end of processes.                                                   *)

LEMMA CrashStep ==
  ASSUME IInv, NEW p \in Pids, Crash(p)
  PROVE  IInv'
<1>1. /\ reads' = Killed(reads, {p})
      /\ forked' = [s \in Streams |-> forked[s] \ {p}]
      /\ left' = left \ {p}
      /\ UNCHANGED <<up, requests, streams, managed, reg, start, monitor, history>>
  BY DEF Crash
<1>2. /\ reads' \in [Pids -> Cameras \cup {NoCamera}]
      /\ \A q \in Pids : reads'[q] = IF q \in {p} THEN NoCamera ELSE reads[q]
  BY <1>1, KilledOnes
<1>3. forked' \in [Streams -> SUBSET Pids] /\ left' \subseteq Pids
  BY <1>1, Types
<1>4. Typed'
  BY <1>1, <1>2, <1>3 DEF IInv, Typed, TypeOK, monitor, history
<1>5. Alone' /\ WhoStarts'
  BY <1>1 DEF IInv, Alone, WhoStarts, InFlight, history
<1>6. Fewer
  <2>1. p \notin alive' /\ \A q \in alive' : q \in alive /\ reads'[q] = reads[q]
    BY <1>2 DEF alive
  <2>. QED BY <1>1, <2>1 DEF Fewer, Live
<1>7. Processes'
  BY <1>1, <1>6, QuietStep DEF history, Here
<1>. QED BY <1>4, <1>5, <1>7 DEF IInv

\* With no start under way every process has an entry, and is stopped with it, or
\* left where the stop does not reach it.
LEMMA DestroyStep ==
  ASSUME IInv, Destroy
  PROVE  IInv'
<1>. DEFINE stopped == {s \in Streams : Stops(s, streams[s])}
            d == {managed[s] : s \in stopped}
<1>1. /\ \A t \in Threads : ~InFlight(t)
      /\ up' = FALSE
      /\ reads' = Killed(reads, d)
      /\ managed' = [s \in Streams |-> IF s \in stopped THEN NoPid ELSE managed[s]]
      /\ left' = left \cup UNION {forked[s] \cap {streams[s].pid} : s \in stopped}
      /\ streams' = [s \in Streams |-> NoEntry]
      /\ UNCHANGED <<requests, forked, reg, start, monitor, history>>
  BY DEF Destroy
<1>2. /\ streams' \in [Streams -> Entries]
      /\ \A s \in Streams : ~Listed(streams'[s])
  BY <1>1, EntryParts DEF Listed
<1>3. /\ reads' \in [Pids -> Cameras \cup {NoCamera}]
      /\ \A p \in Pids : reads'[p] = IF p \in d THEN NoCamera ELSE reads[p]
  BY <1>1, KilledOnes
<1>4. ProcessTypes'
  BY <1>1, <1>3, Types DEF ProcessTypes, Pid
<1>5. Typed'
  BY <1>1, <1>2, <1>4 DEF IInv, Typed, TypeOK, ProcessTypes, monitor, history
<1>6. Alone' /\ WhoStarts'
  BY <1>1 DEF IInv, Alone, WhoStarts, InFlight, history
<1>7. \A t \in Threads : ~Looking(t)' /\ ~Holding(t)' /\ ~Looking(t) /\ ~Holding(t)
                         /\ start'[t].pc = "idle"
  BY <1>1 DEF InFlight, Looking, Holding
<1>8. ASSUME NEW s \in Streams \ overlapped, NEW p \in Live(s)'
      PROVE  FALSE
  <2>1. /\ p \in Pids /\ p \notin d /\ p # NoPid /\ p \in alive
        /\ p = managed'[s] \/ (p \in forked[s] /\ p \notin left')
    BY <1>1, <1>3, <1>8, LocalCameraAssumption DEF Live, alive
  <2>2. p = managed'[s] => s \notin stopped /\ p = managed[s]
    BY <1>1, <2>1
  <2>3. p \in Live(s)
    BY <1>1, <2>1, <2>2 DEF Live
  <2>4. Here(s) /\ streams[s].pid = p
    BY <1>7, <2>3 DEF IInv, Processes, Owned
  <2>5. s \in stopped
    BY <2>1, <2>4 DEF Stops, Here
  <2>6. p \in left'
    BY <1>1, <2>1, <2>2, <2>4, <2>5
  <2>. QED BY <2>1, <2>2, <2>5, <2>6
<1>9. Processes'
  <2>1. UNCHANGED <<overlapped, raced>>
    BY <1>1 DEF history
  <2>2. Owned' /\ ListedOwn'
    BY <1>8, <2>1 DEF Owned, ListedOwn
  <2>3. Clear'
    BY <1>7 DEF Clear
  <2>4. Exclusive'
    <3>1. \A t \in Threads, c \in Cameras : ~OnCamera(t, c)'
      BY <1>7 DEF OnCamera
    <3>. QED BY <1>2, <3>1 DEF Exclusive, Claims
  <2>. QED BY <2>2, <2>3, <2>4 DEF Processes
<1>. QED BY <1>5, <1>6, <1>9 DEF IInv

-----------------------------------------------------------------------------
(* The invariant.                                                          *)

LEMMA Initially == Init => IInv
<1>. SUFFICES ASSUME Init PROVE IInv
  OBVIOUS
<1>1. /\ \A s \in Streams : ~streams[s].here /\ reg[s] = "none"
      /\ \A t \in Threads : start[t].pc = "idle"
      /\ \A s \in Streams : Live(s) = {}
  BY EntryParts, ShapeParts DEF Init, Live, alive
<1>2. Typed
  <2>1. reads \in [Pids -> Cameras \cup {NoCamera}]
    BY DEF Init
  <2>2. requests \in 0..MaxRequests
    BY LocalCameraAssumption DEF Init
  <2>. QED BY <2>1, <2>2, EntryParts, ShapeParts DEF Init, Typed, TypeOK, Pid, Statuses
<1>3. Alone /\ WhoStarts
  BY <1>1, ThreadParts DEF Alone, WhoStarts, InFlight
<1>4. Processes
  <2>1. Owned /\ ListedOwn
    BY <1>1 DEF Owned, ListedOwn
  <2>2. Clear
    BY <1>1 DEF Clear, Looking, Holding
  <2>3. Exclusive
    <3>1. \A s \in Streams, c \in Cameras : ~Claims(s, c)
      BY <1>1 DEF Claims, OnCamera, Listed
    <3>. QED BY <3>1 DEF Exclusive
  <2>. QED BY <2>1, <2>2, <2>3 DEF Processes
<1>. QED BY <1>2, <1>3, <1>4 DEF IInv

LEMMA StutterStep ==
  ASSUME IInv, UNCHANGED vars
  PROVE  IInv'
<1>1. /\ UNCHANGED <<up, requests, streams, process, reg, start, copy, failing, overlapped, raced>>
      /\ UNCHANGED <<managed, forked, left, reads>>
  BY DEF vars, process, monitor, history
<1>2. Typed'
  BY <1>1 DEF IInv, Typed, TypeOK
<1>3. Alone' /\ WhoStarts'
  BY <1>1 DEF IInv, Alone, WhoStarts, InFlight
<1>4. Processes'
  BY <1>1, ProcessesKept, QuietStep DEF Here
<1>. QED BY <1>2, <1>3, <1>4 DEF IInv

LEMMA Inductive == IInv /\ [Next]_vars => IInv'
<1>. SUFFICES ASSUME IInv, [Next]_vars PROVE IInv'
  OBVIOUS
<1>1. ASSUME NEW s \in Streams, NEW c \in Cameras, HandleStart(s, c) PROVE IInv'
  BY <1>1, HandleStartStep
<1>2. ASSUME NEW t \in Threads, StartStep(t) PROVE IInv'
  BY <1>2, ResolveFailsStep, CheckOccupancyStep, ScanOccupiedStep, SpawnStep, ValidateStep,
     RegisterStep, StoreStep DEF StartStep
<1>3. ASSUME NEW s \in Streams, StopCameraStream(s) PROVE IInv'
  BY <1>3, StopCameraStreamStep
<1>4. ASSUME MonitorStep PROVE IInv'
  BY <1>4, CopyStreamsStep, CheckStreamHealthStep, RecoverStep DEF MonitorStep
<1>5. ASSUME NEW p \in Pids, Crash(p) PROVE IInv'
  BY <1>5, CrashStep
<1>6. ASSUME Destroy PROVE IInv'
  BY <1>6, DestroyStep
<1>7. ASSUME UNCHANGED vars PROVE IInv'
  BY <1>7, StutterStep
<1>. QED BY <1>1, <1>2, <1>3, <1>4, <1>5, <1>6, <1>7 DEF Next

LEMMA Invariance == Spec => []IInv
<1>1. Init => IInv
  BY Initially
<1>2. IInv /\ [Next]_vars => IInv'
  BY Inductive
<1>. QED BY <1>1, <1>2, PTL DEF Spec

-----------------------------------------------------------------------------
(* The theorems.                                                           *)

\* TypeOK: entries, threads and the monitor's copies keep their shape, and what
\* the monitor copies said that it ran (StartCameraStream, HealthMonitor).
THEOREM TypeCorrect == Spec => []TypeOK
<1>1. IInv => TypeOK
  BY DEF IInv, Typed
<1>. QED BY <1>1, Invariance, PTL

\* NoOrphan: whatever the order of starts, stops, recoveries and crashes, the pid
\* of a live process is in its stream's entry or with a start under way, unless two
\* starts worked on the stream at once or a stop did not reach what the executor
\* had forked (StartCameraStream, StopCameraStream, the destructor).
THEOREM NothingOrphaned == Spec => []NoOrphan
<1>1. IInv => NoOrphan
  BY DEF IInv, Processes, Owned, NoOrphan, Holds, Holding
<1>. QED BY <1>1, Invariance, PTL

\* CameraExclusive: the scan without the lock keeps two streams from one camera,
\* except where two starts raced for it or overlapped (StartCameraStream).
THEOREM CamerasExclusive == Spec => []CameraExclusive
<1>1. IInv => CameraExclusive
  <2>. SUFFICES ASSUME IInv, NEW s \in Streams, NEW o \in Streams,
                       NEW p \in Live(s), NEW q \in Live(o),
                       s # o, reads[p] = reads[q], Listed(streams[s]), Listed(streams[o]),
                       reads[p] \notin raced, {s, o} \cap overlapped = {}
                PROVE  FALSE
    BY DEF CameraExclusive
  <2>. DEFINE c == reads[p]
  <2>1. s \notin overlapped /\ o \notin overlapped
    OBVIOUS
  <2>2. c \in Cameras \ raced
    BY Types DEF Live, alive
  <2>3. streams[s].cam = c /\ streams[o].cam = c
    BY <2>1 DEF IInv, Processes, ListedOwn
  <2>. HIDE DEF c
  <2>4. Claims(s, c) /\ Claims(o, c)
    BY <2>3 DEF Claims, Runs
  <2>. QED BY <2>1, <2>2, <2>4 DEF IInv, Processes, Exclusive
<1>. QED BY <1>1, Invariance, PTL

\* NoLimbo: the registry says Starting only while a start of the stream is under
\* way, whichever way each start ends (StartCameraStream, CheckStreamHealth).
THEOREM NoStartInLimbo == Spec => []NoLimbo
<1>1. IInv => NoLimbo
  <2>. SUFFICES ASSUME IInv, NEW s \in Streams, reg[s] = "Starting"
                PROVE  Busy(s)
    BY DEF NoLimbo
  <2>1. InFlight(<<s, "api">>) \/ start[<<s, "recover">>].pc \in {"validate", "register"}
    BY DEF IInv, WhoStarts
  <2>. QED BY <2>1, ThreadParts DEF Busy, InFlight
<1>. QED BY <1>1, Invariance, PTL

-----------------------------------------------------------------------------
(* Sums over finite sets.                                                  *)

Picked(T) == CHOOSE x \in T : TRUE

\* g has the sum of f over every set in D.
IsSum(g, f, D) ==
  g = [T \in D |-> IF T = {} THEN 0 ELSE f[Picked(T)] + g[T \ {Picked(T)}]]

SmallSubsets(S, n) == {T \in SUBSET S : Cardinality(T) <= n}

\* What is true of some number and of no least one is true of none.
LEMMA LeastNumber ==
  ASSUME NEW Bad \in SUBSET Nat, Bad # {}
  PROVE  \E n \in Bad : \A m \in Nat : m < n => m \notin Bad
<1>1. PICK n \in Bad : \A m \in Bad : <<m, n>> \notin OpToRel(<, Nat)
  BY NatLessThanWellFounded, WFMin
<1>2. ASSUME NEW m \in Nat, m < n PROVE m \notin Bad
  BY <1>1, <1>2 DEF OpToRel
<1>. QED BY <1>1, <1>2

LEMMA PickedIn ==
  ASSUME NEW T, T # {}
  PROVE  Picked(T) \in T
BY DEF Picked

LEMMA SmallerSubset ==
  ASSUME NEW S, IsFiniteSet(S), NEW n \in Nat, NEW T \in SmallSubsets(S, n), T # {}
  PROVE  /\ n > 0
         /\ T \ {Picked(T)} \in SmallSubsets(S, n - 1)
         /\ Cardinality(T \ {Picked(T)}) = Cardinality(T) - 1
<1>1. IsFiniteSet(T) /\ Cardinality(T) \in Nat /\ Cardinality(T) <= n
  BY FS_Subset, FS_CardinalityType DEF SmallSubsets
<1>2. Picked(T) \in T
  BY PickedIn
<1>3. Cardinality(T \ {Picked(T)}) = Cardinality(T) - 1
  BY <1>1, <1>2, FS_RemoveElement
<1>4. Cardinality(T) # 0
  BY <1>1, <1>2, FS_EmptySet
<1>. QED BY <1>1, <1>3, <1>4 DEF SmallSubsets

LEMMA SmallSums ==
  ASSUME NEW S, IsFiniteSet(S), NEW f, NEW n \in Nat
  PROVE  \E g : IsSum(g, f, SmallSubsets(S, n))
<1>. DEFINE Bad == {m \in Nat : ~\E g : IsSum(g, f, SmallSubsets(S, m))}
<1>. SUFFICES ASSUME Bad # {} PROVE FALSE
  OBVIOUS
<1>1. PICK m \in Bad : \A k \in Nat : k < m => k \notin Bad
  BY LeastNumber
<1>2. m \in Nat /\ ~\E g : IsSum(g, f, SmallSubsets(S, m))
  BY <1>1
<1>3. CASE m = 0
  <2>. DEFINE g == [T \in SmallSubsets(S, 0) |-> 0]
  <2>1. \A T \in SmallSubsets(S, 0) : T = {}
    <3>. SUFFICES ASSUME NEW T \in SmallSubsets(S, 0), T # {} PROVE FALSE
      OBVIOUS
    <3>1. 0 > 0
      BY SmallerSubset
    <3>. QED BY <3>1
  <2>2. IsSum(g, f, SmallSubsets(S, 0))
    BY <2>1 DEF IsSum
  <2>. QED BY <1>2, <1>3, <2>2
<1>4. CASE m > 0
  <2>1. PICK g : IsSum(g, f, SmallSubsets(S, m - 1))
    BY <1>1, <1>2, <1>4
  <2>. DEFINE h == [T \in SmallSubsets(S, m) |->
                      IF T = {} THEN 0 ELSE f[Picked(T)] + g[T \ {Picked(T)}]]
  <2>2. ASSUME NEW T \in SmallSubsets(S, m), T # {}
        PROVE  h[T \ {Picked(T)}] = g[T \ {Picked(T)}]
    <3>. DEFINE U == T \ {Picked(T)}
    <3>1. U \in SmallSubsets(S, m - 1) /\ U \in SmallSubsets(S, m)
      <4>1. U \in SmallSubsets(S, m - 1)
        BY <2>2, <1>2, SmallerSubset
      <4>2. Cardinality(U) \in Nat
        BY <4>1, FS_Subset, FS_CardinalityType DEF SmallSubsets
      <4>. QED BY <4>1, <4>2, <1>2 DEF SmallSubsets
    <3>2. g[U] = IF U = {} THEN 0 ELSE f[Picked(U)] + g[U \ {Picked(U)}]
      BY <2>1, <3>1 DEF IsSum
    <3>3. h[U] = IF U = {} THEN 0 ELSE f[Picked(U)] + g[U \ {Picked(U)}]
      BY <3>1
    <3>. QED BY <3>2, <3>3
  <2>3. IsSum(h, f, SmallSubsets(S, m))
    <3>. HIDE DEF h
    <3>1. h = [T \in SmallSubsets(S, m) |->
                 IF T = {} THEN 0 ELSE f[Picked(T)] + g[T \ {Picked(T)}]]
      BY DEF h
    <3>. QED BY <3>1, <2>2 DEF IsSum
  <2>. QED BY <1>2, <2>3
<1>. QED BY <1>2, <1>3, <1>4

\* SumFunctionOnSet is what it says, for every finite set.
LEMMA SumIsSum ==
  ASSUME NEW S, IsFiniteSet(S), NEW f
  PROVE  \E g : IsSum(g, f, SUBSET S) /\ SumFunctionOnSet(f, S) = g[S]
<1>. DEFINE g == CHOOSE h : h = [T \in SUBSET S |->
                   IF T = {} THEN 0
                   ELSE f[CHOOSE x \in T : TRUE] + h[T \ {CHOOSE x \in T : TRUE}]]
<1>1. SmallSubsets(S, Cardinality(S)) = SUBSET S
  BY FS_Subset DEF SmallSubsets
<1>2. \E h : IsSum(h, f, SUBSET S)
  <2>1. Cardinality(S) \in Nat
    BY FS_CardinalityType
  <2>2. \E h : IsSum(h, f, SmallSubsets(S, Cardinality(S)))
    BY <2>1, SmallSums
  <2>. QED BY <1>1, <2>2
<1>3. g = [T \in SUBSET S |->
             IF T = {} THEN 0
             ELSE f[CHOOSE x \in T : TRUE] + g[T \ {CHOOSE x \in T : TRUE}]]
  BY <1>2 DEF IsSum, Picked
<1>4. SumFunctionOnSet(f, S) = g[S]
  BY DEF SumFunctionOnSet, FoldFunctionOnSet, MapThenFoldSet
<1>5. IsSum(g, f, SUBSET S)
  <2>. HIDE DEF g
  <2>. QED BY <1>3 DEF IsSum, Picked
<1>. QED BY <1>4, <1>5

\* The sum of numbers between lo and hi, taken n times.
LEMMA SumBetween ==
  ASSUME NEW S, IsFiniteSet(S), NEW f, NEW lo \in Nat, NEW hi \in Nat,
         \A s \in S : f[s] \in Nat
  PROVE  /\ SumFunctionOnSet(f, S) \in Nat
         /\ (\A s \in S : f[s] >= lo) => SumFunctionOnSet(f, S) >= Cardinality(S) * lo
         /\ (\A s \in S : f[s] <= hi) => SumFunctionOnSet(f, S) <= Cardinality(S) * hi
<1>1. PICK g : IsSum(g, f, SUBSET S) /\ SumFunctionOnSet(f, S) = g[S]
  BY SumIsSum
<1>. DEFINE Fits(T) == /\ g[T] \in Nat
                       /\ (\A s \in S : f[s] >= lo) => g[T] >= Cardinality(T) * lo
                       /\ (\A s \in S : f[s] <= hi) => g[T] <= Cardinality(T) * hi
            Bad == {n \in Nat : \E T \in SUBSET S : Cardinality(T) = n /\ ~Fits(T)}
<1>2. \A T \in SUBSET S : IsFiniteSet(T) /\ Cardinality(T) \in Nat
  BY FS_Subset, FS_CardinalityType
<1>3. Bad = {}
  <2>. SUFFICES ASSUME Bad # {} PROVE FALSE
    OBVIOUS
  <2>1. PICK n \in Bad : \A m \in Nat : m < n => m \notin Bad
    BY LeastNumber
  <2>2. PICK T \in SUBSET S : Cardinality(T) = n /\ ~Fits(T)
    BY <2>1
  <2>. HIDE DEF Fits
  <2>3. CASE T = {}
    <3>1. g[T] = 0
      BY <1>1, <2>3 DEF IsSum
    <3>2. Cardinality(T) = 0
      BY <2>3, FS_EmptySet
    <3>3. Fits(T)
      BY <3>1, <3>2 DEF Fits
    <3>. QED BY <2>2, <3>3
  <2>4. CASE T # {}
    <3>. DEFINE p == Picked(T)
                U == T \ {p}
    <3>1. p \in T /\ U \in SUBSET S /\ f[p] \in Nat
      BY <2>4, PickedIn
    <3>2. g[T] = f[p] + g[U]
      BY <1>1, <2>4 DEF IsSum
    <3>3. Cardinality(U) = Cardinality(T) - 1 /\ Cardinality(U) \in Nat
      BY <1>2, <3>1, FS_RemoveElement
    <3>. HIDE DEF p, U
    <3>4. Fits(U)
      BY <2>1, <2>2, <3>1, <3>3
    <3>5. Cardinality(T) * lo = Cardinality(U) * lo + lo
      BY <3>3, <1>2
    <3>6. Cardinality(T) * hi = Cardinality(U) * hi + hi
      BY <3>3, <1>2
    <3>7. Cardinality(U) * lo \in Nat /\ Cardinality(U) * hi \in Nat
      BY <3>3
    <3>8. f[p] >= lo \/ ~\A s \in S : f[s] >= lo
      BY <3>1
    <3>9. f[p] <= hi \/ ~\A s \in S : f[s] <= hi
      BY <3>1
    <3>10. Fits(T)
      BY <3>1, <3>2, <3>4, <3>5, <3>6, <3>7, <3>8, <3>9 DEF Fits
    <3>. QED BY <2>2, <3>10
  <2>. QED BY <2>3, <2>4
<1>4. Fits(S)
  BY <1>2, <1>3
<1>. QED BY <1>1, <1>4

-----------------------------------------------------------------------------
(* Rates.                                                                  *)

LEMMA MaxOfTwo ==
  ASSUME NEW a \in Int, NEW b \in Int
  PROVE  Max({a, b}) = IF a >= b THEN a ELSE b
<1>1. \E x \in {a, b} : \A y \in {a, b} : x >= y
  OBVIOUS
<1>2. Max({a, b}) \in {a, b} /\ \A y \in {a, b} : Max({a, b}) >= y
  BY <1>1 DEF Max
<1>. QED BY <1>2

LEMMA MinOfTwo ==
  ASSUME NEW a \in Int, NEW b \in Int
  PROVE  Min({a, b}) = IF a <= b THEN a ELSE b
<1>1. \E x \in {a, b} : \A y \in {a, b} : x <= y
  OBVIOUS
<1>2. Min({a, b}) \in {a, b} /\ \A y \in {a, b} : Min({a, b}) <= y
  BY <1>1 DEF Min
<1>. QED BY <1>2

LEMMA Clamped ==
  ASSUME NEW rate \in Int
  PROVE  /\ Clamp(rate) \in MinBitrate..MaxBitrate /\ Clamp(rate) \in Nat
         /\ Clamp(rate) = MinBitrate \/ Clamp(rate) <= rate
<1>1. MinBitrate \in Nat /\ MaxBitrate \in Nat /\ MinBitrate <= MaxBitrate
  BY BitrateAllocatorAssumption
<1>2. Min({MaxBitrate, rate}) = IF MaxBitrate <= rate THEN MaxBitrate ELSE rate
  BY <1>1, MinOfTwo
<1>3. Min({MaxBitrate, rate}) \in Int
  BY <1>1, <1>2
<1>4. Clamp(rate) = IF MinBitrate >= Min({MaxBitrate, rate})
                    THEN MinBitrate ELSE Min({MaxBitrate, rate})
  BY <1>1, <1>3, MaxOfTwo DEF Clamp
<1>. QED BY <1>1, <1>2, <1>3, <1>4

LEMMA PercentOf ==
  ASSUME NEW rate \in Int, NEW factor \in Int
  PROVE  /\ Percent(rate, factor) \in Int
         /\ rate >= 0 /\ factor \in 0..100 => Percent(rate, factor) <= rate
<1>1. rate * factor \in Int
  OBVIOUS
<1>2. ASSUME rate >= 0, factor \in 0..100 PROVE rate * factor <= rate * 100
  BY <1>2
<1>3. ASSUME NEW n \in Int, n <= rate * 100 PROVE n \div 100 <= rate
  BY <1>3
<1>. QED BY <1>1, <1>2, <1>3 DEF Percent

LEMMA Scores ==
  ASSUME NEW status
  PROVE  CalculateStabilityScore(status) \in {50, 70, 100}
BY DEF CalculateStabilityScore

\* What a stream gets that is not known.
LEMMA NewcomerRate ==
  ASSUME NEW r \in Resolutions \cup {NoPicture}, NEW output
  PROVE  Newcomer(r, output) \in Nat
<1>. DEFINE base == CalculateBaseBitrate(r)
            first == AdjustBitrateByPriority(base, 5)
            second == AdjustBitrateByProtocol(first, output)
            third == AdjustBitrateByStatus(second, "Starting")
            fourth == AdjustBitrateByStability(third, 50)
<1>1. base \in Int
  <2>1. CASE r = NoPicture
    BY <2>1, BitrateAllocatorAssumption DEF CalculateBaseBitrate
  <2>2. CASE r # NoPicture
    <3>1. r.width \in Int /\ r.height \in Int /\ r.fps \in Int
      BY <2>2, BitrateAllocatorAssumption
    <3>2. BitsPerPixel(r.height) \in Int
      BY DEF BitsPerPixel
    <3>3. r.width * r.height * r.fps * BitsPerPixel(r.height) \in Int
      BY <3>1, <3>2
    <3>4. (r.width * r.height * r.fps * BitsPerPixel(r.height)) \div 100000 \in Int
      BY <3>3
    <3>5. base = Clamp((r.width * r.height * r.fps * BitsPerPixel(r.height)) \div 100000)
      BY <2>2 DEF CalculateBaseBitrate
    <3>. HIDE DEF base
    <3>. QED BY <3>4, <3>5, Clamped
  <2>. QED BY <2>1, <2>2
<1>2. first \in Int
  <2>. HIDE DEF base
  <2>1. Max({1, Min({10, 5})}) = 5
    <3>1. Min({10, 5}) = 5
      BY MinOfTwo
    <3>. QED BY <3>1, MaxOfTwo
  <2>. QED BY <1>1, <2>1, PercentOf DEF AdjustBitrateByPriority
<1>3. second \in Int
  <2>. HIDE DEF first
  <2>. QED BY <1>2, PercentOf DEF AdjustBitrateByProtocol
<1>4. third \in Int
  <2>. HIDE DEF second
  <2>. QED BY <1>3, PercentOf DEF AdjustBitrateByStatus
<1>5. fourth \in Int
  <2>. HIDE DEF third
  <2>. QED BY <1>4, PercentOf DEF AdjustBitrateByStability
<1>6. Newcomer(r, output) = Clamp(fourth)
  BY DEF Newcomer
<1>. HIDE DEF fourth
<1>. QED BY <1>5, <1>6, Clamped

-----------------------------------------------------------------------------
(* The shares.                                                             *)

Lists == [StreamKeys -> Media]

LEMMA MediaShape ==
  /\ NoMedia \in Media
  /\ \A m \in Media : /\ m.schemas \in Nat /\ m.speed \in Nat /\ m.active \in BOOLEAN
                      /\ m.active => m.schemas >= 1
<1>1. Speeds \subseteq Nat /\ MaxSchemas \in Nat
  BY BitrateAllocatorAssumption
<1>2. ASSUME NEW m \in Media, m # NoMedia
      PROVE  m.schemas \in 1..MaxSchemas /\ m.speed \in Speeds
  BY <1>2 DEF Media
<1>3. ASSUME NEW m \in Media, m # NoMedia
      PROVE  m.active \in BOOLEAN
  BY <1>3 DEF Media
<1>4. NoMedia \in Media
  BY DEF Media
<1>5. NoMedia.schemas = 0 /\ NoMedia.speed = 0 /\ NoMedia.active = FALSE
  BY DEF NoMedia
<1>6. ASSUME NEW m \in Media
      PROVE  /\ m.schemas \in Nat /\ m.speed \in Nat /\ m.active \in BOOLEAN
             /\ m.active => m.schemas >= 1
  <2>1. CASE m = NoMedia
    <3>1. m.schemas \in Nat /\ m.speed \in Nat
      BY <2>1, <1>5
    <3>2. m.active \in BOOLEAN /\ ~m.active
      BY <2>1, <1>5
    <3>. QED BY <3>1, <3>2
  <2>2. CASE m # NoMedia
    <3>1. m.schemas \in Nat /\ m.schemas >= 1 /\ m.speed \in Nat
      <4>1. m.schemas \in 1..MaxSchemas /\ m.speed \in Speeds
        BY <1>2, <2>2
      <4>2. m.speed \in Nat
        BY <4>1, <1>1
      <4>3. m.schemas \in Nat /\ m.schemas >= 1
        BY <4>1, <1>1
      <4>. QED BY <4>2, <4>3
    <3>2. m.active \in BOOLEAN
      BY <1>3, <2>2
    <3>. QED BY <3>1, <3>2
  <2>. QED BY <2>1, <2>2
<1>. QED BY <1>4, <1>6

LEMMA ProtocolsCounted ==
  ASSUME NEW list \in Lists, NEW set \in SUBSET StreamKeys
  PROVE  /\ Protocols(list, set) \in Nat
         /\ (\A s \in set : list[s].active) => Protocols(list, set) >= Cardinality(set)
<1>. DEFINE f == [s \in StreamKeys |-> list[s].schemas]
<1>1. IsFiniteSet(set) /\ Cardinality(set) \in Nat
  BY BitrateAllocatorAssumption, FS_Subset, FS_CardinalityType
<1>2. \A s \in set : f[s] \in Nat /\ (list[s].active => f[s] >= 1)
  BY MediaShape DEF Lists
<1>3. Protocols(list, set) = SumFunctionOnSet(f, set)
  BY DEF Protocols
<1>. HIDE DEF f
<1>4. /\ SumFunctionOnSet(f, set) \in Nat
      /\ (\A s \in set : f[s] >= 1) => SumFunctionOnSet(f, set) >= Cardinality(set) * 1
  BY <1>1, <1>2, SumBetween
<1>. QED BY <1>1, <1>2, <1>3, <1>4

LEMMA Division ==
  ASSUME NEW total \in Nat, NEW parts \in Nat, parts > 0, NEW n \in Nat, n <= parts
  PROVE  total \div parts \in Nat /\ n * (total \div parts) <= total
<1>. DEFINE q == total \div parts
<1>1. q \in Nat /\ parts * q <= total
  OBVIOUS
<1>. HIDE DEF q
<1>2. n * q <= parts * q
  BY <1>1
<1>3. n * q \in Nat /\ parts * q \in Nat
  BY <1>1
<1>. QED BY <1>1, <1>2, <1>3 DEF q

LEMMA TotalBandwidth ==
  ASSUME NEW n \in Nat
  PROVE  /\ AdjustTotalBandwidthByStreamCount(n) \in Int
         /\ Bandwidth > 0 => AdjustTotalBandwidthByStreamCount(n) \in 0..Bandwidth
<1>. DEFINE factor == CASE n = 0 -> 100 [] n \in 1..3 -> 90 [] n \in 4..10 -> 95 [] OTHER -> 98
<1>1. factor \in 0..100
  OBVIOUS
<1>2. AdjustTotalBandwidthByStreamCount(n) = Percent(Bandwidth, factor)
  BY DEF AdjustTotalBandwidthByStreamCount
<1>. HIDE DEF factor
<1>3. Bandwidth \in Int
  BY BitrateAllocatorAssumption
<1>4. Percent(Bandwidth, factor) \in Int
  BY <1>1, <1>3, PercentOf
<1>5. ASSUME Bandwidth > 0 PROVE Percent(Bandwidth, factor) \in 0..Bandwidth
  <2>1. Percent(Bandwidth, factor) <= Bandwidth
    BY <1>1, <1>3, <1>5, PercentOf
  <2>2. Bandwidth * factor >= 0 /\ Bandwidth * factor \in Int
    BY <1>1, <1>3, <1>5
  <2>3. Percent(Bandwidth, factor) >= 0
    BY <2>2 DEF Percent
  <2>. QED BY <1>3, <1>4, <2>1, <2>3
<1>. QED BY <1>2, <1>4, <1>5

\* Equal shares, if nobody is down to the minimum, fit into the bandwidth.
LEMMA Shares ==
  ASSUME NEW list \in Lists, ActiveIn(list) # {}, Bandwidth > 0
  PROVE  /\ AllocateBitrates(list) \in Nat
         /\ \/ AllocateBitrates(list) = MinBitrate
            \/ Cardinality(ActiveIn(list)) * AllocateBitrates(list) <= Bandwidth
<1>. DEFINE n == Cardinality(ActiveIn(list))
            parts == Protocols(list, ActiveIn(list))
            total == AdjustTotalBandwidthByStreamCount(Protocols(list, StreamKeys))
            a == AllocateBitrates(list)
<1>1. ActiveIn(list) \in SUBSET StreamKeys /\ \A s \in ActiveIn(list) : list[s].active
  BY DEF ActiveIn
<1>2. n \in Nat /\ n > 0
  <2>1. IsFiniteSet(ActiveIn(list))
    BY <1>1, BitrateAllocatorAssumption, FS_Subset
  <2>. QED BY <2>1, FS_CardinalityType, FS_EmptySet
<1>3. parts \in Nat /\ parts >= n
  BY <1>1, ProtocolsCounted
<1>4. total \in Nat /\ total <= Bandwidth
  <2>1. Protocols(list, StreamKeys) \in Nat
    BY ProtocolsCounted
  <2>. HIDE DEF Protocols
  <2>. QED BY <2>1, TotalBandwidth, BitrateAllocatorAssumption
<1>5. a = Clamp(total \div parts)
  BY DEF AllocateBitrates
<1>. HIDE DEF n, parts, total, a
<1>6. total \div parts \in Nat /\ n * (total \div parts) <= total
  BY <1>2, <1>3, <1>4, Division
<1>7. a \in Nat /\ (a = MinBitrate \/ a <= total \div parts)
  BY <1>5, <1>6, Clamped
<1>8. ASSUME a <= total \div parts PROVE n * a <= Bandwidth
  <2>1. n * a <= n * (total \div parts)
    BY <1>2, <1>6, <1>7, <1>8
  <2>2. n * a \in Nat /\ n * (total \div parts) \in Nat
    BY <1>2, <1>6, <1>7
  <2>. QED BY <2>1, <2>2, <1>4, <1>6, BitrateAllocatorAssumption
<1>. QED BY <1>7, <1>8 DEF a, n

-----------------------------------------------------------------------------
(* The inductive invariant of the allocator.                               *)

\* What the registry may say of the streams; no word is that it is stopped.
Words == [StreamKeys -> AllocationStatuses \cup {"Stopped"}]

\* What is published has not been gone, and what is known has been gone no longer
\* than the table is old.
Recent ==
  \A s \in StreamKeys : /\ media[s].schemas > 0 => gone[s] = 0
                        /\ infos[s].known => gone[s] <= age

AllocIInv == AllocTypeOK /\ Recent /\ WithinBandwidth /\ KnownIsRecent

WellFormed(i) ==
  i = NoInfo \/
    /\ i.known /\ i.rate \in Nat /\ i.active \in BOOLEAN
    /\ i.status \in AllocationStatuses
    /\ i.score = CalculateStabilityScore(i.status)

LEMMA Fetched ==
  ASSUME AllocTypeOK, NEW list \in FetchActiveStreams
  PROVE  /\ list \in Lists
         /\ \A s \in StreamKeys : list[s].schemas > 0 => media[s].schemas > 0
<1>1. CASE list = media
  BY <1>1 DEF AllocTypeOK, Lists
<1>2. CASE list = [s \in StreamKeys |-> NoMedia]
  BY <1>2, MediaShape DEF Lists, NoMedia
<1>. QED BY <1>1, <1>2 DEF FetchActiveStreams

\* One entry of an update.
LEMMA InfoOf ==
  ASSUME AllocTypeOK, NEW list \in Lists, NEW s \in StreamKeys,
         NEW word \in AllocationStatuses \cup {"Stopped"}
  PROVE  /\ WellFormed(Info(list, s, word))
         /\ Info(list, s, word).known = TRUE
         /\ Info(list, s, word).active = list[s].active
         /\ list[s].active /\ Bandwidth > 0 => Info(list, s, word).rate = AllocateBitrates(list)
<1>1. list[s].active \in BOOLEAN /\ list[s].speed \in Nat
  BY MediaShape DEF Lists
<1>2. Rate(list, s) \in Nat
  <2>1. CASE list[s].active /\ Bandwidth > 0
    <3>1. ActiveIn(list) # {}
      BY <2>1 DEF ActiveIn
    <3>. QED BY <2>1, <3>1, Shares DEF Rate
  <2>2. CASE ~(list[s].active /\ Bandwidth > 0)
    BY <2>2, <1>1 DEF Rate
  <2>. QED BY <2>1, <2>2
<1>3. Status(s, word) \in AllocationStatuses
  <2>1. infos[s] = NoInfo \/ infos[s].status \in AllocationStatuses
    BY DEF AllocTypeOK
  <2>2. infos[s] = NoInfo => Status(s, word) = "Running"
    BY DEF NoInfo, Status
  <2>3. FromRegistry(word) \in AllocationStatuses /\ "Running" \in AllocationStatuses
    BY DEF FromRegistry, AllocationStatuses
  <2>. QED BY <2>1, <2>2, <2>3 DEF Status
<1>. DEFINE i == Info(list, s, word)
<1>4. /\ i.known = TRUE /\ i.rate = Rate(list, s) /\ i.active = list[s].active
      /\ i.status = Status(s, word) /\ i.score = CalculateStabilityScore(Status(s, word))
  BY DEF Info
<1>. HIDE DEF i
<1>5. WellFormed(i)
  BY <1>1, <1>2, <1>3, <1>4 DEF WellFormed
<1>6. list[s].active /\ Bandwidth > 0 => Rate(list, s) = AllocateBitrates(list)
  BY DEF Rate
<1>. QED BY <1>4, <1>5, <1>6 DEF i

\* An update, whoever makes it and whatever the request has brought.
LEMMA Updates ==
  ASSUME AllocTypeOK, NEW list \in FetchActiveStreams, NEW words \in Words,
         infos' = UpdateAllocationsUnlocked(list, words)
  PROVE  /\ \A s \in StreamKeys : WellFormed(infos'[s])
         /\ \A s \in StreamKeys : infos'[s].known => media[s].schemas > 0
         /\ WithinBandwidth'
<1>1. /\ list \in Lists
      /\ \A s \in StreamKeys : list[s].schemas > 0 => media[s].schemas > 0
  BY Fetched
<1>2. \A s \in StreamKeys :
        infos'[s] = IF list[s].schemas > 0 THEN Info(list, s, words[s]) ELSE NoInfo
  BY DEF UpdateAllocationsUnlocked
<1>3. \A s \in StreamKeys : words[s] \in AllocationStatuses \cup {"Stopped"}
  BY DEF Words
<1>4. NoInfo.known = FALSE /\ WellFormed(NoInfo)
  BY DEF NoInfo, WellFormed
<1>5. \A s \in StreamKeys : WellFormed(infos'[s])
  BY <1>1, <1>2, <1>3, <1>4, InfoOf
<1>6. \A s \in StreamKeys : infos'[s].known => media[s].schemas > 0
  BY <1>1, <1>2, <1>4
<1>7. ASSUME Bandwidth > 0, NEW A, A = {s \in StreamKeys : infos'[s].known /\ infos'[s].active}
      PROVE  \/ SumFunctionOnSet([s \in A |-> infos'[s].rate], A) <= Bandwidth
             \/ \A s \in A : infos'[s].rate = MinBitrate
  <2>1. \A s \in A : s \in ActiveIn(list) /\ infos'[s].rate = AllocateBitrates(list)
    <3>. SUFFICES ASSUME NEW s \in A
                  PROVE  s \in ActiveIn(list) /\ infos'[s].rate = AllocateBitrates(list)
      OBVIOUS
    <3>1. s \in StreamKeys /\ infos'[s] = Info(list, s, words[s]) /\ infos'[s].active
      BY <1>2, <1>4, <1>7
    <3>2. list[s].active
      BY <1>1, <1>3, <3>1, InfoOf
    <3>. QED BY <1>1, <1>3, <1>7, <3>1, <3>2, InfoOf DEF ActiveIn
  <2>2. CASE A = {}
    BY <2>2
  <2>3. CASE A # {}
    <3>. DEFINE f == [s \in A |-> infos'[s].rate]
                a == AllocateBitrates(list)
    <3>1. ActiveIn(list) # {} /\ A \subseteq ActiveIn(list)
      BY <2>1, <2>3
    <3>2. a \in Nat /\ (a = MinBitrate \/ Cardinality(ActiveIn(list)) * a <= Bandwidth)
      BY <1>1, <1>7, <3>1, Shares
    <3>3. CASE a = MinBitrate
      BY <2>1, <3>3
    <3>4. CASE Cardinality(ActiveIn(list)) * a <= Bandwidth
      <4>1. /\ IsFiniteSet(ActiveIn(list)) /\ IsFiniteSet(A)
            /\ Cardinality(A) \in Nat /\ Cardinality(ActiveIn(list)) \in Nat
            /\ Cardinality(A) <= Cardinality(ActiveIn(list))
        <5>1. ActiveIn(list) \subseteq StreamKeys
          BY DEF ActiveIn
        <5>2. IsFiniteSet(ActiveIn(list))
          BY <5>1, BitrateAllocatorAssumption, FS_Subset
        <5>. QED BY <3>1, <5>2, FS_Subset, FS_CardinalityType
      <4>2. \A s \in A : f[s] \in Nat /\ f[s] <= a
        BY <2>1, <3>2
      <4>. HIDE DEF f, a
      <4>3. SumFunctionOnSet(f, A) \in Nat /\ SumFunctionOnSet(f, A) <= Cardinality(A) * a
        BY <3>2, <4>1, <4>2, SumBetween
      <4>4. /\ Cardinality(A) * a <= Cardinality(ActiveIn(list)) * a
            /\ Cardinality(A) * a \in Nat /\ Cardinality(ActiveIn(list)) * a \in Nat
        BY <3>2, <4>1
      <4>5. SumFunctionOnSet(f, A) <= Bandwidth
        BY <3>4, <4>3, <4>4, BitrateAllocatorAssumption
      <4>. QED BY <4>5 DEF f
    <3>. QED BY <3>2, <3>3, <3>4
  <2>. QED BY <2>2, <2>3
<1>8. WithinBandwidth'
  BY <1>7 DEF WithinBandwidth
<1>. QED BY <1>5, <1>6, <1>8

LEMMA TypesAre ==
  AllocTypeOK <=>
    /\ media \in Lists /\ \A s \in StreamKeys : WellFormed(infos[s])
    /\ age \in 0..Interval /\ waited \in 0..Interval /\ running \in BOOLEAN
    /\ answer.known \in BOOLEAN /\ answer.rate \in Nat /\ answer.gone \in 0..Interval
    /\ gone \in [StreamKeys -> 0..Interval]
BY DEF AllocTypeOK, Lists, WellFormed

\* What AllocIInv says of the table survives a step that leaves it alone.
LEMMA TableKept ==
  ASSUME AllocIInv, UNCHANGED infos
  PROVE  (\A s \in StreamKeys : WellFormed(infos'[s])) /\ WithinBandwidth'
BY TypesAre DEF AllocIInv, WithinBandwidth

LEMMA AskKeeps ==
  ASSUME AllocIInv, NEW s \in StreamKeys, NEW r \in Resolutions \cup {NoPicture},
         NEW output, NEW source \in Speeds, GetRecommendedBitrate(s, r, output, source)
  PROVE  AllocIInv'
<1>. DEFINE words == [t \in StreamKeys |-> "Running"]
<1>1. UNCHANGED <<media, waited, running, gone>>
  BY DEF GetRecommendedBitrate
<1>2. AllocTypeOK /\ Recent /\ Interval \in Nat /\ Interval > 0
  BY BitrateAllocatorAssumption DEF AllocIInv
<1>3. /\ \A t \in StreamKeys : WellFormed(infos'[t])
      /\ \A t \in StreamKeys : infos'[t].known => gone[t] <= age'
      /\ WithinBandwidth'
      /\ age' \in 0..Interval /\ age' < Interval
  <2>1. CASE age >= Interval
    <3>1. PICK list \in FetchActiveStreams : infos' = UpdateAllocationsUnlocked(list, words)
      BY <2>1 DEF GetRecommendedBitrate
    <3>2. age' = 0
      BY <2>1 DEF GetRecommendedBitrate
    <3>3. words \in Words
      BY DEF Words, AllocationStatuses
    <3>4. /\ \A t \in StreamKeys : WellFormed(infos'[t])
          /\ \A t \in StreamKeys : infos'[t].known => media[t].schemas > 0
          /\ WithinBandwidth'
      BY <1>2, <3>1, <3>3, Updates
    <3>5. \A t \in StreamKeys : infos'[t].known => gone[t] <= 0
      BY <1>2, <3>4 DEF Recent
    <3>. QED BY <1>2, <3>2, <3>4, <3>5
  <2>2. CASE ~(age >= Interval)
    <3>1. UNCHANGED <<infos, age>>
      BY <2>2 DEF GetRecommendedBitrate
    <3>2. age \in 0..Interval
      BY <1>2, TypesAre
    <3>. QED BY <1>2, <2>2, <3>1, <3>2, TableKept DEF Recent
  <2>. QED BY <2>1, <2>2
<1>4. /\ answer'.known = infos'[s].known /\ answer'.gone = gone[s]
      /\ answer'.rate = IF source > 0 THEN source
                        ELSE IF infos'[s].known THEN infos'[s].rate ELSE Newcomer(r, output)
  BY DEF GetRecommendedBitrate
<1>5. answer'.known \in BOOLEAN /\ answer'.rate \in Nat /\ answer'.gone \in 0..Interval
  <2>1. infos'[s] = NoInfo \/ (infos'[s].known = TRUE /\ infos'[s].rate \in Nat)
    <3>1. WellFormed(infos'[s])
      BY <1>3
    <3>. QED BY <3>1 DEF WellFormed
  <2>2. NoInfo.known = FALSE
    BY DEF NoInfo
  <2>3. Newcomer(r, output) \in Nat /\ source \in Nat
    BY NewcomerRate, BitrateAllocatorAssumption
  <2>4. answer'.known \in BOOLEAN
    BY <1>4, <2>1, <2>2
  <2>5. answer'.rate \in Nat
    BY <1>4, <2>1, <2>2, <2>3
  <2>6. gone[s] \in 0..Interval
    BY <1>2, TypesAre
  <2>. QED BY <1>4, <2>4, <2>5, <2>6
<1>6. KnownIsRecent'
  <2>1. gone[s] \in Int /\ age' \in Int
    BY <1>2, <1>3, TypesAre
  <2>2. ASSUME answer'.known PROVE answer'.gone < Interval
    <3>1. infos'[s].known
      BY <1>4, <2>2
    <3>2. gone[s] <= age'
      BY <1>3, <3>1
    <3>. QED BY <1>2, <1>3, <1>4, <2>1, <3>2
  <2>. QED BY <2>2 DEF KnownIsRecent
<1>7. Recent'
  BY <1>1, <1>2, <1>3 DEF Recent
<1>8. AllocTypeOK'
  BY <1>1, <1>2, <1>3, <1>5, TypesAre DEF AllocTypeOK, WellFormed
<1>. QED BY <1>3, <1>6, <1>7, <1>8 DEF AllocIInv

LEMMA LoopKeeps ==
  ASSUME AllocIInv, NEW words \in Words, BitrateUpdateLoop(words)
  PROVE  AllocIInv'
<1>1. /\ UNCHANGED <<media, running, answer, gone>>
      /\ age' = 0 /\ waited' = 0
      /\ \E list \in FetchActiveStreams : infos' = UpdateAllocationsUnlocked(list, words)
  BY DEF BitrateUpdateLoop
<1>2. AllocTypeOK /\ Recent /\ Interval \in Nat
  BY BitrateAllocatorAssumption DEF AllocIInv
<1>3. /\ \A t \in StreamKeys : WellFormed(infos'[t])
      /\ \A t \in StreamKeys : infos'[t].known => media[t].schemas > 0
      /\ WithinBandwidth'
  BY <1>1, <1>2, Updates
<1>4. Recent'
  BY <1>1, <1>2, <1>3 DEF Recent
<1>5. AllocTypeOK'
  <2>1. 0 \in 0..Interval
    BY <1>2
  <2>. QED BY <1>1, <1>2, <1>3, <2>1, TypesAre DEF AllocTypeOK, WellFormed
<1>6. KnownIsRecent'
  BY <1>1 DEF AllocIInv, KnownIsRecent
<1>. QED BY <1>3, <1>4, <1>5, <1>6 DEF AllocIInv

LEMMA StopKeeps ==
  ASSUME AllocIInv, StopBitrateUpdates
  PROVE  AllocIInv'
<1>1. UNCHANGED <<media, infos, age, answer, gone>> /\ running' = FALSE /\ waited' = 0
  BY DEF StopBitrateUpdates
<1>2. 0 \in 0..Interval
  BY BitrateAllocatorAssumption
<1>3. WithinBandwidth'
  BY <1>1, TableKept
<1>4. AllocTypeOK'
  BY <1>1, <1>2 DEF AllocIInv, AllocTypeOK
<1>. QED BY <1>1, <1>3, <1>4 DEF AllocIInv, Recent, KnownIsRecent

LEMMA PublishKeeps ==
  ASSUME AllocIInv, NEW s \in StreamKeys, Publish(s)
  PROVE  AllocIInv'
<1>1. PICK m \in Media : media' = [media EXCEPT ![s] = m]
  BY DEF Publish
<1>2. UNCHANGED <<infos, age, waited, running, answer>> /\ gone' = [gone EXCEPT ![s] = 0]
  BY DEF Publish
<1>3. /\ media \in Lists /\ gone \in [StreamKeys -> 0..Interval] /\ age \in 0..Interval
      /\ Interval \in Nat
  BY TypesAre, BitrateAllocatorAssumption DEF AllocIInv
<1>4. AllocTypeOK'
  <2>1. media' \in [StreamKeys -> Media] /\ gone' \in [StreamKeys -> 0..Interval]
    BY <1>1, <1>2, <1>3 DEF Lists
  <2>. QED BY <1>2, <2>1 DEF AllocIInv, AllocTypeOK
<1>5. Recent'
  <2>. SUFFICES ASSUME NEW t \in StreamKeys
                PROVE  /\ media'[t].schemas > 0 => gone'[t] = 0
                       /\ infos'[t].known => gone'[t] <= age'
    BY DEF Recent
  <2>1. CASE t = s
    BY <1>2, <1>3, <2>1
  <2>2. CASE t # s
    <3>1. media'[t] = media[t] /\ gone'[t] = gone[t]
      BY <1>1, <1>2, <1>3, <2>2 DEF Lists
    <3>. QED BY <1>2, <3>1 DEF AllocIInv, Recent
  <2>. QED BY <2>1, <2>2
<1>6. WithinBandwidth' /\ KnownIsRecent'
  BY <1>2, TableKept DEF AllocIInv, KnownIsRecent
<1>. QED BY <1>4, <1>5, <1>6 DEF AllocIInv

LEMMA SecondKeeps ==
  ASSUME AllocIInv, Second
  PROVE  AllocIInv'
<1>. DEFINE Next1(n) == Min({n + 1, Interval})
<1>1. Interval \in Nat
  BY BitrateAllocatorAssumption
<1>2. \A n \in 0..Interval : Next1(n) = IF n + 1 <= Interval THEN n + 1 ELSE Interval
  BY <1>1, MinOfTwo
<1>3. /\ UNCHANGED <<media, infos, running, answer>>
      /\ age' = Next1(age) /\ waited' = IF running THEN Next1(waited) ELSE waited
      /\ gone' = [s \in StreamKeys |-> IF media[s].schemas > 0 THEN 0 ELSE Next1(gone[s])]
  BY DEF Second
<1>. HIDE DEF Next1
<1>4. AllocTypeOK
  BY DEF AllocIInv
<1>5. /\ age \in 0..Interval /\ waited \in 0..Interval
      /\ \A s \in StreamKeys : gone[s] \in 0..Interval
  BY <1>4, TypesAre
<1>6. AllocTypeOK'
  <2>1. \A n \in 0..Interval : Next1(n) \in 0..Interval
    BY <1>1, <1>2
  <2>2. age' \in 0..Interval /\ waited' \in 0..Interval /\ 0 \in 0..Interval
    BY <1>1, <1>3, <1>5, <2>1
  <2>3. gone' \in [StreamKeys -> 0..Interval]
    BY <1>3, <1>5, <2>1, <2>2
  <2>. QED BY <1>3, <1>4, <2>2, <2>3 DEF AllocTypeOK
<1>7. Recent'
  <2>. SUFFICES ASSUME NEW s \in StreamKeys
                PROVE  /\ media'[s].schemas > 0 => gone'[s] = 0
                       /\ infos'[s].known => gone'[s] <= age'
    BY DEF Recent
  <2>1. gone'[s] = IF media[s].schemas > 0 THEN 0 ELSE Next1(gone[s])
    BY <1>3
  <2>2. age' \in 0..Interval
    BY <1>6, TypesAre DEF AllocTypeOK
  <2>3. ASSUME infos[s].known PROVE Next1(gone[s]) <= Next1(age)
    <3>1. gone[s] <= age
      BY <2>3 DEF AllocIInv, Recent
    <3>. QED BY <1>1, <1>2, <1>5, <3>1
  <2>. QED BY <1>3, <2>1, <2>2, <2>3
<1>8. WithinBandwidth' /\ KnownIsRecent'
  BY <1>3, TableKept DEF AllocIInv, KnownIsRecent
<1>. QED BY <1>6, <1>7, <1>8 DEF AllocIInv

LEMMA AllocInitially == AllocInit => AllocIInv
<1>. SUFFICES ASSUME AllocInit PROVE AllocIInv
  OBVIOUS
<1>1. Interval \in Nat /\ Interval > 0 /\ DefaultBitrate \in Nat
  BY BitrateAllocatorAssumption
<1>2. /\ media = [s \in StreamKeys |-> NoMedia] /\ infos = [s \in StreamKeys |-> NoInfo]
      /\ age = Interval /\ waited = 0 /\ running = TRUE
      /\ answer = NoAnswer /\ gone = [s \in StreamKeys |-> Interval]
  BY DEF AllocInit
<1>3. /\ NoInfo.known = FALSE /\ NoMedia.schemas = 0
      /\ NoAnswer.known = FALSE /\ NoAnswer.rate = DefaultBitrate /\ NoAnswer.gone = 0
  BY DEF NoInfo, NoMedia, NoAnswer
<1>4. AllocTypeOK
  <2>1. media \in Lists /\ gone \in [StreamKeys -> 0..Interval]
    BY <1>1, <1>2, MediaShape DEF Lists
  <2>2. \A s \in StreamKeys : WellFormed(infos[s])
    BY <1>2 DEF WellFormed
  <2>3. age \in 0..Interval /\ waited \in 0..Interval /\ running \in BOOLEAN
    BY <1>1, <1>2
  <2>4. answer.known \in BOOLEAN
    BY <1>2, <1>3
  <2>5. answer.rate \in Nat /\ answer.gone \in 0..Interval
    BY <1>1, <1>2, <1>3
  <2>. QED BY <2>1, <2>2, <2>3, <2>4, <2>5, TypesAre
<1>5. Recent
  BY <1>2, <1>3 DEF Recent
<1>6. WithinBandwidth
  BY <1>2, <1>3 DEF WithinBandwidth
<1>7. KnownIsRecent
  BY <1>2, <1>3 DEF KnownIsRecent
<1>. QED BY <1>4, <1>5, <1>6, <1>7 DEF AllocIInv

LEMMA AllocInductive == AllocIInv /\ [AllocNext]_allocVars => AllocIInv'
<1>. SUFFICES ASSUME AllocIInv, [AllocNext]_allocVars PROVE AllocIInv'
  OBVIOUS
<1>1. ASSUME NEW s \in StreamKeys, NEW r \in Resolutions \cup {NoPicture}, NEW output,
             NEW source \in Speeds, GetRecommendedBitrate(s, r, output, source)
      PROVE  AllocIInv'
  BY <1>1, AskKeeps
<1>2. ASSUME NEW words \in Words, BitrateUpdateLoop(words) PROVE AllocIInv'
  BY <1>2, LoopKeeps
<1>3. CASE StopBitrateUpdates
  BY <1>3, StopKeeps
<1>4. ASSUME NEW s \in StreamKeys, Publish(s) PROVE AllocIInv'
  BY <1>4, PublishKeeps
<1>5. CASE Second
  BY <1>5, SecondKeeps
<1>6. CASE UNCHANGED allocVars
  BY <1>6 DEF allocVars, AllocIInv, AllocTypeOK, Recent, WithinBandwidth, KnownIsRecent
<1>. QED BY <1>1, <1>2, <1>3, <1>4, <1>5, <1>6 DEF AllocNext, Words

LEMMA AllocInvariance == AllocSpec => []AllocIInv
BY AllocInitially, AllocInductive, PTL DEF AllocSpec

-----------------------------------------------------------------------------
(* The theorems about BitrateAllocator.                                    *)

\* AllocTypeOK: whatever is listed, asked for and measured, entries, answers and
\* clocks are well formed, and every score is that of its entry's status
\* (UpdateAllocationsUnlocked, GetRecommendedBitrate).
THEOREM AllocTypeCorrect == AllocSpec => []AllocTypeOK
<1>1. AllocIInv => AllocTypeOK
  BY DEF AllocIInv
<1>. QED BY <1>1, AllocInvariance, PTL

\* WithinBandwidth: for any number of streams and of their protocols, and any limits,
\* the rates of the active entries add up to the bandwidth at most, or all of them
\* are the minimum (AllocateBitrates).
THEOREM RatesFit == AllocSpec => []WithinBandwidth
<1>1. AllocIInv => WithinBandwidth
  BY DEF AllocIInv
<1>. QED BY <1>1, AllocInvariance, PTL

\* KnownIsRecent: whoever updates the table and whatever requests fail, no answer is
\* taken from the entry of a stream that has been gone for an interval
\* (GetRecommendedBitrate).
THEOREM AnswersAreRecent == AllocSpec => []KnownIsRecent
<1>1. AllocIInv => KnownIsRecent
  BY DEF AllocIInv
<1>. QED BY <1>1, AllocInvariance, PTL
=============================================================================
