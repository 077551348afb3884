------------------------- MODULE PullGateways_proofs -------------------------
(***************************************************************************)
(* Proofs about PullGateways, for any of the nine gateways and any streams,*)
(* devices, credentials and threads.                                       *)
(***************************************************************************)
EXTENDS PullGateways, TLAPS

-----------------------------------------------------------------------------
(* The inductive invariant.                                                *)

Chosen == Creds \cup {Anonymous}

Shapes ==
  {Idle}
    \cup [pc : {"check", "lock"}, stream : Streams, asked : Asked]
    \cup [pc : {"look"}, stream : Streams \cup {None}, asked : Asked]
    \cup [pc : {"ask"}, stream : Streams \cup {None}, asked : Asked, cred : Chosen]
    \cup [pc : {"process", "ffmpeg", "refused"}, stream : Streams, asked : Asked, url : Addresses]

\* The gateways that are given an address have it from the beginning, and the
\* destructor has waited for every call.
Calls ==
  /\ call \in [Threads -> Shapes]
  /\ gateway \notin DeviceGateways =>
       \A t \in Threads : InFlight(t) => call[t].asked \in Addresses
  /\ ~up => \A t \in Threads : ~InFlight(t)

Locked == stolen \in BOOLEAN /\ \A t \in Threads : stolen \/ (lock = t <=> Past(t))

\* Two gateways have no proxies.
Tables ==
  /\ up \in BOOLEAN /\ gateway \in Gateways /\ StreamsOK /\ requests \in 0..MaxRequests
  /\ proxy \in [Streams -> Addresses \cup {None}] /\ alive \subseteq Streams /\ left \subseteq Streams
  /\ gateway \in {"dash", "quic"} => \A s \in Streams : proxy[s] = None

\* Only QUIC has bridges, and a bridge has an entry.
Bridged ==
  /\ server \in BOOLEAN /\ fed \subseteq Streams
  /\ \A s \in fed : gateway = "quic" /\ streams[s].here

\* A start that is past CheckStreamExists.
Going(t, s) == Starting(t, s) /\ ~At(t, "check")

Sole(s) == \A t, u \in Threads : Starting(t, s) /\ Starting(u, s) => t = u

\* It has stopped what there was, but for a proxy that was late or not deleted.
Cleared(s) ==
  \A t \in Threads : Going(t, s) =>
    s \notin alive /\ (proxy[s] = None \/ s \in lingering) /\ ~SaysItRuns(s)

OwnProcess(s) == s \in alive => HasProcess(s)

OwnProxy(s) ==
  proxy[s] # None /\ s \notin lingering /\ (up \/ gateway # "onvif") => streams[s].here

\* Any other proxy is of the address its entry shows, which has no process.
Shown(s) ==
  streams[s].here /\ proxy[s] # None /\ s \notin lingering =>
    /\ proxy[s] = streams[s].url /\ ~streams[s].ffmpeg
    /\ gateway \in DeviceGateways => streams[s].status = "Running"

Sound(s) == Sole(s) /\ Cleared(s) /\ OwnProcess(s) /\ OwnProxy(s) /\ Shown(s)

Pulled == Calls /\ Locked /\ Tables /\ \A s \in Streams \ overlapped : Sound(s)

\* Credentials a device is being asked with are those it has.
AskedWithPresent ==
  \A t \in Threads, d \in Devices :
    At(t, "ask") /\ call[t].asked.dev = d /\ devices[d].here /\ d \notin outdated
    => call[t].cred = devices[d].cred

Credited == DevicesOK /\ CacheOfCredentials /\ AskedWithPresent

IInv == Pulled /\ Bridged /\ Credited

-----------------------------------------------------------------------------
(* Calls.                                                                  *)

\* What a call holds, by how far it is.
LEMMA CallParts ==
  ASSUME NEW x \in Shapes
  PROVE  /\ x.pc \in {"idle", "check", "lock", "look", "ask", "process", "ffmpeg", "refused"}
         /\ x.pc = "idle" <=> x = Idle
         /\ x # Idle => x.asked \in Asked /\ x.stream \in Streams \cup {None}
         /\ x.pc \in {"check", "lock", "process", "ffmpeg", "refused"} => x.stream \in Streams
         /\ x.pc \in {"process", "ffmpeg", "refused"} => x.url \in Addresses
         /\ x.pc = "ask" => x.cred \in Chosen
BY DEF Shapes, Idle

LEMMA ShapesBuilt ==
  ASSUME NEW a \in Asked, NEW s \in Streams, NEW u \in Addresses, NEW k \in Chosen,
         NEW n \in Streams \cup {None}
  PROVE  /\ Idle \in Shapes
         /\ \A pc \in {"check", "lock"} : [pc |-> pc, stream |-> s, asked |-> a] \in Shapes
         /\ [pc |-> "look", stream |-> n, asked |-> a] \in Shapes
         /\ [pc |-> "ask", stream |-> n, asked |-> a, cred |-> k] \in Shapes
         /\ \A pc \in {"process", "ffmpeg", "refused"} :
              [pc |-> pc, stream |-> s, asked |-> a, url |-> u] \in Shapes
BY DEF Shapes

\* Moving on leaves what the call holds.
LEMMA Moved ==
  ASSUME NEW t \in Threads, call \in [Threads -> Shapes], NEW pc, Move(t, pc),
         \/ At(t, "check") /\ pc = "lock"
         \/ At(t, "lock") /\ pc = "look"
         \/ At(t, "process") /\ pc \in {"ffmpeg", "refused"}
  PROVE  \E x \in Shapes :
           /\ call' = [call EXCEPT ![t] = x]
           /\ x.pc = pc /\ x.stream = call[t].stream /\ x.asked = call[t].asked
<1> DEFINE x == [call[t] EXCEPT !.pc = pc]
<1>1. call' = [call EXCEPT ![t] = x]
  BY DEF Move
<1>2. x \in Shapes /\ x.pc = pc /\ x.stream = call[t].stream /\ x.asked = call[t].asked
  <2>1. call[t] \in Shapes
    OBVIOUS
  <2>2. CASE At(t, "check") /\ pc = "lock"
    BY <2>1, <2>2 DEF At, Shapes, Idle
  <2>3. CASE At(t, "lock") /\ pc = "look"
    BY <2>1, <2>3 DEF At, Shapes, Idle
  <2>4. CASE At(t, "process") /\ pc \in {"ffmpeg", "refused"}
    BY <2>1, <2>4 DEF At, Shapes, Idle
  <2> QED BY <2>2, <2>3, <2>4
<1> QED BY <1>1, <1>2

LEMMA CallsKept ==
  ASSUME Calls, NEW t \in Threads, NEW x \in Shapes, call' = [call EXCEPT ![t] = x],
         UNCHANGED <<up, gateway>>,
         x = Idle \/ (up /\ (gateway \in DeviceGateways \/ x.asked \in Addresses))
  PROVE  Calls' /\ call'[t] = x /\ \A u \in Threads \ {t} : call'[u] = call[u]
<1>1. call' \in [Threads -> Shapes] /\ call'[t] = x /\ \A u \in Threads \ {t} : call'[u] = call[u]
  BY DEF Calls
<1>2. (gateway \notin DeviceGateways =>
        \A u \in Threads : InFlight(u) => call[u].asked \in Addresses)'
  BY <1>1 DEF Calls, InFlight, Idle, DeviceGateways
<1>3. (~up => \A u \in Threads : ~InFlight(u))'
  BY <1>1 DEF Calls, InFlight, Idle
<1> QED BY <1>1, <1>2, <1>3 DEF Calls

\* A call that goes on keeps what was asked for.
LEMMA CallsContinued ==
  ASSUME Calls, NEW t \in Threads, NEW x \in Shapes, call' = [call EXCEPT ![t] = x],
         UNCHANGED <<up, gateway>>, InFlight(t), x = Idle \/ x.asked = call[t].asked
  PROVE  Calls' /\ call'[t] = x /\ \A u \in Threads \ {t} : call'[u] = call[u]
<1>1. up /\ (gateway \in DeviceGateways \/ call[t].asked \in Addresses)
  BY DEF Calls
<1> QED BY <1>1, CallsKept

-----------------------------------------------------------------------------
(* streams_mutex_.                                                         *)

LEMMA LockKept ==
  ASSUME Locked, UNCHANGED <<lock, stolen>>, \A u \in Threads : Past(u)' = Past(u)
  PROVE  Locked'
BY DEF Locked

LEMMA LockTaken ==
  ASSUME Locked, NEW t \in Threads, Free, lock' = t, UNCHANGED stolen,
         Past(t)', \A u \in Threads \ {t} : Past(u)' = Past(u)
  PROVE  Locked'
BY PullGatewayAssumption DEF Locked, Free

LEMMA LockReleased ==
  ASSUME Locked, NEW t \in Threads, Unlock(t), UNCHANGED stolen,
         ~Past(t)', \A u \in Threads \ {t} : Past(u)' = Past(u)
  PROVE  Locked'
BY PullGatewayAssumption DEF Locked, Unlock

-----------------------------------------------------------------------------
(* Streams.                                                                *)

\* What no step makes worse stays sound.
LEMMA SoundKept ==
  ASSUME NEW s \in Streams, Sound(s), UNCHANGED <<gateway, up>>, Sole(s)',
         streams'[s] = streams[s],
         \/ proxy'[s] = None
         \/ proxy'[s] = proxy[s] /\ (s \in lingering => s \in lingering'),
         s \in alive' => s \in alive,
         \A t \in Threads : Going(t, s)' => Going(t, s)
  PROVE  Sound(s)'
<1>1. Cleared(s)'
  BY DEF Sound, Cleared, SaysItRuns
<1>2. OwnProcess(s)'
  BY DEF Sound, OwnProcess, HasProcess
<1>3. OwnProxy(s)'
  BY DEF Sound, OwnProxy
<1>4. Shown(s)'
  BY DEF Sound, Shown, DeviceGateways
<1> QED BY <1>1, <1>2, <1>3, <1>4 DEF Sound

\* A start that is over has left an entry.
LEMMA SoundAfterReturn ==
  ASSUME NEW s \in Streams, Sound(s), UNCHANGED <<gateway, up>>,
         NEW t \in Threads, call \in [Threads -> Shapes], Starting(t, s), Return(t),
         streams'[s].here, s \in alive' => streams'[s].ffmpeg,
         proxy'[s] # None /\ s \notin lingering' =>
           proxy'[s] = streams'[s].url /\ ~streams'[s].ffmpeg /\ streams'[s].status = "Running"
  PROVE  Sound(s)'
<1>1. ASSUME NEW u \in Threads PROVE ~Starting(u, s)'
  BY <1>1 DEF Sound, Sole, Starting, InFlight, Return, Idle
<1>2. Sole(s)' /\ Cleared(s)'
  BY <1>1 DEF Sole, Cleared, Going
<1>3. OwnProcess(s)'
  BY DEF OwnProcess, HasProcess
<1>4. OwnProxy(s)'
  BY DEF OwnProxy
<1>5. Shown(s)'
  BY DEF Shown
<1> QED BY <1>2, <1>3, <1>4, <1>5 DEF Sound

\* A step of one call, about its own stream only, leaves the other streams alone.
LEMMA OthersSound ==
  ASSUME NEW s \in Streams, Sound(s), UNCHANGED <<gateway, up>>,
         NEW t \in Threads, ~Starting(t, s), ~Starting(t, s)',
         \A u \in Threads \ {t} : call'[u] = call[u],
         streams'[s] = streams[s], proxy'[s] = proxy[s],
         s \in alive' <=> s \in alive, s \in lingering' <=> s \in lingering
  PROVE  Sound(s)'
<1>1. \A u \in Threads : Starting(u, s)' = Starting(u, s)
  BY DEF Starting, InFlight
<1>2. \A u \in Threads : Going(u, s)' = Going(u, s)
  BY DEF Going, Starting, InFlight, At
<1>3. Sole(s)'
  BY <1>1 DEF Sound, Sole
<1> QED BY <1>2, <1>3, SoundKept

-----------------------------------------------------------------------------
(* Steps that concern the streams.                                         *)

Entries == [here : {TRUE}, status : Statuses, url : Addresses, ffmpeg : BOOLEAN]

LEMMA EntryOf ==
  ASSUME Tables, NEW s \in Streams, streams[s].here
  PROVE  streams[s] \in Entries
<1>1. streams[s] \in {NoEntry} \cup Entries
  BY DEF Tables, StreamsOK, Entries
<1>2. ~NoEntry.here
  BY DEF NoEntry
<1> QED BY <1>1, <1>2

\* A proxy that was to be deleted is gone, or noted.
LEMMA Deleted ==
  ASSUME NEW ss, DeleteStreams(ss), proxy \in [Streams -> Addresses \cup {None}]
  PROVE  /\ proxy' \in [Streams -> Addresses \cup {None}]
         /\ \A r \in Streams : r \in ss =>
              proxy'[r] = None \/ (proxy'[r] = proxy[r] /\ r \in lingering')
         /\ \A r \in Streams : r \notin ss =>
              proxy'[r] = proxy[r] /\ (r \in lingering' <=> r \in lingering)
<1>1. PICK failed \in SUBSET ss :
        /\ proxy' = [r \in Streams |-> IF r \in ss \ failed THEN None ELSE proxy[r]]
        /\ lingering' = (lingering \ ss) \cup {r \in failed : proxy[r] # None}
  BY DEF DeleteStreams, WithoutProxy
<1> QED BY <1>1

\* A process that was to be stopped is, or is left.
LEMMA ProcessesStopped ==
  ASSUME NEW ss, StopProcesses(ss), alive \subseteq Streams, left \subseteq Streams
  PROVE  alive' = alive \ ss /\ left' \subseteq Streams
BY DEF StopProcesses

\* A call past CheckStreamExists goes on, or ends, and changes no table.
LEMMA GoesOn ==
  ASSUME Pulled, NEW t \in Threads, NEW x \in Shapes, call' = [call EXCEPT ![t] = x],
         UNCHANGED <<up, gateway, streams, proxy, alive, left, requests, overlapped, lingering>>, Locked',
         InFlight(t), ~At(t, "check"),
         x = Idle \/ (x.asked = call[t].asked /\ x.stream = call[t].stream /\ x.pc # "check")
  PROVE  Pulled'
<1>1. Calls' /\ call'[t] = x /\ \A u \in Threads \ {t} : call'[u] = call[u]
  BY CallsContinued DEF Pulled
<1>2. Tables'
  BY DEF Pulled, Tables, StreamsOK, Statuses
<1>3. ASSUME NEW s \in Streams \ overlapped' PROVE Sound(s)'
  <2>1. Sound(s)
    BY DEF Pulled
  <2>2. \A u \in Threads : Starting(u, s)' => Starting(u, s)
    BY <1>1 DEF Starting, InFlight, Idle
  <2>3. \A u \in Threads : Going(u, s)' => Going(u, s)
    BY <1>1, <2>2 DEF Going, At
  <2>4. Sole(s)'
    BY <2>1, <2>2 DEF Sound, Sole
  <2> QED BY <2>1, <2>3, <2>4, SoundKept
<1> QED BY <1>1, <1>2, <1>3 DEF Pulled

LEMMA BeginStep ==
  ASSUME Pulled, NEW t \in Threads, NEW s \in Streams, NEW asked \in Asked,
         Begin(t, s, asked), gateway \in DeviceGateways \/ asked \in Addresses,
         UNCHANGED <<gateway, stolen>>
  PROVE  Pulled'
<1> DEFINE x == [pc |-> "check", stream |-> s, asked |-> asked]
<1>1. up /\ ~InFlight(t) /\ call' = [call EXCEPT ![t] = x]
      /\ UNCHANGED <<up, streams, proxy, alive, left, lock, lingering>>
  BY DEF Begin, media, process
<1>2. x \in Shapes /\ x.asked \in Addresses \cup Asked
  BY DEF Shapes
<1>3. Calls' /\ call'[t] = x /\ \A u \in Threads \ {t} : call'[u] = call[u]
  BY <1>1, <1>2, CallsKept DEF Pulled
<1>4. Locked'
  <2>1. \A u \in Threads : Past(u)' = Past(u)
    BY <1>1, <1>3 DEF Past, InFlight
  <2> QED BY <1>1, <2>1, LockKept DEF Pulled
<1>5. Tables'
  <2>1. requests' \in 0..MaxRequests
    BY PullGatewayAssumption DEF Begin, Pulled, Tables
  <2> QED BY <1>1, <2>1 DEF Pulled, Tables, StreamsOK, Statuses
<1>6. ASSUME NEW r \in Streams \ overlapped' PROVE Sound(r)'
  <2>1. Sound(r) /\ (r = s => ~Busy(s))
    BY DEF Pulled, Begin
  <2>2. Sole(r)'
    BY <1>1, <1>3, <2>1 DEF Sound, Sole, Busy, Starting, InFlight
  <2>3. \A u \in Threads : Going(u, r)' => Going(u, r)
    BY <1>1, <1>3 DEF Going, At, Starting, InFlight
  <2> QED BY <1>1, <2>1, <2>2, <2>3, SoundKept
<1> QED BY <1>3, <1>4, <1>5, <1>6 DEF Pulled

\* An entry that is at most given another status, or looked for its process.
SameSource(r) ==
  streams'[r] = streams[r]
    \/ (streams'[r].here = streams[r].here /\ streams'[r].url = streams[r].url)

\* Whatever is stopped, what there was is: what has no process has no proxy
\* either, where none is deleted.
LEMMA CheckStep ==
  ASSUME Pulled, NEW t \in Threads, NEW s \in Streams, call[t].stream = s,
         NEW kills, NEW deletes, Check(t, kills, deletes), kills = HasProcess(s),
         deletes \/ gateway \in DeviceGateways \cup {"dash", "quic"},
         UNCHANGED <<gateway, stolen>>
  PROVE  /\ Pulled'
         /\ \A r \in Streams : SameSource(r)
<1>1. At(t, "check") /\ InFlight(t) /\ UNCHANGED <<up, lock, requests, overlapped>>
  BY DEF Check, At, InFlight
<1>2. PICK x \in Shapes :
        /\ call' = [call EXCEPT ![t] = x]
        /\ x = Idle \/ (x.pc = "lock" /\ x.stream = s /\ x.asked = call[t].asked /\ ~Runs(streams[s]))
        /\ x = Idle => UNCHANGED <<streams, proxy, alive, left, lingering>>
  <2>1. CASE Runs(streams[s])
    BY <2>1 DEF Check, Return, Shapes, media, process
  <2>2. CASE ~Runs(streams[s])
    <3>1. Move(t, "lock")
      BY <2>2 DEF Check
    <3> QED BY <1>1, <2>2, <3>1, Moved DEF Pulled, Calls, Idle
  <2> QED BY <2>1, <2>2
<1>3. Calls' /\ call'[t] = x /\ \A u \in Threads \ {t} : call'[u] = call[u]
  BY <1>1, <1>2, CallsContinued DEF Pulled
<1>4. Locked'
  <2>1. \A u \in Threads : Past(u)' = Past(u)
    BY <1>1, <1>2, <1>3 DEF Past, At, Idle
  <2> QED BY <1>1, <2>1, LockKept DEF Pulled
<1>5. /\ proxy' \in [Streams -> Addresses \cup {None}]
      /\ \A r \in Streams \ {s} : proxy'[r] = proxy[r] /\ (r \in lingering' <=> r \in lingering)
      /\ \/ proxy'[s] = None
         \/ proxy'[s] = proxy[s] /\ (s \in lingering => s \in lingering')
      /\ x # Idle /\ streams[s].here /\ deletes => proxy'[s] = None \/ s \in lingering'
  <2>1. CASE DeleteStreams({s})
    BY <2>1, Deleted DEF Pulled, Tables
  <2>2. CASE UNCHANGED <<proxy, lingering>> /\ (x = Idle \/ ~streams[s].here \/ ~deletes)
    BY <2>2 DEF Pulled, Tables
  <2> QED BY <1>2, <2>1, <2>2 DEF Check
<1>6. /\ alive' \subseteq alive /\ alive \ {s} \subseteq alive' /\ left' \subseteq Streams
      /\ \/ UNCHANGED <<streams, alive>>
         \/ /\ x # Idle /\ streams[s].here /\ s \notin alive'
            /\ \E status \in {"Stopped", "Error"} : streams' = [streams EXCEPT ![s].status = status]
      /\ x # Idle /\ streams[s].here /\ kills => s \notin alive'
  <2>1. CASE UNCHANGED <<streams, alive, left>> /\ (x = Idle \/ ~streams[s].here \/ ~kills)
    BY <2>1 DEF Pulled, Tables
  <2>2. CASE /\ StopProcesses({s}) /\ x # Idle /\ streams[s].here
             /\ \E status \in {"Stopped", "Error"} : streams' = [streams EXCEPT ![s].status = status]
    <3>1. alive \subseteq Streams /\ left \subseteq Streams
      BY DEF Pulled, Tables
    <3>2. alive' = alive \ {s} /\ left' \subseteq Streams
      BY <2>2, <3>1, ProcessesStopped
    <3> QED BY <2>2, <3>2
  <2>3. UNCHANGED <<streams, process>> => UNCHANGED <<streams, alive, left>>
    BY DEF process
  <2> QED BY <1>2, <2>1, <2>2, <2>3 DEF Check
<1>7. /\ StreamsOK'
      /\ \A r \in Streams \ {s} : streams'[r] = streams[r]
      /\ streams'[s].here = streams[s].here
      /\ \/ streams'[s] = streams[s]
         \/ /\ streams'[s].url = streams[s].url /\ streams'[s].ffmpeg = streams[s].ffmpeg
            /\ streams'[s].status # "Running" /\ ~Runs(streams[s])
  <2>1. CASE UNCHANGED streams
    BY <2>1 DEF Pulled, Tables, StreamsOK, Statuses
  <2>2. CASE x # Idle /\ streams[s].here
             /\ \E status \in {"Stopped", "Error"} : streams' = [streams EXCEPT ![s].status = status]
    <3>1. PICK status \in {"Stopped", "Error"} :
            streams' = [streams EXCEPT ![s] = [streams[s] EXCEPT !.status = status]]
      BY <2>2
    <3>2. streams[s] \in Entries
      BY <2>2, EntryOf DEF Pulled
    <3>3. [streams[s] EXCEPT !.status = status] \in Entries
      BY <3>2 DEF Entries, Statuses
    <3>4. StreamsOK'
      BY <3>1, <3>3 DEF Pulled, Tables, StreamsOK, Statuses, Entries
    <3> QED BY <1>2, <2>2, <3>1, <3>2, <3>4 DEF Pulled, Tables, StreamsOK, Entries
  <2> QED BY <1>6, <2>1, <2>2
<1>8. Tables'
  BY <1>1, <1>5, <1>6, <1>7 DEF Pulled, Tables
<1>9. ASSUME NEW r \in Streams \ overlapped', r # s PROVE Sound(r)'
  <2>1. Sound(r) /\ ~Starting(t, r) /\ ~Starting(t, r)'
    BY <1>1, <1>2, <1>3, <1>9 DEF Pulled, Starting, InFlight, Idle
  <2> QED BY <1>1, <1>3, <1>5, <1>6, <1>7, <1>9, <2>1, OthersSound
<1>10. ASSUME s \notin overlapped' PROVE Sound(s)'
  <2>1. Sound(s) /\ Starting(t, s)
    BY <1>1, <1>10 DEF Pulled, Starting
  <2>2. \A u \in Threads : (Starting(u, s) => u = t) /\ (Starting(u, s)' => u = t)
    BY <1>3, <2>1 DEF Sound, Sole, Starting, InFlight
  <2>3. CASE x = Idle
    <3>1. \A u \in Threads : ~Going(u, s)'
      BY <1>3, <2>2, <2>3 DEF Going, Starting, InFlight, Idle
    <3> QED BY <1>1, <1>2, <2>1, <2>2, <2>3, <3>1, SoundKept DEF Sole
  <2>4. CASE x # Idle
    <3>1. ~Runs(streams[s])
      BY <1>2, <2>4
    <3>2. s \notin alive'
      BY <1>6, <2>1, <2>4 DEF Sound, OwnProcess, HasProcess
    <3>3. proxy'[s] = None \/ s \in lingering'
      <4>1. ASSUME ~streams[s].here PROVE proxy[s] = None \/ s \in lingering
        BY <1>1, <2>1, <4>1 DEF Pulled, Calls, InFlight, Sound, OwnProxy
      <4>2. ASSUME streams[s].here, ~deletes PROVE proxy[s] = None \/ s \in lingering
        BY <1>1, <2>1, <3>1, <4>2 DEF Pulled, Tables, Sound, Shown, Runs
      <4> QED BY <1>5, <2>4, <4>1, <4>2
    <3>4. Cleared(s)'
      BY <1>7, <3>1, <3>2, <3>3 DEF Cleared, SaysItRuns, Runs
    <3>5. OwnProcess(s)' /\ OwnProxy(s)' /\ Shown(s)'
      BY <3>2, <3>3 DEF OwnProcess, OwnProxy, Shown
    <3> QED BY <2>2, <3>4, <3>5 DEF Sound, Sole
  <2> QED BY <2>3, <2>4
<1> QED BY <1>3, <1>4, <1>7, <1>8, <1>9, <1>10 DEF Pulled, SameSource

LEMMA LockAndPullStep ==
  ASSUME Pulled, NEW t \in Threads, LockAndPull(t), gateway \notin DeviceGateways,
         UNCHANGED <<gateway, stolen>>
  PROVE  Pulled'
<1> DEFINE x == [pc |-> "process", stream |-> call[t].stream, asked |-> call[t].asked,
                 url |-> call[t].asked]
<1>1. At(t, "lock") /\ InFlight(t) /\ Free /\ lock' = t /\ call' = [call EXCEPT ![t] = x]
      /\ UNCHANGED <<up, streams, proxy, alive, left, requests, overlapped, lingering>>
  BY DEF LockAndPull, Pull, At, InFlight, media, process, history, Pulled, Calls
<1>2. call[t].stream \in Streams /\ call[t].asked \in Asked /\ call[t].asked \in Addresses
  BY <1>1, CallParts DEF Pulled, Calls, At, InFlight, Idle
<1>3. x \in Shapes
  BY <1>2 DEF Shapes
<1>4. call'[t] = x /\ \A u \in Threads \ {t} : call'[u] = call[u]
  BY <1>1, <1>3, CallsContinued DEF Pulled
<1>5. Locked'
  <2>1. Past(t)' /\ \A u \in Threads \ {t} : Past(u)' = Past(u)
    BY <1>2, <1>4, PullGatewayAssumption DEF Past
  <2> QED BY <1>1, <2>1, LockTaken DEF Pulled
<1> QED BY <1>1, <1>3, <1>5, GoesOn DEF At

\* ProcessStream ends with an entry of its own.
LEMMA FinishStep ==
  ASSUME Pulled, NEW t \in Threads, NEW s \in Streams, call[t].stream = s,
         At(t, "process") \/ At(t, "ffmpeg"),
         NEW status \in {"Running", "Error"}, NEW p \in BOOLEAN,
         Finish(t, Entry(call[t], status, p)),
         UNCHANGED <<up, gateway, stolen, requests, overlapped, lingering>>,
         alive' \subseteq Streams, left' \subseteq Streams, s \in alive' => p \/ s \in alive,
         proxy' \in [Streams -> Addresses \cup {None}],
         \A r \in Streams \ {s} : proxy'[r] = proxy[r] /\ (r \in alive' <=> r \in alive),
         \/ proxy'[s] = proxy[s]
         \/ /\ proxy'[s] = Added(s, call[t].url) /\ gateway \notin {"dash", "quic"}
            /\ ~p /\ status = "Running"
  PROVE  Pulled' /\ streams'[s].here /\ \A r \in Streams \ {s} : streams'[r] = streams[r]
<1> DEFINE e == Entry(call[t], status, p)
<1>1. Return(t) /\ Unlock(t) /\ streams' = [streams EXCEPT ![s] = e] /\ InFlight(t)
      /\ streams \in [Streams -> {NoEntry} \cup
           [here : {TRUE}, status : Statuses, url : Addresses, ffmpeg : BOOLEAN]]
  BY DEF Finish, At, InFlight, Pulled, Tables, StreamsOK
<1>2. call[t].asked \in Asked /\ call[t].url \in Addresses
  BY CallParts DEF Pulled, Calls, At, Idle
<1>3. /\ e \in [here : {TRUE}, status : Statuses, url : Addresses, ffmpeg : BOOLEAN]
      /\ e.here /\ e.status = status /\ e.url = call[t].url /\ e.ffmpeg = p
  BY <1>2 DEF Entry, Statuses
<1>4. streams'[s] = e /\ \A r \in Streams \ {s} : streams'[r] = streams[r]
  BY <1>1
<1>5. Calls' /\ call'[t] = Idle /\ \A u \in Threads \ {t} : call'[u] = call[u]
  BY <1>1, CallsContinued DEF Pulled, Return, Shapes
<1>6. Locked'
  <2>1. ~Past(t)' /\ \A u \in Threads \ {t} : Past(u)' = Past(u)
    BY <1>5 DEF Past, Idle
  <2> QED BY <1>1, <2>1, LockReleased DEF Pulled
<1>7. Tables'
  <2>1. StreamsOK'
    BY <1>1, <1>3 DEF StreamsOK, Statuses
  <2> QED BY <2>1 DEF Pulled, Tables
<1>8. ASSUME NEW r \in Streams \ overlapped', r # s PROVE Sound(r)'
  <2>1. Sound(r) /\ ~Starting(t, r) /\ ~Starting(t, r)'
    BY <1>5, <1>8 DEF Pulled, Starting, InFlight, Idle
  <2> QED BY <1>4, <1>5, <1>8, <2>1, OthersSound
<1>9. ASSUME s \notin overlapped' PROVE Sound(s)'
  <2>1. Sound(s) /\ Starting(t, s) /\ Going(t, s)
    BY <1>1, <1>9 DEF Pulled, Starting, Going, At
  <2>2. s \notin alive /\ (proxy[s] = None \/ s \in lingering)
    BY <2>1 DEF Sound, Cleared
  <2>3. proxy'[s] # None /\ s \notin lingering' =>
          proxy'[s] = streams'[s].url /\ ~streams'[s].ffmpeg /\ streams'[s].status = "Running"
    BY <1>3, <1>4, <2>2 DEF Added
  <2> QED BY <1>1, <1>3, <1>4, <2>1, <2>2, <2>3, SoundAfterReturn DEF Pulled, Calls
<1> QED BY <1>3, <1>4, <1>5, <1>6, <1>7, <1>8, <1>9 DEF Pulled

LEMMA ProxySendsStep ==
  ASSUME Pulled, NEW t \in Threads, NEW s \in Streams, call[t].stream = s, ProxySends(t),
         gateway \notin {"dash", "quic"}, UNCHANGED <<gateway, stolen>>
  PROVE  Pulled' /\ streams'[s].here /\ \A r \in Streams \ {s} : streams'[r] = streams[r]
<1>1. /\ At(t, "process") /\ proxy' \in {proxy, [proxy EXCEPT ![s] = Added(s, call[t].url)]}
      /\ Finish(t, Entry(call[t], "Running", FALSE))
      /\ UNCHANGED <<up, alive, left, requests, overlapped, lingering>>
  BY DEF ProxySends, history, process
<1>2. call[t].url \in Addresses
  BY <1>1, CallParts DEF Pulled, Calls, At
<1>3. proxy' \in [Streams -> Addresses \cup {None}] /\ proxy'[s] \in {proxy[s], Added(s, call[t].url)}
      /\ \A r \in Streams \ {s} : proxy'[r] = proxy[r]
  BY <1>1, <1>2 DEF Pulled, Tables, Added
<1>4. /\ alive' \subseteq Streams /\ left' \subseteq Streams
      /\ \A r \in Streams \ {s} : r \in alive' <=> r \in alive
  BY <1>1 DEF Pulled, Tables
<1>5. PICK p \in BOOLEAN : ~p /\ Finish(t, Entry(call[t], "Running", p))
  BY <1>1
<1> QED BY <1>1, <1>3, <1>4, <1>5, FinishStep

LEMMA TranscodeStep ==
  ASSUME Pulled, NEW t \in Threads, NEW s \in Streams, call[t].stream = s, Transcode(t),
         UNCHANGED <<gateway, stolen>>
  PROVE  Pulled' /\ streams'[s].here /\ \A r \in Streams \ {s} : streams'[r] = streams[r]
<1>1. At(t, "ffmpeg") /\ UNCHANGED <<up, proxy, requests, overlapped, lingering>>
  BY DEF Transcode, history
<1>2. PICK status \in {"Running", "Error"}, p \in BOOLEAN :
        /\ Finish(t, Entry(call[t], status, p))
        /\ \/ alive' = alive \cup {s} /\ p /\ left' \in {left, left \cup ({s} \cap alive)}
           \/ alive' \in {alive, alive \ {s}} /\ left' = left
  BY DEF Transcode, StartProcess
<1>3. alive' \subseteq Streams /\ left' \subseteq Streams /\ (s \in alive' => p \/ s \in alive)
      /\ \A r \in Streams \ {s} : r \in alive' <=> r \in alive
  BY <1>2 DEF Pulled, Tables
<1> QED BY <1>1, <1>2, <1>3, FinishStep DEF Pulled, Tables

LEMMA ToFfmpeg ==
  ASSUME Pulled, NEW t \in Threads, At(t, "process"), Move(t, "ffmpeg"),
         UNCHANGED <<up, gateway, lock, stolen>>
  PROVE  /\ Calls' /\ Locked'
         /\ At(t, "ffmpeg")' /\ InFlight(t)' /\ call'[t].stream = call[t].stream
         /\ \A u \in Threads \ {t} : call'[u] = call[u]
<1>1. PICK x \in Shapes :
        /\ call' = [call EXCEPT ![t] = x]
        /\ x.pc = "ffmpeg" /\ x.stream = call[t].stream /\ x.asked = call[t].asked
  BY Moved DEF Pulled, Calls
<1>2. InFlight(t)
  BY DEF At, InFlight
<1>3. Calls' /\ call'[t] = x /\ \A u \in Threads \ {t} : call'[u] = call[u]
  BY <1>1, <1>2, CallsContinued DEF Pulled
<1>4. \A u \in Threads : Past(u)' = Past(u)
  BY <1>1, <1>3 DEF Past, At
<1> QED BY <1>1, <1>3, <1>4, LockKept DEF Pulled, At, InFlight

LEMMA NoProxyStep ==
  ASSUME Pulled, NEW t \in Threads, NoProxy(t), UNCHANGED <<gateway, stolen>>
  PROVE  Pulled'
<1>1. /\ At(t, "process") /\ Move(t, "ffmpeg") /\ InFlight(t)
      /\ UNCHANGED <<up, streams, proxy, alive, left, lock, requests, overlapped, lingering>>
  BY DEF NoProxy, media, process, history, At, InFlight
<1>2. PICK x \in Shapes :
        /\ call' = [call EXCEPT ![t] = x]
        /\ x.pc = "ffmpeg" /\ x.stream = call[t].stream /\ x.asked = call[t].asked
  BY <1>1, Moved DEF Pulled, Calls
<1> QED BY <1>1, <1>2, ToFfmpeg, GoesOn DEF At

LEMMA ProxyFailsStep ==
  ASSUME Pulled, NEW t \in Threads, NEW s \in Streams, call[t].stream = s, ProxyFails(t),
         gateway \notin {"dash", "quic"}, UNCHANGED <<gateway, stolen>>
  PROVE  Pulled'
<1>1. /\ At(t, "process") /\ Move(t, "ffmpeg") /\ InFlight(t)
      /\ UNCHANGED <<up, streams, alive, left, lock, requests, overlapped>>
  BY DEF ProxyFails, At, InFlight, process
<1>2. /\ Calls' /\ Locked'
      /\ At(t, "ffmpeg")' /\ InFlight(t)' /\ call'[t].stream = s
      /\ \A u \in Threads \ {t} : call'[u] = call[u]
  BY <1>1, ToFfmpeg
<1>3. call[t].url \in Addresses
  BY <1>1, CallParts DEF Pulled, Calls, At
<1>4. /\ proxy' \in [Streams -> Addresses \cup {None}]
      /\ \A r \in Streams \ {s} : proxy'[r] = proxy[r] /\ (r \in lingering' <=> r \in lingering)
      /\ proxy'[s] = None \/ s \in lingering' \/ (proxy'[s] = proxy[s] /\ s \notin lingering)
  BY <1>3 DEF ProxyFails, Pulled, Tables, Added, WithoutProxy
<1>5. Tables'
  BY <1>1, <1>4 DEF Pulled, Tables, StreamsOK, Statuses
<1>6. ASSUME NEW r \in Streams \ overlapped', r # s PROVE Sound(r)'
  <2>1. Sound(r) /\ ~Starting(t, r) /\ ~Starting(t, r)'
    BY <1>1, <1>2, <1>6 DEF Pulled, Starting
  <2> QED BY <1>1, <1>2, <1>4, <1>6, <2>1, OthersSound
<1>7. ASSUME s \notin overlapped' PROVE Sound(s)'
  <2>1. Sound(s) /\ Starting(t, s) /\ Going(t, s)
    BY <1>1, <1>7 DEF Pulled, Starting, Going, At
  <2>2. s \notin alive /\ (proxy[s] = None \/ s \in lingering) /\ ~SaysItRuns(s)
    BY <2>1 DEF Sound, Cleared
  <2>3. proxy'[s] = None \/ s \in lingering'
    BY <1>4, <2>2
  <2>4. Sole(s)'
    BY <1>2, <2>1 DEF Sound, Sole, Starting, InFlight
  <2>5. Cleared(s)'
    BY <1>1, <2>2, <2>3 DEF Cleared, SaysItRuns
  <2>6. OwnProcess(s)' /\ OwnProxy(s)' /\ Shown(s)'
    BY <1>1, <2>2, <2>3 DEF OwnProcess, OwnProxy, Shown
  <2> QED BY <2>4, <2>5, <2>6 DEF Sound
<1> QED BY <1>2, <1>5, <1>6, <1>7 DEF Pulled

-----------------------------------------------------------------------------
(* The status, the stop and the end.                                       *)

\* What a look at stream s leaves of its entry: its address, and its process if
\* that is alive.
Looked(s, e) ==
  /\ e \in Entries /\ e.url = streams[s].url
  /\ e.ffmpeg => streams[s].ffmpeg
  /\ Lives(s) => e.ffmpeg

LEMMA Seen ==
  ASSUME NEW s \in Streams, streams[s].ffmpeg \in BOOLEAN, NEW seen \in Sees(s)
  PROVE  seen \in BOOLEAN /\ (seen => streams[s].ffmpeg) /\ (Lives(s) => seen)
BY DEF Sees, Lives

LEMMA ByProcessLooked ==
  ASSUME Tables, gateway \in {"dash", "quic"}, NEW s \in Streams, streams[s].here
  PROVE  \A e \in ByProcess(s) : Looked(s, e)
<1>1. streams[s] \in Entries
  BY EntryOf
<1>2. \A st \in Statuses : Looked(s, [streams[s] EXCEPT !.status = st])
  BY <1>1 DEF Looked, Entries, Lives
<1>3. {"Running", "Stopped"} \subseteq Statuses
  BY DEF Statuses
<1> QED BY <1>2, <1>3 DEF ByProcess

LEMMA CheckedLooked ==
  ASSUME Tables, gateway \in {"rtmp", "hls", "httpflv"}, NEW s \in Streams, streams[s].here
  PROVE  /\ \A e \in CheckIsRunning(s) : Looked(s, e)
         /\ \A e \in CheckStatus(s) : Looked(s, e)
<1>1. streams[s] \in Entries
  BY EntryOf
<1>2. {"Running", "Stopped", "Starting", "Error", streams[s].status} \subseteq Statuses
  BY <1>1 DEF Statuses, Entries
<1>3. ASSUME NEW st \in Statuses, NEW seen \in Sees(s)
      PROVE  Looked(s, [streams[s] EXCEPT !.status = st, !.ffmpeg = seen])
  <2>1. seen \in BOOLEAN /\ (seen => streams[s].ffmpeg) /\ (Lives(s) => seen)
    BY <1>1, Seen DEF Entries
  <2> QED BY <1>1, <2>1 DEF Looked, Entries
<1>4. ASSUME NEW unheard \in Statuses, NEW e \in Checked(s, unheard) PROVE Looked(s, e)
  <2>1. PICK seen \in Sees(s) :
          e \in {[streams[s] EXCEPT !.status = status, !.ffmpeg = seen] :
                    status \in {"Running", IF seen THEN unheard
                                           ELSE IF streams[s].ffmpeg THEN "Error" ELSE "Stopped"}}
    BY <1>4 DEF Checked
  <2>2. PICK status \in {"Running", "Error", "Stopped", unheard} :
          e = [streams[s] EXCEPT !.status = status, !.ffmpeg = seen]
    BY <2>1
  <2> QED BY <1>2, <1>3, <2>2
<1> QED BY <1>2, <1>4 DEF CheckIsRunning, CheckStatus

LEMMA ObserveStep ==
  ASSUME Pulled, NEW s \in Streams, NEW entries, Observe(s, entries),
         \A e \in entries : Looked(s, e),
         gateway \notin DeviceGateways, UNCHANGED <<gateway, stolen>>
  PROVE  Pulled' /\ \A r \in Streams : streams[r].here => streams'[r].here
<1>1. PICK e \in entries : streams' = [streams EXCEPT ![s] = e]
  BY DEF Observe
<1>2. /\ streams[s].here
      /\ overlapped' = IF Busy(s) /\ ~Runs(streams[s]) /\ Runs(streams'[s])
                       THEN overlapped \cup {s} ELSE overlapped
      /\ UNCHANGED <<up, proxy, alive, left, lock, call, requests, lingering>>
  BY DEF Observe, process
<1>3. Looked(s, e)
  BY <1>1
<1>4. streams'[s] = e /\ e.here /\ \A r \in Streams \ {s} : streams'[r] = streams[r]
  BY <1>1, <1>3 DEF Pulled, Tables, StreamsOK, Looked, Entries
<1>5. Calls' /\ Locked'
  BY <1>2 DEF Pulled, Calls, Locked, InFlight, Past
<1>6. Tables'
  <2>1. StreamsOK'
    BY <1>1, <1>3 DEF Pulled, Tables, StreamsOK, Statuses, Looked, Entries
  <2> QED BY <1>2, <2>1 DEF Pulled, Tables
<1>7. \A u \in Threads, r \in Streams :
        /\ Starting(u, r)' = Starting(u, r)
        /\ Going(u, r)' = Going(u, r)
  BY <1>2 DEF Starting, Going, At, InFlight
<1>8. ASSUME NEW r \in Streams \ overlapped' PROVE Sound(r)'
  <2>1. Sound(r) /\ Sole(r)'
    BY <1>2, <1>7, <1>8 DEF Pulled, Sound, Sole
  <2>2. CASE r # s
    BY <1>2, <1>4, <1>7, <2>1, <2>2, SoundKept
  <2>3. CASE r = s
    <3>1. Cleared(r)'
      <4>1. ~Busy(r) \/ Runs(streams[r]) \/ ~Runs(streams'[r])
        BY <1>2, <1>8, <2>3
      <4>2. ASSUME NEW u \in Threads, Going(u, r)' PROVE ~SaysItRuns(r)'
        <5>1. Going(u, r) /\ Busy(r)
          BY <1>7, <4>2 DEF Going, Busy
        <5> QED BY <2>1, <4>1, <5>1 DEF Sound, Cleared, SaysItRuns, Runs
      <4> QED BY <1>2, <1>7, <2>1, <4>2 DEF Sound, Cleared
    <3>2. OwnProcess(r)'
      BY <1>2, <1>3, <1>4, <2>1, <2>3 DEF Sound, OwnProcess, HasProcess, Looked, Lives
    <3>3. OwnProxy(r)'
      BY <1>4, <2>3 DEF OwnProxy
    <3>4. Shown(r)'
      BY <1>2, <1>3, <1>4, <2>1, <2>3 DEF Sound, Shown, Looked, DeviceGateways
    <3> QED BY <2>1, <3>1, <3>2, <3>3, <3>4 DEF Sound
  <2> QED BY <2>2, <2>3
<1> QED BY <1>2, <1>4, <1>5, <1>6, <1>8 DEF Pulled

\* With the entry go its process and its proxy.
LEMMA StopStep ==
  ASSUME Pulled, NEW s \in Streams, NEW deletes \in BOOLEAN, Stop(s, deletes),
         deletes \/ gateway \in {"dash", "quic"}, UNCHANGED <<gateway, stolen>>
  PROVE  /\ Pulled'
         /\ ~streams[s].here => UNCHANGED streams
         /\ \A r \in Streams \ {s} : streams'[r] = streams[r]
<1>1. UNCHANGED <<up, lock, call, requests, overlapped>>
  BY DEF Stop
<1>2. Calls' /\ Locked'
  BY <1>1 DEF Pulled, Calls, Locked, InFlight, Past
<1>3. \A u \in Threads, r \in Streams :
        /\ Starting(u, r)' = Starting(u, r)
        /\ Going(u, r)' = Going(u, r)
  BY <1>1 DEF Starting, Going, At, InFlight
<1>4. \A r \in Streams \ overlapped' : Sound(r) /\ Sole(r)'
  BY <1>1, <1>3 DEF Pulled, Sound, Sole
<1>5. CASE ~streams[s].here
  <2>1. UNCHANGED <<streams, proxy, alive, left, lingering>>
    BY <1>5 DEF Stop, media, process
  <2>2. \A r \in Streams \ overlapped' : Sound(r)'
    BY <1>1, <1>3, <1>4, <2>1, SoundKept
  <2> QED BY <1>1, <1>2, <2>1, <2>2 DEF Pulled, Tables, StreamsOK, Statuses
<1>6. CASE streams[s].here
  <2>1. /\ streams' = [streams EXCEPT ![s] = NoEntry]
        /\ IF streams[s].ffmpeg THEN StopProcesses({s}) ELSE UNCHANGED <<alive, left>>
        /\ IF deletes THEN DeleteStreams({s}) ELSE UNCHANGED <<proxy, lingering>>
    BY <1>6 DEF Stop, process
  <2>2. /\ streams'[s] = NoEntry /\ \A r \in Streams \ {s} : streams'[r] = streams[r]
        /\ StreamsOK'
    BY <1>1, <2>1 DEF Pulled, Tables, StreamsOK, Statuses
  <2>3. /\ proxy' \in [Streams -> Addresses \cup {None}]
        /\ proxy'[s] = None \/ (proxy'[s] = proxy[s] /\ s \in lingering')
        /\ \A r \in Streams \ {s} : proxy'[r] = proxy[r] /\ (r \in lingering' <=> r \in lingering)
    <3>1. CASE deletes
      BY <2>1, <3>1, Deleted DEF Pulled, Tables
    <3>2. CASE ~deletes
      BY <2>1, <3>2 DEF Pulled, Tables
    <3> QED BY <3>1, <3>2
  <2>4. /\ alive' = (IF streams[s].ffmpeg THEN alive \ {s} ELSE alive) /\ left' \subseteq Streams
    BY <2>1, ProcessesStopped DEF Pulled, Tables
  <2>5. Tables'
    BY <1>1, <2>2, <2>3, <2>4 DEF Pulled, Tables
  <2>6. ASSUME NEW r \in Streams \ overlapped', r # s PROVE Sound(r)'
    BY <1>1, <1>3, <1>4, <2>2, <2>3, <2>4, <2>6, SoundKept
  <2>7. ASSUME s \notin overlapped' PROVE Sound(s)'
    <3>1. s \notin alive'
      BY <1>1, <1>4, <2>4, <2>7 DEF Sound, OwnProcess, HasProcess
    <3>2. Cleared(s)' /\ OwnProcess(s)' /\ OwnProxy(s)' /\ Shown(s)'
      BY <2>2, <2>3, <3>1 DEF Cleared, OwnProcess, OwnProxy, Shown, SaysItRuns, NoEntry
    <3> QED BY <1>4, <2>7, <3>2 DEF Sound
  <2> QED BY <1>2, <1>6, <2>2, <2>5, <2>6, <2>7 DEF Pulled
<1> QED BY <1>5, <1>6

\* The destructor of each gateway but ONVIF's leaves what it cannot delete at most.
LEMMA DestroyStep ==
  ASSUME Pulled, NEW deleted, Destroy(deleted),
         gateway \in {"onvif", "dash", "quic"} \/ HadNone \subseteq deleted,
         UNCHANGED <<gateway, stolen>>
  PROVE  Pulled'
<1>1. /\ up /\ up' = FALSE /\ \A t \in Threads : ~InFlight(t)
      /\ StopProcesses({s \in Streams : HasProcess(s)}) /\ DeleteStreams(deleted)
      /\ streams' = [s \in Streams |-> NoEntry]
      /\ UNCHANGED <<lock, call, requests, overlapped>>
  BY DEF Destroy
<1>2. /\ proxy' \in [Streams -> Addresses \cup {None}]
      /\ \A r \in Streams : r \in deleted =>
           proxy'[r] = None \/ (proxy'[r] = proxy[r] /\ r \in lingering')
      /\ \A r \in Streams : r \notin deleted =>
           proxy'[r] = proxy[r] /\ (r \in lingering' <=> r \in lingering)
  BY <1>1, Deleted DEF Pulled, Tables
<1>3. alive' = alive \ {s \in Streams : HasProcess(s)} /\ left' \subseteq Streams
  BY <1>1, ProcessesStopped DEF Pulled, Tables
<1>4. Calls' /\ Locked'
  BY <1>1 DEF Pulled, Calls, Locked, InFlight, Past
<1>5. Tables'
  <2>1. StreamsOK'
    BY <1>1 DEF StreamsOK
  <2> QED BY <1>1, <1>2, <1>3, <2>1 DEF Pulled, Tables
<1>6. ASSUME NEW s \in Streams \ overlapped' PROVE Sound(s)'
  <2>1. Sound(s) /\ \A u \in Threads : ~Starting(u, s) /\ ~Starting(u, s)'
    BY <1>1, <1>6 DEF Pulled, Starting, InFlight
  <2>2. s \notin alive'
    BY <1>3, <2>1 DEF Sound, OwnProcess
  <2>3. Sole(s)' /\ Cleared(s)' /\ OwnProcess(s)' /\ Shown(s)'
    BY <1>1, <2>1, <2>2 DEF Sole, Cleared, Going, OwnProcess, Shown, NoEntry
  <2>4. OwnProxy(s)'
    <3>1. SUFFICES ASSUME proxy[s] # None, s \notin deleted, s \notin lingering, gateway # "onvif"
                   PROVE  FALSE
      BY <1>1, <1>2 DEF OwnProxy
    <3>2. streams[s].here
      BY <1>1, <2>1, <3>1 DEF Sound, OwnProxy
    <3>3. ~streams[s].ffmpeg
      BY <2>1, <3>1, <3>2 DEF Sound, Shown
    <3>4. s \in HadNone
      BY <3>2, <3>3 DEF HadNone, HasProcess
    <3> QED BY <3>1, <3>4 DEF Pulled, Tables
  <2> QED BY <2>3, <2>4 DEF Sound
<1> QED BY <1>4, <1>5, <1>6 DEF Pulled

\* A proxy or a process that ends by itself.
LEMMA EndsStep ==
  ASSUME Pulled, NEW s \in Streams, ProxyEnds(s) \/ ProcessEnds(s), UNCHANGED <<gateway, stolen>>
  PROVE  Pulled'
<1>1. /\ UNCHANGED <<up, streams, lock, call, requests, overlapped, lingering>>
      /\ alive' \subseteq alive /\ left' \subseteq left
      /\ proxy' = proxy \/ proxy' = [proxy EXCEPT ![s] = None]
  BY DEF ProxyEnds, ProcessEnds, history, process
<1>2. Calls' /\ Locked'
  BY <1>1 DEF Pulled, Calls, Locked, InFlight, Past
<1>3. \A r \in Streams : proxy'[r] \in {proxy[r], None}
  BY <1>1 DEF Pulled, Tables
<1>4. Tables'
  BY <1>1, <1>3 DEF Pulled, Tables, StreamsOK, Statuses
<1>5. ASSUME NEW r \in Streams \ overlapped' PROVE Sound(r)'
  <2>1. /\ Sound(r) /\ Sole(r)'
        /\ \A u \in Threads : Going(u, r)' = Going(u, r)
    BY <1>1, <1>5 DEF Pulled, Sound, Sole, Starting, Going, At, InFlight
  <2> QED BY <1>1, <1>3, <2>1, SoundKept
<1> QED BY <1>2, <1>4, <1>5 DEF Pulled

-----------------------------------------------------------------------------
(* What only HTTP-FLV and QUIC do.                                         *)

LEMMA RefuseStep ==
  ASSUME Pulled, NEW t \in Threads, NEW s \in Streams, call[t].stream = s, HttpFlv!Refuse(t),
         gateway = "httpflv", UNCHANGED <<gateway, stolen>>
  PROVE  Pulled'
<1> DEFINE e == Entry(call[t], "Error", FALSE)
<1>1. /\ At(t, "process") /\ InFlight(t) /\ Move(t, "refused") /\ Unlock(t)
      /\ streams' = [streams EXCEPT ![s] = e]
      /\ UNCHANGED <<up, proxy, alive, left, requests, overlapped, lingering>>
  BY DEF HttpFlv!Refuse, HttpFlv!At, HttpFlv!Move, HttpFlv!Unlock, HttpFlv!Entry, HttpFlv!history,
         HttpFlv!process, At, Move, Unlock, Entry, InFlight
<1>2. call[t].asked \in Asked /\ call[t].url \in Addresses
  BY <1>1, CallParts DEF Pulled, Calls, At, Idle
<1>3. e \in Entries /\ e.here /\ e.status = "Error" /\ ~e.ffmpeg
  BY <1>2 DEF Entry, Entries, Statuses
<1>4. streams'[s] = e /\ \A r \in Streams \ {s} : streams'[r] = streams[r]
  BY <1>1 DEF Pulled, Tables, StreamsOK
<1>5. PICK x \in Shapes :
        /\ call' = [call EXCEPT ![t] = x]
        /\ x.pc = "refused" /\ x.stream = s /\ x.asked = call[t].asked
  BY <1>1, Moved DEF Pulled, Calls
<1>6. Calls' /\ call'[t] = x /\ \A u \in Threads \ {t} : call'[u] = call[u]
  BY <1>1, <1>5, CallsContinued DEF Pulled
<1>7. Locked'
  <2>1. ~Past(t)' /\ \A u \in Threads \ {t} : Past(u)' = Past(u)
    BY <1>5, <1>6 DEF Past
  <2> QED BY <1>1, <2>1, LockReleased DEF Pulled
<1>8. Tables'
  <2>1. StreamsOK'
    BY <1>1, <1>3 DEF Pulled, Tables, StreamsOK, Entries, Statuses
  <2> QED BY <1>1, <2>1 DEF Pulled, Tables
<1>9. ASSUME NEW r \in Streams \ overlapped', r # s PROVE Sound(r)'
  <2>1. Sound(r) /\ ~Starting(t, r) /\ ~Starting(t, r)'
    BY <1>1, <1>5, <1>6, <1>9 DEF Pulled, Starting
  <2> QED BY <1>1, <1>4, <1>6, <1>9, <2>1, OthersSound
<1>10. ASSUME s \notin overlapped' PROVE Sound(s)'
  <2>1. Sound(s) /\ Starting(t, s) /\ Going(t, s)
    BY <1>1, <1>10 DEF Pulled, Starting, Going, At
  <2>2. s \notin alive /\ (proxy[s] = None \/ s \in lingering)
    BY <2>1 DEF Sound, Cleared
  <2>3. Sole(s)'
    BY <1>6, <2>1 DEF Sound, Sole, Starting, InFlight
  <2>4. Cleared(s)'
    BY <1>1, <1>3, <1>4, <2>2 DEF Cleared, SaysItRuns
  <2>5. OwnProcess(s)' /\ OwnProxy(s)' /\ Shown(s)'
    BY <1>1, <1>3, <1>4, <2>2 DEF OwnProcess, OwnProxy, Shown
  <2> QED BY <2>3, <2>4, <2>5 DEF Sound
<1> QED BY <1>6, <1>7, <1>8, <1>9, <1>10 DEF Pulled

LEMMA UnlockAgainStep ==
  ASSUME Pulled, NEW t \in Threads, HttpFlv!UnlockAgain(t), UNCHANGED gateway
  PROVE  Pulled'
<1>1. /\ At(t, "refused") /\ InFlight(t) /\ call' = [call EXCEPT ![t] = Idle]
      /\ lock' = None /\ stolen' = (stolen \/ ~Free)
      /\ UNCHANGED <<up, streams, proxy, alive, left, requests, overlapped, lingering>>
  BY DEF HttpFlv!UnlockAgain, HttpFlv!At, HttpFlv!Return, HttpFlv!Idle, HttpFlv!Free,
         HttpFlv!media, HttpFlv!process, HttpFlv!history, At, InFlight, Idle, Free
<1>2. Idle \in Shapes
  BY DEF Shapes
<1>3. call'[t] = Idle /\ \A u \in Threads \ {t} : call'[u] = call[u]
  BY <1>1, <1>2, CallsContinued DEF Pulled
<1>4. Locked'
  <2>1. ASSUME NEW u \in Threads, ~stolen' PROVE ~Past(u)'
    <3>1. ~stolen /\ Free
      BY <1>1, <2>1, Zenon
    <3>2. \A v \in Threads : ~Past(v)
      BY <3>1, PullGatewayAssumption DEF Pulled, Locked, Free
    <3> QED BY <1>3, <3>2 DEF Past, Idle
  <2> QED BY <1>1, <2>1, PullGatewayAssumption DEF Pulled, Locked
<1> QED BY <1>1, <1>2, <1>4, GoesOn DEF At

LEMMA QuicServerStep ==
  ASSUME Pulled, Bridged, NEW t \in Threads, Quic!StartQuicServerMode(t),
         gateway = "quic", UNCHANGED <<gateway, stolen>>
  PROVE  Pulled' /\ Bridged'
<1> PICK s : s = call[t].stream
  OBVIOUS
<1>1. /\ At(t, "process") /\ server' \in BOOLEAN
      /\ UNCHANGED <<up, proxy, alive, requests, overlapped, lingering>>
  BY DEF Quic!StartQuicServerMode, Quic!QuicServerStart, Quic!At, Quic!history, At, Bridged
<1>2. s \in Streams
  BY <1>1, CallParts DEF Pulled, Calls, At
<1>3. PICK status \in {"Running", "Error"}, p \in BOOLEAN :
        ~p /\ Finish(t, Entry(call[t], status, p))
  BY DEF Quic!StartQuicServerMode, Quic!Finish, Quic!Entry, Quic!Return, Quic!Unlock, Quic!Idle,
         Finish, Entry, Return, Unlock, Idle
<1>4. fed' \subseteq fed \cup {s} /\ left' \subseteq left \cup {s}
  BY DEF Quic!StartQuicServerMode, Quic!StartFFmpeg, Quic!WithoutBridge
<1>5. Pulled' /\ streams'[s].here /\ \A r \in Streams \ {s} : streams'[r] = streams[r]
  BY <1>1, <1>2, <1>3, <1>4, FinishStep DEF Pulled, Tables
<1> QED BY <1>1, <1>2, <1>4, <1>5 DEF Bridged

-----------------------------------------------------------------------------
(* Devices.                                                                *)

LEMMA AskedParts ==
  ASSUME NEW a \in Asked
  PROVE  a.dev \in Devices /\ a.chan \in Channels \cup {AnyChannel}
BY DEF Asked, Addresses

LEMMA CreditedKept ==
  ASSUME Credited, UNCHANGED deviceVars,
         \A t \in Threads : At(t, "ask")' => call'[t] = call[t]
  PROVE  Credited'
<1>1. DevicesOK' /\ CacheOfCredentials'
  BY DEF Credited, deviceVars, DevicesOK, CacheOfCredentials, Addresses
<1>2. AskedWithPresent'
  BY DEF Credited, deviceVars, AskedWithPresent, At
<1> QED BY <1>1, <1>2 DEF Credited

\* An entry of the list that is replaced, or changed, has no address in its cache;
\* and whoever is asking the device has been noted.
LEMMA ListChanged ==
  ASSUME Credited, NEW ds \in SUBSET Devices, UNCHANGED pullVars, DevicesOK',
         \A d \in Devices \ ds : devices'[d] = devices[d],
         \A d \in ds : devices'[d].here => devices'[d].url = None,
         outdated' = outdated \cup {d \in ds : Asking(d)}
  PROVE  Credited'
<1>1. CacheOfCredentials'
  BY DEF Credited, CacheOfCredentials
<1>2. AskedWithPresent'
  <2>1. SUFFICES ASSUME NEW t \in Threads, NEW d \in Devices,
                        At(t, "ask"), call[t].asked.dev = d, devices'[d].here, d \notin outdated'
                 PROVE  call[t].cred = devices'[d].cred
    BY DEF AskedWithPresent, pullVars, At
  <2>2. Asking(d)
    BY <2>1 DEF Asking
  <2>3. d \notin ds /\ d \notin outdated
    BY <2>1, <2>2
  <2> QED BY <2>1, <2>3 DEF Credited, AskedWithPresent
<1> QED BY <1>1, <1>2 DEF Credited

DeviceRecords ==
  [here : {TRUE}, cred : Chosen, url : Addresses \cup {None}, fresh : BOOLEAN]

LEMMA DeviceOf ==
  ASSUME DevicesOK, NEW d \in Devices, devices[d].here
  PROVE  devices[d] \in DeviceRecords
<1>1. devices[d] \in {NoDevice} \cup DeviceRecords
  BY DEF DevicesOK, DeviceRecords, Chosen
<1>2. ~NoDevice.here
  BY DEF NoDevice
<1> QED BY <1>1, <1>2

LEMMA PutStep ==
  ASSUME Credited, NEW ds \in SUBSET Devices, NEW k \in Chosen, Put(ds, k)
  PROVE  Credited'
<1>1. Device(k) \in DeviceRecords /\ Device(k).url = None
  BY DEF Device, DeviceRecords
<1>2. /\ devices' = [d \in Devices |-> IF d \in ds THEN Device(k) ELSE devices[d]]
      /\ outdated' = outdated \cup {d \in ds : Asking(d)} /\ UNCHANGED pullVars
  BY DEF Put
<1>3. DevicesOK'
  BY <1>1, <1>2 DEF Credited, DevicesOK, DeviceRecords, Chosen
<1>4. /\ \A d \in Devices \ ds : devices'[d] = devices[d]
      /\ \A d \in ds : devices'[d].url = None
  BY <1>1, <1>2
<1> QED BY <1>2, <1>3, <1>4, ListChanged

LEMMA EraseStep ==
  ASSUME Credited, NEW d \in Devices, Erase(d)
  PROVE  Credited'
<1>1. /\ devices' = [devices EXCEPT ![d] = NoDevice] /\ UNCHANGED pullVars
      /\ outdated' = outdated \cup {c \in {d} : Asking(c)}
  BY DEF Erase
<1>2. DevicesOK'
  BY <1>1 DEF Credited, DevicesOK
<1>3. /\ {d} \in SUBSET Devices
      /\ \A c \in {d} : ~devices'[c].here
      /\ \A c \in Devices \ {d} : devices'[c] = devices[c]
  BY <1>1 DEF Credited, DevicesOK, NoDevice
<1> QED BY <1>1, <1>2, <1>3, ListChanged

LEMMA UpdateStep ==
  ASSUME Credited, NEW d \in Devices, NEW k \in Creds, Update(d, k)
  PROVE  Credited'
<1>1. /\ devices' = [devices EXCEPT ![d] = Updated(devices[d], k)] /\ UNCHANGED pullVars
      /\ outdated' = outdated \cup {c \in {d} : Asking(c)}
  BY DEF Update
<1>2. Updated(devices[d], k) \in DeviceRecords /\ Updated(devices[d], k).url = None
  <2>1. devices[d] \in DeviceRecords
    BY DeviceOf DEF Credited, Update
  <2> QED BY <2>1 DEF Updated, DeviceRecords, Chosen
<1>3. DevicesOK'
  BY <1>1, <1>2 DEF Credited, DevicesOK, DeviceRecords, Chosen
<1>4. /\ {d} \in SUBSET Devices
      /\ \A c \in {d} : devices'[c].url = None
      /\ \A c \in Devices \ {d} : devices'[c] = devices[c]
  BY <1>1, <1>2 DEF Credited, DevicesOK
<1> QED BY <1>1, <1>3, <1>4, ListChanged

LEMMA ExpireStep ==
  ASSUME Credited, NEW d \in Devices, Expire(d)
  PROVE  Credited'
<1>1. /\ devices' = [devices EXCEPT ![d] = [devices[d] EXCEPT !.fresh = FALSE]]
      /\ UNCHANGED <<call, outdated>>
  BY DEF Expire, pullVars
<1>2. devices[d] \in DeviceRecords
  BY DeviceOf DEF Credited, Expire
<1>3. /\ [devices[d] EXCEPT !.fresh = FALSE] \in DeviceRecords
      /\ [devices[d] EXCEPT !.fresh = FALSE].url = devices[d].url
      /\ [devices[d] EXCEPT !.fresh = FALSE].cred = devices[d].cred
  BY <1>2 DEF DeviceRecords
<1>4. DevicesOK'
  BY <1>1, <1>3 DEF Credited, DevicesOK, DeviceRecords, Chosen
<1>5. /\ \A c \in Devices \ {d} : devices'[c] = devices[c]
      /\ devices'[d].url = devices[d].url /\ devices'[d].cred = devices[d].cred
      /\ devices[d].here
  BY <1>1, <1>2, <1>3 DEF Credited, DevicesOK, DeviceRecords
<1>6. \A c \in Devices : devices'[c].here => /\ devices[c].here
                                             /\ devices'[c].url = devices[c].url
                                             /\ devices'[c].cred = devices[c].cred
  BY <1>5
<1>7. CacheOfCredentials'
  BY <1>1, <1>6 DEF Credited, CacheOfCredentials
<1>8. AskedWithPresent'
  BY <1>1, <1>6 DEF Credited, AskedWithPresent, At
<1> QED BY <1>4, <1>7, <1>8 DEF Credited

LEMMA LockStep ==
  ASSUME Pulled, NEW t \in Threads, Lock(t), UNCHANGED <<gateway, stolen>>
  PROVE  Pulled'
<1>1. /\ At(t, "lock") /\ InFlight(t) /\ Move(t, "look") /\ Free /\ lock' = t
      /\ UNCHANGED <<up, streams, proxy, alive, left, requests, overlapped, lingering>>
  BY DEF Lock, media, process, history, At, InFlight
<1>2. PICK x \in Shapes :
        /\ call' = [call EXCEPT ![t] = x]
        /\ x.pc = "look" /\ x.stream = call[t].stream /\ x.asked = call[t].asked
  BY <1>1, Moved DEF Pulled, Calls
<1>3. call'[t] = x /\ \A u \in Threads \ {t} : call'[u] = call[u]
  BY <1>1, <1>2, CallsContinued DEF Pulled
<1>4. call[t].stream \in Streams
  BY <1>1, CallParts DEF Pulled, Calls, At
<1>5. Locked'
  <2>1. Past(t)' /\ \A u \in Threads \ {t} : Past(u)' = Past(u)
    BY <1>2, <1>3, <1>4, PullGatewayAssumption DEF Past
  <2> QED BY <1>1, <2>1, LockTaken DEF Pulled
<1> QED BY <1>1, <1>2, <1>5, GoesOn DEF At

LEMMA AskStep ==
  ASSUME Pulled, NEW t \in Threads, NEW d \in Devices, Ask(t, d),
         gateway \in DeviceGateways, UNCHANGED <<gateway, stolen>>
  PROVE  Pulled'
<1> DEFINE x == [pc |-> "look", stream |-> None, asked |-> [dev |-> d, chan |-> AnyChannel]]
<1>1. /\ up /\ ~InFlight(t) /\ call' = [call EXCEPT ![t] = x]
      /\ UNCHANGED <<up, streams, proxy, alive, left, lock, overlapped, lingering>>
  BY DEF Ask, media, process, history
<1>2. x \in Shapes
  BY DEF Shapes, Asked
<1>3. Calls' /\ call'[t] = x /\ \A u \in Threads \ {t} : call'[u] = call[u]
  BY <1>1, <1>2, CallsKept DEF Pulled
<1>4. Locked'
  <2>1. \A u \in Threads : Past(u)' = Past(u)
    BY <1>1, <1>3 DEF Past, InFlight
  <2> QED BY <1>1, <2>1, LockKept DEF Pulled
<1>5. Tables'
  <2>1. requests' \in 0..MaxRequests
    BY PullGatewayAssumption DEF Ask, Pulled, Tables
  <2> QED BY <1>1, <2>1 DEF Pulled, Tables, StreamsOK, Statuses
<1>6. ASSUME NEW s \in Streams \ overlapped' PROVE Sound(s)'
  <2>1. Sound(s) /\ ~Starting(t, s) /\ ~Starting(t, s)'
    BY <1>1, <1>3, <1>6, PullGatewayAssumption DEF Pulled, Starting
  <2> QED BY <1>1, <1>3, <1>6, <2>1, OthersSound
<1> QED BY <1>3, <1>4, <1>5, <1>6 DEF Pulled

\* An address was found, or was not.
LEMMA FoundStep ==
  ASSUME Pulled, NEW t \in Threads, At(t, "look") \/ At(t, "ask"),
         NEW u, (u \in Addresses /\ Found(t, u)) \/ (Return(t) /\ Unlock(t)),
         UNCHANGED <<up, gateway, streams, proxy, alive, left, requests, overlapped, lingering, stolen>>
  PROVE  Pulled' /\ \A v \in Threads : At(v, "ask")' => call'[v] = call[v]
<1>1. InFlight(t) /\ call[t].asked \in Asked /\ call[t].stream \in Streams \cup {None}
  BY CallParts DEF Pulled, Calls, At, InFlight, Idle
<1>2. PICK x \in Shapes :
        /\ call' = [call EXCEPT ![t] = x]
        /\ \/ x = Idle /\ (Unlock(t) \/ (call[t].stream = None /\ UNCHANGED lock))
           \/ /\ x.pc = "process" /\ x.asked = call[t].asked /\ x.stream = call[t].stream
              /\ call[t].stream # None /\ UNCHANGED lock
  <2>1. CASE Return(t) /\ Unlock(t)
    BY <2>1 DEF Return, Shapes
  <2>2. CASE u \in Addresses /\ Found(t, u) /\ call[t].stream = None
    BY <2>2 DEF Found, Return, Shapes
  <2>3. CASE u \in Addresses /\ Found(t, u) /\ call[t].stream # None
    <3> DEFINE x == [pc |-> "process", stream |-> call[t].stream, asked |-> call[t].asked, url |-> u]
    <3>1. call' = [call EXCEPT ![t] = x] /\ UNCHANGED lock
      BY <2>3 DEF Found, Pull, Pulled, Calls
    <3>2. x \in Shapes
      BY <1>1, <2>3 DEF Shapes
    <3> QED BY <2>3, <3>1, <3>2
  <2> QED BY <2>1, <2>2, <2>3
<1>3. call'[t] = x /\ \A v \in Threads \ {t} : call'[v] = call[v]
  BY <1>1, <1>2, CallsContinued DEF Pulled
<1>4. \A v \in Threads \ {t} : Past(v)' = Past(v)
  BY <1>3 DEF Past
<1>5. Locked'
  <2>1. CASE x = Idle /\ Unlock(t)
    <3>1. ~Past(t)'
      BY <1>3, <2>1 DEF Past, Idle
    <3> QED BY <1>4, <2>1, <3>1, LockReleased DEF Pulled
  <2>2. CASE x = Idle /\ call[t].stream = None /\ UNCHANGED lock
    <3>1. Past(t)' = Past(t)
      BY <1>3, <2>2 DEF Past, Idle
    <3> QED BY <1>4, <2>2, <3>1, LockKept DEF Pulled
  <2>3. CASE x.pc = "process" /\ x.stream = call[t].stream /\ call[t].stream # None /\ UNCHANGED lock
    <3>1. Past(t)' = Past(t)
      BY <1>3, <2>3 DEF Past, At
    <3> QED BY <1>4, <2>3, <3>1, LockKept DEF Pulled
  <2> QED BY <1>2, <2>1, <2>2, <2>3
<1>6. Pulled'
  BY <1>1, <1>2, <1>5, GoesOn DEF At
<1>7. \A v \in Threads : At(v, "ask")' => call'[v] = call[v]
  BY <1>2, <1>3 DEF At, Idle
<1> QED BY <1>6, <1>7

LEMMA LookStep ==
  ASSUME Pulled, Credited, NEW t \in Threads, Look(t), UNCHANGED <<gateway, stolen>>
  PROVE  Pulled' /\ Credited'
<1> PICK d : d = call[t].asked.dev
  OBVIOUS
<1>1. /\ At(t, "look") /\ InFlight(t) /\ UNCHANGED <<devices, outdated>>
      /\ UNCHANGED <<up, streams, proxy, alive, left, requests, overlapped, lingering>>
  BY DEF Look, media, process, history, deviceVars, At, InFlight
<1>2. /\ call[t].asked \in Asked /\ call[t].stream \in Streams \cup {None} /\ d \in Devices
  BY <1>1, CallParts, AskedParts DEF Pulled, Calls, At, Idle
<1>3. CASE ~devices[d].here \/ (devices[d].url # None /\ devices[d].fresh)
  <2>1. (devices[d].url \in Addresses /\ Found(t, devices[d].url)) \/ (Return(t) /\ Unlock(t))
    <3>1. CASE ~devices[d].here
      BY <3>1 DEF Look
    <3>2. CASE devices[d].here /\ devices[d].url # None /\ devices[d].fresh
      <4>1. devices[d].url \in Addresses
        BY <1>2, <3>2, DeviceOf DEF Credited, DeviceRecords
      <4> QED BY <3>2, <4>1 DEF Look
    <3> QED BY <1>3, <3>1, <3>2
  <2>2. Pulled' /\ \A v \in Threads : At(v, "ask")' => call'[v] = call[v]
    BY <1>1, <2>1, FoundStep
  <2> QED BY <1>1, <2>2, CreditedKept DEF deviceVars
<1>4. CASE devices[d].here /\ ~(devices[d].url # None /\ devices[d].fresh)
  <2> DEFINE x == [pc |-> "ask", stream |-> call[t].stream, asked |-> call[t].asked,
                   cred |-> devices[d].cred]
  <2>1. call' = [call EXCEPT ![t] = x] /\ UNCHANGED lock
    BY <1>4 DEF Look, Pulled, Calls
  <2>2. x \in Shapes
    <3>1. devices[d].cred \in Chosen
      BY <1>2, <1>4, DeviceOf DEF Credited, DeviceRecords
    <3> QED BY <1>2, <3>1 DEF Shapes
  <2>3. call'[t] = x /\ \A u \in Threads \ {t} : call'[u] = call[u]
    BY <1>1, <2>1, <2>2, CallsContinued DEF Pulled
  <2>4. Locked'
    <3>1. \A u \in Threads : Past(u)' = Past(u)
      BY <1>1, <2>3 DEF Past, At
    <3> QED BY <2>1, <3>1, LockKept DEF Pulled
  <2>5. Pulled'
    BY <1>1, <2>1, <2>2, <2>4, GoesOn DEF At
  <2>6. AskedWithPresent'
    BY <1>1, <2>3 DEF Credited, AskedWithPresent, At
  <2>7. DevicesOK' /\ CacheOfCredentials'
    BY <1>1 DEF Credited, DevicesOK, CacheOfCredentials, Addresses
  <2> QED BY <2>5, <2>6, <2>7 DEF Credited
<1> QED BY <1>3, <1>4

\* The address that is kept was asked for with the credentials that are there, or
\* these have changed meanwhile.
LEMMA AnswerStep ==
  ASSUME Pulled, Credited, NEW t \in Threads, At(t, "ask"), NEW c \in Channels \cup {None},
         Answer(t, c), UNCHANGED <<gateway, stolen>>
  PROVE  Pulled' /\ Credited'
<1> PICK d, k, u : d = call[t].asked.dev /\ k = call[t].cred /\ u = Address(d, c, k)
  OBVIOUS
<1>1. UNCHANGED <<up, streams, proxy, alive, left, requests, overlapped, lingering, outdated>>
  BY DEF Answer, media, process, history
<1>2. d \in Devices /\ k \in Chosen
  BY CallParts, AskedParts DEF Pulled, Calls, At, Idle
<1>3. (u \in Addresses /\ Found(t, u)) \/ (Return(t) /\ Unlock(t))
  <2>1. c # None => u \in Addresses
    BY <1>2 DEF Address, Addresses, Chosen
  <2> QED BY <2>1 DEF Answer
<1>4. Pulled' /\ \A v \in Threads : At(v, "ask")' => call'[v] = call[v]
  BY <1>1, <1>3, FoundStep
<1>5. CASE UNCHANGED devices
  BY <1>1, <1>4, <1>5, CreditedKept DEF deviceVars
<1>6. CASE ~UNCHANGED devices
  <2>1. c # None
        /\ devices' = [devices EXCEPT ![d] =
             IF devices[d].here THEN [devices[d] EXCEPT !.url = u, !.fresh = TRUE] ELSE devices[d]]
    BY <1>6 DEF Answer
  <2>2. devices[d].here
    BY <1>2, <1>6, <2>1 DEF Credited, DevicesOK
  <2>3. devices[d] \in DeviceRecords /\ u \in Addresses /\ u.cred = k
    BY <1>2, <2>1, <2>2, DeviceOf DEF Credited, Address, Addresses, Chosen
  <2>4. PICK w \in DeviceRecords :
          /\ devices' = [devices EXCEPT ![d] = w]
          /\ w.here /\ w.url = u /\ w.cred = devices[d].cred
    <3> DEFINE w == [devices[d] EXCEPT !.url = u, !.fresh = TRUE]
    <3>1. w \in DeviceRecords /\ w.here /\ w.url = u /\ w.cred = devices[d].cred
      BY <2>3 DEF DeviceRecords
    <3>2. devices' = [devices EXCEPT ![d] = w]
      BY <2>1, <2>2
    <3> QED BY <3>1, <3>2
  <2>5. devices'[d] = w /\ \A e \in Devices \ {d} : devices'[e] = devices[e]
    BY <1>2, <2>4 DEF Credited, DevicesOK
  <2>6. DevicesOK'
    BY <2>4 DEF Credited, DevicesOK, DeviceRecords, Chosen
  <2>7. d \in outdated \/ k = devices[d].cred
    BY <1>2, <2>2 DEF Credited, AskedWithPresent
  <2>8. CacheOfCredentials'
    BY <1>1, <2>3, <2>4, <2>5, <2>7 DEF Credited, CacheOfCredentials
  <2>9. AskedWithPresent'
    BY <1>1, <1>4, <2>2, <2>4, <2>5 DEF Credited, AskedWithPresent, At
  <2> QED BY <1>4, <2>6, <2>8, <2>9 DEF Credited
<1> QED BY <1>5, <1>6

-----------------------------------------------------------------------------
(* The gateways of network cameras.  What each of them does is one of the  *)
(* following: their steps are those of DeviceGateway and PullGateway.      *)

ListSteps ==
  \/ \E ds \in SUBSET Devices, k \in Chosen : Put(ds, k)
  \/ \E d \in Devices : Erase(d)
  \/ \E d \in Devices, k \in Creds : Update(d, k)

\* CheckStreamExists of ONVIF, and of the others.
Checks(t) ==
  LET kills == HasProcess(call[t].stream) IN
  IF gateway = "onvif" THEN Check(t, kills, FALSE) ELSE Check(t, kills, ~kills)

DeviceCall(t) ==
  \/ (BeginDevice(t) \/ Checks(t) \/ Lock(t) \/ Process(t)) /\ UNCHANGED deviceVars
  \/ \E d \in Devices : Ask(t, d)
  \/ Look(t)
  \/ At(t, "ask") /\ \E c \in Channels \cup {None} : Answer(t, c)

Destroys == Destroy(IF gateway = "onvif" THEN {} ELSE HadNone)

DeviceSteps ==
  \/ ListSteps
  \/ ((\E s \in Streams : Stop(s, TRUE)) \/ Destroys) /\ UNCHANGED deviceVars
  \/ \E t \in Threads : DeviceCall(t)

\* The channel a device answers for is one of its own.

LEMMA OnvifAnswers ==
  ASSUME NEW c \in Channels \cup {AnyChannel}
  PROVE  Onvif!Answers(c) \subseteq Channels \cup {None}
<1>1. Onvif!GetProfiles \subseteq SUBSET Channels
  BY DEF Onvif!GetProfiles, Onvif!SendSOAPRequest
<1>2. \A p : Onvif!GetStreamUri(p) \subseteq {p, None}
  BY DEF Onvif!GetStreamUri, Onvif!SendSOAPRequest
<1> QED BY <1>1, <1>2 DEF Onvif!Answers

LEMMA OnvifList ==
  ASSUME Onvif!DevicesStep
  PROVE  ListSteps
<1> USE DEF Onvif!pullVars, pullVars, Onvif!media, Onvif!process, media, process, Onvif!history,
            history, Onvif!Asking, Asking, Onvif!At, At
<1>1. Onvif!HandleDiscoverDevices => \E ds \in SUBSET Devices, k \in Chosen : Put(ds, k)
  <2>1. \A ds, k : Onvif!Put(ds, k) => Put(ds, k)
    BY DEF Onvif!Put, Put, Onvif!Device, Device
  <2>2. \A ds \in Onvif!SendWSDiscoveryProbe : ds \in SUBSET Devices
    BY DEF Onvif!SendWSDiscoveryProbe
  <2> QED BY <2>1, <2>2 DEF Onvif!HandleDiscoverDevices, Onvif!DiscoverDevices, Chosen
<1>2. Onvif!HandleAddDevice => \E ds \in SUBSET Devices, k \in Chosen : Put(ds, k)
  <2>1. \A ds, k : Onvif!Put(ds, k) => Put(ds, k)
    BY DEF Onvif!Put, Put, Onvif!Device, Device
  <2>2. \A d \in Devices : {d} \in SUBSET Devices
    OBVIOUS
  <2> QED BY <2>1, <2>2 DEF Onvif!HandleAddDevice, Onvif!AddDevice, Chosen
<1>3. Onvif!HandleDeleteDevice => \E d \in Devices : Erase(d)
  BY DEF Onvif!HandleDeleteDevice, Onvif!RemoveDevice, Onvif!Erase, Erase, Onvif!NoDevice, NoDevice
<1>4. Onvif!UpdateDeviceCredentials => \E d \in Devices, k \in Creds : Update(d, k)
  BY DEF Onvif!UpdateDeviceCredentials, Onvif!Update, Update, Onvif!Updated, Updated
<1> QED BY <1>1, <1>2, <1>3, <1>4 DEF Onvif!DevicesStep, ListSteps

LEMMA OnvifCalls ==
  ASSUME Calls, gateway = "onvif", NEW t \in Threads, Onvif!Call(t)
  PROVE  DeviceCall(t)
<1> USE DEF Onvif!At, Onvif!InFlight, Onvif!Free, Onvif!Idle, Onvif!Move, Onvif!Return,
            Onvif!Unlock, Onvif!media, Onvif!process, Onvif!history, Onvif!HasProcess,
            Onvif!Finish, Onvif!Entry, Onvif!Pull, Onvif!deviceVars, At, InFlight, Free, Idle,
            Move, Return, Unlock, media, process, history, HasProcess, Finish, Entry, Pull,
            deviceVars
<1>1. Onvif!Start(t) => BeginDevice(t)
  BY DEF Onvif!Start, Onvif!BeginDevice, BeginDevice, Onvif!Begin, Begin, Onvif!Busy, Busy,
         Onvif!Starting, Starting
<1>2. Onvif!CheckStreamExists(t) => Checks(t)
  <2>1. Onvif!CheckStreamExists(t) => Check(t, HasProcess(call[t].stream), FALSE)
    BY DEF Onvif!DeleteStreams, DeleteStreams, Onvif!WithoutProxy, WithoutProxy,
           Onvif!StopProcesses, StopProcesses, Onvif!CheckStreamExists, Onvif!Check, Check,
           Onvif!Runs, Runs
  <2> QED BY <2>1 DEF Checks
<1>3. Onvif!Lock(t) => Lock(t)
  BY DEF Onvif!Lock, Lock
<1>4. Onvif!Process(t) => Process(t)
  BY DEF Onvif!WithoutProxy, WithoutProxy, Onvif!StartProcess, StartProcess, Onvif!Process,
         Process, Onvif!ProxySends, ProxySends, Onvif!ProxyFails, ProxyFails, Onvif!NoProxy,
         NoProxy, Onvif!Transcode, Transcode, Onvif!Added, Added
<1>5. Onvif!HandleGetDeviceRTSPURLs(t) => \E d \in Devices : Ask(t, d)
  BY DEF Onvif!HandleGetDeviceRTSPURLs, Onvif!Ask, Ask
<1>6. Onvif!Look(t) => Look(t)
  BY DEF Onvif!Look, Look, Onvif!Found, Found
<1>7. Onvif!GetDeviceRTSPURLs(t) => At(t, "ask") /\ \E c \in Channels \cup {None} : Answer(t, c)
  <2>1. \A c : Onvif!Answer(t, c) => Answer(t, c)
    BY DEF Onvif!Answer, Answer, Onvif!Found, Found, Onvif!Address, Address
  <2>2. ASSUME At(t, "ask") PROVE call[t].asked.chan \in Channels \cup {AnyChannel}
    <3>1. call[t].asked \in Asked
      BY <2>2, CallParts DEF Calls
    <3> QED BY <3>1, AskedParts
  <2> QED BY <2>1, <2>2, OnvifAnswers DEF Onvif!GetDeviceRTSPURLs
<1> QED BY <1>1, <1>2, <1>3, <1>4, <1>5, <1>6, <1>7 DEF Onvif!Call, Onvif!StartDeviceStream,
                                                        DeviceCall

LEMMA OnvifSteps ==
  ASSUME Calls, gateway = "onvif", Onvif!Next
  PROVE  DeviceSteps
<1>1. Onvif!StopDeviceStream => \E s \in Streams : Stop(s, TRUE)
  BY DEF Onvif!DeleteStreams, DeleteStreams, Onvif!StopProcesses, StopProcesses,
         Onvif!StopDeviceStream, Onvif!Stop, Stop, Onvif!WithoutProxy, WithoutProxy,
         Onvif!NoEntry, NoEntry, Onvif!Free, Free, Onvif!media, Onvif!process, media, process
<1>2. Onvif!Destructor => Destroys
  <2>1. Onvif!Destructor => Destroy({})
    BY DEF Onvif!DeleteStreams, DeleteStreams, Onvif!WithoutProxy, WithoutProxy,
           Onvif!StopProcesses, StopProcesses, Onvif!Destructor, Onvif!Destroy, Destroy,
           Onvif!HadNone, HadNone, Onvif!HasProcess, HasProcess, Onvif!InFlight, InFlight,
           Onvif!NoEntry, NoEntry, Onvif!history, history
  <2> QED BY <2>1 DEF Destroys
<1> QED BY <1>1, <1>2, OnvifList, OnvifCalls DEF Onvif!Next, Onvif!StreamsStep, Onvif!deviceVars,
                                                 deviceVars, DeviceSteps
\* The channel a device answers for is one of its own.

LEMMA IsapiAnswers ==
  ASSUME NEW c \in Channels \cup {AnyChannel}, NEW d
  PROVE  Isapi!Answers(d, c) \subseteq Channels \cup {None}
<1>1. Isapi!GetChannels \subseteq SUBSET Channels
  BY DEF Isapi!GetChannels, Isapi!SendISAPIRequest
<1>2. \A p : Isapi!GetStreamURI(d, p) \subseteq {p, None}
  BY DEF Isapi!GetStreamURI, Isapi!SendISAPIRequest
<1> QED BY <1>1, <1>2 DEF Isapi!Answers

LEMMA IsapiList ==
  ASSUME Isapi!DevicesStep
  PROVE  ListSteps
<1> USE DEF Isapi!pullVars, pullVars, Isapi!media, Isapi!process, media, process, Isapi!history,
            history, Isapi!Asking, Asking, Isapi!At, At
<1>1. Isapi!HandleDiscoverISAPIDevices => \E ds \in SUBSET Devices, k \in Chosen : Put(ds, k)
  <2>1. \A ds, k : Isapi!Put(ds, k) => Put(ds, k)
    BY DEF Isapi!Put, Put, Isapi!Device, Device
  <2>2. \A ds \in Isapi!DiscoverDevicesHTTP : ds \in SUBSET Devices
    BY DEF Isapi!DiscoverDevicesHTTP
  <2> QED BY <2>1, <2>2 DEF Isapi!HandleDiscoverISAPIDevices, Isapi!DiscoverDevices, Chosen
<1>2. Isapi!HandleAddISAPIDevice => \E ds \in SUBSET Devices, k \in Chosen : Put(ds, k)
  <2>1. \A ds, k : Isapi!Put(ds, k) => Put(ds, k)
    BY DEF Isapi!Put, Put, Isapi!Device, Device
  <2>2. \A d \in Devices : {d} \in SUBSET Devices
    OBVIOUS
  <2> QED BY <2>1, <2>2 DEF Isapi!HandleAddISAPIDevice, Isapi!AddDevice, Chosen
<1>3. Isapi!HandleDeleteISAPIDevice => \E d \in Devices : Erase(d)
  BY DEF Isapi!HandleDeleteISAPIDevice, Isapi!RemoveDevice, Isapi!Erase, Erase, Isapi!NoDevice,
         NoDevice
<1>4. Isapi!UpdateDeviceCredentials => \E d \in Devices, k \in Creds : Update(d, k)
  BY DEF Isapi!UpdateDeviceCredentials, Isapi!Update, Update, Isapi!Updated, Updated
<1> QED BY <1>1, <1>2, <1>3, <1>4 DEF Isapi!DevicesStep, ListSteps

LEMMA IsapiCalls ==
  ASSUME Calls, gateway = "isapi", NEW t \in Threads, Isapi!Call(t)
  PROVE  DeviceCall(t)
<1> USE DEF Isapi!At, Isapi!InFlight, Isapi!Free, Isapi!Idle, Isapi!Move, Isapi!Return,
            Isapi!Unlock, Isapi!media, Isapi!process, Isapi!history, Isapi!HasProcess,
            Isapi!Finish, Isapi!Entry, Isapi!Pull, Isapi!deviceVars, At, InFlight, Free, Idle,
            Move, Return, Unlock, media, process, history, HasProcess, Finish, Entry, Pull,
            deviceVars
<1>1. Isapi!Start(t) => BeginDevice(t)
  BY DEF Isapi!Start, Isapi!BeginDevice, BeginDevice, Isapi!Begin, Begin, Isapi!Busy, Busy,
         Isapi!Starting, Starting
<1>2. Isapi!CheckStreamExists(t) => Checks(t)
  <2>1. Isapi!CheckStreamExists(t) => Check(t, HasProcess(call[t].stream), ~HasProcess(call[t].stream))
    BY DEF Isapi!DeleteStreams, DeleteStreams, Isapi!WithoutProxy, WithoutProxy,
           Isapi!StopProcesses, StopProcesses, Isapi!CheckStreamExists, Isapi!Check, Check,
           Isapi!Runs, Runs
  <2> QED BY <2>1 DEF Checks
<1>3. Isapi!Lock(t) => Lock(t)
  BY DEF Isapi!Lock, Lock
<1>4. Isapi!Process(t) => Process(t)
  BY DEF Isapi!WithoutProxy, WithoutProxy, Isapi!StartProcess, StartProcess, Isapi!Process,
         Process, Isapi!ProxySends, ProxySends, Isapi!ProxyFails, ProxyFails, Isapi!NoProxy,
         NoProxy, Isapi!Transcode, Transcode, Isapi!Added, Added
<1>5. Isapi!HandleGetISAPIDeviceRTSPURLs(t) => \E d \in Devices : Ask(t, d)
  BY DEF Isapi!HandleGetISAPIDeviceRTSPURLs, Isapi!Ask, Ask
<1>6. Isapi!Look(t) => Look(t)
  BY DEF Isapi!Look, Look, Isapi!Found, Found
<1>7. Isapi!GetDeviceRTSPURLs(t) => At(t, "ask") /\ \E c \in Channels \cup {None} : Answer(t, c)
  <2>1. \A c : Isapi!Answer(t, c) => Answer(t, c)
    BY DEF Isapi!Answer, Answer, Isapi!Found, Found, Isapi!Address, Address
  <2>2. ASSUME At(t, "ask") PROVE call[t].asked.chan \in Channels \cup {AnyChannel}
    <3>1. call[t].asked \in Asked
      BY <2>2, CallParts DEF Calls
    <3> QED BY <3>1, AskedParts
  <2> QED BY <2>1, <2>2, IsapiAnswers DEF Isapi!GetDeviceRTSPURLs
<1> QED BY <1>1, <1>2, <1>3, <1>4, <1>5, <1>6, <1>7 DEF Isapi!Call, Isapi!StartDeviceStream,
                                                        DeviceCall

LEMMA IsapiSteps ==
  ASSUME Calls, gateway = "isapi", Isapi!Next
  PROVE  DeviceSteps
<1>1. Isapi!StopDeviceStream => \E s \in Streams : Stop(s, TRUE)
  BY DEF Isapi!DeleteStreams, DeleteStreams, Isapi!StopProcesses, StopProcesses,
         Isapi!StopDeviceStream, Isapi!Stop, Stop, Isapi!WithoutProxy, WithoutProxy,
         Isapi!NoEntry, NoEntry, Isapi!Free, Free, Isapi!media, Isapi!process, media, process
<1>2. Isapi!Destructor => Destroys
  <2>1. Isapi!Destructor => Destroy(HadNone)
    BY DEF Isapi!DeleteStreams, DeleteStreams, Isapi!WithoutProxy, WithoutProxy,
           Isapi!StopProcesses, StopProcesses, Isapi!Destructor, Isapi!Destroy, Destroy,
           Isapi!HadNone, HadNone, Isapi!HasProcess, HasProcess, Isapi!InFlight, InFlight,
           Isapi!NoEntry, NoEntry, Isapi!history, history
  <2> QED BY <2>1 DEF Destroys
<1> QED BY <1>1, <1>2, IsapiList, IsapiCalls DEF Isapi!Next, Isapi!StreamsStep, Isapi!deviceVars,
                                                 deviceVars, DeviceSteps
\* The channel a device answers for is one of its own.

LEMMA DahuaAnswers ==
  ASSUME NEW c \in Channels \cup {AnyChannel}, NEW d
  PROVE  Dahua!Answers(d, c) \subseteq Channels \cup {None}
<1>1. Dahua!GetDeviceChannels \subseteq SUBSET Channels
  BY DEF Dahua!GetDeviceChannels, Dahua!SendHTTPRequest
<1>2. \A p : Dahua!GetStreamUri(d, p) \subseteq {p, None}
  BY DEF Dahua!GetStreamUri, Dahua!SendHTTPRequest
<1> QED BY <1>1, <1>2 DEF Dahua!Answers

LEMMA DahuaList ==
  ASSUME Dahua!DevicesStep
  PROVE  ListSteps
<1> USE DEF Dahua!pullVars, pullVars, Dahua!media, Dahua!process, media, process, Dahua!history,
            history, Dahua!Asking, Asking, Dahua!At, At
<1>1. Dahua!HandleDiscoverDahuaDevices => \E ds \in SUBSET Devices, k \in Chosen : Put(ds, k)
  <2>1. \A ds, k : Dahua!Put(ds, k) => Put(ds, k)
    BY DEF Dahua!Put, Put, Dahua!Device, Device
  <2>2. \A ds \in Dahua!DiscoverDevicesHTTP : ds \in SUBSET Devices
    BY DEF Dahua!DiscoverDevicesHTTP
  <2> QED BY <2>1, <2>2 DEF Dahua!HandleDiscoverDahuaDevices, Dahua!DiscoverDevices, Chosen
<1>2. Dahua!HandleAddDahuaDevice => \E ds \in SUBSET Devices, k \in Chosen : Put(ds, k)
  <2>1. \A ds, k : Dahua!Put(ds, k) => Put(ds, k)
    BY DEF Dahua!Put, Put, Dahua!Device, Device
  <2>2. \A d \in Devices : {d} \in SUBSET Devices
    OBVIOUS
  <2> QED BY <2>1, <2>2 DEF Dahua!HandleAddDahuaDevice, Dahua!AddDevice, Chosen
<1>3. Dahua!HandleDeleteDahuaDevice => \E d \in Devices : Erase(d)
  BY DEF Dahua!HandleDeleteDahuaDevice, Dahua!RemoveDevice, Dahua!Erase, Erase, Dahua!NoDevice,
         NoDevice
<1>4. Dahua!UpdateDeviceCredentials => \E d \in Devices, k \in Creds : Update(d, k)
  BY DEF Dahua!UpdateDeviceCredentials, Dahua!Update, Update, Dahua!Updated, Updated
<1> QED BY <1>1, <1>2, <1>3, <1>4 DEF Dahua!DevicesStep, ListSteps

LEMMA DahuaCalls ==
  ASSUME Calls, gateway = "dahua", NEW t \in Threads, Dahua!Call(t)
  PROVE  DeviceCall(t)
<1> USE DEF Dahua!At, Dahua!InFlight, Dahua!Free, Dahua!Idle, Dahua!Move, Dahua!Return,
            Dahua!Unlock, Dahua!media, Dahua!process, Dahua!history, Dahua!HasProcess,
            Dahua!Finish, Dahua!Entry, Dahua!Pull, Dahua!deviceVars, At, InFlight, Free, Idle,
            Move, Return, Unlock, media, process, history, HasProcess, Finish, Entry, Pull,
            deviceVars
<1>1. Dahua!Start(t) => BeginDevice(t)
  BY DEF Dahua!Start, Dahua!BeginDevice, BeginDevice, Dahua!Begin, Begin, Dahua!Busy, Busy,
         Dahua!Starting, Starting
<1>2. Dahua!CheckStreamExists(t) => Checks(t)
  <2>1. Dahua!CheckStreamExists(t) => Check(t, HasProcess(call[t].stream), ~HasProcess(call[t].stream))
    BY DEF Dahua!DeleteStreams, DeleteStreams, Dahua!WithoutProxy, WithoutProxy,
           Dahua!StopProcesses, StopProcesses, Dahua!CheckStreamExists, Dahua!Check, Check,
           Dahua!Runs, Runs
  <2> QED BY <2>1 DEF Checks
<1>3. Dahua!Lock(t) => Lock(t)
  BY DEF Dahua!Lock, Lock
<1>4. Dahua!Process(t) => Process(t)
  BY DEF Dahua!WithoutProxy, WithoutProxy, Dahua!StartProcess, StartProcess, Dahua!Process,
         Process, Dahua!ProxySends, ProxySends, Dahua!ProxyFails, ProxyFails, Dahua!NoProxy,
         NoProxy, Dahua!Transcode, Transcode, Dahua!Added, Added
<1>5. Dahua!HandleGetDahuaDeviceRTSPURLs(t) => \E d \in Devices : Ask(t, d)
  BY DEF Dahua!HandleGetDahuaDeviceRTSPURLs, Dahua!Ask, Ask
<1>6. Dahua!Look(t) => Look(t)
  BY DEF Dahua!Look, Look, Dahua!Found, Found
<1>7. Dahua!GetDeviceRTSPURLs(t) => At(t, "ask") /\ \E c \in Channels \cup {None} : Answer(t, c)
  <2>1. \A c : Dahua!Answer(t, c) => Answer(t, c)
    BY DEF Dahua!Answer, Answer, Dahua!Found, Found, Dahua!Address, Address
  <2>2. ASSUME At(t, "ask") PROVE call[t].asked.chan \in Channels \cup {AnyChannel}
    <3>1. call[t].asked \in Asked
      BY <2>2, CallParts DEF Calls
    <3> QED BY <3>1, AskedParts
  <2> QED BY <2>1, <2>2, DahuaAnswers DEF Dahua!GetDeviceRTSPURLs
<1> QED BY <1>1, <1>2, <1>3, <1>4, <1>5, <1>6, <1>7 DEF Dahua!Call, Dahua!StartDeviceStream,
                                                        DeviceCall

LEMMA DahuaSteps ==
  ASSUME Calls, gateway = "dahua", Dahua!Next
  PROVE  DeviceSteps
<1>1. Dahua!StopDeviceStream => \E s \in Streams : Stop(s, TRUE)
  BY DEF Dahua!DeleteStreams, DeleteStreams, Dahua!StopProcesses, StopProcesses,
         Dahua!StopDeviceStream, Dahua!Stop, Stop, Dahua!WithoutProxy, WithoutProxy,
         Dahua!NoEntry, NoEntry, Dahua!Free, Free, Dahua!media, Dahua!process, media, process
<1>2. Dahua!Destructor => Destroys
  <2>1. Dahua!Destructor => Destroy(HadNone)
    BY DEF Dahua!DeleteStreams, DeleteStreams, Dahua!WithoutProxy, WithoutProxy,
           Dahua!StopProcesses, StopProcesses, Dahua!Destructor, Dahua!Destroy, Destroy,
           Dahua!HadNone, HadNone, Dahua!HasProcess, HasProcess, Dahua!InFlight, InFlight,
           Dahua!NoEntry, NoEntry, Dahua!history, history
  <2> QED BY <2>1 DEF Destroys
<1> QED BY <1>1, <1>2, DahuaList, DahuaCalls DEF Dahua!Next, Dahua!StreamsStep, Dahua!deviceVars,
                                                 deviceVars, DeviceSteps
\* The channel a device answers for is one of its own.

LEMMA PsiaAnswers ==
  ASSUME NEW c \in Channels \cup {AnyChannel}, NEW d
  PROVE  Psia!Answers(d, c) \subseteq Channels \cup {None}
<1>1. Psia!GetDeviceChannels \subseteq SUBSET Channels
  BY DEF Psia!GetDeviceChannels, Psia!SendHTTPRequest
<1>2. \A p : Psia!GetStreamUri(d, p) \subseteq {p, None}
  BY DEF Psia!GetStreamUri, Psia!SendHTTPRequest
<1> QED BY <1>1, <1>2 DEF Psia!Answers

LEMMA PsiaList ==
  ASSUME Psia!DevicesStep
  PROVE  ListSteps
<1> USE DEF Psia!pullVars, pullVars, Psia!media, Psia!process, media, process, Psia!history,
            history, Psia!Asking, Asking, Psia!At, At
<1>1. Psia!HandleDiscoverPSIADevices => \E ds \in SUBSET Devices, k \in Chosen : Put(ds, k)
  <2>1. \A ds, k : Psia!Put(ds, k) => Put(ds, k)
    BY DEF Psia!Put, Put, Psia!Device, Device
  <2>2. \A ds \in Psia!DiscoverDevicesHTTP : ds \in SUBSET Devices
    BY DEF Psia!DiscoverDevicesHTTP
  <2> QED BY <2>1, <2>2 DEF Psia!HandleDiscoverPSIADevices, Psia!DiscoverDevices, Chosen
<1>2. Psia!HandleAddPSIADevice => \E ds \in SUBSET Devices, k \in Chosen : Put(ds, k)
  <2>1. \A ds, k : Psia!Put(ds, k) => Put(ds, k)
    BY DEF Psia!Put, Put, Psia!Device, Device
  <2>2. \A d \in Devices : {d} \in SUBSET Devices
    OBVIOUS
  <2> QED BY <2>1, <2>2 DEF Psia!HandleAddPSIADevice, Psia!AddDevice, Chosen
<1>3. Psia!HandleDeletePSIADevice => \E d \in Devices : Erase(d)
  BY DEF Psia!HandleDeletePSIADevice, Psia!RemoveDevice, Psia!Erase, Erase, Psia!NoDevice, NoDevice
<1>4. Psia!UpdateDeviceCredentials => \E d \in Devices, k \in Creds : Update(d, k)
  BY DEF Psia!UpdateDeviceCredentials, Psia!Update, Update, Psia!Updated, Updated
<1> QED BY <1>1, <1>2, <1>3, <1>4 DEF Psia!DevicesStep, ListSteps

LEMMA PsiaCalls ==
  ASSUME Calls, gateway = "psia", NEW t \in Threads, Psia!Call(t)
  PROVE  DeviceCall(t)
<1> USE DEF Psia!At, Psia!InFlight, Psia!Free, Psia!Idle, Psia!Move, Psia!Return, Psia!Unlock,
            Psia!media, Psia!process, Psia!history, Psia!HasProcess, Psia!Finish, Psia!Entry,
            Psia!Pull, Psia!deviceVars, At, InFlight, Free, Idle, Move, Return, Unlock, media,
            process, history, HasProcess, Finish, Entry, Pull, deviceVars
<1>1. Psia!Start(t) => BeginDevice(t)
  BY DEF Psia!Start, Psia!BeginDevice, BeginDevice, Psia!Begin, Begin, Psia!Busy, Busy,
         Psia!Starting, Starting
<1>2. Psia!CheckStreamExists(t) => Checks(t)
  <2>1. Psia!CheckStreamExists(t) => Check(t, HasProcess(call[t].stream), ~HasProcess(call[t].stream))
    BY DEF Psia!DeleteStreams, DeleteStreams, Psia!WithoutProxy, WithoutProxy, Psia!StopProcesses,
           StopProcesses, Psia!CheckStreamExists, Psia!Check, Check, Psia!Runs, Runs
  <2> QED BY <2>1 DEF Checks
<1>3. Psia!Lock(t) => Lock(t)
  BY DEF Psia!Lock, Lock
<1>4. Psia!Process(t) => Process(t)
  BY DEF Psia!WithoutProxy, WithoutProxy, Psia!StartProcess, StartProcess, Psia!Process, Process,
         Psia!ProxySends, ProxySends, Psia!ProxyFails, ProxyFails, Psia!NoProxy, NoProxy,
         Psia!Transcode, Transcode, Psia!Added, Added
<1>5. Psia!HandleGetPSIADeviceRTSPURLs(t) => \E d \in Devices : Ask(t, d)
  BY DEF Psia!HandleGetPSIADeviceRTSPURLs, Psia!Ask, Ask
<1>6. Psia!Look(t) => Look(t)
  BY DEF Psia!Look, Look, Psia!Found, Found
<1>7. Psia!GetDeviceRTSPURLs(t) => At(t, "ask") /\ \E c \in Channels \cup {None} : Answer(t, c)
  <2>1. \A c : Psia!Answer(t, c) => Answer(t, c)
    BY DEF Psia!Answer, Answer, Psia!Found, Found, Psia!Address, Address
  <2>2. ASSUME At(t, "ask") PROVE call[t].asked.chan \in Channels \cup {AnyChannel}
    <3>1. call[t].asked \in Asked
      BY <2>2, CallParts DEF Calls
    <3> QED BY <3>1, AskedParts
  <2> QED BY <2>1, <2>2, PsiaAnswers DEF Psia!GetDeviceRTSPURLs
<1> QED BY <1>1, <1>2, <1>3, <1>4, <1>5, <1>6, <1>7 DEF Psia!Call, Psia!StartDeviceStream,
                                                        DeviceCall

LEMMA PsiaSteps ==
  ASSUME Calls, gateway = "psia", Psia!Next
  PROVE  DeviceSteps
<1>1. Psia!StopDeviceStream => \E s \in Streams : Stop(s, TRUE)
  BY DEF Psia!DeleteStreams, DeleteStreams, Psia!StopProcesses, StopProcesses,
         Psia!StopDeviceStream, Psia!Stop, Stop, Psia!WithoutProxy, WithoutProxy, Psia!NoEntry,
         NoEntry, Psia!Free, Free, Psia!media, Psia!process, media, process
<1>2. Psia!Destructor => Destroys
  <2>1. Psia!Destructor => Destroy(HadNone)
    BY DEF Psia!DeleteStreams, DeleteStreams, Psia!WithoutProxy, WithoutProxy, Psia!StopProcesses,
           StopProcesses, Psia!Destructor, Psia!Destroy, Destroy, Psia!HadNone, HadNone,
           Psia!HasProcess, HasProcess, Psia!InFlight, InFlight, Psia!NoEntry, NoEntry,
           Psia!history, history
  <2> QED BY <2>1 DEF Destroys
<1> QED BY <1>1, <1>2, PsiaList, PsiaCalls DEF Psia!Next, Psia!StreamsStep, Psia!deviceVars,
                                               deviceVars, DeviceSteps

-----------------------------------------------------------------------------
(* The gateways that are given an address.                                 *)

Sourceless == {"dash", "quic"}     \* those without proxies

SourceChecks(t) ==
  LET kills == HasProcess(call[t].stream) IN
  IF gateway \in Sourceless THEN Check(t, kills, FALSE) ELSE Check(t, kills, TRUE)

SourceBegins(t) == BeginPull(t) \/ SourceChecks(t) \/ LockAndPull(t) \/ NoProxy(t)

SourceCall(t) ==
  \/ SourceBegins(t) \/ Transcode(t)
  \/ gateway \notin Sourceless /\ Process(t)

SourceStops(s) == IF gateway \in Sourceless THEN Stop(s, FALSE) ELSE Stop(s, TRUE)

SourceLooks ==
  \E s \in Streams :
    IF gateway \in Sourceless THEN Observe(s, ByProcess(s))
    ELSE Observe(s, CheckIsRunning(s)) \/ Observe(s, CheckStatus(s))

SourceEnds ==
  Destroy(IF gateway \in Sourceless THEN {}
          ELSE IF gateway = "httpflv" THEN {s \in Streams : streams[s].here} ELSE HadNone)

SourceSteps ==
  (\E t \in Threads : SourceCall(t)) \/ (\E s \in Streams : SourceStops(s)) \/ SourceLooks \/ SourceEnds

LEMMA RtmpCalls ==
  ASSUME gateway = "rtmp", NEW t \in Threads, Rtmp!Start(t)
  PROVE  SourceCall(t)
<1> USE DEF Rtmp!At, Rtmp!InFlight, Rtmp!Free, Rtmp!Idle, Rtmp!Move, Rtmp!Return, Rtmp!Unlock,
            Rtmp!media, Rtmp!process, Rtmp!history, Rtmp!HasProcess, Rtmp!Finish, Rtmp!Entry,
            Rtmp!Pull, At, InFlight, Free, Idle, Move, Return, Unlock, media, process, history,
            HasProcess, Finish, Entry, Pull
<1>1. Rtmp!BeginPull(t) => BeginPull(t)
  BY DEF Rtmp!BeginPull, BeginPull, Rtmp!Begin, Begin, Rtmp!Busy, Busy, Rtmp!Starting, Starting,
         Rtmp!Address, Address
<1>2. Rtmp!CheckStreamExists(t) => SourceChecks(t)
  <2>1. Rtmp!CheckStreamExists(t) => Check(t, HasProcess(call[t].stream), TRUE)
    BY DEF Rtmp!DeleteStreams, DeleteStreams, Rtmp!WithoutProxy, WithoutProxy, Rtmp!StopProcesses,
           StopProcesses, Rtmp!CheckStreamExists, Rtmp!Check, Check, Rtmp!Runs, Runs
  <2> QED BY <2>1 DEF SourceChecks, Sourceless
<1>3. Rtmp!LockAndPull(t) => LockAndPull(t)
  BY DEF Rtmp!LockAndPull, LockAndPull
<1>4. Rtmp!NoProxy(t) => NoProxy(t)
  BY DEF Rtmp!NoProxy, NoProxy
<1>5. Rtmp!Transcode(t) => Transcode(t)
  BY DEF Rtmp!StartProcess, StartProcess, Rtmp!Transcode, Transcode
<1>6. Rtmp!Process(t) => Process(t)
  BY <1>4, <1>5 DEF Rtmp!WithoutProxy, WithoutProxy, Rtmp!Process, Process, Rtmp!ProxySends,
                    ProxySends, Rtmp!ProxyFails, ProxyFails, Rtmp!Added, Added
<1> QED BY <1>1, <1>2, <1>3, <1>4, <1>5, <1>6 DEF Rtmp!Start, SourceBegins, SourceCall, Sourceless

LEMMA RtmpSteps ==
  ASSUME gateway = "rtmp", Rtmp!Next
  PROVE  SourceSteps
<1> USE DEF Rtmp!Free, Rtmp!media, Rtmp!process, Rtmp!history, Rtmp!HasProcess, Rtmp!Busy,
            Rtmp!Starting, Rtmp!InFlight, Rtmp!Runs, Rtmp!Lives, Free, media, process, history,
            HasProcess, Busy, Starting, InFlight, Runs, Lives
<1>1. Rtmp!StopStream => \E s \in Streams : SourceStops(s)
  <2>1. \A s \in Streams : Rtmp!Stop(s, TRUE) => Stop(s, TRUE)
    BY DEF Rtmp!DeleteStreams, DeleteStreams, Rtmp!StopProcesses, StopProcesses, Rtmp!Stop, Stop,
           Rtmp!WithoutProxy, WithoutProxy, Rtmp!NoEntry, NoEntry
  <2> QED BY <2>1 DEF Rtmp!StopStream, SourceStops, Sourceless
<1>2. Rtmp!IsRunning \/ Rtmp!GetStatus => SourceLooks
  <2>1. \A s \in Streams : Rtmp!Observe(s, Rtmp!CheckIsRunning(s)) => Observe(s, CheckIsRunning(s))
    BY DEF Rtmp!Checked, Checked, Rtmp!Sees, Sees, Rtmp!Observe, Observe, Rtmp!CheckIsRunning,
           CheckIsRunning
  <2>2. \A s \in Streams : Rtmp!Observe(s, Rtmp!CheckStatus(s)) => Observe(s, CheckStatus(s))
    BY DEF Rtmp!Checked, Checked, Rtmp!Sees, Sees, Rtmp!Observe, Observe, Rtmp!CheckStatus,
           CheckStatus, Rtmp!CheckIsRunning, CheckIsRunning
  <2> QED BY <2>1, <2>2 DEF Rtmp!IsRunning, Rtmp!GetStatus, SourceLooks, Sourceless
<1>3. Rtmp!Destructor => SourceEnds
  <2>1. Rtmp!Destructor => Destroy(HadNone)
    BY DEF Rtmp!DeleteStreams, DeleteStreams, Rtmp!WithoutProxy, WithoutProxy, Rtmp!StopProcesses,
           StopProcesses, Rtmp!Destructor, Rtmp!Destroy, Destroy, Rtmp!HadNone, HadNone,
           Rtmp!InFlight, InFlight, Rtmp!NoEntry, NoEntry
  <2> QED BY <2>1 DEF SourceEnds, Sourceless
<1> QED BY <1>1, <1>2, <1>3, RtmpCalls DEF Rtmp!Next, SourceSteps

LEMMA HlsCalls ==
  ASSUME gateway = "hls", NEW t \in Threads, Hls!Start(t)
  PROVE  SourceCall(t)
<1> USE DEF Hls!At, Hls!InFlight, Hls!Free, Hls!Idle, Hls!Move, Hls!Return, Hls!Unlock, Hls!media,
            Hls!process, Hls!history, Hls!HasProcess, Hls!Finish, Hls!Entry, Hls!Pull, At,
            InFlight, Free, Idle, Move, Return, Unlock, media, process, history, HasProcess,
            Finish, Entry, Pull
<1>1. Hls!BeginPull(t) => BeginPull(t)
  BY DEF Hls!BeginPull, BeginPull, Hls!Begin, Begin, Hls!Busy, Busy, Hls!Starting, Starting,
         Hls!Address, Address
<1>2. Hls!CheckStreamExists(t) => SourceChecks(t)
  <2>1. Hls!CheckStreamExists(t) => Check(t, HasProcess(call[t].stream), TRUE)
    BY DEF Hls!DeleteStreams, DeleteStreams, Hls!WithoutProxy, WithoutProxy, Hls!StopProcesses,
           StopProcesses, Hls!CheckStreamExists, Hls!Check, Check, Hls!Runs, Runs
  <2> QED BY <2>1 DEF SourceChecks, Sourceless
<1>3. Hls!LockAndPull(t) => LockAndPull(t)
  BY DEF Hls!LockAndPull, LockAndPull
<1>4. Hls!NoProxy(t) => NoProxy(t)
  BY DEF Hls!NoProxy, NoProxy
<1>5. Hls!Transcode(t) => Transcode(t)
  BY DEF Hls!StartProcess, StartProcess, Hls!Transcode, Transcode
<1> QED BY <1>1, <1>2, <1>3, <1>4, <1>5 DEF Hls!Start, SourceBegins, SourceCall, Sourceless

LEMMA HlsSteps ==
  ASSUME gateway = "hls", Hls!Next
  PROVE  SourceSteps
<1> USE DEF Hls!Free, Hls!media, Hls!process, Hls!history, Hls!HasProcess, Hls!Busy, Hls!Starting,
            Hls!InFlight, Hls!Runs, Hls!Lives, Free, media, process, history, HasProcess, Busy,
            Starting, InFlight, Runs, Lives
<1>1. Hls!StopStream => \E s \in Streams : SourceStops(s)
  <2>1. \A s \in Streams : Hls!Stop(s, TRUE) => Stop(s, TRUE)
    BY DEF Hls!DeleteStreams, DeleteStreams, Hls!StopProcesses, StopProcesses, Hls!Stop, Stop,
           Hls!WithoutProxy, WithoutProxy, Hls!NoEntry, NoEntry
  <2> QED BY <2>1 DEF Hls!StopStream, SourceStops, Sourceless
<1>2. Hls!IsRunning \/ Hls!GetStatus => SourceLooks
  <2>1. \A s \in Streams : Hls!Observe(s, Hls!CheckIsRunning(s)) => Observe(s, CheckIsRunning(s))
    BY DEF Hls!Checked, Checked, Hls!Sees, Sees, Hls!Observe, Observe, Hls!CheckIsRunning,
           CheckIsRunning
  <2>2. \A s \in Streams : Hls!Observe(s, Hls!CheckStatus(s)) => Observe(s, CheckStatus(s))
    BY DEF Hls!Checked, Checked, Hls!Sees, Sees, Hls!Observe, Observe, Hls!CheckStatus,
           CheckStatus, Hls!CheckIsRunning, CheckIsRunning
  <2> QED BY <2>1, <2>2 DEF Hls!IsRunning, Hls!GetStatus, SourceLooks, Sourceless
<1>3. Hls!Destructor => SourceEnds
  <2>1. Hls!Destructor => Destroy(HadNone)
    BY DEF Hls!DeleteStreams, DeleteStreams, Hls!WithoutProxy, WithoutProxy, Hls!StopProcesses,
           StopProcesses, Hls!Destructor, Hls!Destroy, Destroy, Hls!HadNone, HadNone,
           Hls!InFlight, InFlight, Hls!NoEntry, NoEntry
  <2> QED BY <2>1 DEF SourceEnds, Sourceless
<1> QED BY <1>1, <1>2, <1>3, HlsCalls DEF Hls!Next, SourceSteps

LEMMA HttpFlvCalls ==
  ASSUME gateway = "httpflv", NEW t \in Threads, HttpFlv!Start(t)
  PROVE  \/ HttpFlv!UnlockAgain(t)
         \/ (HttpFlv!Refuse(t) \/ SourceCall(t)) /\ UNCHANGED stolen
<1> USE DEF HttpFlv!At, HttpFlv!InFlight, HttpFlv!Free, HttpFlv!Idle, HttpFlv!Move,
            HttpFlv!Return, HttpFlv!Unlock, HttpFlv!media, HttpFlv!process, HttpFlv!history,
            HttpFlv!HasProcess, HttpFlv!Finish, HttpFlv!Entry, HttpFlv!Pull, At, InFlight, Free,
            Idle, Move, Return, Unlock, media, process, history, HasProcess, Finish, Entry, Pull
<1>1. HttpFlv!BeginPull(t) => BeginPull(t)
  BY DEF HttpFlv!BeginPull, BeginPull, HttpFlv!Begin, Begin, HttpFlv!Busy, Busy, HttpFlv!Starting,
         Starting, HttpFlv!Address, Address
<1>2. HttpFlv!CheckStreamExists(t) => SourceChecks(t)
  <2>1. HttpFlv!CheckStreamExists(t) => Check(t, HasProcess(call[t].stream), TRUE)
    BY DEF HttpFlv!DeleteStreams, DeleteStreams, HttpFlv!WithoutProxy, WithoutProxy,
           HttpFlv!StopProcesses, StopProcesses, HttpFlv!CheckStreamExists, HttpFlv!Check, Check,
           HttpFlv!Runs, Runs
  <2> QED BY <2>1 DEF SourceChecks, Sourceless
<1>3. HttpFlv!LockAndPull(t) => LockAndPull(t)
  BY DEF HttpFlv!LockAndPull, LockAndPull
<1>4. HttpFlv!NoProxy(t) => NoProxy(t)
  BY DEF HttpFlv!NoProxy, NoProxy
<1>5. HttpFlv!Transcode(t) => Transcode(t)
  BY DEF HttpFlv!StartProcess, StartProcess, HttpFlv!Transcode, Transcode
<1>6. HttpFlv!Process(t) => Process(t)
  BY <1>4, <1>5 DEF HttpFlv!WithoutProxy, WithoutProxy, HttpFlv!Process, Process,
                    HttpFlv!ProxySends, ProxySends, HttpFlv!ProxyFails, ProxyFails, HttpFlv!Added,
                    Added
<1> QED BY <1>1, <1>2, <1>3, <1>4, <1>5, <1>6 DEF HttpFlv!Start, SourceBegins, SourceCall,
                                                  Sourceless

LEMMA HttpFlvSteps ==
  ASSUME gateway = "httpflv", HttpFlv!Next
  PROVE  \/ \E t \in Threads : HttpFlv!UnlockAgain(t)
         \/ (SourceSteps \/ \E t \in Threads : HttpFlv!Refuse(t)) /\ UNCHANGED stolen
<1> USE DEF HttpFlv!Free, HttpFlv!media, HttpFlv!process, HttpFlv!history, HttpFlv!HasProcess,
            HttpFlv!Busy, HttpFlv!Starting, HttpFlv!InFlight, HttpFlv!Runs, HttpFlv!Lives, Free,
            media, process, history, HasProcess, Busy, Starting, InFlight, Runs, Lives
<1>1. HttpFlv!StopStream => \E s \in Streams : SourceStops(s)
  <2>1. \A s \in Streams : HttpFlv!Stop(s, TRUE) => Stop(s, TRUE)
    BY DEF HttpFlv!DeleteStreams, DeleteStreams, HttpFlv!StopProcesses, StopProcesses,
           HttpFlv!Stop, Stop, HttpFlv!WithoutProxy, WithoutProxy, HttpFlv!NoEntry, NoEntry
  <2> QED BY <2>1 DEF HttpFlv!StopStream, SourceStops, Sourceless
<1>2. HttpFlv!IsRunning \/ HttpFlv!GetStatus => SourceLooks
  <2>1. \A s \in Streams : HttpFlv!Observe(s, HttpFlv!CheckIsRunning(s)) => Observe(s, CheckIsRunning(s))
    BY DEF HttpFlv!Checked, Checked, HttpFlv!Sees, Sees, HttpFlv!Observe, Observe,
           HttpFlv!CheckIsRunning, CheckIsRunning
  <2>2. \A s \in Streams : HttpFlv!Observe(s, HttpFlv!CheckStatus(s)) => Observe(s, CheckStatus(s))
    BY DEF HttpFlv!Checked, Checked, HttpFlv!Sees, Sees, HttpFlv!Observe, Observe,
           HttpFlv!CheckStatus, CheckStatus, HttpFlv!CheckIsRunning, CheckIsRunning
  <2> QED BY <2>1, <2>2 DEF HttpFlv!IsRunning, HttpFlv!GetStatus, SourceLooks, Sourceless
<1>3. HttpFlv!Destructor => SourceEnds
  <2>1. HttpFlv!Destructor => Destroy({s \in Streams : streams[s].here})
    BY DEF HttpFlv!DeleteStreams, DeleteStreams, HttpFlv!WithoutProxy, WithoutProxy,
           HttpFlv!StopProcesses, StopProcesses, HttpFlv!Destructor, HttpFlv!Destroy, Destroy,
           HttpFlv!InFlight, InFlight, HttpFlv!NoEntry, NoEntry
  <2> QED BY <2>1 DEF SourceEnds, Sourceless
<1> QED BY <1>1, <1>2, <1>3, HttpFlvCalls DEF HttpFlv!Next, SourceSteps

LEMMA DashCalls ==
  ASSUME gateway = "dash", NEW t \in Threads, Dash!Start(t)
  PROVE  SourceCall(t)
<1> USE DEF Dash!At, Dash!InFlight, Dash!Free, Dash!Idle, Dash!Move, Dash!Return, Dash!Unlock,
            Dash!media, Dash!process, Dash!history, Dash!HasProcess, Dash!Finish, Dash!Entry,
            Dash!Pull, At, InFlight, Free, Idle, Move, Return, Unlock, media, process, history,
            HasProcess, Finish, Entry, Pull
<1>1. Dash!BeginPull(t) => BeginPull(t)
  BY DEF Dash!BeginPull, BeginPull, Dash!Begin, Begin, Dash!Busy, Busy, Dash!Starting, Starting,
         Dash!Address, Address
<1>2. Dash!CheckStreamExists(t) => SourceChecks(t)
  <2>1. Dash!CheckStreamExists(t) => Check(t, HasProcess(call[t].stream), FALSE)
    BY DEF Dash!DeleteStreams, DeleteStreams, Dash!WithoutProxy, WithoutProxy, Dash!StopProcesses,
           StopProcesses, Dash!CheckStreamExists, Dash!Check, Check, Dash!Runs, Runs
  <2> QED BY <2>1 DEF SourceChecks, Sourceless
<1>3. Dash!LockAndPull(t) => LockAndPull(t)
  BY DEF Dash!LockAndPull, LockAndPull
<1>4. Dash!NoProxy(t) => NoProxy(t)
  BY DEF Dash!NoProxy, NoProxy
<1>5. Dash!Transcode(t) => Transcode(t)
  BY DEF Dash!StartProcess, StartProcess, Dash!Transcode, Transcode
<1> QED BY <1>1, <1>2, <1>3, <1>4, <1>5 DEF Dash!Start, SourceBegins, SourceCall, Sourceless

LEMMA DashSteps ==
  ASSUME gateway = "dash", Dash!Next
  PROVE  SourceSteps
<1> USE DEF Dash!Free, Dash!media, Dash!process, Dash!history, Dash!HasProcess, Dash!Busy,
            Dash!Starting, Dash!InFlight, Dash!Runs, Dash!Lives, Free, media, process, history,
            HasProcess, Busy, Starting, InFlight, Runs, Lives
<1>1. Dash!StopStream => \E s \in Streams : SourceStops(s)
  <2>1. \A s \in Streams : Dash!Stop(s, FALSE) => Stop(s, FALSE)
    BY DEF Dash!DeleteStreams, DeleteStreams, Dash!StopProcesses, StopProcesses, Dash!Stop, Stop,
           Dash!WithoutProxy, WithoutProxy, Dash!NoEntry, NoEntry
  <2> QED BY <2>1 DEF Dash!StopStream, SourceStops, Sourceless
<1>2. Dash!IsRunning \/ Dash!GetStatus => SourceLooks
  <2>1. \A s \in Streams : Dash!Observe(s, Dash!ByProcess(s)) => Observe(s, ByProcess(s))
    BY DEF Dash!Sees, Sees, Dash!Observe, Observe, Dash!ByProcess, ByProcess
  <2> QED BY <2>1 DEF Dash!IsRunning, Dash!GetStatus, SourceLooks, Sourceless
<1>3. Dash!Destructor => SourceEnds
  <2>1. Dash!Destructor => Destroy({})
    BY DEF Dash!DeleteStreams, DeleteStreams, Dash!WithoutProxy, WithoutProxy, Dash!StopProcesses,
           StopProcesses, Dash!Destructor, Dash!Destroy, Destroy, Dash!InFlight, InFlight,
           Dash!NoEntry, NoEntry
  <2> QED BY <2>1 DEF SourceEnds, Sourceless
<1> QED BY <1>1, <1>2, <1>3, DashCalls DEF Dash!Next, SourceSteps

LEMMA QuicCalls ==
  ASSUME gateway = "quic", NEW t \in Threads, Quic!Start(t)
  PROVE  \/ SourceBegins(t) /\ UNCHANGED quicVars
         \/ Transcode(t) /\ fed' = fed \ {call[t].stream} /\ UNCHANGED server
         \/ Quic!StartQuicServerMode(t)
<1> USE DEF Quic!At, Quic!InFlight, Quic!Free, Quic!Idle, Quic!Move, Quic!Return, Quic!Unlock,
            Quic!media, Quic!process, Quic!history, Quic!HasProcess, Quic!Finish, Quic!Entry,
            Quic!Pull, At, InFlight, Free, Idle, Move, Return, Unlock, media, process, history,
            HasProcess, Finish, Entry, Pull
<1>1. Quic!BeginPull(t) => BeginPull(t)
  BY DEF Quic!BeginPull, BeginPull, Quic!Begin, Begin, Quic!Busy, Busy, Quic!Starting, Starting,
         Quic!Address, Address
<1>2. Quic!CheckStreamExists(t) => SourceChecks(t)
  <2>1. Quic!CheckStreamExists(t) => Check(t, HasProcess(call[t].stream), FALSE)
    BY DEF Quic!DeleteStreams, DeleteStreams, Quic!WithoutProxy, WithoutProxy, Quic!StopProcesses,
           StopProcesses, Quic!CheckStreamExists, Quic!Check, Check, Quic!Runs, Runs
  <2> QED BY <2>1 DEF SourceChecks, Sourceless
<1>3. Quic!LockAndPull(t) => LockAndPull(t)
  BY DEF Quic!LockAndPull, LockAndPull
<1>4. Quic!NoProxy(t) => NoProxy(t)
  BY DEF Quic!NoProxy, NoProxy
<1>5. Quic!Transcode(t) => Transcode(t)
  BY DEF Quic!StartProcess, StartProcess, Quic!Transcode, Transcode
<1> QED BY <1>1, <1>2, <1>3, <1>4, <1>5 DEF Quic!Start, SourceBegins, Quic!quicVars, quicVars,
                                            Quic!WithoutBridge

LEMMA QuicSteps ==
  ASSUME gateway = "quic", Quic!Next
  PROVE  \/ \E t \in Threads :
              \/ SourceBegins(t) /\ UNCHANGED quicVars
              \/ Transcode(t) /\ fed' = fed \ {call[t].stream} /\ UNCHANGED server
              \/ Quic!StartQuicServerMode(t)
         \/ \E s \in Streams : /\ SourceStops(s) /\ UNCHANGED server
                               /\ fed' = IF streams[s].here THEN fed \ {s} ELSE fed
         \/ SourceLooks /\ UNCHANGED quicVars
         \/ SourceEnds /\ fed' = {} /\ server' = FALSE
         \/ UNCHANGED <<pullVars, server>> /\ fed' \subseteq fed
<1> USE DEF Quic!Free, Quic!media, Quic!process, Quic!history, Quic!HasProcess, Quic!Busy,
            Quic!Starting, Quic!InFlight, Quic!Runs, Quic!Lives, Free, media, process, history,
            HasProcess, Busy, Starting, InFlight, Runs, Lives
<1>1. Quic!StopStream =>
        \E s \in Streams : /\ SourceStops(s) /\ UNCHANGED server
                           /\ fed' = IF streams[s].here THEN fed \ {s} ELSE fed
  <2>1. \A s \in Streams : Quic!Stop(s, FALSE) => Stop(s, FALSE)
    BY DEF Quic!DeleteStreams, DeleteStreams, Quic!StopProcesses, StopProcesses, Quic!Stop, Stop,
           Quic!WithoutProxy, WithoutProxy, Quic!NoEntry, NoEntry
  <2> QED BY <2>1 DEF Quic!StopStream, Quic!StopQuicServerMode, Quic!WithoutBridge, SourceStops,
                      Sourceless
<1>2. Quic!IsRunning \/ Quic!GetStatus => SourceLooks /\ UNCHANGED quicVars
  <2>1. \A s \in Streams : Quic!Observe(s, Quic!ByProcess(s)) => Observe(s, ByProcess(s))
    BY DEF Quic!Sees, Sees, Quic!Observe, Observe, Quic!ByProcess, ByProcess
  <2> QED BY <2>1 DEF Quic!IsRunning, Quic!GetStatus, SourceLooks, Sourceless, Quic!quicVars,
                      quicVars
<1>3. Quic!Destructor => SourceEnds /\ fed' = {} /\ server' = FALSE
  <2>1. Quic!Destructor => Destroy({})
    BY DEF Quic!DeleteStreams, DeleteStreams, Quic!WithoutProxy, WithoutProxy, Quic!StopProcesses,
           StopProcesses, Quic!Destructor, Quic!Destroy, Destroy, Quic!InFlight, InFlight,
           Quic!NoEntry, NoEntry
  <2> QED BY <2>1 DEF SourceEnds, Sourceless, Quic!Destructor, Quic!QuicServerStop
<1>4. Quic!BridgeEnds => UNCHANGED <<pullVars, server>> /\ fed' \subseteq fed
  BY DEF Quic!BridgeEnds, Quic!pullVars, pullVars
<1> QED BY <1>1, <1>2, <1>3, <1>4, QuicCalls DEF Quic!Next

-----------------------------------------------------------------------------
(* Every step keeps the invariant.                                         *)

LEMMA BridgedKept ==
  ASSUME Bridged, UNCHANGED <<gateway, server, fed>>,
         gateway # "quic" \/ \A s \in Streams : streams[s].here => streams'[s].here
  PROVE  Bridged'
BY DEF Bridged

LEMMA CallStream ==
  ASSUME Calls, NEW t \in Threads,
         call[t].pc \in {"check", "lock", "process", "ffmpeg", "refused"}
  PROVE  call[t].stream \in Streams
BY CallParts DEF Calls

\* What only moves a call past asking leaves what is asked.
LEMMA NotAsking ==
  ASSUME Pulled, Credited, NEW t \in Threads, NEW c, ~(c.pc = "ask"),
         UNCHANGED deviceVars, call' = [call EXCEPT ![t] = c]
  PROVE  Credited'
<1>1. call'[t] = c /\ \A u \in Threads \ {t} : call'[u] = call[u]
  BY DEF Pulled, Calls
<1> QED BY <1>1, CreditedKept DEF At

LEMMA ChecksStep ==
  ASSUME Pulled, Credited, NEW t \in Threads,
         NEW kills, NEW deletes, kills = HasProcess(call[t].stream), Check(t, kills, deletes),
         deletes \/ gateway \in DeviceGateways \cup {"dash", "quic"},
         UNCHANGED <<gateway, stolen>>, UNCHANGED deviceVars
  PROVE  Pulled' /\ Credited' /\ \A r \in Streams : SameSource(r)
<1>1. call[t].stream \in Streams /\ call[t].pc = "check"
  BY CallStream DEF Pulled, Check, At
<1>2. Pulled' /\ \A r \in Streams : SameSource(r)
  BY <1>1, CheckStep
<1>3. \/ call' = [call EXCEPT ![t] = Idle]
      \/ call' = [call EXCEPT ![t] = [call[t] EXCEPT !.pc = "lock"]]
  BY DEF Check, Return, Move
<1>4. [call[t] EXCEPT !.pc = "lock"].pc = "lock"
  <2>1. call[t] \in [pc : {"check", "lock"}, stream : Streams, asked : Asked]
    BY <1>1 DEF Pulled, Calls, Shapes, Idle
  <2> QED BY <2>1
<1> QED BY <1>2, <1>3, <1>4, NotAsking DEF Idle

LEMMA BeginsStep ==
  ASSUME Pulled, Credited, NEW t \in Threads, NEW s \in Streams, NEW asked \in Asked,
         Begin(t, s, asked), gateway \in DeviceGateways \/ asked \in Addresses,
         UNCHANGED <<gateway, stolen>>, UNCHANGED deviceVars
  PROVE  Pulled' /\ Credited'
<1> DEFINE x == [pc |-> "check", stream |-> s, asked |-> asked]
<1>1. call' = [call EXCEPT ![t] = x] /\ x.pc = "check"
  BY DEF Begin
<1> QED BY <1>1, BeginStep, NotAsking

\* ProcessStream.
LEMMA ProcessStep ==
  ASSUME Pulled, Credited, NEW t \in Threads, UNCHANGED <<gateway, stolen>>, UNCHANGED deviceVars,
         \/ gateway \notin {"dash", "quic"} /\ (ProxySends(t) \/ ProxyFails(t))
         \/ NoProxy(t) \/ Transcode(t)
  PROVE  Pulled' /\ Credited'
<1>1. call[t].stream \in Streams /\ call[t].pc \in {"process", "ffmpeg"}
  BY CallStream DEF Pulled, ProxySends, ProxyFails, NoProxy, Transcode, At
<1>2. Pulled'
  BY <1>1, ProxySendsStep, ProxyFailsStep, NoProxyStep, TranscodeStep
<1>3. \/ call' = [call EXCEPT ![t] = Idle]
      \/ call[t].pc = "process" /\ call' = [call EXCEPT ![t] = [call[t] EXCEPT !.pc = "ffmpeg"]]
  BY DEF ProxySends, ProxyFails, NoProxy, Transcode, Finish, Return, Move, At
<1>4. call[t].pc = "process" => [call[t] EXCEPT !.pc = "ffmpeg"].pc = "ffmpeg"
  <2>1. call[t].pc = "process" =>
          call[t] \in [pc : {"process", "ffmpeg", "refused"}, stream : Streams, asked : Asked, url : Addresses]
    BY DEF Pulled, Calls, Shapes, Idle
  <2> QED BY <2>1
<1> QED BY <1>2, <1>3, <1>4, NotAsking DEF Idle

\* Steps of no call.
LEMMA CallsAlone ==
  ASSUME Credited, UNCHANGED call, UNCHANGED deviceVars
  PROVE  Credited'
BY CreditedKept

LEMMA PulledAlone ==
  ASSUME Pulled, UNCHANGED pullVars, UNCHANGED <<gateway, stolen>>
  PROVE  Pulled'
<1> USE DEF pullVars, media, process, history
<1>1. Calls' /\ Locked'
  BY DEF Pulled, Calls, Locked, InFlight, Past
<1>2. Tables'
  BY DEF Pulled, Tables, StreamsOK, Statuses
<1>3. ASSUME NEW s \in Streams \ overlapped' PROVE Sound(s)'
  <2>1. /\ Sound(s) /\ Sole(s)'
        /\ \A u \in Threads : Going(u, s)' = Going(u, s)
    BY <1>3 DEF Pulled, Sound, Sole, Starting, Going, At, InFlight
  <2> QED BY <2>1, SoundKept
<1> QED BY <1>1, <1>2, <1>3 DEF Pulled

LEMMA DeviceCallStep ==
  ASSUME Pulled, Credited, NEW t \in Threads, DeviceCall(t),
         gateway \in DeviceGateways, UNCHANGED <<gateway, stolen>>
  PROVE  Pulled' /\ Credited'
<1> USE DEF DeviceGateways
<1>1. CASE BeginDevice(t) /\ UNCHANGED deviceVars
  <2>1. PICK s \in Streams, d \in Devices, c \in Channels \cup {AnyChannel} :
          Begin(t, s, [dev |-> d, chan |-> c])
    BY <1>1 DEF BeginDevice
  <2>2. [dev |-> d, chan |-> c] \in Asked
    BY DEF Asked
  <2> QED BY <1>1, <2>1, <2>2, BeginsStep
<1>2. CASE Checks(t) /\ UNCHANGED deviceVars
  <2>1. PICK kills \in BOOLEAN, deletes \in BOOLEAN :
          kills = HasProcess(call[t].stream) /\ Check(t, kills, deletes)
    <3> PICK kills \in BOOLEAN : kills = HasProcess(call[t].stream)
      BY DEF HasProcess
    <3>1. CASE gateway = "onvif"
      BY <1>2, <3>1 DEF Checks
    <3>2. CASE gateway # "onvif"
      BY <1>2, <3>2 DEF Checks
    <3> QED BY <3>1, <3>2
  <2> QED BY <1>2, <2>1, ChecksStep
<1>3. CASE Lock(t) /\ UNCHANGED deviceVars
  <2>1. call[t] \in [pc : {"check", "lock"}, stream : Streams, asked : Asked]
    BY <1>3 DEF Pulled, Calls, Shapes, Idle, Lock, At
  <2>2. call' = [call EXCEPT ![t] = [call[t] EXCEPT !.pc = "look"]]
        /\ [call[t] EXCEPT !.pc = "look"].pc = "look"
    BY <1>3, <2>1 DEF Lock, Move
  <2> QED BY <1>3, <2>2, LockStep, NotAsking
<1>4. CASE Process(t) /\ UNCHANGED deviceVars
  BY <1>4, ProcessStep DEF Process
<1>5. ASSUME NEW d \in Devices, Ask(t, d) PROVE Pulled' /\ Credited'
  <2> DEFINE x == [pc |-> "look", stream |-> None, asked |-> [dev |-> d, chan |-> AnyChannel]]
  <2>1. call' = [call EXCEPT ![t] = x] /\ x.pc = "look" /\ UNCHANGED deviceVars
    BY <1>5 DEF Ask
  <2> QED BY <1>5, <2>1, AskStep, NotAsking
<1>6. CASE Look(t)
  BY <1>6, LookStep
<1>7. ASSUME At(t, "ask"), NEW c \in Channels \cup {None}, Answer(t, c) PROVE Pulled' /\ Credited'
  BY <1>7, AnswerStep
<1> QED BY <1>1, <1>2, <1>3, <1>4, <1>5, <1>6, <1>7 DEF DeviceCall

LEMMA DeviceStepsKeep ==
  ASSUME Pulled, Credited, DeviceSteps, gateway \in DeviceGateways, UNCHANGED <<gateway, stolen>>
  PROVE  Pulled' /\ Credited'
<1>1. ASSUME ListSteps PROVE Pulled' /\ Credited'
  <2>1. Credited'
    BY <1>1, PutStep, EraseStep, UpdateStep DEF ListSteps
  <2>2. UNCHANGED pullVars
    BY <1>1 DEF ListSteps, Put, Erase, Update
  <2> QED BY <2>1, <2>2, PulledAlone
<1>2. ASSUME NEW s \in Streams, Stop(s, TRUE), UNCHANGED deviceVars PROVE Pulled' /\ Credited'
  <2>1. PICK deletes \in BOOLEAN : deletes /\ Stop(s, deletes)
    BY <1>2
  <2>2. UNCHANGED call
    BY <1>2 DEF Stop
  <2> QED BY <1>2, <2>1, <2>2, StopStep, CallsAlone
<1>3. ASSUME Destroys, UNCHANGED deviceVars PROVE Pulled' /\ Credited'
  <2>1. PICK deleted : Destroy(deleted) /\ (gateway = "onvif" \/ HadNone \subseteq deleted)
    BY <1>3 DEF Destroys
  <2>2. UNCHANGED call
    BY <2>1 DEF Destroy
  <2> QED BY <1>3, <2>1, <2>2, DestroyStep, CallsAlone
<1> QED BY <1>1, <1>2, <1>3, DeviceCallStep DEF DeviceSteps

LEMMA SourceBeginsStep ==
  ASSUME Pulled, Credited, NEW t \in Threads, SourceBegins(t), gateway \notin DeviceGateways,
         UNCHANGED <<gateway, stolen>>, UNCHANGED deviceVars
  PROVE  Pulled' /\ Credited' /\ \A r \in Streams : SameSource(r)
<1>1. CASE BeginPull(t)
  <2>1. PICK s \in Streams, d \in Devices, c \in Channels : Begin(t, s, Address(d, c, Anonymous))
    BY <1>1 DEF BeginPull
  <2>2. Address(d, c, Anonymous) \in Addresses /\ Address(d, c, Anonymous) \in Asked
    BY DEF Asked, Addresses, Address
  <2>3. UNCHANGED streams
    BY <2>1 DEF Begin, media, process
  <2> QED BY <2>1, <2>2, <2>3, BeginsStep DEF SameSource
<1>2. CASE SourceChecks(t)
  <2>1. PICK kills \in BOOLEAN, deletes \in BOOLEAN :
          /\ kills = HasProcess(call[t].stream) /\ Check(t, kills, deletes)
          /\ deletes \/ gateway \in Sourceless
    <3> PICK kills \in BOOLEAN : kills = HasProcess(call[t].stream)
      BY DEF HasProcess
    <3>1. CASE gateway \in Sourceless
      BY <1>2, <3>1 DEF SourceChecks
    <3>2. CASE gateway \notin Sourceless
      BY <1>2, <3>2 DEF SourceChecks
    <3> QED BY <3>1, <3>2
  <2> QED BY <2>1, ChecksStep DEF Sourceless
<1>3. CASE LockAndPull(t)
  <2> DEFINE x == [pc |-> "process", stream |-> call[t].stream, asked |-> call[t].asked,
                   url |-> call[t].asked]
  <2>1. call' = [call EXCEPT ![t] = x] /\ x.pc = "process" /\ UNCHANGED streams
    BY <1>3 DEF LockAndPull, Pull, media, process, Pulled, Calls
  <2> QED BY <1>3, <2>1, LockAndPullStep, NotAsking DEF SameSource
<1>4. CASE NoProxy(t)
  <2>1. UNCHANGED streams
    BY <1>4 DEF NoProxy, media, process
  <2> QED BY <1>4, <2>1, ProcessStep DEF SameSource
<1> QED BY <1>1, <1>2, <1>3, <1>4 DEF SourceBegins

LEMMA SourceLooksStep ==
  ASSUME Pulled, Credited, SourceLooks, gateway \in {"rtmp", "hls", "httpflv", "dash", "quic"},
         UNCHANGED <<gateway, stolen>>, UNCHANGED deviceVars
  PROVE  Pulled' /\ Credited' /\ \A r \in Streams : streams[r].here => streams'[r].here
<1>1. PICK s \in Streams :
        \E entries : Observe(s, entries) /\ \A e \in entries : Looked(s, e)
  <2>1. PICK s \in Streams :
          IF gateway \in Sourceless THEN Observe(s, ByProcess(s))
          ELSE Observe(s, CheckIsRunning(s)) \/ Observe(s, CheckStatus(s))
    BY DEF SourceLooks
  <2>2. streams[s].here
    BY <2>1 DEF Observe
  <2>3. CASE gateway \in Sourceless
    BY <2>1, <2>2, <2>3, ByProcessLooked DEF Pulled, Sourceless
  <2>4. CASE gateway \notin Sourceless
    BY <2>1, <2>2, <2>4, CheckedLooked DEF Pulled, Sourceless
  <2> QED BY <2>3, <2>4
<1>2. PICK entries : Observe(s, entries) /\ \A e \in entries : Looked(s, e)
  BY <1>1
<1>3. UNCHANGED call
  BY <1>2 DEF Observe
<1>4. gateway \notin DeviceGateways
  BY DEF DeviceGateways
<1> QED BY <1>2, <1>3, <1>4, ObserveStep, CallsAlone

LEMMA SourceStopsStep ==
  ASSUME Pulled, Credited, NEW s \in Streams, SourceStops(s),
         UNCHANGED <<gateway, stolen>>, UNCHANGED deviceVars
  PROVE  /\ Pulled' /\ Credited'
         /\ ~streams[s].here => UNCHANGED streams
         /\ \A r \in Streams \ {s} : streams'[r] = streams[r]
<1>1. PICK deletes \in BOOLEAN : Stop(s, deletes) /\ (deletes \/ gateway \in {"dash", "quic"})
  BY DEF SourceStops, Sourceless
<1>2. UNCHANGED call
  BY <1>1 DEF Stop
<1> QED BY <1>1, <1>2, StopStep, CallsAlone

LEMMA SourceEndsStep ==
  ASSUME Pulled, Credited, SourceEnds, UNCHANGED <<gateway, stolen>>, UNCHANGED deviceVars
  PROVE  Pulled' /\ Credited'
<1>1. PICK deleted : Destroy(deleted) /\ (gateway \in {"dash", "quic"} \/ HadNone \subseteq deleted)
  BY DEF SourceEnds, Sourceless, HadNone
<1>2. UNCHANGED call
  BY <1>1 DEF Destroy
<1> QED BY <1>1, <1>2, DestroyStep, CallsAlone

LEMMA SourceStepsKeep ==
  ASSUME Pulled, Credited, SourceSteps, gateway \in {"rtmp", "hls", "httpflv", "dash"},
         UNCHANGED <<gateway, stolen>>, UNCHANGED deviceVars
  PROVE  Pulled' /\ Credited'
<1>1. ASSUME NEW t \in Threads, SourceCall(t) PROVE Pulled' /\ Credited'
  BY <1>1, SourceBeginsStep, ProcessStep DEF SourceCall, Sourceless, Process, DeviceGateways
<1> QED BY <1>1, SourceLooksStep, SourceStopsStep, SourceEndsStep DEF SourceSteps

LEMMA HttpFlvNext ==
  ASSUME IInv, gateway = "httpflv", HttpFlv!Next, UNCHANGED gateway, UNCHANGED deviceVars
  PROVE  Pulled' /\ Credited'
<1>1. ASSUME NEW t \in Threads, HttpFlv!UnlockAgain(t) PROVE Pulled' /\ Credited'
  <2>1. call' = [call EXCEPT ![t] = Idle]
    BY <1>1 DEF HttpFlv!UnlockAgain, HttpFlv!Return, HttpFlv!Idle, Idle
  <2> QED BY <1>1, <2>1, UnlockAgainStep, NotAsking DEF IInv, Idle
<1>2. ASSUME NEW t \in Threads, HttpFlv!Refuse(t), UNCHANGED stolen PROVE Pulled' /\ Credited'
  <2>1. /\ call[t].pc = "process"
        /\ call' = [call EXCEPT ![t] = [call[t] EXCEPT !.pc = "refused"]]
    BY <1>2 DEF HttpFlv!Refuse, HttpFlv!At, HttpFlv!Move
  <2>2. call[t] \in [pc : {"process", "ffmpeg", "refused"}, stream : Streams, asked : Asked, url : Addresses]
    BY <2>1 DEF IInv, Pulled, Calls, Shapes, Idle
  <2>3. [call[t] EXCEPT !.pc = "refused"].pc = "refused" /\ call[t].stream \in Streams
    BY <2>2
  <2> QED BY <1>2, <2>1, <2>3, RefuseStep, NotAsking DEF IInv
<1>3. CASE SourceSteps /\ UNCHANGED stolen
  BY <1>3, SourceStepsKeep DEF IInv
<1> QED BY <1>1, <1>2, <1>3, HttpFlvSteps

LEMMA QuicNext ==
  ASSUME IInv, gateway = "quic", Quic!Next, UNCHANGED <<gateway, stolen>>, UNCHANGED deviceVars
  PROVE  IInv'
<1> USE DEF IInv, quicVars
<1>1. gateway \notin DeviceGateways
  BY DEF DeviceGateways
<1>2. ASSUME NEW t \in Threads, SourceBegins(t), UNCHANGED quicVars PROVE IInv'
  BY <1>1, <1>2, SourceBeginsStep, BridgedKept DEF SameSource
<1>3. ASSUME NEW t \in Threads, Transcode(t), fed' = fed \ {call[t].stream}, UNCHANGED server
      PROVE  IInv'
  <2>1. Pulled' /\ Credited'
    BY <1>3, ProcessStep
  <2>2. PICK s \in Streams : s = call[t].stream
    BY <1>3, CallStream DEF Pulled, Transcode, At
  <2>3. \A r \in Streams \ {s} : streams'[r] = streams[r]
    BY <1>3, <2>2, TranscodeStep
  <2>4. Bridged'
    BY <1>3, <2>2, <2>3 DEF Bridged
  <2> QED BY <2>1, <2>4
<1>4. ASSUME NEW t \in Threads, Quic!StartQuicServerMode(t) PROVE IInv'
  <2>1. Pulled' /\ Bridged'
    BY <1>4, QuicServerStep
  <2>2. call' = [call EXCEPT ![t] = Idle]
    BY <1>4 DEF Quic!StartQuicServerMode, Quic!Finish, Quic!Return, Quic!Idle, Idle
  <2> QED BY <2>1, <2>2, NotAsking DEF Idle
<1>5. ASSUME NEW s \in Streams, SourceStops(s), UNCHANGED server,
             fed' = IF streams[s].here THEN fed \ {s} ELSE fed
      PROVE  IInv'
  <2>1. /\ Pulled' /\ Credited'
        /\ ~streams[s].here => UNCHANGED streams
        /\ \A r \in Streams \ {s} : streams'[r] = streams[r]
    BY <1>5, SourceStopsStep
  <2>2. Bridged'
    BY <1>5, <2>1 DEF Bridged
  <2> QED BY <2>1, <2>2
<1>6. CASE SourceLooks /\ UNCHANGED quicVars
  BY <1>6, SourceLooksStep, BridgedKept
<1>7. CASE SourceEnds /\ fed' = {} /\ server' = FALSE
  BY <1>7, SourceEndsStep DEF Bridged
<1>8. CASE UNCHANGED <<pullVars, server>> /\ fed' \subseteq fed
  <2>1. Pulled' /\ UNCHANGED call /\ UNCHANGED streams
    BY <1>8, PulledAlone DEF pullVars, media, process
  <2>2. Credited'
    BY <2>1, CallsAlone
  <2>3. Bridged'
    BY <1>8, <2>1 DEF Bridged
  <2> QED BY <2>1, <2>2, <2>3
<1> QED BY <1>2, <1>3, <1>4, <1>5, <1>6, <1>7, <1>8, QuicSteps

LEMMA Initially == Init => IInv
<1> SUFFICES ASSUME Init PROVE IInv
  OBVIOUS
<1> USE DEF Init, PullInit, DeviceInit
<1>1. call = [t \in Threads |-> Idle] /\ Idle \in Shapes
  BY DEF Shapes
<1>2. \A t \in Threads : ~InFlight(t) /\ ~Past(t) /\ ~At(t, "ask")
  BY <1>1 DEF InFlight, Past, At, Idle
<1>3. Calls
  BY <1>1, <1>2 DEF Calls
<1>4. Locked
  BY <1>2, PullGatewayAssumption DEF Locked
<1>5. Tables
  BY PullGatewayAssumption DEF Tables, StreamsOK
<1>6. \A s \in Streams : Sound(s)
  BY <1>2 DEF Sound, Sole, Cleared, Going, Starting, OwnProcess, OwnProxy, Shown
<1>7. Bridged
  BY DEF Bridged
<1>8. Credited
  BY <1>2 DEF Credited, DevicesOK, CacheOfCredentials, AskedWithPresent, NoDevice
<1> QED BY <1>3, <1>4, <1>5, <1>6, <1>7, <1>8 DEF IInv, Pulled

LEMMA Inductive == IInv /\ [Next]_all => IInv'
<1> SUFFICES ASSUME IInv, [Next]_all PROVE IInv'
  OBVIOUS
<1>1. CASE UNCHANGED all
  <2>1. UNCHANGED pullVars /\ UNCHANGED deviceVars /\ UNCHANGED <<gateway, stolen, server, fed>>
        /\ UNCHANGED call /\ UNCHANGED streams
    BY <1>1 DEF all, quicVars, pullVars, media, process
  <2> QED BY <2>1, PulledAlone, CallsAlone, BridgedKept DEF IInv
<1>2. ASSUME UNCHANGED gateway, Devicelike, UNCHANGED <<stolen, quicVars>> PROVE IInv'
  <2>1. ASSUME gateway \in DeviceGateways, DeviceSteps PROVE IInv'
    <3>1. Pulled' /\ Credited'
      BY <1>2, <2>1, DeviceStepsKeep DEF IInv
    <3> QED BY <1>2, <2>1, <3>1, BridgedKept DEF IInv, quicVars, DeviceGateways
  <2>2. ASSUME NEW d \in Devices, Expire(d) PROVE IInv'
    <3>1. UNCHANGED pullVars /\ UNCHANGED streams
      BY <2>2 DEF Expire, pullVars, media, process
    <3> QED BY <1>2, <2>2, <3>1, ExpireStep, PulledAlone, BridgedKept DEF IInv, quicVars
  <2> QED BY <1>2, <2>1, <2>2, OnvifSteps, IsapiSteps, DahuaSteps, PsiaSteps
          DEF Devicelike, DeviceGateways, IInv, Pulled
<1>3. ASSUME UNCHANGED gateway, Protocol, UNCHANGED <<deviceVars, stolen, quicVars>> PROVE IInv'
  <2>1. ASSUME gateway \in {"rtmp", "hls", "dash"}, SourceSteps PROVE IInv'
    <3>1. Pulled' /\ Credited'
      BY <1>3, <2>1, SourceStepsKeep DEF IInv
    <3> QED BY <1>3, <2>1, <3>1, BridgedKept DEF IInv, quicVars
  <2>2. ASSUME NEW s \in Streams, ProxyEnds(s) \/ ProcessEnds(s) PROVE IInv'
    <3>1. UNCHANGED call /\ UNCHANGED streams
      BY <2>2 DEF ProxyEnds, ProcessEnds
    <3> QED BY <1>3, <2>2, <3>1, EndsStep, CallsAlone, BridgedKept DEF IInv, quicVars
  <2> QED BY <1>3, <2>1, <2>2, RtmpSteps, HlsSteps, DashSteps DEF Protocol
<1>4. ASSUME UNCHANGED gateway, gateway = "httpflv", HttpFlv!Next, UNCHANGED <<deviceVars, quicVars>>
      PROVE  IInv'
  BY <1>4, HttpFlvNext, BridgedKept DEF IInv, quicVars
<1>5. ASSUME UNCHANGED gateway, gateway = "quic", Quic!Next, UNCHANGED <<deviceVars, stolen>>
      PROVE  IInv'
  BY <1>5, QuicNext
<1> QED BY <1>1, <1>2, <1>3, <1>4, <1>5 DEF Next

LEMMA Invariance == Spec => []IInv
BY Initially, Inductive, PTL DEF Spec

-----------------------------------------------------------------------------
(* What follows.                                                           *)

\* Every variable holds values of its type, and streams_mutex_ is held exactly while a
\* start asks its device or processes its stream, but where HTTP-FLV has let go of
\* it by hand: for each gateway, whatever handlers of it run at the same time.
THEOREM TypeCorrect == Spec => []TypeOK
<1>1. IInv => TypeOK
  <2> SUFFICES ASSUME IInv PROVE TypeOK
    OBVIOUS
  <2>1. \A t \in Threads :
          /\ call[t].pc \in {"idle", "check", "lock", "look", "ask", "process", "ffmpeg", "refused"}
          /\ stolen \/ (lock = t <=> Past(t))
    BY CallParts DEF IInv, Pulled, Calls, Locked
  <2> QED BY <2>1 DEF IInv, Pulled, Locked, Tables, Bridged, Credited, TypeOK
<1> QED BY <1>1, Invariance, PTL

\* NoOrphan for every gateway: what is pulled for a stream has an entry through which a
\* stop is tried, or a start of it is under way; unless such a stop has failed before,
\* two starts overlapped, or a proxy came late.
THEOREM NothingOrphaned == Spec => []NoOrphan
<1>1. IInv => NoOrphan
  <2> SUFFICES ASSUME IInv, NEW s \in Streams, s \notin overlapped,
                      \/ s \in alive \cup fed
                      \/ proxy[s] # None /\ s \notin lingering /\ (up \/ gateway # "onvif")
               PROVE  streams[s].here \/ Busy(s)
    BY DEF NoOrphan
  <2>1. Sound(s)
    BY DEF IInv, Pulled
  <2>2. CASE proxy[s] # None /\ s \notin lingering /\ (up \/ gateway # "onvif")
    BY <2>1, <2>2 DEF Sound, OwnProxy
  <2>3. CASE s \in alive
    BY <2>1, <2>3 DEF Sound, OwnProcess, HasProcess
  <2>4. CASE s \in fed
    BY <2>4 DEF IInv, Bridged
  <2> QED BY <2>2, <2>3, <2>4
<1> QED BY <1>1, Invariance, PTL

\* PlaysWhatItSays for every gateway: a stream that runs by proxy shows the address it was
\* started with, after any sequence of starts, failures and stops, unless an older proxy
\* was late or could not be deleted.
THEOREM ProxyShown == Spec => []PlaysWhatItSays
<1>1. IInv => PlaysWhatItSays
  BY DEF IInv, Pulled, Sound, Shown, PlaysWhatItSays, SaysItRuns
<1> QED BY <1>1, Invariance, PTL

\* CacheOfCredentials: an address in the cache was asked for with the credentials the
\* device has, however discovery, handlers and questions to devices interleave.
THEOREM CacheIsCurrent == Spec => []CacheOfCredentials
<1>1. IInv => CacheOfCredentials
  BY DEF IInv, Credited
<1> QED BY <1>1, Invariance, PTL

-----------------------------------------------------------------------------
(* What a step may do to a stream that says it runs.                       *)

KeepsRunning(s) ==
  ~streams'[s].here \/ streams'[s].url = streams[s].url \/ streams'[s] = streams[s]

\* A start that ends was not of a stream that said it ran.
LEMMA WriteKeeps ==
  ASSUME IInv, NEW s \in Streams, s \notin overlapped, SaysItRuns(s),
         NEW t \in Threads, At(t, "process") \/ At(t, "ffmpeg"),
         NEW e, streams' = [streams EXCEPT ![call[t].stream] = e]
  PROVE  KeepsRunning(s)
<1>1. Sound(s) /\ ~Going(t, s)
  BY DEF IInv, Pulled, Sound, Cleared
<1>2. call[t].stream # s
  BY <1>1 DEF Going, Starting, InFlight, At
<1>3. streams'[s] = streams[s]
  BY <1>2 DEF IInv, Pulled, Tables, StreamsOK
<1> QED BY <1>3 DEF KeepsRunning

LEMMA ProcessKeeps ==
  ASSUME IInv, NEW s \in Streams, s \notin overlapped, SaysItRuns(s), NEW t \in Threads,
         Process(t) \/ Transcode(t) \/ NoProxy(t)
  PROVE  KeepsRunning(s)
<1>1. \/ UNCHANGED streams
      \/ /\ At(t, "process") \/ At(t, "ffmpeg")
         /\ \E e : streams' = [streams EXCEPT ![call[t].stream] = e]
  BY DEF Process, ProxySends, ProxyFails, NoProxy, Transcode, Finish, media, process
<1> QED BY <1>1, WriteKeeps DEF KeepsRunning

\* The status of an entry is all that CheckStreamExists writes.
LEMMA CheckKeeps ==
  ASSUME IInv, NEW s \in Streams, NEW t \in Threads, NEW kills, NEW deletes, Check(t, kills, deletes)
  PROVE  KeepsRunning(s)
<1>1. PICK r \in Streams : r = call[t].stream
  BY CallStream DEF IInv, Pulled, Check, At
<1>2. CASE UNCHANGED streams
  BY <1>2 DEF KeepsRunning
<1>3. ASSUME streams[r].here, NEW status, streams' = [streams EXCEPT ![r].status = status]
      PROVE  KeepsRunning(s)
  <2>1. streams[r] \in Entries
    BY <1>3, EntryOf DEF IInv, Pulled
  <2>2. [streams[r] EXCEPT !.status = status].url = streams[r].url
    BY <2>1 DEF Entries
  <2>3. streams'[s] = streams[s] \/ streams'[s].url = streams[s].url
    BY <1>3, <2>2 DEF IInv, Pulled, Tables, StreamsOK
  <2> QED BY <2>3 DEF KeepsRunning
<1> QED BY <1>1, <1>2, <1>3 DEF Check, media

LEMMA StopKeeps ==
  ASSUME IInv, NEW s \in Streams, NEW r \in Streams, Stop(r, TRUE) \/ Stop(r, FALSE)
  PROVE  KeepsRunning(s)
<1>1. UNCHANGED streams \/ streams' = [streams EXCEPT ![r] = NoEntry]
  BY DEF Stop, media, process
<1>2. streams'[s] = streams[s] \/ streams'[s] = NoEntry
  BY <1>1 DEF IInv, Pulled, Tables, StreamsOK
<1> QED BY <1>2 DEF KeepsRunning, NoEntry

LEMMA DestroyKeeps ==
  ASSUME NEW s \in Streams, NEW deleted, Destroy(deleted)
  PROVE  KeepsRunning(s)
<1>1. streams'[s] = NoEntry
  BY DEF Destroy
<1> QED BY <1>1 DEF KeepsRunning, NoEntry

LEMMA LooksKeep ==
  ASSUME IInv, NEW s \in Streams, SourceLooks,
         gateway \in {"rtmp", "hls", "httpflv", "dash", "quic"}
  PROVE  KeepsRunning(s)
<1>1. PICK r \in Streams :
        IF gateway \in Sourceless THEN Observe(r, ByProcess(r))
        ELSE Observe(r, CheckIsRunning(r)) \/ Observe(r, CheckStatus(r))
  BY DEF SourceLooks
<1>2. streams[r].here
  BY <1>1 DEF Observe
<1>3. \E e : Looked(r, e) /\ streams' = [streams EXCEPT ![r] = e]
  <2>1. CASE gateway \in Sourceless
    BY <1>1, <1>2, <2>1, ByProcessLooked DEF IInv, Pulled, Sourceless, Observe
  <2>2. CASE gateway \notin Sourceless
    BY <1>1, <1>2, <2>2, CheckedLooked DEF IInv, Pulled, Sourceless, Observe
  <2> QED BY <2>1, <2>2
<1>4. PICK e : Looked(r, e) /\ streams' = [streams EXCEPT ![r] = e]
  BY <1>3
<1>5. streams'[s] = streams[s] \/ streams'[s].url = streams[s].url
  BY <1>4 DEF IInv, Pulled, Tables, StreamsOK, Looked
<1> QED BY <1>5 DEF KeepsRunning

LEMMA DeviceStepsKeepRunning ==
  ASSUME IInv, NEW s \in Streams, s \notin overlapped, SaysItRuns(s), DeviceSteps
  PROVE  KeepsRunning(s)
<1>1. CASE UNCHANGED streams
  BY <1>1 DEF KeepsRunning
<1>2. ListSteps => UNCHANGED streams
  BY DEF ListSteps, Put, Erase, Update, pullVars, media, process
<1>3. ASSUME NEW t \in Threads, DeviceCall(t), ~Checks(t) PROVE UNCHANGED streams \/ Process(t)
  BY <1>3 DEF DeviceCall, BeginDevice, Begin, Lock, Ask, Look, Answer, media
<1>4. ASSUME Destroys PROVE KeepsRunning(s)
  BY <1>4, DestroyKeeps DEF Destroys
<1>5. ASSUME NEW t \in Threads, Checks(t) PROVE KeepsRunning(s)
  BY <1>5, CheckKeeps DEF Checks
<1> QED BY <1>1, <1>2, <1>3, <1>4, <1>5, StopKeeps, ProcessKeeps DEF DeviceSteps

LEMMA BeginsKeep ==
  ASSUME IInv, NEW s \in Streams, NEW t \in Threads, SourceBegins(t)
  PROVE  KeepsRunning(s)
<1>1. CASE UNCHANGED streams
  BY <1>1 DEF KeepsRunning
<1>2. ASSUME SourceChecks(t) PROVE KeepsRunning(s)
  BY <1>2, CheckKeeps DEF SourceChecks
<1>3. SourceBegins(t) => SourceChecks(t) \/ UNCHANGED streams
  BY DEF SourceBegins, BeginPull, Begin, LockAndPull, NoProxy, media
<1> QED BY <1>1, <1>2, <1>3

LEMMA SourceStepsKeepRunning ==
  ASSUME IInv, NEW s \in Streams, s \notin overlapped, SaysItRuns(s), SourceSteps,
         gateway \in {"rtmp", "hls", "httpflv", "dash", "quic"}
  PROVE  KeepsRunning(s)
<1>1. ASSUME NEW t \in Threads, SourceCall(t) PROVE KeepsRunning(s)
  BY <1>1, BeginsKeep, ProcessKeeps DEF SourceCall
<1>2. ASSUME NEW r \in Streams, SourceStops(r) PROVE KeepsRunning(s)
  BY <1>2, StopKeeps DEF SourceStops
<1>3. ASSUME SourceEnds PROVE KeepsRunning(s)
  BY <1>3, DestroyKeeps DEF SourceEnds
<1> QED BY <1>1, <1>2, <1>3, LooksKeep DEF SourceSteps

LEMMA QuicKeepsRunning ==
  ASSUME IInv, NEW s \in Streams, s \notin overlapped, SaysItRuns(s), Quic!Next, gateway = "quic"
  PROVE  KeepsRunning(s)
<1>1. ASSUME NEW t \in Threads, SourceBegins(t) \/ Transcode(t) PROVE KeepsRunning(s)
  BY <1>1, BeginsKeep, ProcessKeeps
<1>2. ASSUME NEW t \in Threads, Quic!StartQuicServerMode(t) PROVE KeepsRunning(s)
  <2>1. At(t, "process") /\ \E e : streams' = [streams EXCEPT ![call[t].stream] = e]
    BY <1>2 DEF Quic!StartQuicServerMode, Quic!At, Quic!Finish, At
  <2> QED BY <2>1, WriteKeeps
<1>3. ASSUME NEW r \in Streams, SourceStops(r) PROVE KeepsRunning(s)
  BY <1>3, StopKeeps DEF SourceStops
<1>4. ASSUME SourceEnds PROVE KeepsRunning(s)
  BY <1>4, DestroyKeeps DEF SourceEnds
<1>5. UNCHANGED pullVars => KeepsRunning(s)
  BY DEF pullVars, media, process, KeepsRunning
<1> QED BY <1>1, <1>2, <1>3, <1>4, <1>5, LooksKeep, QuicSteps

LEMMA HttpFlvKeepsRunning ==
  ASSUME IInv, NEW s \in Streams, s \notin overlapped, SaysItRuns(s), HttpFlv!Next, gateway = "httpflv"
  PROVE  KeepsRunning(s)
<1>1. ASSUME NEW t \in Threads, HttpFlv!UnlockAgain(t) PROVE KeepsRunning(s)
  BY <1>1 DEF HttpFlv!UnlockAgain, HttpFlv!media, HttpFlv!process, KeepsRunning
<1>2. ASSUME NEW t \in Threads, HttpFlv!Refuse(t) PROVE KeepsRunning(s)
  <2>1. At(t, "process") /\ \E e : streams' = [streams EXCEPT ![call[t].stream] = e]
    BY <1>2 DEF HttpFlv!Refuse, HttpFlv!At, At
  <2> QED BY <2>1, WriteKeeps
<1> QED BY <1>1, <1>2, SourceStepsKeepRunning, HttpFlvSteps

LEMMA NextKeepsRunning ==
  ASSUME IInv, NEW s \in Streams, s \notin overlapped, SaysItRuns(s), Next
  PROVE  KeepsRunning(s)
<1>1. CASE Devicelike
  <2>1. ASSUME NEW d \in Devices, Expire(d) PROVE KeepsRunning(s)
    BY <2>1 DEF Expire, pullVars, media, process, KeepsRunning
  <2> QED BY <1>1, <2>1, OnvifSteps, IsapiSteps, DahuaSteps, PsiaSteps, DeviceStepsKeepRunning
          DEF Devicelike, IInv, Pulled
<1>2. CASE Protocol
  <2>1. ASSUME NEW r \in Streams, ProxyEnds(r) \/ ProcessEnds(r) PROVE KeepsRunning(s)
    BY <2>1 DEF ProxyEnds, ProcessEnds, KeepsRunning
  <2> QED BY <1>2, <2>1, RtmpSteps, HlsSteps, DashSteps, SourceStepsKeepRunning DEF Protocol
<1> QED BY <1>1, <1>2, HttpFlvKeepsRunning, QuicKeepsRunning DEF Next

\* RunningKept for every gateway: what a user has been told runs keeps its address until it
\* is stopped, unless a start was under way when it came to run.
THEOREM RunningShowsOneAddress == Spec => RunningKept
<1>1. IInv /\ [Next]_all =>
        [\A s \in Streams :
           SaysItRuns(s) /\ streams'[s] # streams[s]
           => ~streams'[s].here \/ streams'[s].url = streams[s].url \/ s \in overlapped]_all
  BY NextKeepsRunning DEF KeepsRunning
<1> QED BY <1>1, Invariance, PTL DEF Spec, RunningKept
=============================================================================
