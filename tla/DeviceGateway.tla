--------------------------- MODULE DeviceGateway ---------------------------
(***************************************************************************)
(* What the gateways of network cameras add to PullGateway: a list of      *)
(* devices with their credentials and the RTSP address last asked of them. *)
(* A start asks the device while it holds streams_mutex_; the list has its *)
(* own mutex, held for one access at a time.                               *)
(***************************************************************************)
EXTENDS PullGateway

CONSTANTS
  Schemed,       (* devices whose address has a scheme ("://")              *)
  AnyChannel     (* a request that names no channel                         *)

ASSUME DeviceGatewayAssumption == Schemed \subseteq Devices /\ AnyChannel \notin Channels

VARIABLES
  devices,     (* devices_                                                  *)
  outdated     (* history: devices replaced while one was asked             *)

deviceVars == <<devices, outdated>>

-----------------------------------------------------------------------------
NoDevice == [here |-> FALSE]

\* Of the list of addresses that is cached, only the first is ever used.
Device(k) == [here |-> TRUE, cred |-> k, url |-> None, fresh |-> FALSE]

Asking(d) == \E t \in Threads : At(t, "ask") /\ call[t].asked.dev = d

\* A device is put in the list, over what is there under the same id.
Put(ds, k) ==
  /\ up
  /\ devices' = [d \in Devices |-> IF d \in ds THEN Device(k) ELSE devices[d]]
  /\ outdated' = outdated \cup {d \in ds : Asking(d)}
  /\ UNCHANGED pullVars

Erase(d) ==
  /\ up /\ devices[d].here
  /\ devices' = [devices EXCEPT ![d] = NoDevice]
  /\ outdated' = IF Asking(d) THEN outdated \cup {d} ELSE outdated
  /\ UNCHANGED pullVars

\* Mutant: the cache is not cleared.
Recredited(v, k) == [v EXCEPT !.cred = k]

Updated(v, k) == [v EXCEPT !.cred = k, !.url = None]

Update(d, k) ==
  /\ up /\ devices[d].here
  /\ devices' = [devices EXCEPT ![d] = Updated(@, k)]
  /\ outdated' = IF Asking(d) THEN outdated \cup {d} ELSE outdated
  /\ UNCHANGED pullVars

\* The five minutes of a cached address end.
Expire(d) ==
  /\ devices[d].here /\ devices[d].fresh
  /\ devices' = [devices EXCEPT ![d].fresh = FALSE]
  /\ UNCHANGED <<pullVars, outdated>>

-----------------------------------------------------------------------------
(* The address of a stream.                                                *)

BeginDevice(t) ==
  \E s \in Streams, d \in Devices, c \in Channels \cup {AnyChannel} :
    Begin(t, s, [dev |-> d, chan |-> c])

\* The lock is taken again.
Lock(t) ==
  /\ At(t, "lock") /\ Free
  /\ lock' = t /\ Move(t, "look")
  /\ UNCHANGED <<up, media, requests, history>>

\* A request for addresses from DeviceHandler: no stream, no lock.
Ask(t, d) ==
  /\ up /\ ~InFlight(t) /\ requests < MaxRequests
  /\ requests' = requests + 1
  /\ call' = [call EXCEPT ![t] =
       [pc |-> "look", stream |-> None, asked |-> [dev |-> d, chan |-> AnyChannel]]]
  /\ UNCHANGED <<up, media, lock, history, deviceVars>>

Found(t, u) ==
  /\ UNCHANGED lock
  /\ IF call[t].stream = None THEN Return(t) ELSE Pull(t, u)

\* GetDeviceRTSPURLs looks at a copy of the device.  A cached address will do,
\* whichever channel it is of.
Look(t) ==
  LET v == devices[call[t].asked.dev] IN
  /\ At(t, "look")
  /\ IF ~v.here THEN Return(t) /\ Unlock(t)
     ELSE IF v.url # None /\ v.fresh THEN Found(t, v.url)
     ELSE /\ call' = [call EXCEPT ![t] =
               [pc |-> "ask", stream |-> @.stream, asked |-> @.asked, cred |-> v.cred]]
          /\ UNCHANGED lock
  /\ UNCHANGED <<up, media, requests, history, deviceVars>>

\* The device has answered for channel c, or given no address.  The address is
\* kept, with the device that is in the list by then.
Answer(t, c) ==
  LET d == call[t].asked.dev  u == Address(d, c, call[t].cred) IN
  /\ IF c = None THEN Return(t) /\ Unlock(t) /\ UNCHANGED devices
     ELSE /\ Found(t, u)
          /\ devices' = [devices EXCEPT ![d] =
               IF @.here THEN [@ EXCEPT !.url = u, !.fresh = TRUE] ELSE @]
  /\ UNCHANGED <<up, media, requests, history, outdated>>

DeviceInit == devices = [d \in Devices |-> NoDevice] /\ outdated = {}
=============================================================================
