---------------------------- MODULE CameraDevices ----------------------------
(***************************************************************************)
(* The cameras a machine has: gateway/local_camera/device_manager.cpp and  *)
(* device_resolver.cpp, for the handlers of device_handler.cpp and for the *)
(* starts of LocalCamera.                                                  *)
(*                                                                         *)
(* cameras_ is a cache with a time to live.  A scan runs without the lock, *)
(* may fail, and is then stored by one of two functions: ListCameras       *)
(* replaces the cache, DiscoverCameras only adds to it, and both make it   *)
(* new.  A device is named by its id, or by an index that it may lose to   *)
(* another one.  WebSocket messages are left out.                          *)
(***************************************************************************)
EXTENDS Naturals

CONSTANTS
  Devices, Indices, Threads,
  None,     (* no index, no device: none of the above                       *)
  Ttl       (* device_cache_ttl_seconds, at least one                       *)

VARIABLES
  plugged,   (* the index of each device, None if it is not plugged in      *)
  cameras,   (* cameras_, with None for a device it does not have           *)
  age,       (* seconds since last_discovery_time_, up to Ttl               *)
  caps,      (* capability_cache_: whose capabilities stand for a device's  *)
  call,      (* what each thread is at                                      *)
  found,     (* the device the last start was given                         *)
  gone       (* history: seconds since each device was unplugged, up to Ttl *)

vars == <<plugged, cameras, age, caps, call, found, gone>>

-----------------------------------------------------------------------------
Nothing  == [d \in Devices |-> None]
Idle     == [pc |-> "idle"]
NotFound == [dev |-> None, index |-> None, gone |-> 0]

Expired   == age >= Ttl               \* IsCacheExpired
At(t, pc) == call[t].pc = pc
Return(t) == call' = [call EXCEPT ![t] = Idle]

\* Goes on at another place.
Move(t, pc) == call' = [call EXCEPT ![t].pc = pc]

\* What a device_id, or an index, stands for.
GetCamera(d)   == {c \in {d} : ~Expired /\ cameras[c] # None}
WithIndex(i)   == {c \in Devices : cameras[c] = i}

\* A command that fails or times out looks like a machine without cameras.
Scan == {plugged, Nothing}

-----------------------------------------------------------------------------
(* Requests.                                                               *)

Begin(t, pc, by, want) ==
  /\ At(t, "idle")
  /\ call' = [call EXCEPT ![t] = [pc |-> pc, by |-> by, want |-> want,
                                  scan |-> Nothing, retried |-> FALSE]]
  /\ UNCHANGED <<plugged, cameras, age, caps, found, gone>>

HandleDiscoverLocalCameras(t) == Begin(t, "discover", "list", None)
HandleRefreshLocalCameras(t)  == Begin(t, "rescan", "list", None)
HandleGetLocalCameras(t)      == Begin(t, "list", "list", None)

\* A start names its camera by id or by index.
ResolveDevice(t) ==
  \/ \E d \in Devices : Begin(t, "get", "id", d)
  \/ \E i \in Indices : Begin(t, "list", "index", i)

-----------------------------------------------------------------------------
(* DiscoverCameras.                                                        *)

DiscoverScan(t) ==
  /\ At(t, "discover")
  /\ \E scan \in Scan : call' = [call EXCEPT ![t].pc = "merge", ![t].scan = scan]
  /\ UNCHANGED <<plugged, cameras, age, caps, found, gone>>

\* What was found is added; what was not is kept.
DiscoverCameras(t) ==
  /\ At(t, "merge")
  /\ cameras' = [d \in Devices |-> IF call[t].scan[d] # None THEN call[t].scan[d] ELSE cameras[d]]
  /\ age' = 0
  /\ CASE call[t].by = "id"    -> Move(t, "again")
       [] call[t].by = "index" -> call' = [call EXCEPT ![t].pc = "rescan", ![t].retried = TRUE]
       [] OTHER                -> Return(t)
  /\ UNCHANGED <<plugged, caps, found, gone>>

-----------------------------------------------------------------------------
(* ListCameras.                                                            *)

\* The list is searched for the index a start wants.
Search(t) ==
  IF call[t].by = "list" THEN Return(t) /\ UNCHANGED found
  ELSE \/ \E c \in WithIndex(call[t].want) :
            /\ found' = [dev |-> c, index |-> call[t].want, gone |-> gone[c]]
            /\ call' = [call EXCEPT ![t].pc = "query", ![t].want = c]
       \/ /\ WithIndex(call[t].want) = {}
          /\ IF call[t].retried THEN Return(t) ELSE Move(t, "discover")
          /\ UNCHANGED found

ListCached(t) ==
  /\ At(t, "list")
  /\ IF Expired THEN Move(t, "rescan") /\ UNCHANGED found ELSE Search(t)
  /\ UNCHANGED <<plugged, cameras, age, caps, gone>>

ListScan(t) ==
  /\ At(t, "rescan")
  /\ \E scan \in Scan : call' = [call EXCEPT ![t].pc = "update", ![t].scan = scan]
  /\ UNCHANGED <<plugged, cameras, age, caps, found, gone>>

UpdateDeviceList(t) ==
  /\ At(t, "update") /\ Move(t, "read")
  /\ cameras' = call[t].scan /\ age' = 0
  /\ UNCHANGED <<plugged, caps, found, gone>>

ListRead(t) ==
  /\ At(t, "read") /\ Search(t)
  /\ UNCHANGED <<plugged, cameras, age, caps, gone>>

-----------------------------------------------------------------------------
(* A device by its id, and what it can do.                                 *)

FindDeviceById(t) ==
  /\ call[t].pc \in {"get", "again"}
  /\ \/ \E c \in GetCamera(call[t].want) :
          /\ found' = [dev |-> c, index |-> cameras[c], gone |-> gone[c]]
          /\ Move(t, "query")
     \/ /\ GetCamera(call[t].want) = {}
        /\ IF At(t, "get") THEN Move(t, "discover") ELSE Return(t)
        /\ UNCHANGED found
  /\ UNCHANGED <<plugged, cameras, age, caps, gone>>

\* An entry of the capability cache may be too old.  The index is asked, and
\* whatever is there answers for the device.
QueryDeviceCapabilities(t) ==
  LET d == call[t].want IN
  /\ At(t, "query") /\ Return(t)
  /\ \/ GetCamera(d) = {} /\ UNCHANGED caps
     \/ GetCamera(d) # {} /\ caps[d] # None /\ UNCHANGED caps
     \/ /\ GetCamera(d) # {}
        /\ caps' = [caps EXCEPT ![d] =
                      CHOOSE c \in Devices \cup {None} :
                        IF c = None THEN \A e \in Devices : plugged[e] # cameras[d]
                        ELSE plugged[c] = cameras[d]]
  /\ UNCHANGED <<plugged, cameras, age, found, gone>>

-----------------------------------------------------------------------------
(* The machine.                                                            *)

Plug(d, i) ==
  /\ plugged[d] = None /\ \A e \in Devices : plugged[e] # i
  /\ plugged' = [plugged EXCEPT ![d] = i] /\ gone' = [gone EXCEPT ![d] = 0]
  /\ UNCHANGED <<cameras, age, caps, call, found>>

Unplug(d) ==
  /\ plugged[d] # None
  /\ plugged' = [plugged EXCEPT ![d] = None]
  /\ UNCHANGED <<cameras, age, caps, call, found, gone>>

\* Bound: a call takes less than a second, so that what is old was old before it.
Second ==
  LET Older(n) == IF n < Ttl THEN n + 1 ELSE n IN
  /\ \A t \in Threads : At(t, "idle")
  /\ age' = Older(age)
  /\ gone' = [d \in Devices |-> IF plugged[d] = None THEN Older(gone[d]) ELSE 0]
  /\ UNCHANGED <<plugged, cameras, caps, call, found>>

-----------------------------------------------------------------------------
Init ==
  /\ plugged = Nothing /\ cameras = Nothing /\ age = Ttl
  /\ caps = Nothing
  /\ call = [t \in Threads |-> Idle] /\ found = NotFound
  /\ gone = [d \in Devices |-> Ttl]

Step(t) ==
  \/ HandleDiscoverLocalCameras(t) \/ HandleRefreshLocalCameras(t)
  \/ HandleGetLocalCameras(t) \/ ResolveDevice(t)
  \/ DiscoverScan(t) \/ DiscoverCameras(t)
  \/ ListCached(t) \/ ListScan(t) \/ UpdateDeviceList(t) \/ ListRead(t)
  \/ FindDeviceById(t) \/ QueryDeviceCapabilities(t)

Next ==
  \/ \E t \in Threads : Step(t)
  \/ \E d \in Devices : Unplug(d) \/ \E i \in Indices : Plug(d, i)
  \/ Second

Spec == Init /\ [][Next]_vars

-----------------------------------------------------------------------------
\* A start is not given a camera that was unplugged a time to live ago or longer:
\* a cache that has expired is scanned anew, and a device that does not exist is an
\* empty object (device_manager.hpp:66, device_manager.cpp:85).  The code does: the
\* scan of FindDeviceById adds to the old entries and makes all of them new.
UnpluggedIsForgotten == found.dev # None => found.gone < Ttl
=============================================================================
