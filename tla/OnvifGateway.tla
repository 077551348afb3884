---------------------------- MODULE OnvifGateway ----------------------------
(* ONVIF cameras: gateway/onvif/onvif_gateway.cpp.  They are found by a     *)
(* multicast probe and asked over SOAP, for their profiles first.          *)
EXTENDS DeviceGateway

-----------------------------------------------------------------------------
(* The list of devices, as DeviceHandler's requests change it.             *)

\* An answer is of use if it holds an address, in whatever namespace.
ParseProbeMatchResponse == BOOLEAN

\* Each device with a useful answer before the probe ends is taken once.
SendWSDiscoveryProbe ==
  {{d \in Devices : useful[d]} : useful \in [Devices -> ParseProbeMatchResponse]}

DiscoverDevices(found) == Put(found, Anonymous)

AddDevice(d, k) == Put({d}, k)

RemoveDevice(d) == Erase(d)

\* Nothing in the repository calls it; whoever links the gateway may.
UpdateDeviceCredentials == \E d \in Devices, k \in Creds : Update(d, k)

HandleDiscoverDevices == \E found \in SendWSDiscoveryProbe : DiscoverDevices(found)

HandleAddDevice == \E d \in Devices, k \in Creds \cup {Anonymous} : AddDevice(d, k)

HandleDeleteDevice == \E d \in Devices : RemoveDevice(d)

DevicesStep ==
  HandleDiscoverDevices \/ HandleAddDevice \/ HandleDeleteDevice \/ UpdateDeviceCredentials

-----------------------------------------------------------------------------
(* The questions to a device.                                              *)

\* Whether there is an answer in time, with status 200.
SendSOAPRequest == BOOLEAN

\* The tokens in the answer.
GetProfiles == UNION {IF answered THEN SUBSET Channels ELSE {{}} : answered \in SendSOAPRequest}

\* An address that may be in the answer, if there is one.
GetStreamUri(c) == UNION {IF answered THEN {c, None} ELSE {None} : answered \in SendSOAPRequest}

\* Without any profile there is no address, whichever is asked for; without a
\* profile asked for, the first one that gives an address will do.
Answers(c) ==
  UNION {IF profiles = {} THEN {None}
         ELSE UNION {GetStreamUri(p) : p \in IF c = AnyChannel THEN profiles ELSE {c}} :
           profiles \in GetProfiles}

GetDeviceRTSPURLs(t) == At(t, "ask") /\ \E c \in Answers(call[t].asked.chan) : Answer(t, c)

\* DeviceHandler asks for the addresses of a device.
HandleGetDeviceRTSPURLs(t) == \E d \in Devices : Ask(t, d)

-----------------------------------------------------------------------------
(* Streams.                                                                *)

\* onvif://device_id[/profile_token]; neither part is checked.
Start(t) == BeginDevice(t)

\* The old process is stopped by its pid; one without leaves its proxy behind.
CheckStreamExists(t) == Check(t, HasProcess(call[t].stream), FALSE)

StartDeviceStream(t) ==
  \/ (CheckStreamExists(t) \/ Lock(t) \/ Process(t)) /\ UNCHANGED deviceVars
  \/ Look(t) \/ GetDeviceRTSPURLs(t)

StopDeviceStream == \E s \in Streams : Stop(s, TRUE)

\* The destructor stops processes, and leaves the proxies.
Destructor == Destroy({})

StreamsStep == (StopDeviceStream \/ Destructor) /\ UNCHANGED deviceVars

Call(t) ==
  \/ Start(t) /\ UNCHANGED deviceVars
  \/ HandleGetDeviceRTSPURLs(t) \/ StartDeviceStream(t)

Next == DevicesStep \/ StreamsStep \/ \E t \in Threads : Call(t)
=============================================================================
