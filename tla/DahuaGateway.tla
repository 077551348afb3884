---------------------------- MODULE DahuaGateway ----------------------------
(* Dahua cameras: gateway/dahua/dahua_gateway.cpp.  They are found as those *)
(* of ISAPI are, and asked in JSON.                                        *)
EXTENDS DeviceGateway

-----------------------------------------------------------------------------
(* The list of devices, as DeviceHandler's requests change it.             *)

\* Whether there is an answer in time, with status 200.
SendHTTPRequest == BOOLEAN

\* The answer must tell the model or the serial number.
GetDeviceInfo == UNION {IF answered THEN BOOLEAN ELSE {FALSE} : answered \in SendHTTPRequest}

\* The addresses are tried one after the other, without credentials.
DiscoverDevicesHTTP ==
  {{d \in Devices : known[d]} : known \in [Devices -> GetDeviceInfo]}

DiscoverDevices(found) == Put(found, Anonymous)

AddDevice(d, k) == Put({d}, k)

RemoveDevice(d) == Erase(d)

\* Nothing in the repository calls it; whoever links the gateway may.
UpdateDeviceCredentials == \E d \in Devices, k \in Creds : Update(d, k)

HandleDiscoverDahuaDevices == \E found \in DiscoverDevicesHTTP : DiscoverDevices(found)

HandleAddDahuaDevice == \E d \in Devices, k \in Creds \cup {Anonymous} : AddDevice(d, k)

HandleDeleteDahuaDevice == \E d \in Devices : RemoveDevice(d)

DevicesStep ==
  HandleDiscoverDahuaDevices \/ HandleAddDahuaDevice \/ HandleDeleteDahuaDevice \/ UpdateDeviceCredentials

-----------------------------------------------------------------------------
(* The questions to a device.                                              *)

\* The channels in the answer, channel 1 if it names none.
GetDeviceChannels ==
  UNION {IF answered THEN SUBSET Channels \ {{}} ELSE {{}} : answered \in SendHTTPRequest}

\* The address in the answer, or one made up from the device's own: without an
\* answer too, and so with credentials the device has refused.
GetStreamUri(d, c) ==
  UNION {IF d \in Schemed THEN {c} ELSE IF answered THEN {c, None} ELSE {None} :
    answered \in SendHTTPRequest}

\* Without a channel asked for, the first one that gives an address will do.
Answers(d, c) ==
  IF c = AnyChannel
  THEN {None} \cup UNION {GetStreamUri(d, p) : p \in UNION GetDeviceChannels}
  ELSE GetStreamUri(d, c)

GetDeviceRTSPURLs(t) == At(t, "ask") /\ \E c \in Answers(call[t].asked.dev, call[t].asked.chan) : Answer(t, c)

\* DeviceHandler asks for the addresses of a device.
HandleGetDahuaDeviceRTSPURLs(t) == \E d \in Devices : Ask(t, d)

-----------------------------------------------------------------------------
(* Streams.                                                                *)

\* dahua://device_id[/channel_id]; neither part is checked.
Start(t) == BeginDevice(t)

\* The old process is stopped, or else the old proxy is deleted.
CheckStreamExists(t) ==
  Check(t, HasProcess(call[t].stream), ~HasProcess(call[t].stream))

StartDeviceStream(t) ==
  \/ (CheckStreamExists(t) \/ Lock(t) \/ Process(t)) /\ UNCHANGED deviceVars
  \/ Look(t) \/ GetDeviceRTSPURLs(t)

StopDeviceStream == \E s \in Streams : Stop(s, TRUE)

\* The destructor stops the processes, and deletes the proxies of streams without.
Destructor == Destroy(HadNone)

StreamsStep == (StopDeviceStream \/ Destructor) /\ UNCHANGED deviceVars

Call(t) ==
  \/ Start(t) /\ UNCHANGED deviceVars
  \/ HandleGetDahuaDeviceRTSPURLs(t) \/ StartDeviceStream(t)

Next == DevicesStep \/ StreamsStep \/ \E t \in Threads : Call(t)
=============================================================================
