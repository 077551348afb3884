---------------------------- MODULE IsapiGateway ----------------------------
(* Hikvision cameras: gateway/isapi/isapi_gateway.cpp.  They are found by   *)
(* asking every address of a range over HTTP.                              *)
EXTENDS DeviceGateway

-----------------------------------------------------------------------------
(* The list of devices, as DeviceHandler's requests change it.             *)

\* Whether there is an answer in time, with status 200.
SendISAPIRequest == BOOLEAN

\* The answer must tell the model or the serial number.
GetDeviceInfo == UNION {IF answered THEN BOOLEAN ELSE {FALSE} : answered \in SendISAPIRequest}

\* The addresses are tried one after the other, without credentials.
DiscoverDevicesHTTP ==
  {{d \in Devices : known[d]} : known \in [Devices -> GetDeviceInfo]}

DiscoverDevices(found) == Put(found, Anonymous)

AddDevice(d, k) == Put({d}, k)

RemoveDevice(d) == Erase(d)

\* Nothing in the repository calls it; whoever links the gateway may.
UpdateDeviceCredentials == \E d \in Devices, k \in Creds : Update(d, k)

HandleDiscoverISAPIDevices == \E found \in DiscoverDevicesHTTP : DiscoverDevices(found)

HandleAddISAPIDevice == \E d \in Devices, k \in Creds \cup {Anonymous} : AddDevice(d, k)

HandleDeleteISAPIDevice == \E d \in Devices : RemoveDevice(d)

DevicesStep ==
  HandleDiscoverISAPIDevices \/ HandleAddISAPIDevice \/ HandleDeleteISAPIDevice \/ UpdateDeviceCredentials

-----------------------------------------------------------------------------
(* The questions to a device.                                              *)

\* The channels in the answer, channel 1 if it names none.
GetChannels ==
  UNION {IF answered THEN SUBSET Channels \ {{}} ELSE {{}} : answered \in SendISAPIRequest}

\* The address in the answer, or one made up from the device's own if it holds
\* none and that has a scheme.
GetStreamURI(d, c) ==
  UNION {IF ~answered THEN {None} ELSE IF d \in Schemed THEN {c} ELSE {c, None} :
    answered \in SendISAPIRequest}

\* Without a channel asked for, the first one that gives an address will do.
Answers(d, c) ==
  IF c = AnyChannel
  THEN {None} \cup UNION {GetStreamURI(d, p) : p \in UNION GetChannels}
  ELSE GetStreamURI(d, c)

GetDeviceRTSPURLs(t) == At(t, "ask") /\ \E c \in Answers(call[t].asked.dev, call[t].asked.chan) : Answer(t, c)

\* DeviceHandler asks for the addresses of a device.
HandleGetISAPIDeviceRTSPURLs(t) == \E d \in Devices : Ask(t, d)

-----------------------------------------------------------------------------
(* Streams.                                                                *)

\* isapi://device_id[/channel_id]; neither part is checked.
Start(t) == BeginDevice(t)

\* The old process is stopped, or else the old proxy is deleted.
CheckStreamExists(t) ==
  Check(t, HasProcess(call[t].stream), ~HasProcess(call[t].stream))

StartDeviceStream(t) ==
  \/ (CheckStreamExists(t) \/ Lock(t) \/ Process(t)) /\ UNCHANGED deviceVars
  \/ Look(t) \/ GetDeviceRTSPURLs(t)

StopDeviceStream == \E s \in Streams : Stop(s, TRUE)

\* The destructor stops the processes, and deletes the proxies of streams without.
Destructor == Destroy(HadNone)

StreamsStep == (StopDeviceStream \/ Destructor) /\ UNCHANGED deviceVars

Call(t) ==
  \/ Start(t) /\ UNCHANGED deviceVars
  \/ HandleGetISAPIDeviceRTSPURLs(t) \/ StartDeviceStream(t)

Next == DevicesStep \/ StreamsStep \/ \E t \in Threads : Call(t)
=============================================================================
