---------------------------- MODULE PullGateways ----------------------------
(***************************************************************************)
(* Any of the gateways that pull a stream, and what the world does around  *)
(* it.  Each has streams, devices and mutexes of its own, so one is looked *)
(* at at a time: gateway says which.                                       *)
(***************************************************************************)
EXTENDS DeviceGateway

VARIABLES gateway, stolen, server, fed

Onvif   == INSTANCE OnvifGateway
Isapi   == INSTANCE IsapiGateway
Dahua   == INSTANCE DahuaGateway
Psia    == INSTANCE PsiaGateway
Rtmp    == INSTANCE RtmpGateway
Hls     == INSTANCE HlsGateway
HttpFlv == INSTANCE HttpFlvGateway
Dash    == INSTANCE DashGateway
Quic    == INSTANCE QuicGateway

quicVars == <<server, fed>>
all      == <<pullVars, deviceVars, gateway, stolen, quicVars>>

DeviceGateways == {"onvif", "isapi", "dahua", "psia"}
Gateways       == DeviceGateways \cup {"rtmp", "hls", "httpflv", "dash", "quic"}

Devicelike ==
  \/ gateway = "onvif" /\ Onvif!Next
  \/ gateway = "isapi" /\ Isapi!Next
  \/ gateway = "dahua" /\ Dahua!Next
  \/ gateway = "psia" /\ Psia!Next
  \/ \E d \in Devices : Expire(d)

Protocol ==
  \/ gateway = "rtmp" /\ Rtmp!Next
  \/ gateway = "hls" /\ Hls!Next
  \/ gateway = "dash" /\ Dash!Next
  \/ \E s \in Streams : ProxyEnds(s) \/ ProcessEnds(s)

Next ==
  /\ UNCHANGED gateway
  /\ \/ Devicelike /\ UNCHANGED <<stolen, quicVars>>
     \/ Protocol /\ UNCHANGED <<deviceVars, stolen, quicVars>>
     \/ gateway = "httpflv" /\ HttpFlv!Next /\ UNCHANGED <<deviceVars, quicVars>>
     \/ gateway = "quic" /\ Quic!Next /\ UNCHANGED <<deviceVars, stolen>>

Init ==
  /\ PullInit /\ DeviceInit
  /\ gateway \in Gateways
  /\ stolen = FALSE
  /\ server = FALSE /\ fed = {}

Spec == Init /\ [][Next]_all

-----------------------------------------------------------------------------
(* Properties.                                                             *)

Addresses == [dev : Devices, chan : Channels, cred : Creds \cup {Anonymous}]
Asked     == Addresses \cup [dev : Devices, chan : Channels \cup {AnyChannel}]

DevicesOK ==
  devices \in [Devices -> {NoDevice} \cup
    [here : {TRUE}, cred : Creds \cup {Anonymous}, url : Addresses \cup {None}, fresh : BOOLEAN]]

\* Only a gateway that asks ZLMediaKit for the status of a stream says Starting.
Statuses ==
  {"Running", "Error", "Stopped"}
    \cup (IF gateway \in {"rtmp", "hls", "httpflv"} THEN {"Starting"} ELSE {})

StreamsOK ==
  streams \in [Streams -> {NoEntry} \cup
    [here : {TRUE}, status : Statuses, url : Addresses, ffmpeg : BOOLEAN]]

\* A start that is past the lock.
Past(t) == call[t].pc \in {"look", "ask", "process", "ffmpeg"} /\ call[t].stream # None

\* Every variable holds values of its type; streams_mutex_ is held exactly while
\* a start asks its device or processes its stream, but where HTTP-FLV took it
\* from its holder.
TypeOK ==
  /\ up \in BOOLEAN /\ gateway \in Gateways /\ DevicesOK /\ StreamsOK
  /\ \A t \in Threads :
       /\ call[t].pc \in {"idle", "check", "lock", "look", "ask", "process", "ffmpeg", "refused"}
       /\ stolen \/ (lock = t <=> Past(t))
  /\ proxy \in [Streams -> Addresses \cup {None}]
  /\ alive \subseteq Streams /\ left \subseteq Streams
  /\ requests \in 0..MaxRequests
  /\ stolen \in BOOLEAN /\ server \in BOOLEAN /\ fed \subseteq Streams

\* Nothing is pulled for a stream nobody stops any more: with no entry and no start
\* under way there is neither a proxy nor a process nor a bridge, unless it was
\* started, or found to run, during a start.  What a stop does not reach is left: a
\* process in left, and a proxy that was late or could not be deleted.  ONVIF's
\* destructor leaves every proxy.
NoOrphan ==
  \A s \in Streams :
    \/ s \in alive \cup fed
    \/ proxy[s] # None /\ s \notin lingering /\ (up \/ gateway # "onvif")
    => streams[s].here \/ Busy(s) \/ s \in overlapped

SaysItRuns(s) == streams[s].here /\ streams[s].status = "Running"

\* A stream the gateway says runs by proxy shows the address it was started
\* with, whatever was started, failed and stopped under its name before, unless
\* it was started or found to run during a start, or an older proxy that was late
\* or could not be deleted is there.
PlaysWhatItSays ==
  \A s \in Streams :
    SaysItRuns(s) /\ ~streams[s].ffmpeg /\ proxy[s] # None
    => proxy[s] = streams[s].url \/ s \in overlapped \cup lingering

\* A cached address was asked for with the device's present credentials, however
\* often these have changed, unless a change came while the device was asked.
CacheOfCredentials ==
  \A d \in Devices :
    devices[d].here /\ devices[d].url # None
    => devices[d].url.cred = devices[d].cred \/ d \in outdated

\* A stream that says it runs goes on showing its address: only a stop ends it,
\* or a start that had looked at it before it ran.
RunningKept ==
  [][\A s \in Streams :
       SaysItRuns(s) /\ streams'[s] # streams[s]
       => ~streams'[s].here \/ streams'[s].url = streams[s].url \/ s \in overlapped]_all
=============================================================================
