# TLA+ models and proofs for ZLM-Gateway

ZLM-Gateway turns camera and network sources (RTSP, RTMP, HTTP-FLV, HLS, DASH,
GB28181, ONVIF, local cameras, QUIC) into streams of a ZLMediaKit server. It
starts and watches the FFmpeg processes and RTP servers behind the streams, and
keeps a registry that its HTTP API, its hooks and its own threads all read and
write. This directory holds TLA+ models of the parts where those threads meet,
TLC configurations for small instances, and proofs for all instances. Paths
below are relative to the repository (`src/...` is its `src` directory).

## Inventory

| Component | State | Operations | Meets | What must hold |
|---|---|---|---|---|
| `streaming::StreamManager` | `streams_`, `manually_stopped_streams_`, all under `mutex_`; sync thread's locals | Register/Unregister/Update..., `OnStreamCreateRequested/Result`, `OnZLMStreamState`, a pass of `SyncZLMStatus` every 10 s | called by every handler and gateway; asks ZLMediaKit | a stopped stream stays out; a pass cleans up only what is long dead; agrees with ZLMediaKit in the end |
| `streaming::StreamStartQueue` | `queue_`, `running_`, worker threads | `Enqueue`, `WorkerLoop`, `Stop` | called by `HandleStartStream`, calls `gateway->Start` and a callback | no lost wakeup, each accepted task answered once, `Stop` returns |
| `process::ProcessManager`, `FFmpegExecutor`, `ProcessMonitor` | `processes_`, children in the kernel, monitor's copies | `StartProcess`, `StopProcess`, `MonitorProcess`, `TryRestartProcess`; the executor's fallback fork | called by gateways through `FFmpegProcessHelper`; signals the kernel | no orphan, no foreign pid signalled, limit respected, exits noticed, restarts happen |
| `GB28181Gateway` | `streams_`, `devices_`, RTP servers in ZLMediaKit, SIP sessions at the devices | `StartDeviceStream`, `Stop`, `OnSipResponse`, `OnByeRequest`, heartbeat and status threads, device handlers | SIP devices, ZLMediaKit, the registry | an RTP server is closed, or tried to, before it is forgotten; a stop is final; a start that gets no data does not stay Starting; silent devices go offline |
| `SipServer` | `message_queue_`, `transactions_` | receiving and message threads, retransmissions, clean-up | calls `GB28181Gateway` back | a repeated request gets the final answer if it was sent, and is not acted upon twice |
| `api::StreamHandler` | none of its own | `HandleStartStream`, `HandleStopStream`, `CreateStreamOnDemand` | queue, gateways, registry, ZLMediaKit | after a stop nothing of the stream is left; one process per stream |
| `api::HookHandler` | `retry_queue_`, its thread, counters | reports of changed, unwatched, played, published and unknown streams; retry loop; destructor | ZLMediaKit calls it; it calls the registry and the handler | bounded retries, no report counted twice, the queue drains, the destructor returns |
| `GatewayBase`, `SmartStreamProcessor`, `StreamStartValidator` | each gateway's `streams_` | `CheckStreamExists`, `ProcessStream`, `RegisterStreamToManager`, `WaitForStreamReady` | gateways | check-then-start, a failed start leaves no process and no proxy |
| RTSP/RTMP/HTTP-FLV/HLS/DASH gateways | `streams_` | `Start`, `Stop`, `IsRunning`, `GetStatus`, destructor | the above | nothing is pulled that no stop was tried for; what runs shows the entry's address |
| ONVIF/ISAPI/Dahua/PSIA gateways | `devices_` with cached addresses, `streams_` | discovery, add, delete, credentials, `GetDeviceRTSPURLs`, `StartDeviceStream`, `StopDeviceStream` | HTTP/SOAP devices, ZLMediaKit | the same, and a cached address is one of the present credentials |
| QUIC gateway | `streams_`, one server, a bridge with a pipe and FFmpeg per stream | `Start`, server mode, `Stop` | ffmpeg through a named pipe | the same |
| Local camera gateway, `HealthMonitor` | `streams_`, recovery threads | start/stop, health check on copies, recovery with cooldown | ffmpeg, registry | a camera has one running stream, no managed process without an entry, dead streams are noticed |
| `DeviceManager`, `DeviceResolver` | `cameras_` with a time to live, `capability_cache_` | `DiscoverCameras`, `ListCameras`, `GetCamera`, resolving a source | the machine's cameras | an unplugged camera is forgotten |
| `BitrateAllocator` | table of rates, `last_update_time_` | `UpdateAllocations`, `GetRecommendedBitrate` | ZLMediaKit, the registry; asked by gateways | rates within the bandwidth, none for a stream that has gone |
| HTTP/WebSocket servers, config, statistics, probing, URL parsing | connections, counters | - | - | input and output only |
| front end, scripts | - | - | HTTP API | - |

The hard behaviours: methods of the registry interleave with a sync thread that
works on copies; HTTP handlers answer before the work is done; hooks come late;
child processes die at any time and are watched from copies; FFmpeg, ZLMediaKit
and devices answer late, twice or never; every gateway looks at a stream under a lock, lets go
of it, and works on what it has seen; the queue's `Stop` and the SIP server's
`Stop` do not take the mutex of the condition variable they notify.
Cleaning up may fail: `DeleteStream`, `CloseRtpServer` and `StopProcess` report it, nobody looks, and the
entry is erased all the same.

## Modules

| Module | Models | Extends / uses |
|---|---|---|
| `StreamManager` | `src/streaming/stream_manager.cpp`: the registry and its sync thread | |
| `StreamManagerMC` | name tables for TLC | `StreamManager` |
| `StreamManager_proofs` | theorems | `StreamManager` |
| `StartPool` | what the start queue promises: a bounded pool of slots | |
| `StreamStartQueue` | `src/streaming/stream_start_queue.cpp`, mutex and condition variable included | instantiates `StartPool` |
| `StreamStartQueue_proofs` | theorems, the refinement among them | `StreamStartQueue` |
| `ProcessManager` | `src/process/process_manager.cpp`, `ffmpeg_executor.cpp`, `process_monitor.cpp` and the kernel's process table | |
| `ProcessManagerMC` | symmetry for TLC | `ProcessManager` |
| `ProcessManager_proofs` | theorems | `ProcessManager` |
| `StreamLifecycle` | one stream from the HTTP requests to the process and back: `stream_handler.cpp`, `rtsp_gateway.cpp`, `smart_stream_processor.cpp`, with the queue, the process manager and the registry as one stream sees them | instantiates `StartPool` |
| `StreamLifecycleMC` | symmetry for TLC | `StreamLifecycle` |
| `StreamLifecycle_proofs` | theorems | `StreamLifecycle` |
| `RegistryView` | the registry's answer to the calls of a gateway, for one stream | |
| `Gb28181Streams` | `src/gateway/gb28181/gb28181_gateway.cpp`: one stream, its RTP servers and SIP sessions | extends `RegistryView` |
| `SipDevices` | `sip_server.cpp` and the device table of `gb28181_gateway.cpp` | |
| `Gb28181_proofs` | theorems | `Gb28181Streams`, `SipDevices` |
| `HookRetry` | `src/api/handlers/hook_handler.cpp`: reports and their retries | extends `RegistryView` |
| `HookRetry_proofs` | theorems | `HookRetry` |
| `LocalCamera` | `src/gateway/local_camera/local_camera_gateway.cpp`, `health_monitor.cpp` | extends `RegistryView` |
| `LocalCamera_proofs` | theorems | `LocalCamera`, `BitrateAllocator` |
| `CameraDevices` | `device_manager.cpp`, `device_resolver.cpp` | |
| `PullGateway` | what the gateways that pull a stream have in common: `gateway_base.hpp`, `smart_stream_processor.cpp`, `stream_status_checker.cpp` | |
| `RtmpGateway`, `HlsGateway`, `HttpFlvGateway`, `DashGateway`, `QuicGateway` | the gateway of that name | extend `PullGateway` |
| `DeviceGateway` | what the gateways of network cameras have in common: device table, cached addresses | extends `PullGateway` |
| `OnvifGateway`, `IsapiGateway`, `DahuaGateway`, `PsiaGateway` | the gateway of that name, with its handlers | extend `DeviceGateway` |
| `PullGateways` | any one of those nine, and the world around it | instantiates the nine |
| `PullGateways_proofs` | theorems | `PullGateways` |
| `BitrateAllocator` | `src/utils/bitrate_allocator.cpp`, the helper that asks it, the thread that updates it | |
| `SipDevicesMC`, `HookRetryMC`, `LocalCameraMC`, `PullGatewaysMC`, `BitrateAllocatorMC` | symmetry and the inputs of the instances for TLC | the module of that name |

`StreamLifecycle` composes: the queue under it is the abstract `StartPool`, which
`StreamStartQueue` is shown to implement, so what holds above the pool holds above the mutex and
the condition variable. The process manager and the registry are restated for one stream, because their
own modules keep what one stream cannot see (other ids, time stamps, the steps of a pass).

### StreamManager

An action is a whole method: each holds `mutex_` from its first line to its
last. `meta[k]` is the `StreamMetadata` of key `k`, reduced to the fields
decisions read: status, the gateway ("native" for entries the sync thread made
itself, HTTP-FLV because the thread leaves its status alone, any other), whether
there is a pid, a source address or a camera's protocol (`sourced`), and the ages
of `last_update_time` and `create_time`. Ages replace times: a tick is fifteen
seconds in the run (`HalfMinute` = 2) and ten in the other configurations, and an
age stops at the first value past the longest limit. -1 is a time in the future,
which the uninitialised `create_time` may hold. A gateway that registers takes
over (`TakeOver`) an entry with neither gateway, source nor camera's protocol;
with any other it only fills in fields.

`SyncZLMStatus` takes the lock three times, so a pass is the actions `SyncBegin`,
`SyncQuery` (one of several `getMediaList` requests; a failed one lists nothing),
`PrepareStreamUpdates` (copies and decides), `ApplyStreamUpdates` and
`AutoRegister`; any caller may come between two of them. What ZLMediaKit has of a stream is
absent, idle or active, and listed under RTSP or RTMP or only under another schema
("foreign"): `AutoRegister` adopts the former only. `Listing` says what one request
may list and `Merged` what it adds to the answers before it. A pass may stall for `MaxStall`
ticks: each request may take 3 s, and so may one more for each HTTP-FLV stream. `touched`
is history: the entries some call reached between snapshot and update. `Caller` enumerates
the calls the repository makes: `RegisterStream` with Running or Starting only
(`gateway_base.hpp`, `smart_stream_processor.cpp`), never with a gateway that is
empty; hooks with any arguments, because they may be late; `UpdateStreamMetadata`
with a copy that may be stale.

Left out: statistics, broadcasts, `StartStatusSync`/`StopStatusSync` (one thread
for the life of the program), and fields no decision reads.

### StreamStartQueue and StartPool

A worker is at the test of the loop, waiting for the mutex, between a false
predicate and the wait ("block", the only place where it holds the mutex over
more than one step), asleep, running a task, or gone. `Enqueue` pushes in one
step and notifies in another; `Stop` is three steps, none with the mutex. `Stop`
is called by the destructor only, when no submitter is left. `StartPool` knows
tasks, slots and a bounded line, and nothing of mutexes; `ImplementsPool` maps
`queue`, `task` and `running` to `waiting`, `serving` and `open`.

### ProcessManager

`StartProcess` and `StopProcess` hold `mutex_` while they wait for the child, so
each is one step, whose outcome for the child is open (no fork, a child that
lives, one that is dead a second later). The monitor is four steps: it copies an
entry, looks at the process and the log without the lock, records its verdict on
whatever entry the id has by then, and tries the restart. `child` is the kernel:
free, alive or zombie. Nothing in the repository waits for children, so a dead
child stays a zombie, unless the gateway inherited an ignored SIGCHLD
(`Dispositions`). The shell that runs the command is assumed to exec FFmpeg.

Left out: `SetMaxProcesses`, `StopAllProcesses`, the destructor, resource
sampling, the EPERM and uninterruptible-sleep branches of the stop, and the
timing of the monitoring tiers: the monitor may look at any entry at any time.

### StreamLifecycle

A request is a record with the place its thread has reached; between two places no lock is
held. A start goes through

| Place | Next step | Code |
|---|---|---|
| idle | `HandleStartStream`: the registry shows Starting | `stream_handler.cpp:179` |
| asked, refused | `Enqueue` accepts it (answer 200) or not, `RefuseStart` (answer 503, status Error) | `:259` |
| queued | `WorkerTakes` it | `stream_start_queue.cpp:67` |
| check | `CheckExisting`: the gateway's first lock | `rtsp_gateway.cpp:112` |
| create | `CreateRequested`: Starting once more | `smart_stream_processor.cpp:65` |
| launch | `DirectProxy`, or `StartProcess` and `GetPid`, or the fallback `StartProcessSimple` | `ffmpeg_executor.cpp:19` |
| validate | `ValidateSimple`: alive? ready in time? | `stream_start_validator.cpp:70` |
| register, report | `RegisterStream`, `ReportStreamResult`: Running or Error | `smart_stream_processor.cpp:294` |
| store | `StoreEntry`: the gateway's second lock | `rtsp_gateway.cpp:209` |
| callback | `Callback`: the status again, `Finish` of the pool | `stream_handler.cpp:286` |

A start on demand (`HandleStreamNotFound`) runs on a thread of its own, from check to
store. A stop reads the registry (`HandleStopStream`), and from then on follows what it has
read: `AlreadyStopped`, or `MarkStopping`, `GatewayStop`, `AskIsRunning`, `FinishStop`.
`reg` and `manual` are the registry's entry, `table` is the gateway's, `managed` and
`failed` the process manager's, `alive` the live FFmpeg processes of the stream, in the table
or not. Hooks and passes of the sync thread (`ZLMStatus`, `SyncRemoves`,
`AutoRegister`) come at any time with any verdict, because they rest on what ZLMediaKit said earlier; the
`StreamManager` module says when. `overlapped` and `disturbed` are history: they change
nothing and let a property except the overlaps the code does not promise anything for.

Left out: time (a wait may end at any time), the decision between direct proxy and FFmpeg and
the transcoding parameters (either may be taken), exceptions between a request and its report, the configuration
without a queue, the GB28181 branches of both handlers (see `Gb28181Streams`), the restart by the monitor (it never
happens, see `ErrorsRestarted`), and gateways other than RTSP (see `PullGateways`).

### RegistryView

A gateway that starts a stream tells the registry so three times: requested, registered, and how it
ended. `RegistryView` has these calls as functions of the stream's status, translated from `stream_manager.cpp`, so that
`Gb28181Streams`, `HookRetry` and `LocalCamera` need not restate the registry. That `StreamManager` answers so,
whatever else happens to the entry, is the theorem `RegistryIsView` of `StreamManager_proofs`; it is also why a hook or a
pass in those modules may give a stream every status but Starting (`HookStatuses`).

### Gb28181Streams

One stream. `entry` is its `StreamInfo` in `streams_`, `open` the RTP servers in ZLMediaKit, `heard` those that have
received data, `invited` the attempts the device knows of. `CloseRtpServer` may fail, and no caller looks: `Close` then leaves the server open, in
`kept`, and the caller goes on. A start goes through device, check, open, invite and store, with `streams_mutex_` let go
between two of them: `CheckStreamExists` sweeps away an old entry, `OpenRtpServer` closes what looks like an older server,
not always with success (`Swept`), and may fail, be tried again with new ids (`Tries`), or succeed without an answer; `SendInvite` lets the device answer before `StoreStarting` has the entry. A
stop finds the entry, takes copies of its ids, closes and says BYE without the lock (`StopTeardown`), and erases by key
(`StopErase`); a BYE of the device does the same. `MatchResponse` and `ApplyResponse` are two critical sections of the
message thread. The status thread copies the entries (`PollCopy`), asks ZLMediaKit about each (`LookActive`, `LookLate`,
`LookInactive`, `LookThrows`), writes its copy back (`PollWriteBack`) and erases what has failed (`PollClean`). Messages
are lost by never being matched, and come twice or late because an invitation is never used up. While the server of an answered start
has data and the stream is not active, the status thread waits without a limit (`Waiting`). `excused` and `disturbed` are
history: the properties leave aside two starts past the same check, an entry stored while another thread is at work with
an older one, and an RTP server whose opening was not answered. None of these is handled by the code.

### SipDevices

`Receive` is the receiving thread; `HandleMessage` and `HandleRetransmission` are the message thread, which answers a
repetition from `transaction` or handles a request and stores its answer; each answer is a send that may fail on its own (an INVITE gets two: 100, then 488), and the last one sent is the one stored. A request
without a Call-ID or with CSeq 0 makes no transaction (`Traceable`), so it is handled anew each time. `CallBack` is the gateway's part of a REGISTER
or keepalive, after the answer was sent and outside every lock of the server. `CleanedUp` drops old transactions once a
clean-up is due. `CheckDeviceHeartbeat` and `RemoveOffline` are the two critical sections of the heartbeat thread.
`AddDevice`, `RemoveDevice` and `UpdateDeviceCredentials` are the handlers. Ages are in ticks.

### HookRetry

A report is taken by a thread of the HTTP server in two steps, since the registry is asked (`Receive`) and told (`Apply`)
in two calls. What is thrown in `ProcessStreamChanged`, before the look-up (`ReceiveThrows`) or at the update (`ApplyThrows`),
is caught there and answered with false, which `HandleStreamChanged` takes for a report put off: it is neither queued nor counted. The
other handlers count what they catch, and the retry thread takes what is thrown for one more failed retry (`RetryThrows`). `thrown` is history. Reports of unknown streams go to `queue` with their count and wait. The retry thread is `Test`, `Drain`
(what is due goes into the batch, the first that is not goes to the back), `Retry`, `RetryApply`, `BatchDone`; `Stop` is
the destructor. `counted`, `retried` and `applied` count what happened to each report. `Drain` states what it does and not how: the due tasks are
the prefix that `Due` picks, and the batch is any sequence of those with retries left that keeps their order (there is one).

### LocalCamera and CameraDevices

Starts run on the queue's threads or on the health monitor's recovery threads. `StartCameraStream` takes
`streams_mutex_` for its first look only; `ScanOccupied`, `Spawn`, `Validate`, `Register` and `Store` follow without it. A stop
holds it throughout. `StartProcess` has the manager start FFmpeg (`managed`), or the executor fork one beside it when the manager refuses
(`forked`); `StopProcess` asks the manager alone, so that a fork lives on while its entry goes (`left`). `CopyStreams`, `CheckStreamHealth` and `Recover` are the monitor: copies, verdict, and the
decision to recover from the copy. `Destroy` is the destructor, after the monitor and its recoveries have been joined. `overlapped` (two
starts of one stream at once), `raced` (two streams started on one camera at once) and `left` are what the properties
leave aside: the code has no lock for the first two, and no stop for the third.

`CameraDevices` is the device cache: `DiscoverCameras` adds, `ListCameras` (`ListCached`, `ListScan`, `UpdateDeviceList`,
`ListRead`) replaces, and `ResolveDevice` goes to one or the other by id or by index. A scan runs without the lock and
may fail. Calls take no time in it.

### PullGateway, DeviceGateway and the nine gateways

`PullGateway` has the parts: `Begin`, `Check` (`CheckStreamExists`: stop what is left, which sets its entry to Stopped or Error, or refuse), `LockAndPull`, `ProxySends`,
`ProxyFails` (refused, late and deleted, or late and left), `Transcode`, `Finish`, `Stop`, `Destroy`, and `Observe`, a query
that writes what it sees. A gateway's module says which parts its `Start` is made of and what its stop and destructor delete. The lock
is held from `Pull` to `Finish`, the whole of `ProcessStream` included. `DeleteStreams` may fail for any of its streams, and `StopProcesses` misses what the
executor has forked beside the manager; nobody looks at either result. What a stop has not reached is in `left` (processes, QUIC's FFmpeg
that waits for a writer among them) or in `lingering` (proxies). A dead child is a zombie and may be taken to be alive (`Sees`). `DeviceGateway` adds the device table, `Look` (the cache), `Ask` (the device is
asked, under `streams_mutex_` in a start but without `devices_mutex_`) and `Answer`; an address is a device, a channel and the credentials it was asked with.
`PullGateways` picks one of the nine, because none shares state with another, and adds the end of proxies, processes and
bridges and the HTTP-FLV gateway's second unlock (`stolen`). `overlapped` and `outdated` are history as `lingering` is.

### BitrateAllocator

`GetRecommendedBitrate` and `BitrateUpdateLoop` are whole calls under `mutex_`; both update the table when it is old.
Rates are integers in kbps, factors in percent. `Publish` changes what ZLMediaKit lists: protocols of a stream, and the
rate it measures. `gone` is history: how long a stream has not been listed.

## Runs

| Run | Instance | Shows |
|---|---|---|
| `StreamManager` | one stream, 2 requests per pass, interval 1 tick, stall 2 ticks, 3 calls | `TypeOK`, `NoResurrection`, `FreshEntries`, `SyncRemovesOnlyDead`, and under fairness `Converges` |
| `StreamStartQueue` | 2 workers, 3 tasks, queue of 2 | `NoLostWakeup`, `ImplementsPool` (liveness included), `EveryTaskAnswered` |
| `StreamStartQueue_stop` | 2 workers, 1 task | `StopReturns` is violated |
| `ProcessManager` | 2 ids, 3 pids, limit 2, one restart, both dispositions | `NoOrphan`, `OwnPids` |
| `StreamLifecycle` | 2 starts, 1 stop, 1 worker, a line of 1, 2 pids | `NoLimbo`, `NothingLost`, `StopLeavesNothing` |
| `Gb28181Streams` | 2 starts, 1 stop of a stream, final answers of either kind | `ServersKnown`, `StopIsFinal`, `NoLimbo`, and under fairness `StartsSettle` |
| `SipDevices` | one device with 5 requests (one without a CSeq) and a stranger, a queue of 1, all periods 1 tick but a clean-up every 2 | `OnlineFresh`, `FinalAnswersKept`, `AtMostOnce` |
| `HookRetry` | 3 reports under two names, 2 retries | `ChangedOnce`, `NoneReaderBounded`, and under fairness `Drains`, `StopEnds` |
| `LocalCamera` | 2 streams, 2 cameras, 2 pids, 2 requests, 1 recovery, 1 fork beside the manager | `NoOrphan`, `CameraExclusive`, `NoLimbo`, and under fairness `CrashNoticed` |
| `PullGateways` | each of nine gateways: 1 stream, 2 threads, 3 calls, 1 device with 2 channels, 1 pair of credentials and none | `NoOrphan`, `PlaysWhatItSays`, `CacheOfCredentials`, `RunningKept` |
| `BitrateAllocator` | 2 streams, up to 2 protocols each, 15 Mbps | `WithinBandwidth`, `KnownIsRecent` |
| `CameraDevices_unplugged` | 2 cameras, 2 indices, 2 threads | `UnpluggedIsForgotten` is violated |

`TypeOK` (`SipTypeOK` and `AllocTypeOK` in two modules whose proofs share a module with another's) is checked in every run that lists it in its configuration. The runs that end in a violation check a promise of a
comment or document of the repository against the code; `PROJECT.json` quotes it.

**Bounds.** In `StreamManager`, `MaxCalls` caps what callers, ZLMediaKit's changes and failed
requests may do; passes and ticks are not capped. Three calls are enough for
create, stop and create again, or create, a change in ZLMediaKit and a hook, around one pass.
A pass of two requests has one that lists foreign schemas and one that does not; a stall of two ticks,
the 30 s that five requests and five HTTP-FLV streams may take, makes entries old enough to be
dropped, in Error too (`updated` passes 4 ticks). One stream is enough for
the properties of one key, since no method of the registry relates two keys
except the base name. Three tasks on a queue of
two with two workers reach the full queue, both workers asleep and both busy.
Three pids are the forks a run may make when zombies are never reaped: a start,
a restart and a fallback. Nothing about pids of ended processes goes further:
the theorems have no such bound. `StreamLifecycle` needs two starts to have one in the queue while
another is in the gateway, one of them possibly on demand, and to have one refused; its one stop meets them at
every place. Two stops are beyond TLC (the state space passes ten million states
without an end); the theorems cover any number of each.

`Gb28181Streams` needs a second start for a stale copy of the first to meet; its messages are not bounded. 100 Trying does what a refusal does, so two kinds of answers are enough. In `SipDevices` the queue of one request
orders nothing that UDP has not disordered before. Its ticks stop each age at the first value past its limit, so that
nothing is bounded but the queue. In `HookRetry` each report comes once: a report that is repeated is another report. The three
have every way through the handlers, and two retries are the code's constant. `LocalCamera` has as
many requests as streams: a second start of a stream comes from the monitor, whose checks are not bounded. `MaxForked` = 1 lets one live fork meet
a managed process of the same or the other stream. In `PullGateways`
three calls allow a start beside a start and a third after them, or two starts around changes of the device, which are not bounded.
`BitrateAllocator` uses main.cpp's limits, and a bandwidth that two entries exceed when they have what they ask for.

**Deadlock** is checked in the `StreamManager` and `BitrateAllocator` runs. The others may come to a state where no call is
left to be made: the queue is stopped, every child a zombie and nobody calls, all requests answered, the gateway destroyed.

**Fairness.** `StreamManager`: the clock and the sync thread (it sleeps with a
timeout and its requests have timeouts). No caller, no hook and no change in
ZLMediaKit is fair, so `Converges` speaks of the time after the last of them.
`StreamStartQueue`: every thread that can step does; `gateway->Start` returns,
because probes, process starts and waits for a stream are all bounded in time.
Nobody has to enqueue or to stop. Weak fairness is enough for `Take` since a worker that waits
for the mutex finds it free at the latest when the blocking worker sleeps.
`Gb28181Streams`: the status thread runs, and a stream it looks at again and again, and that is not `Waiting`, is, in the end, active or older than its
timeout (strong fairness of `PollSettles`: without an answer the time runs from the entry's creation, with one from the answer; a look may throw, but ZLMediaKit is not
taken to be out of reach for ever). A start whose server has data is excepted, from the fairness and from `StartsSettle`: the code keeps it
Starting for as long as the data comes and no stream does (`gb28181_gateway.cpp:1558`, `:1585`). No device and no message is fair.
`HookRetry`: the retry thread runs and seconds pass. `LocalCamera`: the monitor runs, and a recovery, whose waits all have
timeouts. `ProcessManager` states the monitor's fairness for `ErrorsRestarted`. `StreamLifecycle`, `SipDevices`, `PullGateways`, `CameraDevices` and
`BitrateAllocator` state safety only and assume none.

## Proofs

TLAPS checks every theorem for all values of the constants, from the assumptions
named in the modules.

- `StreamManager_proofs`: the inductive invariant adds to `TypeOK` what each place of
  a pass guarantees (which locals are empty, how far the timer is), that a stream
  marked stopped is on the manual-stop list, and a bound on the age of every
  entry that depends on where the pass is. `StoppedStaysOut` needs the second:
  `AutoRegister` is the only step that creates entries unasked, and it respects
  the list. `AlwaysFresh` needs the third: the bound grows by the ticks the pass
  has spent since it last stamped the entries. `PassesDropOnlyDead` holds for any stall,
  passes that do drop entries included: what the pass removes was long dead when it was copied
  and has only aged since, unless a call has reached it (`touched`). Such an entry
  is dropped though it lives: see `SyncSparesTheLiving`.
  `RegistryIsView` shows `GatewaysSeeView`: what a gateway sees of a stream changes with each
  of its calls as `RegistryView` says, and every other step leaves it or takes it elsewhere than
  to Starting. Beyond the types this needs that no update computed from a snapshot says Starting (`StartsNothing`).
  No run has this property; it is stated beside its proof.
- `StreamStartQueue_proofs`: `WakeupsSuffice` is inductive together with types and
  with "at most one worker holds the mutex in front of the wait, and then the
  queue is empty". `QueueIsPool` maps every step to a step of `StartPool` or a stutter.
- `ProcessManager_proofs`: `NothingOrphaned` and `PidsAreOwn` need that a pid is given to
  one entry only, that entries with a pid are present, and that the monitor's copy may be stale without
  harm because nothing is signalled from it. `WithinLimit` bounds the live
  managed processes by the entries: a start at the limit is refused. TLC's
  instances with 3 ids and 3 pids are too large to be of use here; the theorem covers
  them all.
- `StreamLifecycle_proofs`: the three properties share one inductive invariant.
  `QueuedInv` says that every task in the line is a start at "queued" and occurs there
  once; without it a worker might take a start that has moved on. `AloneInv` says that without an overlap at most one start is between
  the gateway's two locks. `LostInv` follows where the managed pid is known: in the gateway's
  entry (kept), with nobody and dead (bare), or with the one start that is between the locks
  (own). `CalmInv` says that a stop that is not disturbed has no start in progress beside it.
  `GoneInv` says that from the gateway's `Stop` to the end such a stop finds no managed process alive:
  nobody is left to start one, and another stop can only take one away.
  `NothingLost` is what makes the last step go through, since `Stop` asks the manager only
  when the gateway's entry has a pid. `NoLimbo` needs that each place after a write
  of Starting leads to a write of Running or Error, also on the thread of a start on demand.

- `Gb28181_proofs`, of the devices: `OnlineFresh` is not inductive: how far an online device may be past the timeout depends on how long
  ago the check last ran, and is nothing while it is about to remove what it found offline (`OnlineSince`). `FinalAnswersKept` is
  inductive with `SipTypeOK`: only the step that answers a request writes its code, that of the last answer sent, and `unsent` notes when that is not the final one. `GrantedOnce` is an action property and
  rests on `GrantsKept`: a grant that is younger than `Retain` has its transaction, and the transaction is no older than the grant,
  so that no clean-up drops it first.
- `Gb28181_proofs`, of the streams: `Undisturbed` says what a stop has found so far, if no start came across. Until a start is excused, `Coherent` holds: one start
  opens at a time (`OneOpens`) and no server is open but its own (`OwnServer`), those aside that a failed attempt to close them has kept (`kept`); whoever works with a copy of the entry (a stop, a BYE, the status thread)
  has the entry's own attempt in it, and has closed its server before it erases (`Current`); Starting is what a start has asked for or an entry that
  nobody is about to erase or overwrite (`Awaited`). Each of the four properties fails without one of them: a stale copy that is written back is harmless
  only because `Current` makes it the copy of what is there.
- `LocalCamera_proofs`, of the cameras: the gateway's entry is stored last, so what a process belongs to has to be followed through the places of a start.
  `Clear` says that a start past its look has stopped what there was, and past its spawn holds the live process, on the camera it has chosen; `Owned`
  that every live process, but what a stop has missed, is an entry's or such a start's; `ListedOwn` that an entry that says Running has the live pid. A camera is claimed from the scan on
  (`Claims`), and `Exclusive`, stated for claims, is inductive where `CameraExclusive`, stated for processes, is not. All of it leaves aside
  `overlapped` and `raced`. `NoLimbo` needs `WhoStarts`, which of the two threads of a stream has asked, and no excuse. The assumption gained
  `Cameras # {}`: `Init` gives every pid some camera.
- `LocalCamera_proofs`, of the bit rates: `KnownIsRecent` needs `Recent`, that an entry's stream has been away no longer than the table is old, and that one
  that is listed has not been away at all. `WithinBandwidth` is a sum. The library's theorems about sums are by induction with an operator as a parameter,
  so the fold's recursive function is shown to exist by the least number principle (`SmallSums`, `SumIsSum`), and a sum lies between the number of terms times
  a lower and an upper bound by the same principle (`SumBetween`). Then (`Shares`) the active streams are no more than the protocols
  they are listed under, each has the share of one, and what rounding cuts off is lost. The assumption gained that the streams are finitely many and that the
  bandwidth is a multiple of 1000 (it is configured in Mbps): percentages of it are exact.
- `HookRetry_proofs`: a report `stream_changed` is in one place, with its handler, in the queue or in the batch, and there once
  (`OnePlace`); its task counts at least its retries (`Counts`); nothing was counted while it waits, nothing applied unless its processing has thrown, and when it does not wait it was counted once, or
  not at all if it has thrown (`Done`). The step that takes the due tasks needs that the queue and the batch are the old queue rearranged, each task in one place of one
  of them (`Parted`): that a queue has a due prefix follows from the least number principle, that an ordered choice of places leaves none out from
  a bijection between finite sets.
  `NoneReaderBounded` counts what may become of a task that comes back as two: a way through that tree is the set of the retries after
  which it takes the second of the two, a subset of the retries left (`Paths`), and the sets that are not empty stand for the retries of the tree, one each (`Tries`).
  A task that is put back maps its two successors' paths into its own by an injection that leaves one retry out
  (`TaskDoubled`); one that is applied takes a retry with it (`TaskGone`). So `Doubling` is inductive: retries had and to come stay below the number of
  subsets of the retries, which is where 2^`MAX_RETRY_COUNT` comes from. The histories are capped above that number for
  any limit, so that the theorem says something of every one of them.
- `PullGateways_proofs`: the inductive invariant is about the operators of `PullGateway` and `DeviceGateway`, and one lemma for each of the nine gateways maps the
  gateway's actions to them; whatever any of them does is then a step of one of a few kinds. `Calls` says which address a call has at which place,
  `Locked` that the mutex is held by the one start that is past it, unless HTTP-FLV has given it away. For a stream no two starts have overlapped on, `Sound` holds:
  one start at most (`Sole`), which has stopped what there was before it (`Cleared`); a live process has an entry that knows it (`OwnProcess`); a proxy has
  an entry (`OwnProxy`) and is of the address the entry shows (`Shown`). What a stop did not reach, in `left` and `lingering`, is outside all of these, and the
  lemmas `Deleted` and `ProcessesStopped` say that nothing else survives a failing clean-up. `NoOrphan` is not inductive
  without `Cleared`: a start that stores its entry would cover up what an earlier one has left. `CacheOfCredentials` needs `AskedWithPresent`, that the
  question under way was put with the credentials the device has. QUIC's bridges (`Bridged`) have an entry, and no proxies. The assumption gained that `None` is
  no stream, beside no thread.

Only model-checked, and why:

- `Converges`, `EveryTaskAnswered`, the liveness half of `ImplementsPool`, `StartsSettle`, `Drains`, `StopEnds`, `CrashNoticed`: liveness under fairness
  is beyond the prover.
- The violations.

Every invariant of a passing run, and every action property of one, is stated by a theorem.

## Findings

| Run | Source | Disagreement |
|---|---|---|
| `StreamStartQueue_stop` | `stream_start_queue.cpp:53` | a worker between predicate and wait misses the notification; the destructor never returns |
| `CameraDevices_unplugged` | `device_manager.cpp:51` | an unplugged camera's entry is made new by a scan that did not find it, and a start is given it |

### Statements the code refutes

Nine more statements of comments, documents and log lines are kept with their configurations beside the runs listed above, to be
checked by hand (`tlc -config X.cfg` with the MC module of that name); TLC finds each of them violated. A configuration
that serves two statements names the second in a comment: TLC ends at the first it refutes.

| Statement | Configuration | Source | Disagreement |
|---|---|---|---|
| `ExitDetected` | `ProcessManager_exit` | `process_monitor.cpp:90` | exited children stay zombies and count as alive |
| `ErrorsRestarted` | `ProcessManager_restart` | `process_manager.cpp:632` | the first attempt always fails its own back-off, and there is no second |
| `StoppedIsStopped` | `StreamLifecycle_refuted` | `ffmpeg_executor.cpp:98` | a refused start is forked outside the table, above the limit, and no stop reaches it |
| `AlreadyStoppedIsStopped` | `StreamLifecycle_refuted` | `stream_handler.cpp:410` | a stream the registry shows as Stopped is not stopped, though its FFmpeg may run |
| `ErrorsAreCleaned` | `StreamManager_cleanup` | `stream_manager.cpp:1131` | the age of dead entries is reset on every pass |
| `TimesOrdered` | `StreamManager_refuted` | `stream_manager.cpp:288` | `create_time` is read uninitialised |
| `NoAliasResurrection` | `StreamManager_refuted` | `stream_manager.cpp:1249` | the manual-stop list is consulted under one name only |
| `SyncSparesTheLiving` | `StreamManager_refuted`, with `HalfMinute` = 2, `MaxStall` = 1 | `stream_manager.cpp:1134` | a removal decided from the snapshot is carried out though the entry was started again since |
| `StopClosesServers` | `Gb28181Streams`, as an invariant in place of `StopIsFinal` | `gb28181_gateway.cpp:736` | the result of `CloseRtpServer` is not looked at: the log says closed, the server is open and its entry erased |

### Disagreements

Seen while modelling; the models do what the code does, and no run states them.

- Every gateway ignores that `DeleteStream`, `CloseRtpServer` or `StopProcess` has failed (`gateway_base.hpp:411`, `gb28181_gateway.cpp:736`,
  `local_camera_gateway.cpp:528`) and erases the entry: what is left has no stop any more. `AddStreamProxy` takes "already exists" for
  success (`zlm_client.cpp:113`), so a start over a proxy that was left shows an address that is not pulled.
- GB28181: every answer but 200 ends a start, 100 Trying included (`gb28181_gateway.cpp:1842`, whose comment speaks of 486 and 488). The
  destructor closes the SIP socket before it sends its BYEs (`:136`, `:142`). A device "has to wait for its REGISTER" to be online
  (`:914`) but a keepalive does it too (`:1127`). A device that registers between the two critical sections of the heartbeat thread is deleted (`:1362`).
- Hook handler: an exception in `ProcessStreamChanged` looks like a report put off, and is lost (`hook_handler.cpp:379`, `:71`); the retry queue is not "sorted by time" (`hook_handler.cpp:456`); a none_reader task is put back by two branches
  (`:486`, `:504`); the reader count it means to clear is not among what `UpdateStreamMetadata` copies.
- Local camera: each start stores a count of recoveries of zero (`local_camera_gateway.cpp:466`), so `max_recover_attempts` never ends them.
- Device gateways: a cached address answers for every channel (`isapi_gateway.cpp:263`, and the same in the other three). A request under way with old
  credentials writes its address into the cache of a device that has been given new ones. The ONVIF destructor leaves its proxies.
- HTTP-FLV: a refused RTMP address unlocks the mutex twice (`httpflv_gateway.cpp:208`). A proxy that is late is not deleted before FFmpeg is tried
  (`smart_stream_processor.cpp:471`).
- QUIC: the bridge's FFmpeg is known by no pid; one that opens its pipe after the bridge has given up waits for ever; pipes of one second share a name.
- Bitrate allocation: every protocol of a stream has a share "per stream" (`bitrate_allocator.cpp:349`); the minimum may exceed the bandwidth; the network
  quality compares a rate with itself; a failed request empties the table.
- Local devices: the capability cache may hold what another camera at the same index can do.

## Not modelled

Text and formats: SIP and SDP, SOAP, XML and JSON, digests, URLs beyond what a decision reads, FFmpeg's command lines. HTTP routing and
WebSocket broadcasts, statistics, the configuration file. Probing with ffprobe and the transcoding decision: models let either
result come. QUIC packets and FEC, whose reception and recovery are marked TODO in the source. SetConfig and the adjustments of the allocator that nothing calls.
`SipServer::Stop`, which has the pattern of the start queue's. The unlock by hand at `gb28181_gateway.cpp:291`, undefined behaviour on an error path.

## Plan

Done: registry, queue, processes, lifecycle, GB28181 streams and devices, hooks, local cameras, the nine gateways, bit rates, all of them proved about.
To come: the handlers and formats under "Not modelled" as far as a decision depends on them.
