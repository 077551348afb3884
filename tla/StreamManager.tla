---------------------------- MODULE StreamManager ----------------------------
(***************************************************************************)
(* streaming::StreamManager, the registry every other part of the gateway  *)
(* reads and writes (src/src/streaming/stream_manager.cpp).                *)
(*                                                                         *)
(* One entry per app/stream holds the status, the gateway that created it  *)
(* and two time stamps.  HTTP handlers, gateways and ZLMediaKit hooks call *)
(* its methods from their own threads; each method holds mutex_ from its   *)
(* first to its last line, so each is one action here.  SyncZLMStatus runs *)
(* on a thread of its own and takes the lock three separate times around   *)
(* HTTP requests and a lock-free computation, so it is five actions:       *)
(*                                                                         *)
(*   sleep -> query (one request per schema) -> apply -> adopt -> sleep    *)
(*                                                                         *)
(* Time is discrete.  A tick stands for ten or fifteen seconds; the model  *)
(* keeps the age of a time stamp instead of its value.                    *)
(***************************************************************************)
EXTENDS Integers, FiniteSets

CONSTANTS
  Streams,       (* the stream keys ("app/stream") that may be used         *)
  BaseName,      (* a GB28181 name without its time stamp, else the name    *)
  HalfMinute,    (* ticks in 30 seconds                                     *)
  SyncInterval,  (* ticks the sync thread sleeps between two passes         *)
  MaxStall,      (* ticks one pass may spend in requests to ZLMediaKit      *)
  Requests,      (* getMediaList requests of one pass; the last one asks    *)
                 (* for RTSP and RTMP, those before it for other schemas    *)
  MaxCalls       (* bound: calls, ZLM changes and failed requests           *)

ASSUME StreamManagerAssumption ==
  /\ BaseName \in [Streams -> Streams]
  /\ HalfMinute \in Nat \ {0}
  /\ SyncInterval \in Nat \ {0}
  /\ MaxStall \in Nat
  /\ Requests \in Nat \ {0, 1}
  /\ MaxCalls \in Nat

VARIABLES
  registered,    (* the keys of streams_                                    *)
  meta,          (* the entry of every key; Blank when not registered       *)
  manual,        (* manually_stopped_streams_                               *)
  zlm,           (* what ZLMediaKit really has under each name              *)
  pc,            (* where the sync thread is                                *)
  timer,         (* ticks it has slept, or spent in the current pass        *)
  pending,       (* requests it has still to make in this pass              *)
  listed,        (* zlm_stream_map: what the requests have returned so far  *)
  snapshot,      (* the keys PrepareStreamUpdates has copied                *)
  updates,       (* the update it computed for each of them                 *)
  nowAge,        (* age of the "now" this pass read before the snapshot     *)
  stopped,       (* history: keys unregistered and not asked for since      *)
  touched,       (* history: keys some call reached since the snapshot      *)
  calls          (* budget used so far                                      *)

registry == <<registered, meta, manual, stopped>>
thread   == <<pc, timer, pending, listed, snapshot, updates, nowAge>>
vars     == <<registry, zlm, thread, touched, calls>>

-----------------------------------------------------------------------------
Status   == {"Stopped", "Starting", "Running", "Stopping", "Error"}
Gateways == {"native", "httpflv_gateway", "other_gateway"}

\* An entry of getMediaList: absent, listed without data, listed and active
\* (ZLMClient::IsStreamActive).  A foreign one is listed under neither RTSP nor
\* RTMP.
NativeMedia == {"idle", "active"}
Media       == {"absent", "foreign_idle", "foreign_active"} \cup NativeMedia
Active(m)   == m \in {"active", "foreign_active"}

\* Ages stop at the first value past every limit an age is compared with.  -1
\* is a time stamp in the future, which no amount of waiting makes old.
OldAge == 1 + IF 2 * HalfMinute > SyncInterval + 2 * MaxStall
              THEN 2 * HalfMinute ELSE SyncInterval + 2 * MaxStall
Ages   == -1 .. OldAge
Older(a) == IF a \in 0 .. OldAge - 1 THEN a + 1 ELSE a

\* "sourced": the entry has a source_url, or a camera's protocol.
Meta == [status : Status, gateway : Gateways, sourced : BOOLEAN, pid : BOOLEAN,
         updated : 0 .. OldAge, created : Ages]
Blank == [status |-> "Stopped", gateway |-> "native", sourced |-> FALSE,
          pid |-> FALSE, updated |-> 0, created |-> 0]

Update   == [old : Status, new : Status \cup {"keep"}, remove : BOOLEAN]
NoUpdate == [old |-> "Stopped", new |-> "keep", remove |-> FALSE]

\* No caller sets create_time and the field has no initializer, so the test
\* "create_time == 0" reads an indeterminate value: the entry starts with the
\* current time, with one long past or with one still to come.
CreateTimes == {0, OldAge, -1}

Call == calls < MaxCalls /\ calls' = calls + 1

\* A call that may write the entries of ks.
CallOn(ks) ==
  /\ Call
  /\ touched' = IF pc = "apply" THEN touched \cup ks ELSE touched

-----------------------------------------------------------------------------
(* Helpers of the registry.                                                *)

IsGatewayRegistered(g) == g # "native"
IsAutoRegistered(e)    == e.gateway = "native" /\ ~e.sourced

\* u: the metadata brings a source_url, or a protocol where there was none.
UpdateMetadataFields(e, g, p, u) ==
  [e EXCEPT !.gateway = g, !.sourced = @ \/ u, !.pid = @ \/ p]

\* RegisterStream over an existing entry: a gateway, which always says where
\* its stream comes from, takes an auto-registered entry over, copying
\* everything but the pid.
TakeOver(e, g, p) ==
  IF IsGatewayRegistered(g) /\ IsAutoRegistered(e)
  THEN [e EXCEPT !.gateway = g, !.sourced = TRUE]
  ELSE UpdateMetadataFields(e, g, p, TRUE)

NewEntry(s, g, p, c) ==
  [status |-> s, gateway |-> g, sourced |-> TRUE, pid |-> p,
   updated |-> 0, created |-> c]

\* The status an entry takes when it is registered again with status s.
Upgrade(cur, s) ==
  IF \/ s = "Running"
     \/ s = "Starting" /\ cur # "Running"
     \/ s = "Stopped" /\ cur \notin {"Running", "Starting"}
  THEN s
  ELSE cur

\* Whether that also refreshes last_update_time.
Refreshes(cur, s) == Upgrade(cur, s) = s

Reregistered(e, g, p, s) ==
  [TakeOver(e, g, p) EXCEPT
     !.status  = Upgrade(@, s),
     !.updated = IF Refreshes(e.status, s) THEN 0 ELSE @]

\* A create request never takes a Running stream back to Starting.
Rerequested(e, g, u) ==
  [UpdateMetadataFields(e, g, FALSE, u) EXCEPT
     !.status  = IF @ = "Running" THEN "Running" ELSE "Starting",
     !.updated = 0]

CreateResultStatus(cur, success) ==
  IF success \/ cur = "Running" THEN "Running" ELSE "Error"

\* OnZLMStreamState: what a hook makes of an entry.  "effective" is alive, or
\* some bytes seen.
HookStatus(e, regist, effective) ==
  CASE regist /\ effective -> "Running"
    [] regist /\ ~effective /\ e.status = "Starting"
       /\ e.created < 2 * HalfMinute -> "Starting"
    [] ~(regist /\ effective) /\ e.status = "Running"
       /\ e.updated < HalfMinute -> "Running"
    [] OTHER -> "Stopped"

-----------------------------------------------------------------------------
(* Methods called by HTTP handlers, gateways and hooks.                    *)

RegisterStream(k, g, p, s, c) ==
  /\ CallOn({k})
  /\ registered' = registered \cup {k}
  /\ stopped' = stopped \ {k}
  /\ meta' = [meta EXCEPT ![k] =
       IF k \in registered THEN Reregistered(@, g, p, s)
       ELSE NewEntry(s, g, p, c)]
  /\ UNCHANGED <<manual, zlm, thread>>

\* The key itself, else the GB28181 name without its time stamp.  Both names
\* go to the manual-stop list when the exact one is not registered.
UnregisterStream(k) ==
  LET target == IF k \in registered THEN k ELSE BaseName[k] IN
  /\ CallOn({k, target})
  /\ manual' = manual \cup {k, target}
  /\ registered' = registered \ {target}
  /\ meta' = [meta EXCEPT ![target] = Blank]
  /\ stopped' = stopped \cup {k, target}
  /\ UNCHANGED <<zlm, thread>>

UpdateStreamStatus(k, s) ==
  /\ CallOn({k})
  /\ k \in registered
  /\ meta' = [meta EXCEPT ![k].status = s, ![k].updated = 0]
  /\ UNCHANGED <<registered, manual, stopped, zlm, thread>>

\* The play and none_reader hooks pass a copy they read in an earlier call, so
\* this may bring back the gateway, the source and the pid of an older entry.
\* The reader count, the only field they change, is not copied.
UpdateStreamMetadata(k, g, p, u) ==
  /\ CallOn({k})
  /\ k \in registered
  /\ meta' = [meta EXCEPT ![k] = [UpdateMetadataFields(@, g, p, u) EXCEPT !.updated = 0]]
  /\ UNCHANGED <<registered, manual, stopped, zlm, thread>>

\* A camera's request may come without a source_url.
OnStreamCreateRequested(k, g, u, c) ==
  /\ CallOn({k})
  /\ registered' = registered \cup {k}
  /\ stopped' = stopped \ {k}
  /\ meta' = [meta EXCEPT ![k] =
       IF k \in registered THEN Rerequested(@, g, u)
       ELSE NewEntry("Starting", g, FALSE, c)]
  /\ UNCHANGED <<manual, zlm, thread>>

OnStreamCreateResult(k, success) ==
  /\ CallOn({k})
  /\ k \in registered
  /\ meta' = [meta EXCEPT ![k].status  = CreateResultStatus(@, success),
                          ![k].updated = 0]
  /\ UNCHANGED <<registered, manual, stopped, zlm, thread>>

\* A hook, possibly late: its arguments need not agree with zlm.
OnZLMStreamState(k, regist, effective) ==
  /\ CallOn({k})
  /\ k \in registered
  /\ meta' = [meta EXCEPT ![k].status  = HookStatus(meta[k], regist, effective),
                          ![k].updated = 0]
  /\ UNCHANGED <<registered, manual, stopped, zlm, thread>>

-----------------------------------------------------------------------------
(* The status sync thread.                                                 *)

\* wait_for has timed out: the next pass begins with its first request.
SyncBegin ==
  /\ pc = "sleep" /\ timer = SyncInterval
  /\ pc' = "query" /\ timer' = 0 /\ pending' = Requests
  /\ UNCHANGED <<registry, zlm, listed, snapshot, updates, nowAge, touched, calls>>

\* What a request may list of stream k.  A stream that ZLMediaKit has under
\* RTSP or RTMP need not be there under the other schemas, and it is active
\* under all of its schemas or under none.
Listing(k) ==
  IF pending = 1
  THEN IF zlm[k] \in NativeMedia THEN {zlm[k]} ELSE {"absent"}
  ELSE CASE zlm[k] = "active" -> {"absent", "foreign_active"}
         [] zlm[k] = "idle"   -> {"absent", "foreign_idle"}
         [] OTHER             -> {zlm[k]}

\* What becomes of the record m of a stream when a request lists it as n: it
\* keeps either, depending on which schema its entry is looked up under.
Merged(m, n) ==
  CASE n = "absent" -> {m}
    [] m = "absent" -> {n}
    [] n \in NativeMedia /\ m # "absent" -> {n, IF Active(m) THEN "active" ELSE "idle"}
    [] n \notin NativeMedia /\ n # "absent" /\ m # "absent" -> {m, n}

\* One getMediaList request.  It adds the streams it lists to those of the
\* earlier requests.  A failed request lists nothing.
SyncQuery(answered) ==
  /\ pc = "query" /\ pending > 0
  /\ pending' = pending - 1
  /\ IF answered
     THEN /\ listed' \in [Streams -> Media]
          /\ \A k \in Streams : \E n \in Listing(k) : listed'[k] \in Merged(listed[k], n)
          /\ UNCHANGED calls
     ELSE Call /\ UNCHANGED listed
  /\ UNCHANGED <<registry, zlm, pc, timer, snapshot, updates, nowAge, touched>>

\* Mutant: a pass revives no stream in Error.
SyncedStatusNoRevival(e, m) ==
  CASE e.gateway = "httpflv_gateway" \/ e.status = "Error" -> "keep"
    [] OTHER -> IF Active(m) THEN "Running" ELSE "Stopped"

\* The status ZLM's answer gives the copy e of an entry ("keep": none).
SyncedStatus(e, m) ==
  CASE e.gateway = "httpflv_gateway" -> "keep"
    [] e.gateway # "httpflv_gateway" /\ m # "absent" ->
         IF Active(m) THEN "Running" ELSE "Stopped"
    [] e.gateway # "httpflv_gateway" /\ m = "absent" ->
         CASE e.status = "Running" -> "Stopped"
           [] /\ e.status = "Starting"
              /\ e.updated > IF e.pid THEN HalfMinute ELSE 2 * HalfMinute
                -> "Error"
           [] OTHER -> "keep"

\* Mutant: the status of the copy is not looked at.
ExpiredAnyStatus(e, m) ==
  e.gateway # "httpflv_gateway" /\ m = "absent" /\ e.updated > HalfMinute

\* Whether the copy e has been dead for long enough to be dropped.
Expired(e, m) ==
  /\ e.gateway # "httpflv_gateway"
  /\ m = "absent"
  /\ \/ e.status = "Error"   /\ e.updated > 2 * HalfMinute
     \/ e.status = "Stopped" /\ e.updated > HalfMinute

PreparedUpdate(e, m) ==
  [old |-> e.status, new |-> SyncedStatus(e, m), remove |-> Expired(e, m)]

\* "now" is read and the registry copied under the lock; what follows up to
\* SyncApply works on the copy.
PrepareStreamUpdates ==
  /\ pc = "query" /\ pending = 0
  /\ pc' = "apply"
  /\ snapshot' = registered
  /\ updates' = [k \in Streams |-> IF k \in registered
                                   THEN PreparedUpdate(meta[k], listed[k])
                                   ELSE NoUpdate]
  /\ nowAge' = 0
  /\ touched' = {}
  /\ UNCHANGED <<registry, zlm, timer, pending, listed, calls>>

\* Mutant: new_status is read without has_value().
AppliedStatusUnchecked(cur, u) == IF u.new = u.old THEN cur ELSE u.new

\* An update replaces the status only if it differs from the copied one,
\* whatever the entry's status has become since.
AppliedStatus(cur, u) == IF u.new \in {"keep", u.old} THEN cur ELSE u.new

\* Mutant: the time stamp is refreshed with the status only.
AppliedEntryChanged(e, u) ==
  [e EXCEPT !.status  = AppliedStatus(@, u),
            !.updated = IF AppliedStatus(e.status, u) = e.status THEN @ ELSE nowAge]

AppliedEntry(e, u) == [e EXCEPT !.status = AppliedStatus(@, u), !.updated = nowAge]

ApplyStreamUpdates ==
  LET found   == registered \cap snapshot
      removed == {k \in found : updates[k].remove}
  IN
  /\ pc = "apply"
  /\ pc' = "adopt"
  /\ registered' = registered \ removed
  /\ meta' = [k \in Streams |->
       IF k \in removed THEN Blank
       ELSE IF k \in found THEN AppliedEntry(meta[k], updates[k])
       ELSE meta[k]]
  /\ snapshot' = {}
  /\ updates' = [k \in Streams |-> NoUpdate]
  /\ touched' = {}
  /\ UNCHANGED <<manual, stopped, zlm, timer, pending, listed, nowAge, calls>>

\* Mutant: the manual-stop list is not consulted.
AdoptableAnyway(k) == listed[k] \in NativeMedia /\ k \notin registered

\* What ZLM lists under RTSP or RTMP and nobody registered becomes an entry of
\* its own, unless it is on the manual-stop list.
Adoptable(k) == listed[k] \in NativeMedia /\ k \notin manual /\ k \notin registered

\* "cameras" are those whose origin_url names a local camera.
AutoRegister ==
  LET adopted == {k \in Streams : Adoptable(k)} IN
  /\ pc = "adopt"
  /\ pc' = "sleep" /\ timer' = 0 /\ nowAge' = 0
  /\ listed' = [k \in Streams |-> "absent"]
  /\ registered' = registered \cup adopted
  /\ \E cameras \in SUBSET adopted :
       meta' = [k \in Streams |->
         IF k \notin adopted THEN meta[k]
         ELSE [status  |-> IF listed[k] = "active" THEN "Running" ELSE "Stopped",
               gateway |-> IF k \in cameras THEN "other_gateway" ELSE "native",
               sourced |-> k \in cameras,
               pid     |-> FALSE,
               updated |-> nowAge,
               created |-> nowAge]]
  /\ UNCHANGED <<manual, stopped, zlm, pending, snapshot, updates, touched, calls>>

-----------------------------------------------------------------------------
(* Environment: ZLMediaKit and the clock.                                  *)

ZLMChange(k, m) ==
  /\ Call
  /\ m # zlm[k]
  /\ zlm' = [zlm EXCEPT ![k] = m]
  /\ UNCHANGED <<registry, thread, touched>>

\* The thread sleeps for no longer than its interval, and a pass spends at
\* most MaxStall ticks: each of its four or five requests may take three
\* seconds, and so may one more for every HTTP-FLV stream between the snapshot
\* and the update.
Tick ==
  /\ \/ pc = "sleep" /\ timer < SyncInterval
     \/ pc \in {"query", "apply"} /\ timer < MaxStall
  /\ timer' = timer + 1
  /\ nowAge' = IF pc = "apply" THEN Older(nowAge) ELSE nowAge
  /\ meta' = [k \in Streams |->
       IF k \in registered
       THEN [meta[k] EXCEPT !.updated = Older(@), !.created = Older(@)]
       ELSE meta[k]]
  /\ UNCHANGED <<registered, manual, stopped, zlm, pc, pending, listed, snapshot,
                 updates, touched, calls>>

-----------------------------------------------------------------------------
Init ==
  /\ registered = {}
  /\ meta = [k \in Streams |-> Blank]
  /\ manual = {}
  /\ stopped = {}
  /\ touched = {}
  /\ zlm \in [Streams -> Media]
  /\ pc = "query" /\ timer = 0 /\ pending = Requests
  /\ listed = [k \in Streams |-> "absent"]
  /\ snapshot = {}
  /\ updates = [k \in Streams |-> NoUpdate]
  /\ nowAge = 0
  /\ calls = 0

Caller(k) ==
  \/ \E g \in Gateways \ {"native"} :
       \/ \E p \in BOOLEAN, s \in {"Running", "Starting"}, c \in CreateTimes :
            RegisterStream(k, g, p, s, c)
       \/ \E u \in BOOLEAN, c \in CreateTimes : OnStreamCreateRequested(k, g, u, c)
  \/ UnregisterStream(k)
  \/ \E s \in {"Running", "Stopping", "Error"} : UpdateStreamStatus(k, s)
  \/ \E g \in Gateways, p, u \in BOOLEAN : UpdateStreamMetadata(k, g, p, u)
  \/ \E success \in BOOLEAN : OnStreamCreateResult(k, success)
  \/ \E regist, effective \in BOOLEAN : OnZLMStreamState(k, regist, effective)

SyncThread ==
  \/ SyncBegin
  \/ \E answered \in BOOLEAN : SyncQuery(answered)
  \/ PrepareStreamUpdates
  \/ ApplyStreamUpdates
  \/ AutoRegister

Next ==
  \/ \E k \in Streams : Caller(k)
  \/ SyncThread
  \/ \E k \in Streams, m \in Media : ZLMChange(k, m)
  \/ Tick

Spec == Init /\ [][Next]_vars

\* The clock runs and the sync thread is scheduled.  No caller is fair.
FairSpec == Spec /\ WF_vars(Tick) /\ WF_vars(SyncThread)
-----------------------------------------------------------------------------
(* Properties.                                                             *)

\* Every variable holds values of its type, and the entry of a key that is not
\* registered is Blank (streams_.erase leaves nothing behind).
TypeOK ==
  /\ registered \subseteq Streams /\ manual \subseteq Streams
  /\ stopped \subseteq Streams /\ snapshot \subseteq Streams
  /\ touched \subseteq Streams
  /\ meta \in [Streams -> Meta]
  /\ \A k \in Streams \ registered : meta[k] = Blank
  /\ zlm \in [Streams -> Media] /\ listed \in [Streams -> Media]
  /\ pc \in {"sleep", "query", "apply", "adopt"}
  /\ timer \in 0 .. SyncInterval + MaxStall
  /\ pending \in 0 .. Requests
  /\ updates \in [Streams -> Update]
  /\ nowAge \in 0 .. OldAge
  /\ calls \in 0 .. MaxCalls

\* A stream that was unregistered stays out of the registry until somebody asks
\* for it again: neither a late answer of ZLMediaKit to the sync thread nor an
\* update computed from an older snapshot brings it back.
NoResurrection == registered \cap stopped = {}

\* The sync thread keeps every entry fresh: however its passes interleave with
\* the callers, no last_update_time is older than one interval and two stalled
\* passes.  The 30 s and 60 s limits of PrepareStreamUpdates are measured
\* against this age.
FreshEntries ==
  \A k \in registered : meta[k].updated <= SyncInterval + 2 * MaxStall

\* A pass of the sync thread drops only what has been dead for long: unless a
\* call reached the entry between the snapshot and the update, what is removed
\* is Stopped for more than 30 seconds or in Error for more than 60, at that
\* moment too.
LongDead(e) ==
  \/ e.status = "Stopped" /\ e.updated > HalfMinute
  \/ e.status = "Error"   /\ e.updated > 2 * HalfMinute
SyncRemovesOnlyDead ==
  [][\A k \in registered \ registered' :
       pc # pc' /\ k \notin touched => LongDead(meta[k])]_vars

\* Entries whose status follows ZLMediaKit: the sync thread leaves the status
\* of HTTP-FLV streams alone.
Followed(k) == k \in registered /\ meta[k].gateway # "httpflv_gateway"

\* Once callers and ZLMediaKit leave it alone, the registry agrees with
\* ZLMediaKit: a stream active under RTSP or RTMP is registered (unless it was
\* stopped by hand), every active stream's entry is Running, and the entry of a
\* stream ZLMediaKit does not have is not.
Converges ==
  \A k \in Streams :
    /\ <>[](zlm[k] = "active" => k \in manual \cup registered)
    /\ <>[](Active(zlm[k]) /\ Followed(k) => meta[k].status = "Running")
    /\ <>[](zlm[k] = "absent" /\ Followed(k) => meta[k].status # "Running")

\* PrepareStreamUpdates drops an entry in Error that ZLMediaKit does not have
\* after 60 seconds, so none may stay for ever.
ErrorsAreCleaned ==
  \A k \in Streams :
    ~ <>[](Followed(k) /\ meta[k].status = "Error" /\ zlm[k] = "absent")

\* No entry was updated before it was created, nor created in the future: what
\* the fields' comments say of the two time stamps.
TimesOrdered ==
  \A k \in registered : 0 <= meta[k].created /\ meta[k].updated <= meta[k].created

\* A pass removes no stream that a call has just made Starting or Running.
SyncSparesTheLiving ==
  [][\A k \in registered \ registered' :
       pc # pc' => meta[k].status \notin {"Starting", "Running"}]_vars

\* The manual-stop list also holds back the time-stamped name of a GB28181
\* stream that was stopped under its base name.
NoAliasResurrection ==
  [][\A k \in registered' \ registered :
       pc # pc' => BaseName[k] \notin stopped]_vars
=============================================================================
