------------------------ MODULE StreamManager_proofs ------------------------
(***************************************************************************)
(* Proofs about StreamManager, for every set of streams, every time bound  *)
(* and every budget of calls.                                              *)
(***************************************************************************)
EXTENDS StreamManager, TLAPS

-----------------------------------------------------------------------------
(* The inductive invariant.                                                *)

\* Where the pass is and how long it has been there.  "now" is read between
\* the requests and the snapshot, so it is no older than the pass.
PassOK ==
  /\ timer <= IF pc = "sleep" THEN SyncInterval ELSE MaxStall
  /\ nowAge <= timer
  /\ pc \in {"sleep", "query"} => nowAge = 0

\* The oldest last_update_time an entry may have at each place of the pass:
\* after ApplyStreamUpdates everything is as old as "now", and from then on it
\* ages with the clock.  An entry that was registered after the snapshot is
\* younger than "now".
AgeLimit(k) ==
  CASE pc = "sleep" -> MaxStall + timer
    [] pc = "query" -> MaxStall + SyncInterval + timer
    [] pc = "apply" -> IF k \in snapshot
                       THEN MaxStall + SyncInterval + timer ELSE nowAge
    [] OTHER        -> nowAge
AgesOK == \A k \in registered : meta[k].updated <= AgeLimit(k)

\* Whoever is to stay stopped is on the manual-stop list.
StoppedOK == stopped \subseteq manual /\ NoResurrection

IInv == TypeOK /\ PassOK /\ AgesOK /\ StoppedOK

-----------------------------------------------------------------------------
(* The entries the operations compute are entries.                         *)

LEMMA AgeTypes ==
  /\ OldAge \in Nat /\ OldAge > 0
  /\ Blank \in Meta /\ NoUpdate \in Update
  /\ CreateTimes \subseteq Ages
  /\ 0 .. OldAge \subseteq Ages
  /\ \A a \in 0 .. OldAge : Older(a) \in 0 .. OldAge /\ Older(a) <= a + 1
  /\ \A a \in Ages : Older(a) \in Ages
BY StreamManagerAssumption
   DEF OldAge, Ages, Blank, Meta, Status, Gateways, NoUpdate, Update,
       CreateTimes, Older

LEMMA MergedFields ==
  ASSUME NEW e \in Meta, NEW g \in Gateways, NEW p \in BOOLEAN, NEW u \in BOOLEAN
  PROVE  /\ UpdateMetadataFields(e, g, p, u) \in Meta
         /\ UpdateMetadataFields(e, g, p, u).updated = e.updated
<1>1. (e.pid \/ p) \in BOOLEAN /\ (e.sourced \/ u) \in BOOLEAN
  OBVIOUS
<1>. QED BY <1>1 DEF UpdateMetadataFields, Meta

LEMMA RegisteredEntry ==
  ASSUME NEW e \in Meta, NEW g \in Gateways, NEW p \in BOOLEAN, NEW s \in Status
  PROVE  /\ Reregistered(e, g, p, s) \in Meta
         /\ Reregistered(e, g, p, s).updated <= e.updated
<1>. DEFINE t == TakeOver(e, g, p)
            u == IF Refreshes(e.status, s) THEN 0 ELSE t.updated
<1>1. t \in Meta /\ t.updated = e.updated
  <2>1. CASE IsGatewayRegistered(g) /\ IsAutoRegistered(e)
    BY <2>1 DEF TakeOver, Meta
  <2>2. CASE ~(IsGatewayRegistered(g) /\ IsAutoRegistered(e))
    BY <2>2, MergedFields DEF TakeOver
  <2>. QED BY <2>1, <2>2
<1>2. Upgrade(t.status, s) \in Status
  BY <1>1 DEF Upgrade, Meta
<1>3. u \in 0 .. OldAge /\ u <= e.updated
  BY <1>1, AgeTypes DEF Meta
<1>. HIDE DEF t, u
<1>4. LET n == [t EXCEPT !.status = Upgrade(@, s), !.updated = u]
      IN  n \in Meta /\ n.updated <= e.updated
  BY <1>1, <1>2, <1>3 DEF Meta
<1>. QED BY <1>4 DEF t, u, Reregistered

LEMMA RequestedEntry ==
  ASSUME NEW e \in Meta, NEW g \in Gateways, NEW u \in BOOLEAN
  PROVE  Rerequested(e, g, u) \in Meta /\ Rerequested(e, g, u).updated = 0
<1>. DEFINE t == UpdateMetadataFields(e, g, FALSE, u)
            n == [t EXCEPT !.status  = IF @ = "Running" THEN "Running" ELSE "Starting",
                           !.updated = 0]
<1>1. t \in Meta
  BY MergedFields
<1>2. 0 \in 0 .. OldAge
  BY AgeTypes
<1>. HIDE DEF t
<1>3. n \in Meta /\ n.updated = 0
  BY <1>1, <1>2 DEF Meta, Status
<1>. QED BY <1>3 DEF t, Rerequested

LEMMA FreshEntry ==
  ASSUME NEW s \in Status, NEW g \in Gateways, NEW p \in BOOLEAN,
         NEW c \in CreateTimes
  PROVE  NewEntry(s, g, p, c) \in Meta /\ NewEntry(s, g, p, c).updated = 0
BY AgeTypes DEF NewEntry, Meta

LEMMA StatusTypes ==
  ASSUME NEW e \in Meta, NEW m \in Media
  PROVE  /\ \A b \in BOOLEAN : CreateResultStatus(e.status, b) \in Status
         /\ \A r, b \in BOOLEAN : HookStatus(e, r, b) \in Status
         /\ PreparedUpdate(e, m) \in Update
<1>1. SyncedStatus(e, m) \in Status \cup {"keep"}
  BY DEF SyncedStatus, Media, Meta, Status
<1>2. Expired(e, m) \in BOOLEAN
  BY DEF Expired
<1>3. PreparedUpdate(e, m) \in Update
  BY <1>1, <1>2 DEF PreparedUpdate, Update, Meta
<1>4. \A b \in BOOLEAN : CreateResultStatus(e.status, b) \in Status
  BY DEF CreateResultStatus, Meta, Status
<1>5. \A r, b \in BOOLEAN : HookStatus(e, r, b) \in Status
  BY DEF HookStatus, Status
<1>. QED BY <1>3, <1>4, <1>5

LEMMA AppliedTypes ==
  ASSUME NEW e \in Meta, NEW u \in Update, nowAge \in 0 .. OldAge
  PROVE  AppliedEntry(e, u) \in Meta /\ AppliedEntry(e, u).updated = nowAge
BY DEF AppliedEntry, AppliedStatus, Meta, Update, Status

-----------------------------------------------------------------------------
(* Callers.                                                                *)

LEMMA LimitIsAge ==
  ASSUME TypeOK, PassOK, NEW k \in Streams
  PROVE  AgeLimit(k) \in Nat
BY StreamManagerAssumption DEF TypeOK, PassOK, AgeLimit

\* A call that writes the entry e of k and leaves the sync thread alone.
LEMMA EntryStep ==
  ASSUME IInv, NEW k \in Streams, NEW e \in Meta, CallOn({k}),
         UNCHANGED <<manual, zlm, thread>>,
         registered' = registered \cup {k},
         meta' = [meta EXCEPT ![k] = e],
         e.updated <= AgeLimit(k),
         stopped' \in SUBSET (stopped \ {k}) \/ (k \in registered /\ stopped' = stopped)
  PROVE  IInv'
<1>1. TypeOK'
  <2>1. calls' \in 0 .. MaxCalls
    BY StreamManagerAssumption DEF IInv, TypeOK, Call, CallOn
  <2>2. touched' \subseteq Streams
    BY DEF IInv, TypeOK, CallOn
  <2>. QED BY <2>1, <2>2 DEF IInv, TypeOK, thread
<1>2. PassOK'
  BY DEF IInv, PassOK, thread
<1>3. AgesOK'
  BY DEF IInv, TypeOK, AgesOK, AgeLimit, thread
<1>4. StoppedOK'
  BY DEF IInv, StoppedOK, NoResurrection
<1>. QED BY <1>1, <1>2, <1>3, <1>4 DEF IInv

LEMMA RegisterStreamStep ==
  ASSUME IInv, NEW k \in Streams, NEW g \in Gateways, NEW p \in BOOLEAN,
         NEW s \in Status, NEW c \in CreateTimes, RegisterStream(k, g, p, s, c)
  PROVE  IInv'
<1>. DEFINE e == IF k \in registered THEN Reregistered(meta[k], g, p, s)
                 ELSE NewEntry(s, g, p, c)
<1>1. meta[k] \in Meta /\ AgeLimit(k) \in Nat
  BY LimitIsAge DEF IInv, TypeOK
<1>2. ASSUME k \in registered PROVE e \in Meta /\ e.updated <= AgeLimit(k)
  <2>1. e \in Meta /\ e.updated <= meta[k].updated
    BY <1>1, <1>2, RegisteredEntry
  <2>2. meta[k].updated <= AgeLimit(k)
    BY <1>2 DEF IInv, AgesOK
  <2>. HIDE DEF e
  <2>3. meta[k].updated \in Nat /\ e.updated \in Nat
    BY <1>1, <2>1, AgeTypes DEF Meta
  <2>. QED BY <1>1, <2>1, <2>2, <2>3
<1>3. ASSUME k \notin registered PROVE e \in Meta /\ e.updated <= AgeLimit(k)
  BY <1>1, <1>3, FreshEntry
<1>4. meta' = [meta EXCEPT ![k] = e]
  BY DEF RegisterStream
<1>. HIDE DEF e
<1>5. e \in Meta /\ e.updated <= AgeLimit(k)
  BY <1>2, <1>3
<1>. QED BY <1>4, <1>5, EntryStep DEF RegisterStream

LEMMA CreateRequestedStep ==
  ASSUME IInv, NEW k \in Streams, NEW g \in Gateways, NEW u \in BOOLEAN,
         NEW c \in CreateTimes, OnStreamCreateRequested(k, g, u, c)
  PROVE  IInv'
<1>. DEFINE e == IF k \in registered THEN Rerequested(meta[k], g, u)
                 ELSE NewEntry("Starting", g, FALSE, c)
<1>1. meta[k] \in Meta /\ AgeLimit(k) \in Nat
  BY LimitIsAge DEF IInv, TypeOK
<1>2. e \in Meta /\ e.updated = 0
  BY <1>1, RequestedEntry, FreshEntry DEF Status
<1>3. meta' = [meta EXCEPT ![k] = e]
  BY DEF OnStreamCreateRequested
<1>. HIDE DEF e
<1>4. e \in Meta /\ e.updated <= AgeLimit(k)
  BY <1>1, <1>2
<1>. QED BY <1>3, <1>4, EntryStep DEF OnStreamCreateRequested

\* The methods that only give a registered entry a status.
LEMMA StatusStep ==
  ASSUME IInv, NEW k \in registered, NEW s \in Status, CallOn({k}),
         meta' = [meta EXCEPT ![k].status = s, ![k].updated = 0],
         UNCHANGED <<registered, manual, stopped, zlm, thread>>
  PROVE  IInv'
<1>. DEFINE e == [meta[k] EXCEPT !.status = s, !.updated = 0]
<1>1. k \in Streams /\ meta[k] \in Meta
  BY DEF IInv, TypeOK
<1>2. AgeLimit(k) \in Nat
  BY <1>1, LimitIsAge DEF IInv
<1>3. 0 \in 0 .. OldAge
  BY AgeTypes
<1>4. e \in Meta /\ e.updated = 0
  BY <1>1, <1>3 DEF Meta
<1>5. meta' = [meta EXCEPT ![k] = e]
  BY <1>1 DEF IInv, TypeOK
<1>6. registered' = registered \cup {k}
  OBVIOUS
<1>7. e.updated <= AgeLimit(k)
  BY <1>2, <1>4
<1>. HIDE DEF e
<1>. QED BY <1>1, <1>4, <1>5, <1>6, <1>7, EntryStep

\* A hook writes back the copy it has read.
LEMMA UpdateMetadataStep ==
  ASSUME IInv, NEW k \in Streams, NEW g \in Gateways, NEW p \in BOOLEAN,
         NEW u \in BOOLEAN, UpdateStreamMetadata(k, g, p, u)
  PROVE  IInv'
<1>. DEFINE q == meta[k].pid \/ p
            v == meta[k].sourced \/ u
            e == [meta[k] EXCEPT !.gateway = g, !.sourced = v, !.pid = q, !.updated = 0]
<1>1. meta[k] \in Meta /\ k \in registered
  BY DEF IInv, TypeOK, UpdateStreamMetadata
<1>2. AgeLimit(k) \in Nat /\ 0 \in 0 .. OldAge
  BY LimitIsAge, AgeTypes DEF IInv
<1>3. q \in BOOLEAN /\ v \in BOOLEAN
  OBVIOUS
<1>4. meta' = [meta EXCEPT ![k] = e]
  BY <1>1 DEF UpdateStreamMetadata, UpdateMetadataFields
<1>. HIDE DEF q, v
<1>5. e \in Meta /\ e.updated = 0
  BY <1>1, <1>2, <1>3 DEF Meta
<1>. HIDE DEF e
<1>6. e.updated <= AgeLimit(k) /\ registered' = registered \cup {k}
  BY <1>1, <1>2, <1>5 DEF UpdateStreamMetadata
<1>. QED BY <1>4, <1>5, <1>6, EntryStep DEF UpdateStreamMetadata

LEMMA UnregisterStreamStep ==
  ASSUME IInv, NEW k \in Streams, UnregisterStream(k)
  PROVE  IInv'
<1>. DEFINE target == IF k \in registered THEN k ELSE BaseName[k]
<1>1. target \in Streams
  BY StreamManagerAssumption DEF IInv, TypeOK
<1>2. /\ CallOn({k, target}) /\ UNCHANGED <<zlm, thread>>
      /\ manual' = manual \cup {k, target}
      /\ registered' = registered \ {target}
      /\ meta' = [meta EXCEPT ![target] = Blank]
      /\ stopped' = stopped \cup {k, target}
  BY DEF UnregisterStream
<1>3. k \in registered => target = k
  OBVIOUS
<1>. HIDE DEF target
<1>4. TypeOK'
  <2>1. calls' \in 0 .. MaxCalls
    BY <1>2, StreamManagerAssumption DEF IInv, TypeOK, Call, CallOn
  <2>2. Blank \in Meta
    BY AgeTypes
  <2>3. touched' \subseteq Streams
    BY <1>1, <1>2 DEF IInv, TypeOK, CallOn
  <2>. QED BY <1>1, <1>2, <2>1, <2>2, <2>3 DEF IInv, TypeOK, thread
<1>5. PassOK'
  BY <1>2 DEF IInv, PassOK, thread
<1>6. AgesOK'
  BY <1>1, <1>2 DEF IInv, TypeOK, AgesOK, AgeLimit, thread
<1>7. StoppedOK'
  BY <1>1, <1>2, <1>3 DEF IInv, StoppedOK, NoResurrection
<1>. QED BY <1>4, <1>5, <1>6, <1>7 DEF IInv

LEMMA CallerStep ==
  ASSUME IInv, NEW k \in Streams, Caller(k)
  PROVE  IInv'
<1>1. ASSUME NEW g \in Gateways, NEW p \in BOOLEAN, NEW s \in Status,
             NEW c \in CreateTimes, RegisterStream(k, g, p, s, c)
      PROVE  IInv'
  BY <1>1, RegisterStreamStep
<1>2. ASSUME NEW g \in Gateways, NEW u \in BOOLEAN, NEW c \in CreateTimes,
             OnStreamCreateRequested(k, g, u, c)
      PROVE  IInv'
  BY <1>2, CreateRequestedStep
<1>3. CASE UnregisterStream(k)
  BY <1>3, UnregisterStreamStep
<1>4. ASSUME NEW s \in Status, UpdateStreamStatus(k, s)
      PROVE  IInv'
  BY <1>4, StatusStep DEF UpdateStreamStatus
<1>5. ASSUME NEW g \in Gateways, NEW p \in BOOLEAN, NEW u \in BOOLEAN,
             UpdateStreamMetadata(k, g, p, u)
      PROVE  IInv'
  BY <1>5, UpdateMetadataStep
<1>6. ASSUME NEW success \in BOOLEAN, OnStreamCreateResult(k, success)
      PROVE  IInv'
  <2>1. meta[k] \in Meta
    BY DEF IInv, TypeOK
  <2>. DEFINE s == CreateResultStatus(meta[k].status, success)
  <2>2. s \in Status
    BY <1>6 DEF CreateResultStatus, Status
  <2>3. meta' = [meta EXCEPT ![k].status = s, ![k].updated = 0]
    BY <1>6 DEF OnStreamCreateResult
  <2>. HIDE DEF s
  <2>. QED BY <1>6, <2>2, <2>3, StatusStep DEF OnStreamCreateResult
<1>7. ASSUME NEW r \in BOOLEAN, NEW b \in BOOLEAN, OnZLMStreamState(k, r, b)
      PROVE  IInv'
  <2>. DEFINE s == HookStatus(meta[k], r, b)
  <2>1. s \in Status
    BY DEF HookStatus, Status
  <2>2. meta' = [meta EXCEPT ![k].status = s, ![k].updated = 0]
    BY <1>7 DEF OnZLMStreamState
  <2>. HIDE DEF s
  <2>. QED BY <1>7, <2>1, <2>2, StatusStep DEF OnZLMStreamState
<1>. QED BY <1>1, <1>2, <1>3, <1>4, <1>5, <1>6, <1>7
        DEF Caller, Gateways, Status

-----------------------------------------------------------------------------
(* The sync thread, ZLMediaKit and the clock.                              *)

LEMMA SyncBeginStep == IInv /\ SyncBegin => IInv'
BY StreamManagerAssumption
   DEF IInv, SyncBegin, registry, TypeOK, PassOK, AgesOK, AgeLimit, StoppedOK,
       NoResurrection

LEMMA SyncQueryStep ==
  ASSUME IInv, NEW answered \in BOOLEAN, SyncQuery(answered)
  PROVE  IInv'
<1>1. calls' \in 0 .. MaxCalls
  BY StreamManagerAssumption DEF IInv, TypeOK, SyncQuery, Call
<1>2. listed' \in [Streams -> Media]
  BY DEF IInv, TypeOK, SyncQuery
<1>3. UNCHANGED <<registered, meta, manual, stopped, zlm, pc, timer, snapshot,
                  updates, nowAge, touched>> /\ pending' = pending - 1 /\ pending > 0
  BY DEF SyncQuery, registry
<1>4. TypeOK'
  BY <1>1, <1>2, <1>3, StreamManagerAssumption DEF IInv, TypeOK
<1>5. PassOK' /\ AgesOK' /\ StoppedOK'
  BY <1>3 DEF IInv, PassOK, AgesOK, AgeLimit, StoppedOK, NoResurrection
<1>. QED BY <1>4, <1>5 DEF IInv

LEMMA PrepareStep == IInv /\ PrepareStreamUpdates => IInv'
<1>. SUFFICES ASSUME IInv, PrepareStreamUpdates PROVE IInv'
  OBVIOUS
<1>1. UNCHANGED <<registered, meta, manual, stopped, zlm, timer, pending, listed,
                  calls>>
  BY DEF PrepareStreamUpdates, registry
<1>2. updates' \in [Streams -> Update]
  <2>1. \A k \in Streams : meta[k] \in Meta /\ listed[k] \in Media
    BY DEF IInv, TypeOK
  <2>2. \A k \in Streams : PreparedUpdate(meta[k], listed[k]) \in Update
    BY <2>1, StatusTypes
  <2>. QED BY <2>2, AgeTypes DEF PrepareStreamUpdates
<1>3. TypeOK'
  BY <1>1, <1>2, AgeTypes DEF IInv, TypeOK, PrepareStreamUpdates
<1>4. PassOK'
  BY <1>1 DEF IInv, TypeOK, PassOK, PrepareStreamUpdates
<1>5. AgesOK'
  BY <1>1 DEF IInv, TypeOK, AgesOK, AgeLimit, PrepareStreamUpdates
<1>6. StoppedOK'
  BY <1>1 DEF IInv, StoppedOK, NoResurrection
<1>. QED BY <1>3, <1>4, <1>5, <1>6 DEF IInv

LEMMA ApplyStep == IInv /\ ApplyStreamUpdates => IInv'
<1>. SUFFICES ASSUME IInv, ApplyStreamUpdates PROVE IInv'
  OBVIOUS
<1>. DEFINE found   == registered \cap snapshot
            removed == {k \in found : updates[k].remove}
<1>1. /\ pc = "apply" /\ pc' = "adopt"
      /\ registered' = registered \ removed
      /\ snapshot' = {} /\ touched' = {}
      /\ UNCHANGED <<manual, stopped, zlm, timer, pending, listed, nowAge, calls>>
  BY DEF ApplyStreamUpdates
<1>2. \A k \in Streams :
        /\ AppliedEntry(meta[k], updates[k]) \in Meta
        /\ AppliedEntry(meta[k], updates[k]).updated = nowAge
  BY AppliedTypes DEF IInv, TypeOK
<1>3. meta' = [k \in Streams |->
        IF k \in removed THEN Blank
        ELSE IF k \in found THEN AppliedEntry(meta[k], updates[k])
        ELSE meta[k]]
  BY DEF ApplyStreamUpdates
<1>4. updates' \in [Streams -> Update]
  BY AgeTypes DEF ApplyStreamUpdates
<1>. HIDE DEF removed
<1>5. TypeOK'
  <2>1. \A k \in Streams : meta'[k] \in Meta
    BY <1>2, <1>3, AgeTypes DEF IInv, TypeOK
  <2>2. meta' \in [Streams -> Meta]
    BY <1>3, <2>1
  <2>3. \A k \in Streams \ registered' : meta'[k] = Blank
    BY <1>1, <1>3 DEF IInv, TypeOK
  <2>. QED BY <1>1, <1>4, <2>2, <2>3 DEF IInv, TypeOK
<1>6. PassOK'
  BY <1>1 DEF IInv, PassOK
<1>7. AgesOK'
  <2>. SUFFICES ASSUME NEW k \in registered' PROVE meta'[k].updated <= nowAge
    BY <1>1 DEF AgesOK, AgeLimit
  <2>1. k \in Streams /\ k \in registered /\ k \notin removed
    BY <1>1 DEF IInv, TypeOK
  <2>2. nowAge <= nowAge
    BY DEF IInv, TypeOK
  <2>3. CASE k \in snapshot
    BY <1>2, <1>3, <2>1, <2>2, <2>3
  <2>4. CASE k \notin snapshot
    BY <1>1, <1>3, <2>1, <2>4 DEF IInv, AgesOK, AgeLimit
  <2>. QED BY <2>3, <2>4
<1>8. StoppedOK'
  BY <1>1 DEF IInv, StoppedOK, NoResurrection
<1>. QED BY <1>5, <1>6, <1>7, <1>8 DEF IInv

LEMMA AutoRegisterStep == IInv /\ AutoRegister => IInv'
<1>. SUFFICES ASSUME IInv, AutoRegister PROVE IInv'
  OBVIOUS
<1>. DEFINE adopted == {k \in Streams : Adoptable(k)}
<1>1. /\ pc = "adopt" /\ pc' = "sleep" /\ timer' = 0 /\ nowAge' = 0
      /\ listed' = [k \in Streams |-> "absent"]
      /\ registered' = registered \cup adopted
      /\ UNCHANGED <<manual, stopped, zlm, pending, snapshot, updates, touched, calls>>
  BY DEF AutoRegister
<1>2. PICK cameras \in SUBSET adopted :
        meta' = [k \in Streams |->
          IF k \notin adopted THEN meta[k]
          ELSE [status  |-> IF listed[k] = "active" THEN "Running" ELSE "Stopped",
                gateway |-> IF k \in cameras THEN "other_gateway" ELSE "native",
                sourced |-> k \in cameras,
                pid     |-> FALSE,
                updated |-> nowAge,
                created |-> nowAge]]
  BY DEF AutoRegister
<1>3. \A k \in adopted : k \in Streams /\ k \notin manual
  BY DEF Adoptable
<1>. HIDE DEF adopted
<1>4. nowAge \in 0 .. OldAge /\ nowAge \in Ages /\ nowAge <= MaxStall
  BY <1>1, AgeTypes, StreamManagerAssumption DEF IInv, TypeOK, PassOK
<1>5. TypeOK'
  <2>1. \A k \in Streams : meta'[k] \in Meta
    BY <1>2, <1>4 DEF IInv, TypeOK, Meta, Status, Gateways
  <2>2. meta' \in [Streams -> Meta]
    BY <1>2, <2>1
  <2>3. \A k \in Streams \ registered' : meta'[k] = Blank
    BY <1>1, <1>2 DEF IInv, TypeOK
  <2>4. 0 \in 0 .. OldAge /\ 0 \in 0 .. SyncInterval + MaxStall
    BY AgeTypes, StreamManagerAssumption
  <2>. QED BY <1>1, <1>3, <2>2, <2>3, <2>4 DEF IInv, TypeOK, Media
<1>6. PassOK'
  BY <1>1, StreamManagerAssumption DEF PassOK
<1>7. AgesOK'
  <2>. SUFFICES ASSUME NEW k \in registered' PROVE meta'[k].updated <= MaxStall
    BY <1>1, StreamManagerAssumption DEF AgesOK, AgeLimit
  <2>1. CASE k \in adopted
    BY <1>2, <1>3, <1>4, <2>1
  <2>2. CASE k \notin adopted
    <3>1. k \in registered /\ k \in Streams
      BY <1>1, <2>2 DEF IInv, TypeOK
    <3>2. meta[k].updated <= nowAge /\ meta[k].updated \in Nat
      BY <1>1, <3>1, AgeTypes DEF IInv, AgesOK, AgeLimit, TypeOK, Meta
    <3>. QED BY <1>2, <1>4, <2>2, <3>1, <3>2, StreamManagerAssumption
  <2>. QED BY <2>1, <2>2
<1>8. StoppedOK'
  BY <1>1, <1>3 DEF IInv, StoppedOK, NoResurrection
<1>. QED BY <1>5, <1>6, <1>7, <1>8 DEF IInv

LEMMA ZLMChangeStep ==
  ASSUME IInv, NEW k \in Streams, NEW m \in Media, ZLMChange(k, m)
  PROVE  IInv'
<1>1. calls' \in 0 .. MaxCalls
  BY StreamManagerAssumption DEF IInv, TypeOK, ZLMChange, Call
<1>2. zlm' \in [Streams -> Media]
  BY DEF IInv, TypeOK, ZLMChange
<1>. QED BY <1>1, <1>2
   DEF IInv, ZLMChange, registry, thread, TypeOK, PassOK, AgesOK, AgeLimit,
       StoppedOK, NoResurrection

LEMMA TickStep == IInv /\ Tick => IInv'
<1>. SUFFICES ASSUME IInv, Tick PROVE IInv'
  OBVIOUS
<1>1. /\ timer' = timer + 1
      /\ \/ pc = "sleep" /\ timer < SyncInterval
         \/ pc \in {"query", "apply"} /\ timer < MaxStall
      /\ nowAge' = IF pc = "apply" THEN Older(nowAge) ELSE nowAge
      /\ UNCHANGED <<registered, manual, stopped, zlm, pc, pending, listed, snapshot,
                     updates, touched, calls>>
  BY DEF Tick
<1>2. meta' = [k \in Streams |->
        IF k \in registered
        THEN [meta[k] EXCEPT !.updated = Older(@), !.created = Older(@)]
        ELSE meta[k]]
  BY DEF Tick
<1>3. \A k \in Streams : meta[k] \in Meta
  BY DEF IInv, TypeOK
<1>4. \A k \in registered : /\ meta'[k] \in Meta
                            /\ meta'[k].updated \in 0 .. OldAge
                            /\ meta'[k].updated <= meta[k].updated + 1
  <2>. SUFFICES ASSUME NEW k \in registered
                PROVE  /\ meta'[k] \in Meta
                       /\ meta'[k].updated \in 0 .. OldAge
                       /\ meta'[k].updated <= meta[k].updated + 1
    OBVIOUS
  <2>1. k \in Streams
    BY DEF IInv, TypeOK
  <2>2. /\ Older(meta[k].updated) \in 0 .. OldAge
        /\ Older(meta[k].updated) <= meta[k].updated + 1
        /\ Older(meta[k].created) \in Ages
    BY <1>3, <2>1, AgeTypes DEF Meta
  <2>3. meta'[k] = [meta[k] EXCEPT !.updated = Older(meta[k].updated),
                                   !.created = Older(meta[k].created)]
    BY <1>2, <1>3, <2>1 DEF Meta
  <2>. QED BY <1>3, <2>1, <2>2, <2>3 DEF Meta
<1>5. nowAge' \in 0 .. OldAge /\ nowAge' <= nowAge + 1
  BY <1>1, AgeTypes DEF IInv, TypeOK
<1>6. TypeOK'
  <2>1. meta' \in [Streams -> Meta]
    BY <1>2, <1>3, <1>4
  <2>2. timer' \in 0 .. SyncInterval + MaxStall
    BY <1>1, StreamManagerAssumption DEF IInv, TypeOK
  <2>. QED BY <1>1, <1>2, <1>5, <2>1, <2>2 DEF IInv, TypeOK
<1>7. PassOK'
  BY <1>1, <1>5, StreamManagerAssumption DEF IInv, TypeOK, PassOK
<1>8. AgesOK'
  <2>. SUFFICES ASSUME NEW k \in registered
                PROVE  meta'[k].updated <= AgeLimit(k)'
    BY <1>1 DEF AgesOK
  <2>1. meta[k].updated <= AgeLimit(k) /\ meta[k].updated \in 0 .. OldAge
    BY <1>3 DEF IInv, AgesOK, TypeOK, Meta
  <2>2. CASE pc \in {"sleep", "query"} \/ (pc = "apply" /\ k \in snapshot)
    BY <1>1, <1>4, <2>1, <2>2, AgeTypes, StreamManagerAssumption
       DEF AgeLimit, IInv, TypeOK
  <2>3. CASE pc = "apply" /\ k \notin snapshot
    <3>1. meta[k].updated <= nowAge
      BY <2>1, <2>3 DEF AgeLimit
    <3>2. Older(meta[k].updated) <= Older(nowAge)
      BY <2>1, <3>1, AgeTypes DEF Older, IInv, TypeOK
    <3>3. meta'[k].updated = Older(meta[k].updated)
      BY <1>2, <1>3 DEF Meta, IInv, TypeOK
    <3>. QED BY <1>1, <2>3, <3>2, <3>3 DEF AgeLimit
  <2>. QED BY <1>1, <2>2, <2>3
<1>9. StoppedOK'
  BY <1>1 DEF IInv, StoppedOK, NoResurrection
<1>. QED BY <1>6, <1>7, <1>8, <1>9 DEF IInv

LEMMA InitIInv == Init => IInv
<1>. SUFFICES ASSUME Init PROVE IInv
  OBVIOUS
<1>1. TypeOK
  BY AgeTypes, StreamManagerAssumption DEF Init, TypeOK, Media
<1>2. PassOK /\ AgesOK /\ StoppedOK
  BY StreamManagerAssumption DEF Init, PassOK, AgesOK, StoppedOK, NoResurrection
<1>. QED BY <1>1, <1>2 DEF IInv

LEMMA NextIInv == IInv /\ [Next]_vars => IInv'
<1>. SUFFICES ASSUME IInv, [Next]_vars PROVE IInv'
  OBVIOUS
<1>1. ASSUME NEW k \in Streams, Caller(k) PROVE IInv'
  BY <1>1, CallerStep
<1>2. CASE SyncThread
  BY <1>2, SyncBeginStep, SyncQueryStep, PrepareStep, ApplyStep, AutoRegisterStep
     DEF SyncThread
<1>3. ASSUME NEW k \in Streams, NEW m \in Media, ZLMChange(k, m) PROVE IInv'
  BY <1>3, ZLMChangeStep
<1>4. CASE Tick
  BY <1>4, TickStep
<1>5. CASE UNCHANGED vars
  BY <1>5 DEF vars, registry, thread, IInv, TypeOK, PassOK, AgesOK, AgeLimit,
              StoppedOK, NoResurrection
<1>. QED BY <1>1, <1>2, <1>3, <1>4, <1>5 DEF Next

\* The invariant the others follow from: the types, where a pass is, how old an
\* entry may be at each place of a pass, and that whoever is to stay stopped is
\* on the manual-stop list.
THEOREM Invariance == Spec => []IInv
BY InitIInv, NextIInv, PTL DEF Spec

-----------------------------------------------------------------------------
(* What follows from the invariant.                                        *)

\* Every operation leaves the registry and the sync thread's locals well typed,
\* and what it erases is gone altogether.
THEOREM TypeCorrect == Spec => []TypeOK
<1>1. IInv => TypeOK
  BY DEF IInv
<1>. QED BY Invariance, <1>1, PTL

\* A stream that was unregistered stays out of the registry until somebody asks
\* for it, whatever the sync thread still has in flight.
THEOREM StoppedStaysOut == Spec => []NoResurrection
<1>1. IInv => NoResurrection
  BY DEF IInv, StoppedOK
<1>. QED BY Invariance, <1>1, PTL

LEMMA IInvFresh == IInv => FreshEntries
<1>. SUFFICES ASSUME IInv, NEW k \in registered
              PROVE  meta[k].updated <= SyncInterval + 2 * MaxStall
  BY DEF FreshEntries
<1>1. k \in Streams /\ meta[k] \in Meta
  BY DEF IInv, TypeOK
<1>2. meta[k].updated \in Nat
  BY <1>1, AgeTypes DEF Meta
<1>3. meta[k].updated <= AgeLimit(k)
  BY DEF IInv, AgesOK
<1>4. AgeLimit(k) \in Nat /\ AgeLimit(k) <= SyncInterval + 2 * MaxStall
  BY <1>1, StreamManagerAssumption DEF AgeLimit, IInv, TypeOK, PassOK
<1>. QED BY <1>2, <1>3, <1>4, StreamManagerAssumption

\* No entry is older than one interval and two stalled passes: the sync thread
\* refreshes last_update_time faster than any limit it measures against it.
THEOREM AlwaysFresh == Spec => []FreshEntries
BY Invariance, IInvFresh, PTL

-----------------------------------------------------------------------------
(* What the sync thread has decided to drop stays dead until it drops it.  *)

\* Whatever the pass is about to drop is long dead still, unless a call reached
\* it since the snapshot.
DropsDead ==
  pc = "apply" =>
    \A k \in (registered \cap snapshot) \ touched : updates[k].remove => LongDead(meta[k])

LEMMA DecidedDead ==
  ASSUME IInv, PrepareStreamUpdates
  PROVE  DropsDead'
<1>. SUFFICES ASSUME NEW k \in registered, updates'[k].remove
              PROVE  LongDead(meta[k])
  BY DEF DropsDead, PrepareStreamUpdates, LongDead, registry
<1>1. k \in Streams
  BY DEF IInv, TypeOK
<1>2. Expired(meta[k], listed[k])
  BY <1>1 DEF PrepareStreamUpdates, PreparedUpdate
<1>. QED BY <1>2 DEF Expired, LongDead

LEMMA DeadAges ==
  ASSUME IInv, DropsDead, Tick
  PROVE  DropsDead'
<1>. SUFFICES ASSUME pc = "apply", NEW k \in (registered \cap snapshot) \ touched,
                     updates[k].remove
              PROVE  LongDead(meta'[k])
  BY DEF DropsDead, Tick, LongDead
<1>1. k \in Streams /\ meta[k] \in Meta
  BY DEF IInv, TypeOK
<1>2. LongDead(meta[k])
  BY DEF DropsDead
<1>3. meta'[k].status = meta[k].status /\ meta'[k].updated = Older(meta[k].updated)
  BY <1>1 DEF Tick, Meta
<1>4. meta[k].updated \in 0 .. OldAge /\ OldAge \in Nat
  BY <1>1, AgeTypes DEF Meta
<1>5. Older(meta[k].updated) \in Nat /\ Older(meta[k].updated) >= meta[k].updated
  BY <1>4 DEF Older
<1>. QED BY <1>2, <1>3, <1>4, <1>5, StreamManagerAssumption DEF LongDead

\* A call leaves the entries it does not reach as they are.
LEMMA CallLeavesDead ==
  ASSUME IInv, DropsDead, NEW i \in Streams, Caller(i)
  PROVE  DropsDead'
<1>. SUFFICES ASSUME pc = "apply",
                     NEW k \in (registered' \cap snapshot) \ touched', updates[k].remove
              PROVE  k \in registered /\ k \notin touched /\ meta'[k] = meta[k]
  <2>1. UNCHANGED <<pc, snapshot, updates>>
    BY DEF Caller, RegisterStream, OnStreamCreateRequested, UnregisterStream,
           UpdateStreamStatus, UpdateStreamMetadata, OnStreamCreateResult,
           OnZLMStreamState, thread
  <2>. QED BY <2>1 DEF DropsDead, LongDead
<1>1. k \in Streams /\ BaseName[i] \in Streams
  BY StreamManagerAssumption DEF IInv, TypeOK
<1>2. CASE UnregisterStream(i)
  BY <1>1, <1>2 DEF UnregisterStream, CallOn, IInv, TypeOK
<1>3. CASE ~UnregisterStream(i)
  <2>1. /\ CallOn({i}) /\ registered' \in {registered, registered \cup {i}}
        /\ i # k => meta'[k] = meta[k]
    BY <1>1, <1>3 DEF Caller, RegisterStream, OnStreamCreateRequested,
       UpdateStreamStatus, UpdateStreamMetadata, OnStreamCreateResult,
       OnZLMStreamState, IInv, TypeOK
  <2>2. i # k /\ k \notin touched
    BY <2>1 DEF CallOn
  <2>. QED BY <2>1, <2>2
<1>. QED BY <1>2, <1>3

LEMMA DropsDeadStep == IInv /\ DropsDead /\ [Next]_vars => DropsDead'
<1>. SUFFICES ASSUME IInv, DropsDead, [Next]_vars PROVE DropsDead'
  OBVIOUS
<1>1. ASSUME NEW k \in Streams, Caller(k) PROVE DropsDead'
  BY <1>1, CallLeavesDead
<1>2. CASE SyncThread
  <2>1. CASE PrepareStreamUpdates
    BY <2>1, DecidedDead
  <2>2. CASE ~PrepareStreamUpdates
    <3>1. pc' # "apply"
      BY <1>2, <2>2 DEF SyncThread, SyncBegin, SyncQuery, ApplyStreamUpdates, AutoRegister
    <3>. QED BY <3>1 DEF DropsDead
  <2>. QED BY <2>1, <2>2
<1>3. ASSUME NEW k \in Streams, NEW m \in Media, ZLMChange(k, m) PROVE DropsDead'
  BY <1>3 DEF ZLMChange, registry, thread, DropsDead, LongDead
<1>4. CASE Tick
  BY <1>4, DeadAges
<1>5. CASE UNCHANGED vars
  BY <1>5 DEF vars, registry, thread, DropsDead, LongDead
<1>. QED BY <1>1, <1>2, <1>3, <1>4, <1>5 DEF Next

\* However long its requests take, a pass drops nothing that is not long dead
\* when it is dropped, except what a call reached after the snapshot.
THEOREM PassesDropOnlyDead == Spec => SyncRemovesOnlyDead
<1>. DEFINE A == \A k \in registered \ registered' :
                   pc # pc' /\ k \notin touched => LongDead(meta[k])
<1>1. Init => DropsDead
  BY DEF Init, DropsDead
<1>2. IInv /\ DropsDead /\ [Next]_vars => DropsDead'
  BY DropsDeadStep
<1>3. IInv /\ DropsDead /\ [Next]_vars => [A]_vars
  <2>. SUFFICES ASSUME IInv, DropsDead, Next PROVE A
    OBVIOUS
  <2>1. CASE ApplyStreamUpdates
    BY <2>1 DEF ApplyStreamUpdates, DropsDead
  <2>2. CASE pc' = pc
    BY <2>2
  <2>3. CASE registered \subseteq registered'
    BY <2>3
  <2>4. ApplyStreamUpdates \/ pc' = pc \/ registered \subseteq registered'
    BY DEF Next, Caller, SyncThread, RegisterStream, OnStreamCreateRequested,
           UnregisterStream, UpdateStreamStatus, UpdateStreamMetadata,
           OnStreamCreateResult, OnZLMStreamState, SyncBegin, SyncQuery,
           PrepareStreamUpdates, AutoRegister, ZLMChange, Tick, thread, registry
  <2>. QED BY <2>1, <2>2, <2>3, <2>4
<1>4. Spec => [][A]_vars
  BY Invariance, <1>1, <1>2, <1>3, PTL DEF Spec
<1>. QED BY <1>4 DEF SyncRemovesOnlyDead

-----------------------------------------------------------------------------
(* The registry is what RegistryView says to a gateway.                    *)

\* What a gateway sees of stream k: the status RegistryView speaks of.
View == INSTANCE RegistryView
Seen(k) == IF k \notin registered THEN "none"
           ELSE IF meta[k].status \in {"Stopped", "Stopping"} THEN "Error"
           ELSE meta[k].status

\* The two calls with which a gateway says that it starts stream k.
Asked(k) == \E g \in Gateways, u \in BOOLEAN, c \in CreateTimes :
  \/ OnStreamCreateRequested(k, g, u, c)
  \/ \E p \in BOOLEAN : RegisterStream(k, g, p, "Starting", c)

\* The registry answers a gateway as RegistryView says, whatever hooks, other
\* callers and passes have made of the entry, its times and its gateway.  And a
\* stream is Starting only after a gateway asked for it: no late hook, no status
\* write and no pass puts a stream back to Starting behind its gateway's back.
GatewaysSeeView ==
  [][\A k \in Streams :
       /\ \A g \in Gateways, u \in BOOLEAN, c \in CreateTimes :
            OnStreamCreateRequested(k, g, u, c) => Seen(k)' = View!Requested(Seen(k))
       /\ \A g \in Gateways, p \in BOOLEAN, s \in {"Running", "Starting"}, c \in CreateTimes :
            RegisterStream(k, g, p, s, c) => Seen(k)' = View!Reregistered(Seen(k), s)
       /\ \A success \in BOOLEAN :
            OnStreamCreateResult(k, success) => Seen(k)' = View!Resulting(Seen(k), success)
       /\ Seen(k)' \in View!HookStatuses \cup {Seen(k)} \/ Asked(k)]_vars

\* No update the sync thread holds makes a stream Starting.
StartsNothing == \A k \in Streams : updates[k].new # "Starting"

LEMMA StartsNothingStep == IInv /\ StartsNothing /\ [Next]_vars => StartsNothing'
<1>. SUFFICES ASSUME IInv, StartsNothing, [Next]_vars PROVE StartsNothing'
  OBVIOUS
<1>1. CASE PrepareStreamUpdates
  <2>. SUFFICES ASSUME NEW k \in Streams PROVE updates'[k].new # "Starting"
    BY DEF StartsNothing
  <2>1. PreparedUpdate(meta[k], listed[k]).new # "Starting"
    <3>1. listed[k] \in Media
      BY DEF IInv, TypeOK
    <3>2. SyncedStatus(meta[k], listed[k]) # "Starting"
      BY <3>1 DEF SyncedStatus, Media
    <3>. QED BY <3>2 DEF PreparedUpdate
  <2>. QED BY <1>1, <2>1 DEF PrepareStreamUpdates, NoUpdate
<1>2. CASE ApplyStreamUpdates
  BY <1>2 DEF ApplyStreamUpdates, NoUpdate, StartsNothing
<1>3. CASE UNCHANGED updates
  BY <1>3 DEF StartsNothing
<1>4. PrepareStreamUpdates \/ ApplyStreamUpdates \/ UNCHANGED updates
  BY DEF Next, Caller, SyncThread, RegisterStream, OnStreamCreateRequested,
         UnregisterStream, UpdateStreamStatus, UpdateStreamMetadata,
         OnStreamCreateResult, OnZLMStreamState, SyncBegin, SyncQuery,
         AutoRegister, ZLMChange, Tick, vars, thread
<1>. QED BY <1>1, <1>2, <1>3, <1>4



LEMMA RequestedIsSeen ==
  ASSUME TypeOK, NEW k \in Streams, NEW g \in Gateways, NEW u \in BOOLEAN,
         NEW c \in CreateTimes, OnStreamCreateRequested(k, g, u, c)
  PROVE  Seen(k)' = View!Requested(Seen(k))
<1>1. k \in registered' /\ meta[k] \in Meta
  BY DEF OnStreamCreateRequested, TypeOK
<1>2. CASE k \in registered
  <2>1. meta'[k] = Rerequested(meta[k], g, u)
    BY <1>2 DEF OnStreamCreateRequested, TypeOK
  <2>2. Rerequested(meta[k], g, u).status =
          IF meta[k].status = "Running" THEN "Running" ELSE "Starting"
    BY <1>1, MergedFields DEF Rerequested, UpdateMetadataFields, Meta
  <2>. QED BY <1>1, <1>2, <2>1, <2>2 DEF Seen, View!Requested
<1>3. CASE k \notin registered
  <2>1. meta'[k].status = "Starting"
    BY <1>3 DEF OnStreamCreateRequested, TypeOK, NewEntry
  <2>. QED BY <1>1, <1>3, <2>1 DEF Seen, View!Requested
<1>. QED BY <1>2, <1>3

LEMMA RegisteredIsSeen ==
  ASSUME TypeOK, NEW k \in Streams, NEW g \in Gateways, NEW p \in BOOLEAN,
         NEW s \in {"Running", "Starting"}, NEW c \in CreateTimes,
         RegisterStream(k, g, p, s, c)
  PROVE  Seen(k)' = View!Reregistered(Seen(k), s)
<1>1. k \in registered' /\ meta[k] \in Meta
  BY DEF RegisterStream, TypeOK
<1>2. CASE k \in registered
  <2>1. meta'[k] = Reregistered(meta[k], g, p, s)
    BY <1>2 DEF RegisterStream, TypeOK
  <2>2. TakeOver(meta[k], g, p).status = meta[k].status
    BY <1>1 DEF TakeOver, UpdateMetadataFields, Meta
  <2>3. TakeOver(meta[k], g, p) \in Meta
    BY <1>1, MergedFields DEF TakeOver, Meta
  <2>4. Reregistered(meta[k], g, p, s).status = Upgrade(meta[k].status, s)
    BY <2>2, <2>3 DEF Reregistered, Meta
  <2>5. Upgrade(meta[k].status, s) = IF meta[k].status = "Running" THEN "Running" ELSE s
    BY DEF Upgrade
  <2>. QED BY <1>1, <1>2, <2>1, <2>4, <2>5 DEF Seen, View!Reregistered
<1>3. CASE k \notin registered
  <2>1. meta'[k].status = s
    BY <1>3 DEF RegisterStream, TypeOK, NewEntry
  <2>. QED BY <1>1, <1>3, <2>1 DEF Seen, View!Reregistered
<1>. QED BY <1>2, <1>3

LEMMA ResultIsSeen ==
  ASSUME TypeOK, NEW k \in Streams, NEW success \in BOOLEAN,
         OnStreamCreateResult(k, success)
  PROVE  Seen(k)' = View!Resulting(Seen(k), success)
<1>1. /\ k \in registered /\ k \in registered'
      /\ meta'[k].status = CreateResultStatus(meta[k].status, success)
  BY DEF OnStreamCreateResult, TypeOK, Meta
<1>2. meta[k].status \in Status
  BY DEF TypeOK, Meta
<1>. QED BY <1>1, <1>2 DEF Seen, View!Resulting, CreateResultStatus, Status

\* An action that does not ask for k leaves it, or takes it elsewhere than to
\* Starting.
Quiet(k) == Seen(k)' \in View!HookStatuses \cup {Seen(k)}

\* What is left to show of an action: that the entry is not Starting now, or
\* was Starting before.
LEMMA QuietEntry ==
  ASSUME TypeOK, TypeOK', NEW k \in Streams,
         k \in registered' /\ meta'[k].status = "Starting" =>
           k \in registered /\ meta[k].status = "Starting"
  PROVE  Quiet(k)
<1>1. Seen(k)' \in View!Statuses
  BY DEF TypeOK, Seen, View!Statuses, Meta, Status
<1>2. Seen(k)' = "Starting" => Seen(k) = "Starting"
  BY DEF Seen
<1>. QED BY <1>1, <1>2 DEF Quiet, View!HookStatuses

LEMMA CallerQuiet ==
  ASSUME TypeOK, TypeOK', NEW i \in Streams, Caller(i), NEW k \in Streams
  PROVE  Quiet(k) \/ Asked(k)
<1>1. CASE i # k
  <2>1. \/ k \notin registered'
        \/ meta'[k] = meta[k] /\ (k \in registered' <=> k \in registered)
    BY <1>1 DEF Caller, RegisterStream, OnStreamCreateRequested, UnregisterStream,
                UpdateStreamStatus, UpdateStreamMetadata, OnStreamCreateResult,
                OnZLMStreamState, TypeOK
  <2>. QED BY <2>1, QuietEntry
<1>2. CASE i = k
  <2>. meta[k] \in Meta
    BY DEF TypeOK
  <2>1. ASSUME NEW g \in Gateways, NEW u \in BOOLEAN, NEW c \in CreateTimes,
               OnStreamCreateRequested(k, g, u, c)
        PROVE  Asked(k)
    BY <2>1 DEF Asked
  <2>2. ASSUME NEW g \in Gateways, NEW p \in BOOLEAN, NEW s \in {"Running", "Starting"},
               NEW c \in CreateTimes, RegisterStream(k, g, p, s, c)
        PROVE  Quiet(k) \/ Asked(k)
    <3>1. CASE s = "Starting"
      BY <2>2, <3>1 DEF Asked
    <3>2. CASE s = "Running"
      BY <2>2, <3>2, RegisteredIsSeen
         DEF View!Reregistered, Quiet, View!HookStatuses, View!Statuses
    <3>. QED BY <3>1, <3>2
  <2>3. CASE UnregisterStream(k)
    BY <2>3, QuietEntry DEF UnregisterStream, TypeOK
  <2>4. ASSUME NEW s \in {"Running", "Stopping", "Error"}, UpdateStreamStatus(k, s)
        PROVE  Quiet(k)
    <3>1. meta'[k].status = s
      BY <2>4 DEF UpdateStreamStatus, TypeOK, Meta
    <3>. QED BY <3>1, QuietEntry
  <2>5. ASSUME NEW g \in Gateways, NEW p \in BOOLEAN, NEW u \in BOOLEAN,
               UpdateStreamMetadata(k, g, p, u)
        PROVE  Quiet(k)
    <3>1. meta'[k].status = meta[k].status /\ registered' = registered
      BY <2>5 DEF UpdateStreamMetadata, UpdateMetadataFields, TypeOK, Meta
    <3>. QED BY <3>1, QuietEntry
  <2>6. ASSUME NEW success \in BOOLEAN, OnStreamCreateResult(k, success)
        PROVE  Quiet(k)
    <3>1. meta'[k].status = CreateResultStatus(meta[k].status, success)
      BY <2>6 DEF OnStreamCreateResult, TypeOK, Meta
    <3>. QED BY <3>1, QuietEntry DEF CreateResultStatus
  <2>7. ASSUME NEW regist \in BOOLEAN, NEW effective \in BOOLEAN,
               OnZLMStreamState(k, regist, effective)
        PROVE  Quiet(k)
    <3>1. /\ meta'[k].status = HookStatus(meta[k], regist, effective)
          /\ k \in registered
      BY <2>7 DEF OnZLMStreamState, TypeOK, Meta
    <3>2. HookStatus(meta[k], regist, effective) = "Starting" => meta[k].status = "Starting"
      BY DEF HookStatus
    <3>. QED BY <3>1, <3>2, QuietEntry
  <2>. QED BY <1>2, <2>1, <2>2, <2>3, <2>4, <2>5, <2>6, <2>7 DEF Caller
<1>. QED BY <1>1, <1>2

LEMMA ThreadQuiet ==
  ASSUME TypeOK, TypeOK', StartsNothing, SyncThread, NEW k \in Streams
  PROVE  Quiet(k)
<1>. SUFFICES k \in registered' /\ meta'[k].status = "Starting" =>
                k \in registered /\ meta[k].status = "Starting"
  BY QuietEntry
<1>1. CASE ApplyStreamUpdates
  <2>1. CASE meta'[k] = AppliedEntry(meta[k], updates[k])
    <3>1. meta'[k].status = AppliedStatus(meta[k].status, updates[k])
      BY <2>1 DEF AppliedEntry, TypeOK, Meta
    <3>2. AppliedStatus(meta[k].status, updates[k]) = "Starting" =>
            meta[k].status = "Starting"
      BY DEF AppliedStatus, StartsNothing
    <3>. QED BY <1>1, <3>1, <3>2 DEF ApplyStreamUpdates
  <2>2. CASE meta'[k] # AppliedEntry(meta[k], updates[k])
    BY <1>1, <2>2 DEF ApplyStreamUpdates
  <2>. QED BY <2>1, <2>2
<1>2. CASE AutoRegister
  <2>1. CASE Adoptable(k)
    BY <1>2, <2>1 DEF AutoRegister
  <2>2. CASE ~Adoptable(k)
    BY <1>2, <2>2 DEF AutoRegister
  <2>. QED BY <2>1, <2>2
<1>3. CASE SyncBegin \/ (\E answered \in BOOLEAN : SyncQuery(answered))
           \/ PrepareStreamUpdates
  BY <1>3 DEF SyncBegin, SyncQuery, PrepareStreamUpdates, registry
<1>. QED BY <1>1, <1>2, <1>3 DEF SyncThread

LEMMA NextQuiet ==
  ASSUME TypeOK, TypeOK', StartsNothing, Next, NEW k \in Streams
  PROVE  Quiet(k) \/ Asked(k)
<1>1. CASE Tick
  <2>1. meta'[k].status = meta[k].status /\ registered' = registered
    BY <1>1 DEF Tick, TypeOK, Meta
  <2>. QED BY <2>1, QuietEntry
<1>2. ASSUME NEW i \in Streams, NEW m \in Media, ZLMChange(i, m) PROVE Quiet(k)
  BY <1>2, QuietEntry DEF ZLMChange, registry
<1>. QED BY <1>1, <1>2, CallerQuiet, ThreadQuiet DEF Next

\* Every call of a gateway changes what it sees of its stream as RegistryView
\* says, and nothing but its own calls makes the stream Starting.
THEOREM RegistryIsView == Spec => GatewaysSeeView
<1>. DEFINE Answers(k) ==
              /\ \A g \in Gateways, u \in BOOLEAN, c \in CreateTimes :
                   OnStreamCreateRequested(k, g, u, c) => Seen(k)' = View!Requested(Seen(k))
              /\ \A g \in Gateways, p \in BOOLEAN, s \in {"Running", "Starting"}, c \in CreateTimes :
                   RegisterStream(k, g, p, s, c) => Seen(k)' = View!Reregistered(Seen(k), s)
              /\ \A success \in BOOLEAN :
                   OnStreamCreateResult(k, success) => Seen(k)' = View!Resulting(Seen(k), success)
              /\ Seen(k)' \in View!HookStatuses \cup {Seen(k)} \/ Asked(k)
            A == \A k \in Streams : Answers(k)
<1>1. Init => StartsNothing
  BY DEF Init, StartsNothing, NoUpdate
<1>2. IInv /\ StartsNothing /\ [Next]_vars => StartsNothing'
  BY StartsNothingStep
<1>3. IInv /\ IInv' /\ StartsNothing /\ [Next]_vars => [A]_vars
  <2>. SUFFICES ASSUME IInv, IInv', StartsNothing, Next, NEW k \in Streams
                PROVE  Answers(k)
    OBVIOUS
  <2>1. TypeOK /\ TypeOK'
    BY DEF IInv
  <2>. HIDE DEF IInv
  <2>2. \A g \in Gateways, u \in BOOLEAN, c \in CreateTimes :
          OnStreamCreateRequested(k, g, u, c) => Seen(k)' = View!Requested(Seen(k))
    BY <2>1, RequestedIsSeen
  <2>3. \A g \in Gateways, p \in BOOLEAN, s \in {"Running", "Starting"}, c \in CreateTimes :
          RegisterStream(k, g, p, s, c) => Seen(k)' = View!Reregistered(Seen(k), s)
    BY <2>1, RegisteredIsSeen
  <2>4. \A success \in BOOLEAN :
          OnStreamCreateResult(k, success) => Seen(k)' = View!Resulting(Seen(k), success)
    BY <2>1, ResultIsSeen
  <2>5. Seen(k)' \in View!HookStatuses \cup {Seen(k)} \/ Asked(k)
    BY <2>1, NextQuiet DEF Quiet
  <2>. QED BY <2>2, <2>3, <2>4, <2>5
<1>4. Spec => [][A]_vars
  BY Invariance, <1>1, <1>2, <1>3, PTL DEF Spec
<1>. QED BY <1>4 DEF GatewaysSeeView
=============================================================================
