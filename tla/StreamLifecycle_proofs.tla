------------------------ MODULE StreamLifecycle_proofs ------------------------
(***************************************************************************)
(* Proofs about StreamLifecycle, for any number of requests, workers and   *)
(* pids.                                                                   *)
(***************************************************************************)
EXTENDS StreamLifecycle, TLAPS

-----------------------------------------------------------------------------
(* Types: each part of TypeOK, under the steps of a start and of a stop.    *)

LEMMA RegistryTypes ==
  ASSUME RegistryOK
  PROVE  /\ Absent \in [status : Statuses, native : BOOLEAN]
         /\ Requested(reg) \in [status : Statuses, native : BOOLEAN]
         /\ \A s \in {"Running", "Starting"} :
              Reregistered(reg, s) \in [status : Statuses, native : BOOLEAN]
         /\ \A ok \in BOOLEAN : Resulting(reg, ok) \in [status : Statuses, native : BOOLEAN]
         /\ \A s \in Statuses : Forced(reg, s) \in [status : Statuses, native : BOOLEAN]
BY DEF RegistryOK, Absent, Requested, Reregistered, Resulting, Forced, Statuses

LEMMA StartTyped ==
  ASSUME TypeOK, NEW t \in Starts, StartStep(t)
  PROVE  StartOK'
<1>1. CASE HandleStartStream(t)
  BY <1>1 DEF HandleStartStream, TypeOK, StartOK, At, Move, StartPlaces, Pid
<1>2. CASE Enqueue(t)
  BY <1>2 DEF Enqueue, TypeOK, StartOK, At, Move, StartPlaces, Pid
<1>3. CASE RefuseStart(t)
  BY <1>3 DEF RefuseStart, TypeOK, StartOK, At, Move, StartPlaces, Pid
<1>4. CASE HandleStreamNotFound(t)
  BY <1>4 DEF HandleStreamNotFound, TypeOK, StartOK, At, Move, StartPlaces,
     Pid
<1>5. CASE CheckExisting(t)
  BY <1>5 DEF CheckExisting, AfterGateway, TypeOK, StartOK, At, Move,
     StartPlaces, Pid
<1>6. CASE CreateRequested(t)
  BY <1>6 DEF CreateRequested, TypeOK, StartOK, At, Move, StartPlaces, Pid
<1>7. CASE DirectProxy(t)
  BY <1>7 DEF DirectProxy, TypeOK, StartOK, At, Move, StartPlaces, Pid
<1>8. CASE StartProcess(t)
  BY <1>8 DEF StartProcess, TypeOK, StartOK, At, Move, StartPlaces, Pid
<1>9. CASE StartProcessRefused(t)
  BY <1>9 DEF StartProcessRefused, TypeOK, StartOK, At, Move, StartPlaces, Pid
<1>10. CASE GetPid(t)
  BY <1>10 DEF GetPid, ProcessOK, TypeOK, StartOK, At, Move, StartPlaces, Pid
<1>11. CASE StartProcessSimple(t)
  <2>1. CASE \E p \in Pids :
               start' = [start EXCEPT ![t].pc = "validate", ![t].pid = p]
    <3>1. PICK p \in Pids : start' = [start EXCEPT ![t].pc = "validate", ![t].pid = p]
      BY <2>1
    <3>2. "validate" \in StartPlaces /\ p \in Pid
      BY DEF StartPlaces, Pid
    <3>. QED BY <3>1, <3>2 DEF TypeOK, StartOK
  <2>2. CASE start' = [start EXCEPT ![t] =
                         [pc |-> "register", pid |-> NoPid, ok |-> FALSE]]
    BY <2>2 DEF TypeOK, StartOK, StartPlaces, Pid
  <2>. QED BY <1>11, <2>1, <2>2 DEF StartProcessSimple
<1>12. CASE ValidateSimple(t)
  BY <1>12 DEF ValidateSimple, TypeOK, StartOK, At, Move, StartPlaces, Pid
<1>13. CASE RegisterStream(t)
  BY <1>13 DEF RegisterStream, TypeOK, StartOK, At, Move, StartPlaces, Pid
<1>14. CASE ReportStreamResult(t)
  BY <1>14 DEF ReportStreamResult, TypeOK, StartOK, At, Move, StartPlaces, Pid
<1>15. CASE StoreEntry(t)
  BY <1>15 DEF StoreEntry, AfterGateway, TypeOK, StartOK, At, Move,
     StartPlaces, Pid
<1>16. CASE Callback(t)
  BY <1>16 DEF Callback, TypeOK, StartOK, At, Move, StartPlaces, Pid
<1>. QED BY <1>1, <1>2, <1>3, <1>4, <1>5, <1>6, <1>7, <1>8, <1>9, <1>10,
            <1>11, <1>12, <1>13, <1>14, <1>15, <1>16 DEF StartStep

LEMMA StartProcessTyped ==
  ASSUME TypeOK, NEW t \in Starts, StartStep(t)
  PROVE  ProcessOK'
<1>1. CASE \/ HandleStartStream(t) \/ Enqueue(t) \/ RefuseStart(t)
          \/ HandleStreamNotFound(t) \/ CreateRequested(t)
          \/ DirectProxy(t) \/ GetPid(t) \/ ValidateSimple(t)
          \/ RegisterStream(t) \/ ReportStreamResult(t) \/ Callback(t)
  BY <1>1 DEF HandleStartStream, Enqueue, RefuseStart, HandleStreamNotFound,
     CreateRequested, DirectProxy, GetPid, ValidateSimple, RegisterStream,
     ReportStreamResult, Callback, process, TypeOK, ProcessOK
<1>2. CASE CheckExisting(t)
  BY <1>2 DEF CheckExisting, process, StopManaged, TypeOK, ProcessOK, Pid
<1>3. CASE StartProcess(t)
  BY <1>3 DEF StartProcess, process, StopManaged, TypeOK, ProcessOK, Pid
<1>4. CASE StartProcessRefused(t)
  BY <1>4 DEF StartProcessRefused, process, StopManaged, TypeOK, ProcessOK,
     Pid
<1>5. CASE StartProcessSimple(t)
  BY <1>5 DEF StartProcessSimple, process, StopManaged, TypeOK, ProcessOK, Pid
<1>6. CASE StoreEntry(t)
  BY <1>6 DEF StoreEntry, StartOK, Stored, process, StopManaged, TypeOK,
     ProcessOK, Pid
<1>. QED BY <1>1, <1>2, <1>3, <1>4, <1>5, <1>6 DEF StartStep

LEMMA StartRegistryTyped ==
  ASSUME TypeOK, NEW t \in Starts, StartStep(t)
  PROVE  RegistryOK'
<1>1. CASE \/ Enqueue(t) \/ HandleStreamNotFound(t) \/ CheckExisting(t)
          \/ DirectProxy(t) \/ StartProcess(t) \/ StartProcessRefused(t)
          \/ GetPid(t) \/ StartProcessSimple(t) \/ ValidateSimple(t)
          \/ StoreEntry(t)
  BY <1>1 DEF Enqueue, HandleStreamNotFound, CheckExisting, DirectProxy,
     StartProcess, StartProcessRefused, GetPid, StartProcessSimple,
     ValidateSimple, StoreEntry, registry, TypeOK, RegistryOK
<1>2. CASE HandleStartStream(t)
  BY <1>2, RegistryTypes DEF HandleStartStream, StartOK, Statuses, TypeOK,
     RegistryOK
<1>3. CASE RefuseStart(t)
  BY <1>3, RegistryTypes DEF RefuseStart, StartOK, Statuses, TypeOK,
     RegistryOK
<1>4. CASE CreateRequested(t)
  BY <1>4, RegistryTypes DEF CreateRequested, StartOK, Statuses, TypeOK,
     RegistryOK
<1>5. CASE RegisterStream(t)
  BY <1>5, RegistryTypes DEF RegisterStream, StartOK, Statuses, TypeOK,
     RegistryOK
<1>6. CASE ReportStreamResult(t)
  BY <1>6, RegistryTypes DEF ReportStreamResult, StartOK, Statuses, TypeOK,
     RegistryOK
<1>7. CASE Callback(t)
  BY <1>7, RegistryTypes DEF Callback, StartOK, Statuses, TypeOK, RegistryOK
<1>. QED BY <1>1, <1>2, <1>3, <1>4, <1>5, <1>6, <1>7 DEF StartStep

LEMMA StartPoolTyped ==
  ASSUME TypeOK, NEW t \in Starts, StartStep(t)
  PROVE  PoolOK' /\ StopOK'
<1>1. CASE \/ HandleStartStream(t) \/ RefuseStart(t)
          \/ HandleStreamNotFound(t) \/ CheckExisting(t)
          \/ CreateRequested(t) \/ DirectProxy(t) \/ StartProcess(t)
          \/ StartProcessRefused(t) \/ GetPid(t) \/ StartProcessSimple(t)
          \/ ValidateSimple(t) \/ RegisterStream(t)
          \/ ReportStreamResult(t) \/ StoreEntry(t)
  BY <1>1 DEF HandleStartStream, RefuseStart, HandleStreamNotFound,
     CheckExisting, CreateRequested, DirectProxy, StartProcess,
     StartProcessRefused, GetPid, StartProcessSimple, ValidateSimple,
     RegisterStream, ReportStreamResult, StoreEntry, pool, TypeOK, PoolOK,
     StopOK
<1>2. CASE Enqueue(t)
  <2>1. ASSUME Pool!Accept(t) PROVE PoolOK'
    BY <2>1 DEF Pool!Accept, TypeOK, PoolOK
  <2>2. ASSUME Pool!Reject(t) PROVE PoolOK'
    BY <2>2 DEF Pool!Reject, TypeOK, PoolOK
  <2>. QED BY <1>2, <2>1, <2>2 DEF Enqueue, TypeOK, StopOK
<1>3. CASE Callback(t)
  <2>1. PICK w \in Workers, result \in {"completed", "failed"} :
          serving[w] = t /\ Pool!Finish(w, result)
    BY <1>3 DEF Callback
  <2>2. PoolOK'
    BY <2>1 DEF Pool!Finish, TypeOK, PoolOK
  <2>. QED BY <1>3, <2>2 DEF Callback, TypeOK, StopOK
<1>. QED BY <1>1, <1>2, <1>3 DEF StartStep

LEMMA StopTyped ==
  ASSUME TypeOK, NEW s \in Stops, StopStep(s)
  PROVE  StopOK'
<1>1. CASE HandleStopStream(s)
  <2>1. StopsAt(reg.status) \in StopPlaces
    BY DEF StopsAt, StopPlaces
  <2>2. [pc |-> StopsAt(reg.status), native |-> reg.native, ok |-> FALSE]
          \in [pc : StopPlaces, native : BOOLEAN, ok : BOOLEAN]
    BY <2>1 DEF TypeOK, RegistryOK
  <2>. QED BY <1>1, <2>2 DEF HandleStopStream, TypeOK, StopOK
<1>2. CASE AlreadyStopped(s)
  BY <1>2 DEF AlreadyStopped, TypeOK, StopOK, StopPlaces, StopMove
<1>3. CASE MarkStopping(s)
  BY <1>3 DEF MarkStopping, TypeOK, StopOK, StopPlaces, StopMove
<1>4. CASE GatewayStop(s)
  <2>1. PICK ok \in BOOLEAN : stop' = [stop EXCEPT ![s].pc = "ask", ![s].ok = ok]
    BY <1>4 DEF GatewayStop
  <2>. QED BY <2>1 DEF TypeOK, StopOK, StopPlaces
<1>5. CASE AskIsRunning(s)
  BY <1>5 DEF AskIsRunning, TypeOK, StopOK, StopPlaces, StopMove
<1>6. CASE FinishStop(s)
  BY <1>6 DEF FinishStop, TypeOK, StopOK, StopPlaces, StopMove
<1>. QED BY <1>1, <1>2, <1>3, <1>4, <1>5, <1>6 DEF StopStep

LEMMA StopRegistryTyped ==
  ASSUME TypeOK, NEW s \in Stops, StopStep(s)
  PROVE  RegistryOK' /\ StartOK' /\ PoolOK'
<1>1. CASE HandleStopStream(s)
  BY <1>1, RegistryTypes DEF HandleStopStream, UnregisterStream, Statuses,
     registry, pool, TypeOK, RegistryOK, StartOK, PoolOK
<1>2. CASE AlreadyStopped(s)
  BY <1>2, RegistryTypes DEF AlreadyStopped, UnregisterStream, Statuses,
     registry, pool, TypeOK, RegistryOK, StartOK, PoolOK
<1>3. CASE MarkStopping(s)
  BY <1>3, RegistryTypes DEF MarkStopping, UnregisterStream, Statuses,
     registry, pool, TypeOK, RegistryOK, StartOK, PoolOK
<1>4. CASE GatewayStop(s)
  BY <1>4, RegistryTypes DEF GatewayStop, UnregisterStream, Statuses,
     registry, pool, TypeOK, RegistryOK, StartOK, PoolOK
<1>5. CASE AskIsRunning(s)
  BY <1>5, RegistryTypes DEF AskIsRunning, UnregisterStream, Statuses,
     registry, pool, TypeOK, RegistryOK, StartOK, PoolOK
<1>6. CASE FinishStop(s)
  BY <1>6, RegistryTypes DEF FinishStop, UnregisterStream, Statuses, registry,
     pool, TypeOK, RegistryOK, StartOK, PoolOK
<1>. QED BY <1>1, <1>2, <1>3, <1>4, <1>5, <1>6 DEF StopStep

LEMMA StopProcessTyped ==
  ASSUME TypeOK, NEW s \in Stops, StopStep(s)
  PROVE  ProcessOK'
<1>1. CASE \/ HandleStopStream(s) \/ AlreadyStopped(s) \/ MarkStopping(s)
          \/ FinishStop(s)
  BY <1>1 DEF HandleStopStream, AlreadyStopped, MarkStopping, FinishStop,
     process, TypeOK, ProcessOK
<1>2. CASE GatewayStop(s)
  BY <1>2 DEF GatewayStop, StopManaged, NoEntry, process, TypeOK, ProcessOK,
     Pid
<1>3. CASE AskIsRunning(s)
  BY <1>3 DEF AskIsRunning, Rechecked, process, TypeOK, ProcessOK, Pid
<1>. QED BY <1>1, <1>2, <1>3 DEF StopStep

LEMMA WorkerTyped ==
  ASSUME TypeOK, NEW w \in Workers, WorkerTakes(w)
  PROVE  (StartOK /\ StopOK /\ PoolOK /\ RegistryOK /\ ProcessOK)'
<1>1. Head(waiting) \in Starts /\ Tail(waiting) \in Seq(Starts)
  BY DEF WorkerTakes, Pool!Begin, TypeOK, PoolOK
<1>2. StartOK'
  BY <1>1 DEF WorkerTakes, Move, TypeOK, StartOK, StartPlaces
<1>3. PoolOK'
  BY <1>1 DEF WorkerTakes, Pool!Begin, TypeOK, PoolOK
<1>. QED BY <1>2, <1>3 DEF WorkerTakes, registry, process, TypeOK, StopOK, RegistryOK,
            ProcessOK

LEMMA EnvironmentTyped ==
  ASSUME TypeOK, Environment
  PROVE  (StartOK /\ StopOK /\ PoolOK /\ RegistryOK /\ ProcessOK)'
<1>1. StartOK' /\ StopOK' /\ PoolOK'
  BY DEF Environment, Crash, MonitorVerdict, ZLMStatus, SyncRemoves, AutoRegister, pool,
         TypeOK, StartOK, StopOK, PoolOK
<1>2. ProcessOK'
  BY DEF Environment, Crash, MonitorVerdict, ZLMStatus, SyncRemoves, AutoRegister,
         process, TypeOK, ProcessOK
<1>3. RegistryOK'
  <2>1. CASE \E s \in {"Running", "Stopped", "Error"} : ZLMStatus(s)
    BY <2>1 DEF ZLMStatus, Statuses, TypeOK, RegistryOK
  <2>2. CASE \E s \in {"Running", "Stopped"} : AutoRegister(s)
    BY <2>2 DEF AutoRegister, Statuses, TypeOK, RegistryOK
  <2>3. CASE SyncRemoves
    BY <2>3 DEF SyncRemoves, Absent, Statuses, TypeOK, RegistryOK
  <2>. QED BY <2>1, <2>2, <2>3
           DEF Environment, Crash, MonitorVerdict, registry, TypeOK, RegistryOK
<1>. QED BY <1>1, <1>2, <1>3

LEMMA InitTyped == Init => TypeOK
<1>. SUFFICES ASSUME Init PROVE TypeOK
  OBVIOUS
<1>1. StartOK /\ StopOK
  BY DEF Init, StartOK, StopOK, StartPlaces, StopPlaces, Pid
<1>2. PoolOK
  BY DEF Init, Pool!Init, PoolOK
<1>3. RegistryOK /\ ProcessOK /\ HistoryOK
  BY DEF Init, RegistryOK, ProcessOK, HistoryOK, Absent, NoEntry, Statuses, Pid
<1>. QED BY <1>1, <1>2, <1>3 DEF TypeOK

LEMMA StepTyped == TypeOK /\ [Next]_vars => TypeOK'
<1>1. CASE UNCHANGED vars
  BY <1>1 DEF vars, pool, registry, process, TypeOK, StartOK, StopOK, PoolOK, RegistryOK,
              ProcessOK, HistoryOK
<1>2. ASSUME TypeOK, Next PROVE TypeOK'
  <2>1. HistoryOK'
    BY <1>2 DEF Next, History, TypeOK, HistoryOK
  <2>2. ASSUME NEW t \in Starts, StartStep(t)
        PROVE  (StartOK /\ StopOK /\ PoolOK /\ RegistryOK /\ ProcessOK)'
    BY <1>2, <2>2, StartTyped, StartPoolTyped, StartRegistryTyped, StartProcessTyped
  <2>3. ASSUME NEW s \in Stops, StopStep(s)
        PROVE  (StartOK /\ StopOK /\ PoolOK /\ RegistryOK /\ ProcessOK)'
    BY <1>2, <2>3, StopTyped, StopRegistryTyped, StopProcessTyped
  <2>. QED BY <1>2, <2>1, <2>2, <2>3, WorkerTyped, EnvironmentTyped
           DEF Next, Step, TypeOK
<1>. QED BY <1>1, <1>2

\* Whatever order the handlers, the queue, the gateway, the registry and the
\* monitor run in, every variable keeps its type.
THEOREM TypeCorrect == Spec => []TypeOK
BY InitTyped, StepTyped, PTL DEF Spec
-----------------------------------------------------------------------------
(* Transient statuses: NoLimbo is inductive.                               *)

\* A step of one start leaves the others where they are, and the stops too.
LEMMA OthersStay ==
  ASSUME TypeOK, NEW t \in Starts, StartStep(t)
  PROVE  stop' = stop /\ \A u \in Starts \ {t} : start'[u] = start[u]
<1>1. CASE \/ HandleStartStream(t) \/ Enqueue(t) \/ RefuseStart(t) \/ HandleStreamNotFound(t)
           \/ CheckExisting(t) \/ CreateRequested(t) \/ DirectProxy(t) \/ StartProcess(t)
  BY <1>1 DEF HandleStartStream, Enqueue, RefuseStart, HandleStreamNotFound, CheckExisting,
              CreateRequested, DirectProxy, StartProcess, Move, TypeOK, StartOK
<1>2. CASE \/ StartProcessRefused(t) \/ GetPid(t) \/ StartProcessSimple(t)
           \/ ValidateSimple(t) \/ RegisterStream(t) \/ ReportStreamResult(t)
           \/ StoreEntry(t) \/ Callback(t)
  BY <1>2 DEF StartProcessRefused, GetPid, StartProcessSimple, ValidateSimple,
              RegisterStream, ReportStreamResult, StoreEntry, Callback, Move, TypeOK, StartOK
<1>. QED BY <1>1, <1>2 DEF StartStep

LEMMA ServingStays ==
  ASSUME NEW t \in Starts, StartStep(t), ~Callback(t)
  PROVE  serving' = serving
BY DEF StartStep, HandleStartStream, Enqueue, Pool!Accept, Pool!Reject, RefuseStart,
       HandleStreamNotFound, CheckExisting, CreateRequested, DirectProxy, StartProcess,
       StartProcessRefused, GetPid, StartProcessSimple, ValidateSimple, RegisterStream,
       ReportStreamResult, StoreEntry, pool

\* What a start owes the registry it pays, or still owes after the step.
LEMMA OwnDebt ==
  ASSUME TypeOK, NEW t \in Starts, StartStep(t), reg'.status = "Starting"
  PROVE  Owes(t)' \/ (reg.status = "Starting" /\ ~Owes(t))
<1>1. CASE HandleStartStream(t)
  BY <1>1 DEF HandleStartStream, Move, Owes, TypeOK, StartOK
<1>2. CASE Enqueue(t)
  BY <1>2 DEF Enqueue, Move, Owes, TypeOK, StartOK
<1>3. CASE RefuseStart(t)
  BY <1>3 DEF RefuseStart, Forced, TypeOK, RegistryOK
<1>4. CASE HandleStreamNotFound(t)
  BY <1>4 DEF HandleStreamNotFound, At, Owes, registry
<1>5. CASE CheckExisting(t)
  <2>1. serving' = serving /\ reg' = reg /\ start[t].pc = "check"
    BY <1>5 DEF CheckExisting, pool, registry, At
  <2>2. start'[t].pc = "create" \/ start'[t].pc = AfterGateway(t)
    BY <1>5 DEF CheckExisting, Move, TypeOK, StartOK
  <2>. QED BY <2>1, <2>2 DEF Owes, AfterGateway, Served
<1>6. CASE CreateRequested(t)
  BY <1>6 DEF CreateRequested, Move, Owes, TypeOK, StartOK
<1>7. CASE DirectProxy(t)
  BY <1>7 DEF DirectProxy, Owes, TypeOK, StartOK
<1>8. CASE StartProcess(t)
  BY <1>8 DEF StartProcess, Move, Owes, TypeOK, StartOK
<1>9. CASE StartProcessRefused(t)
  BY <1>9 DEF StartProcessRefused, Move, Owes, TypeOK, StartOK
<1>10. CASE GetPid(t)
  BY <1>10 DEF GetPid, Move, Owes, TypeOK, StartOK
<1>11. CASE StartProcessSimple(t)
  BY <1>11 DEF StartProcessSimple, Owes, TypeOK, StartOK
<1>12. CASE ValidateSimple(t)
  BY <1>12 DEF ValidateSimple, Owes, TypeOK, StartOK
<1>13. CASE RegisterStream(t)
  BY <1>13 DEF RegisterStream, Move, Owes, TypeOK, StartOK
<1>14. CASE ReportStreamResult(t)
  BY <1>14 DEF ReportStreamResult, Resulting, TypeOK, RegistryOK
<1>15. CASE StoreEntry(t)
  <2>1. serving' = serving /\ reg' = reg /\ start[t].pc = "store"
    BY <1>15 DEF StoreEntry, pool, registry, At
  <2>2. start'[t].pc = AfterGateway(t)
    BY <1>15 DEF StoreEntry, Move, TypeOK, StartOK
  <2>. QED BY <2>1, <2>2 DEF Owes, AfterGateway, Served
<1>16. CASE Callback(t)
  BY <1>16 DEF Callback, Forced, TypeOK, RegistryOK
<1>. QED BY <1>1, <1>2, <1>3, <1>4, <1>5, <1>6, <1>7, <1>8, <1>9, <1>10, <1>11, <1>12,
            <1>13, <1>14, <1>15, <1>16 DEF StartStep

\* No step of a start writes Stopping.
LEMMA StartWritesNoStopping ==
  ASSUME TypeOK, NEW t \in Starts, StartStep(t), reg'.status = "Stopping"
  PROVE  reg.status = "Stopping"
<1>1. CASE reg' = reg
  BY <1>1
<1>2. CASE HandleStartStream(t) \/ CreateRequested(t)
  BY <1>2 DEF HandleStartStream, CreateRequested, Requested
<1>3. CASE RefuseStart(t) \/ Callback(t)
  BY <1>3 DEF RefuseStart, Callback, Forced, TypeOK, RegistryOK
<1>4. CASE RegisterStream(t)
  BY <1>4 DEF RegisterStream, Reregistered
<1>5. CASE ReportStreamResult(t)
  BY <1>5 DEF ReportStreamResult, Resulting, TypeOK, RegistryOK
<1>. QED
  BY <1>1, <1>2, <1>3, <1>4, <1>5
  DEF StartStep, Enqueue, HandleStreamNotFound, CheckExisting, DirectProxy, StartProcess,
      StartProcessRefused, GetPid, StartProcessSimple, ValidateSimple, StoreEntry, registry

LEMMA StartLimbo ==
  ASSUME TypeOK, NoLimbo, NEW t \in Starts, StartStep(t)
  PROVE  NoLimbo'
<1>1. ASSUME reg'.status = "Starting" PROVE \E u \in Starts : Owes(u)'
  <2>1. CASE Owes(t)'
    BY <2>1
  <2>2. CASE reg.status = "Starting" /\ ~Owes(t)
    <3>1. PICK u \in Starts : Owes(u)
      BY <2>2 DEF NoLimbo
    <3>2. u # t /\ ~Callback(t)
      BY <2>2, <3>1, <1>1 DEF Callback, Forced, TypeOK, RegistryOK
    <3>3. start'[u] = start[u] /\ serving' = serving
      BY <3>2, OthersStay, ServingStays
    <3>. QED BY <3>1, <3>3 DEF Owes, Served
  <2>. QED BY <1>1, <2>1, <2>2, OwnDebt
<1>2. ASSUME reg'.status = "Stopping"
      PROVE  \E s \in Stops : stop'[s].pc \in {"gateway", "ask", "finish"}
  BY <1>2, StartWritesNoStopping, OthersStay DEF NoLimbo
<1>. QED BY <1>1, <1>2 DEF NoLimbo

LEMMA WorkerLimbo ==
  ASSUME TypeOK, NoLimbo, NEW w \in Workers, WorkerTakes(w)
  PROVE  NoLimbo'
<1>1. /\ serving[w] = None /\ serving' = [serving EXCEPT ![w] = Head(waiting)]
      /\ Head(waiting) \in Starts /\ reg' = reg /\ stop' = stop
  BY DEF WorkerTakes, Pool!Begin, TypeOK, PoolOK, registry
<1>2. PICK t \in Starts : t = Head(waiting)
  BY <1>1
<1>3. Owes(t)'
  <2>1. start'[t].pc = "check"
    BY <1>2 DEF WorkerTakes, Move, TypeOK, StartOK
  <2>2. serving'[w] = t
    BY <1>1, <1>2 DEF TypeOK, PoolOK
  <2>. QED BY <2>1, <2>2 DEF Owes, Served
<1>. QED BY <1>1, <1>3 DEF NoLimbo

\* A stop changes no start, and no start's debt.
LEMMA StopLimbo ==
  ASSUME TypeOK, NoLimbo, NEW s \in Stops, StopStep(s)
  PROVE  NoLimbo'
<1>1. start' = start /\ serving' = serving
  BY DEF StopStep, HandleStopStream, AlreadyStopped, MarkStopping, GatewayStop,
         AskIsRunning, FinishStop, pool
<1>2. CASE HandleStopStream(s)
  <2>1. reg' = reg /\ \A r \in Stops \ {s} : stop'[r] = stop[r]
    BY <1>2 DEF HandleStopStream, registry, TypeOK, StopOK
  <2>2. stop[s].pc = "idle"
    BY <1>2 DEF HandleStopStream
  <2>. QED BY <1>1, <2>1, <2>2 DEF NoLimbo, Owes, Served
<1>3. CASE AlreadyStopped(s)
  BY <1>3 DEF AlreadyStopped, UnregisterStream, Absent, NoLimbo
<1>4. CASE MarkStopping(s)
  <2>1. stop'[s].pc \in {"gateway", "finish"}
    BY <1>4 DEF MarkStopping, TypeOK, StopOK
  <2>2. reg'.status # "Starting"
    BY <1>4 DEF MarkStopping, Forced, TypeOK, RegistryOK
  <2>. QED BY <2>1, <2>2 DEF NoLimbo
<1>5. CASE GatewayStop(s)
  <2>1. PICK ok \in BOOLEAN : stop' = [stop EXCEPT ![s].pc = "ask", ![s].ok = ok]
    BY <1>5 DEF GatewayStop
  <2>2. stop'[s].pc = "ask" /\ reg' = reg
    BY <1>5, <2>1 DEF GatewayStop, registry, TypeOK, StopOK
  <2>. QED BY <1>1, <2>2 DEF NoLimbo, Owes, Served
<1>6. CASE AskIsRunning(s)
  <2>1. stop'[s].pc = "finish" /\ reg' = reg
    BY <1>6 DEF AskIsRunning, registry, TypeOK, StopOK
  <2>. QED BY <1>1, <2>1 DEF NoLimbo, Owes, Served
<1>7. CASE FinishStop(s)
  BY <1>7 DEF FinishStop, UnregisterStream, Absent, Forced, NoLimbo, TypeOK, RegistryOK
<1>. QED BY <1>2, <1>3, <1>4, <1>5, <1>6, <1>7 DEF StopStep

LEMMA EnvironmentLimbo ==
  ASSUME TypeOK, NoLimbo, Environment
  PROVE  NoLimbo'
<1>1. start' = start /\ stop' = stop /\ serving' = serving
  BY DEF Environment, Crash, MonitorVerdict, ZLMStatus, SyncRemoves, AutoRegister, pool
<1>2. reg' = reg \/ reg'.status \notin {"Starting", "Stopping"}
  BY DEF Environment, Crash, MonitorVerdict, ZLMStatus, SyncRemoves, AutoRegister, Absent,
         registry, TypeOK, RegistryOK
<1>. QED BY <1>1, <1>2 DEF NoLimbo, Owes, Served

LEMMA StepLimbo == TypeOK /\ NoLimbo /\ [Next]_vars => NoLimbo'
<1>1. CASE UNCHANGED vars
  BY <1>1 DEF vars, pool, registry, NoLimbo, Owes, Served
<1>2. CASE Next
  BY <1>2, StartLimbo, WorkerLimbo, StopLimbo, EnvironmentLimbo DEF Next, Step
<1>. QED BY <1>1, <1>2

\* Starting and Stopping never stay in the registry without a start or a stop
\* that will replace them.
THEOREM NoTransientForever == Spec => []NoLimbo
<1>1. Init => NoLimbo
  BY DEF Init, Absent, NoLimbo
<1>. QED BY <1>1, InitTyped, StepTyped, StepLimbo, PTL DEF Spec
-----------------------------------------------------------------------------
(* The stream's process: the inductive invariant.                          *)

\* A task that waits in the queue waits there once, as a start that is queued.
QueuedInv ==
  \A i \in 1 .. Len(waiting) :
    /\ start[waiting[i]].pc = "queued"
    /\ \A j \in 1 .. Len(waiting) : waiting[i] = waiting[j] => i = j

AloneInv ==
  ~overlapped =>
    \A t, u \in Starts : InGateway(start[t]) /\ InGateway(start[u]) => t = u

\* Seen from the start t: somebody knows the process, ...
Kept(t) ==
  managed \in alive => (table.here /\ table.pid = managed) \/ Holds(t, managed)

\* ... it is gone before t launches one, ...
Bare(t) == start[t].pc \in {"create", "launch", "simple"} => managed \notin alive

\* ... and t holds the pid of the one it launched.
Own(t) ==
  start[t].pc \in {"validate", "register", "report", "store"} /\ managed \in alive
    => start[t].pid = managed

LostInv == NothingLost /\ (~overlapped => \A t \in Starts : Bare(t) /\ Own(t))

\* A stop whose time no start has disturbed runs while no start is in progress.
CalmInv ==
  \A s \in Stops :
    stop[s].pc \notin Ended \cup {"idle"} /\ s \notin disturbed =>
      \A t \in Starts : ~InProgress(start[t])

GoneInv ==
  ~overlapped => \A s \in Stops :
    stop[s].pc \in {"ask", "finish"} /\ ~stop[s].native /\ s \notin disturbed =>
      managed \notin alive

IInv == TypeOK /\ QueuedInv /\ AloneInv /\ LostInv /\ CalmInv /\ GoneInv

LEMMA StopsStay ==
  ASSUME TypeOK, NEW s \in Stops, StopStep(s)
  PROVE  /\ start' = start /\ waiting' = waiting
         /\ \A r \in Stops \ {s} : stop'[r] = stop[r]
         /\ stop[s].pc \notin Ended
<1>1. start' = start /\ waiting' = waiting /\ stop[s].pc \notin Ended
  BY DEF StopStep, HandleStopStream, AlreadyStopped, MarkStopping, GatewayStop,
         AskIsRunning, FinishStop, pool, Ended
<1>2. \A r \in Stops \ {s} : stop'[r] = stop[r]
  <2>1. CASE GatewayStop(s)
    <3>1. PICK ok \in BOOLEAN : stop' = [stop EXCEPT ![s].pc = "ask", ![s].ok = ok]
      BY <2>1 DEF GatewayStop
    <3>. QED BY <3>1 DEF TypeOK, StopOK
  <2>2. CASE ~GatewayStop(s)
    BY <2>2 DEF StopStep, HandleStopStream, AlreadyStopped, MarkStopping, AskIsRunning,
                FinishStop, StopMove, TypeOK, StopOK
  <2>. QED BY <2>1, <2>2
<1>. QED BY <1>1, <1>2

LEMMA OthersStart ==
  ASSUME Environment
  PROVE  start' = start /\ stop' = stop /\ waiting' = waiting /\ table' = table
BY DEF Environment, Crash, MonitorVerdict, ZLMStatus, SyncRemoves, AutoRegister, pool

LEMMA WorkerMoves ==
  ASSUME TypeOK, QueuedInv, NEW w \in Workers, WorkerTakes(w)
  PROVE  \E t \in Starts :
           /\ start[t].pc = "queued" /\ start'[t].pc = "check"
           /\ \A u \in Starts \ {t} : start'[u] = start[u]
           /\ stop' = stop /\ table' = table /\ managed' = managed /\ alive' = alive
<1>1. PICK t \in Starts : t = Head(waiting)
  BY DEF WorkerTakes, Pool!Begin, TypeOK, PoolOK
<1>2. waiting # <<>> /\ waiting \in Seq(Starts)
  BY DEF WorkerTakes, Pool!Begin, TypeOK, PoolOK
<1>3. start[t].pc = "queued"
  <2>1. 1 \in 1 .. Len(waiting) /\ t = waiting[1]
    BY <1>1, <1>2
  <2>. QED BY <2>1 DEF QueuedInv
<1>4. start' = [start EXCEPT ![t].pc = "check"]
  BY <1>1 DEF WorkerTakes, Move
<1>. QED BY <1>3, <1>4 DEF WorkerTakes, process, TypeOK, StartOK

-----------------------------------------------------------------------------
(* The queue.                                                              *)

LEMMA StartQueued ==
  ASSUME TypeOK, QueuedInv, NEW t \in Starts, StartStep(t)
  PROVE  QueuedInv'
<1>1. start[t].pc # "queued" /\ \A i \in 1 .. Len(waiting) : waiting[i] \in Starts \ {t}
  <2>1. start[t].pc # "queued"
    BY DEF StartStep, HandleStartStream, Enqueue, RefuseStart, HandleStreamNotFound,
           CheckExisting, CreateRequested, DirectProxy, StartProcess, StartProcessRefused,
           GetPid, StartProcessSimple, ValidateSimple, RegisterStream, ReportStreamResult,
           StoreEntry, Callback, At
  <2>. QED BY <2>1 DEF QueuedInv, TypeOK, PoolOK
<1>2. CASE Enqueue(t) /\ Pool!Accept(t)
  <2>1. start'[t].pc = "queued"
    BY <1>2 DEF Enqueue, Move, Pool!Accept, Pool!Reject, TypeOK, StartOK, PoolOK
  <2>2. waiting' = Append(waiting, t) /\ waiting \in Seq(Starts)
    BY <1>2 DEF Pool!Accept, TypeOK, PoolOK
  <2>3. /\ Len(waiting') = Len(waiting) + 1 /\ Len(waiting) \in Nat
        /\ \A i \in 1 .. Len(waiting) : waiting'[i] = waiting[i]
        /\ waiting'[Len(waiting) + 1] = t
    BY <2>2
  <2>4. \A u \in Starts \ {t} : start'[u] = start[u]
    BY OthersStay
  <2>. QED BY <1>1, <2>1, <2>3, <2>4 DEF QueuedInv
<1>3. CASE ~(Enqueue(t) /\ Pool!Accept(t))
  <2>1. waiting' = waiting
    BY <1>3 DEF StartStep, HandleStartStream, Enqueue, Pool!Reject, RefuseStart,
                HandleStreamNotFound, CheckExisting, CreateRequested, DirectProxy,
                StartProcess, StartProcessRefused, GetPid, StartProcessSimple,
                ValidateSimple, RegisterStream, ReportStreamResult, StoreEntry, Callback,
                Pool!Finish, pool
  <2>. QED BY <1>1, <2>1, OthersStay DEF QueuedInv
<1>. QED BY <1>2, <1>3

LEMMA WorkerQueued ==
  ASSUME TypeOK, QueuedInv, NEW w \in Workers, WorkerTakes(w)
  PROVE  QueuedInv'
<1>1. PICK t \in Starts : t = Head(waiting)
  BY DEF WorkerTakes, Pool!Begin, TypeOK, PoolOK
<1>2. waiting # <<>> /\ waiting \in Seq(Starts) /\ waiting' = Tail(waiting)
  BY DEF WorkerTakes, Pool!Begin, TypeOK, PoolOK
<1>3. /\ Len(waiting) \in Nat \ {0} /\ Len(waiting') = Len(waiting) - 1 /\ t = waiting[1]
      /\ \A i \in 1 .. Len(waiting') : waiting'[i] = waiting[i + 1]
  BY <1>1, <1>2
<1>4. \A u \in Starts \ {t} : start'[u] = start[u]
  BY <1>1 DEF WorkerTakes, Move, TypeOK, StartOK
<1>5. SUFFICES ASSUME NEW i \in 1 .. Len(waiting'), NEW j \in 1 .. Len(waiting')
               PROVE  /\ start'[waiting'[i]].pc = "queued"
                      /\ waiting'[i] = waiting'[j] => i = j
  BY DEF QueuedInv
<1>6. /\ i + 1 \in 1 .. Len(waiting) /\ j + 1 \in 1 .. Len(waiting) /\ 1 \in 1 .. Len(waiting)
      /\ i + 1 # 1 /\ waiting'[i] = waiting[i + 1] /\ waiting'[j] = waiting[j + 1]
  BY <1>3
<1>7. waiting[i + 1] \in Starts \ {t}
  BY <1>2, <1>3, <1>6 DEF QueuedInv
<1>8. waiting[i + 1] = waiting[j + 1] => i + 1 = j + 1
  BY <1>6 DEF QueuedInv
<1>. QED BY <1>4, <1>6, <1>7, <1>8 DEF QueuedInv
-----------------------------------------------------------------------------
(* NothingLost under the steps of a start.                                 *)

LEMMA HistoryAlone ==
  ASSUME TypeOK, History
  PROVE  AloneInv' /\ (~overlapped' => ~overlapped) /\ disturbed \subseteq disturbed'
BY DEF History, AloneInv, TypeOK, HistoryOK

\* In the gateway alone, a start may rely on what concerns itself.
LEMMA InsideBefore ==
  ASSUME IInv, History, NEW t \in Starts, InGateway(start'[t]), ~overlapped',
         \A u \in Starts \ {t} : start'[u] = start[u]
  PROVE  Kept(t) /\ Bare(t) /\ Own(t)
<1>1. ~overlapped
  BY HistoryAlone DEF IInv
<1>2. \A u \in Starts \ {t} : ~InGateway(start[u])
  BY HistoryAlone DEF IInv, AloneInv
<1>3. \A u \in Starts \ {t} : ~Holds(u, managed)
  BY <1>2 DEF Holds, InGateway
<1>. QED BY <1>1, <1>3 DEF IInv, LostInv, NothingLost, Kept

\* ... and has only that to preserve.
LEMMA InsideAfter ==
  ASSUME TypeOK, History, NEW t \in Starts, InGateway(start'[t]),
         ~overlapped' => (Kept(t) /\ Bare(t) /\ Own(t))'
  PROVE  LostInv'
<1>1. ASSUME ~overlapped', NEW u \in Starts \ {t} PROVE (Bare(u) /\ Own(u))'
  <2>1. ~InGateway(start'[u])
    BY <1>1, HistoryAlone DEF AloneInv
  <2>. QED BY <2>1 DEF Bare, Own, InGateway
<1>. QED BY <1>1 DEF LostInv, NothingLost, Kept

\* Outside the gateway, a start that leaves the process alone changes nothing.
LEMMA Outside ==
  ASSUME TypeOK, LostInv, History, NEW t \in Starts,
         ~InGateway(start[t]), ~InGateway(start'[t]),
         \A u \in Starts \ {t} : start'[u] = start[u],
         table' = table, managed' = managed, alive' = alive
  PROVE  LostInv'
<1>1. SUFFICES ASSUME ~overlapped'
               PROVE  /\ managed \in alive => \/ table.here /\ table.pid = managed
                                              \/ \E u \in Starts : Holds(u, managed)'
                      /\ \A u \in Starts : (Bare(u) /\ Own(u))'
  BY DEF LostInv, NothingLost
<1>2. ~overlapped
  BY <1>1, HistoryAlone
<1>3. \A u \in Starts : Holds(u, managed) => Holds(u, managed)'
  BY DEF Holds, InGateway
<1>4. \A u \in Starts : (Bare(u) /\ Own(u))'
  BY <1>2 DEF LostInv, Bare, Own, InGateway
<1>. QED BY <1>2, <1>3, <1>4 DEF LostInv, NothingLost

LEMMA CheckLost ==
  ASSUME IInv, History, NEW t \in Starts, CheckExisting(t),
         \A u \in Starts \ {t} : start'[u] = start[u]
  PROVE  LostInv'
<1>1. start[t].pc = "check" /\ table' = table
  BY DEF CheckExisting, At
<1>2. CASE table.running
  <2>1. start'[t].pc = AfterGateway(t) /\ managed' = managed /\ alive' = alive
    BY <1>2 DEF CheckExisting, process, IInv, TypeOK, StartOK
  <2>. QED BY <1>1, <2>1, Outside DEF IInv, InGateway, AfterGateway
<1>3. CASE ~table.running
  <2>1. start'[t].pc = "create"
    BY <1>3 DEF CheckExisting, Move, IInv, TypeOK, StartOK
  <2>2. ASSUME ~overlapped' PROVE managed' \notin alive'
    <3>1. CASE HasPid(table)
      BY <1>3, <3>1, StreamLifecycleAssumption
      DEF CheckExisting, StopManaged, IInv, TypeOK, ProcessOK
    <3>2. CASE ~HasPid(table)
      <4>1. managed' = managed /\ alive' = alive
        BY <1>3, <3>2 DEF CheckExisting, process
      <4>2. ~Holds(t, managed)
        BY <1>1 DEF Holds
      <4>3. Kept(t)
        BY <2>1, <2>2, InsideBefore DEF InGateway
      <4>. QED BY <3>2, <4>1, <4>2, <4>3, StreamLifecycleAssumption
           DEF Kept, HasPid, IInv, TypeOK, ProcessOK
    <3>. QED BY <3>1, <3>2
  <2>3. ~overlapped' => (Kept(t) /\ Bare(t) /\ Own(t))'
    BY <2>1, <2>2 DEF Kept, Bare, Own
  <2>. QED BY <2>1, <2>3, InsideAfter DEF IInv, InGateway
<1>. QED BY <1>2, <1>3

\* One case for every step between the gateway's two locks.
LEMMA InsideLost ==
  ASSUME IInv, History, NEW t \in Starts,
         \A u \in Starts \ {t} : start'[u] = start[u],
         \/ CreateRequested(t) \/ DirectProxy(t) \/ StartProcess(t)
         \/ StartProcessRefused(t) \/ GetPid(t) \/ StartProcessSimple(t)
         \/ ValidateSimple(t) \/ RegisterStream(t) \/ ReportStreamResult(t)
  PROVE  LostInv'
<1>. USE DEF Kept, Bare, Own, Holds
<1>1. CASE CreateRequested(t)
  <2>1. start[t].pc = "create" /\ start'[t].pc = "launch" /\ UNCHANGED <<table, managed, alive>>
    BY <1>1 DEF CreateRequested, At, Move, process, IInv, TypeOK, StartOK
  <2>2. InGateway(start'[t])
    BY <2>1 DEF InGateway
  <2>3. ~overlapped' => (Kept(t) /\ Bare(t) /\ Own(t))'
    BY <2>1, <2>2, InsideBefore
  <2>. QED BY <2>2, <2>3, InsideAfter DEF IInv
<1>2. CASE DirectProxy(t)
  <2>1. /\ start[t].pc = "launch" /\ start'[t].pc = "register"
        /\ UNCHANGED <<table, managed, alive>>
    BY <1>2 DEF DirectProxy, At, process, IInv, TypeOK, StartOK
  <2>2. InGateway(start'[t])
    BY <2>1 DEF InGateway
  <2>3. ~overlapped' => (Kept(t) /\ Bare(t) /\ Own(t))'
    BY <2>1, <2>2, InsideBefore
  <2>. QED BY <2>2, <2>3, InsideAfter DEF IInv
<1>3. CASE StartProcess(t)
  <2>1. start'[t].pc = "getpid"
    BY <1>3 DEF StartProcess, Move, IInv, TypeOK, StartOK
  <2>2. InGateway(start'[t]) /\ (Kept(t) /\ Bare(t) /\ Own(t))'
    BY <2>1 DEF InGateway
  <2>. QED BY <2>2, InsideAfter DEF IInv
<1>4. CASE StartProcessRefused(t)
  <2>1. start[t].pc = "launch" /\ start'[t].pc = "simple" /\ table' = table
    BY <1>4 DEF StartProcessRefused, At, Move, IInv, TypeOK, StartOK
  <2>2. InGateway(start'[t])
    BY <2>1 DEF InGateway
  <2>3. UNCHANGED <<managed, alive>> \/ managed' \notin alive'
    BY <1>4, StreamLifecycleAssumption
    DEF StartProcessRefused, StopManaged, process, IInv, TypeOK, ProcessOK
  <2>4. ~overlapped' => (Kept(t) /\ Bare(t) /\ Own(t))'
    BY <2>1, <2>2, <2>3, InsideBefore
  <2>. QED BY <2>2, <2>4, InsideAfter DEF IInv
<1>5. CASE GetPid(t)
  <2>1. start[t].pc = "getpid" /\ UNCHANGED <<table, managed, alive>>
    BY <1>5 DEF GetPid, At, process
  <2>2. \/ start'[t].pc = "validate" /\ start'[t].pid = managed
        \/ start'[t].pc = "simple" /\ managed = NoPid
    BY <1>5 DEF GetPid, Move, IInv, TypeOK, StartOK
  <2>3. InGateway(start'[t])
    BY <2>2 DEF InGateway
  <2>4. (Kept(t) /\ Bare(t) /\ Own(t))'
    BY <2>1, <2>2, StreamLifecycleAssumption DEF IInv, TypeOK, ProcessOK
  <2>. QED BY <2>3, <2>4, InsideAfter DEF IInv
<1>6. CASE StartProcessSimple(t)
  <2>1. start[t].pc = "simple" /\ UNCHANGED <<table, managed>>
    BY <1>6 DEF StartProcessSimple, At
  <2>2. CASE \E p \in Pids \ alive, lives \in BOOLEAN :
               /\ start' = [start EXCEPT ![t].pc = "validate", ![t].pid = p]
               /\ alive' = alive \cup (IF lives THEN {p} ELSE {})
    <3>1. PICK p \in Pids \ alive :
            /\ start' = [start EXCEPT ![t].pc = "validate", ![t].pid = p]
            /\ alive' = alive \/ alive' = alive \cup {p}
      BY <2>2
    <3>2. start'[t].pc = "validate" /\ start'[t].pid = p
      BY <3>1 DEF IInv, TypeOK, StartOK
    <3>3. InGateway(start'[t])
      BY <3>2 DEF InGateway
    <3>4. ~overlapped' => (Kept(t) /\ Bare(t) /\ Own(t))'
      BY <2>1, <3>1, <3>2, <3>3, InsideBefore
    <3>. QED BY <3>3, <3>4, InsideAfter DEF IInv
  <2>3. CASE /\ start' = [start EXCEPT ![t] =
                            [pc |-> "register", pid |-> NoPid, ok |-> FALSE]]
             /\ UNCHANGED alive
    <3>1. start'[t].pc = "register" /\ alive' = alive
      BY <2>3 DEF IInv, TypeOK, StartOK
    <3>2. InGateway(start'[t])
      BY <3>1 DEF InGateway
    <3>3. ~overlapped' => (Kept(t) /\ Bare(t) /\ Own(t))'
      BY <2>1, <3>1, <3>2, InsideBefore
    <3>. QED BY <3>2, <3>3, InsideAfter DEF IInv
  <2>. QED BY <1>6, <2>2, <2>3 DEF StartProcessSimple
<1>7. CASE ValidateSimple(t)
  <2>1. PICK p \in {start[t].pid, NoPid}, ok \in BOOLEAN :
          /\ p = NoPid => start[t].pid \notin alive
          /\ start' = [start EXCEPT ![t] = [pc |-> "register", pid |-> p, ok |-> ok]]
    BY <1>7 DEF ValidateSimple
  <2>2. start[t].pc = "validate" /\ UNCHANGED <<table, managed, alive>>
    BY <1>7 DEF ValidateSimple, At, process
  <2>3. start'[t].pc = "register" /\ start'[t].pid = p
    BY <2>1 DEF IInv, TypeOK, StartOK
  <2>4. InGateway(start'[t])
    BY <2>3 DEF InGateway
  <2>5. ~overlapped' => (Kept(t) /\ Bare(t) /\ Own(t))'
    BY <2>1, <2>2, <2>3, <2>4, InsideBefore
  <2>. QED BY <2>4, <2>5, InsideAfter DEF IInv
<1>8. CASE RegisterStream(t) \/ ReportStreamResult(t)
  <2>1. /\ start[t].pc \in {"register", "report"} /\ start'[t].pc \in {"report", "store"}
        /\ start'[t].pid = start[t].pid /\ UNCHANGED <<table, managed, alive>>
    BY <1>8 DEF RegisterStream, ReportStreamResult, At, Move, process, IInv, TypeOK, StartOK
  <2>2. InGateway(start'[t])
    BY <2>1 DEF InGateway
  <2>3. ~overlapped' => (Kept(t) /\ Bare(t) /\ Own(t))'
    BY <2>1, <2>2, InsideBefore
  <2>. QED BY <2>2, <2>3, InsideAfter DEF IInv
<1>. QED BY <1>1, <1>2, <1>3, <1>4, <1>5, <1>6, <1>7, <1>8

LEMMA StoreLost ==
  ASSUME IInv, History, NEW t \in Starts, StoreEntry(t),
         \A u \in Starts \ {t} : start'[u] = start[u]
  PROVE  LostInv'
<1>1. /\ start[t].pc = "store" /\ start'[t].pc = AfterGateway(t)
      /\ managed' = managed /\ alive' = alive
      /\ table'.here /\ table'.pid = start[t].pid
  BY DEF StoreEntry, Stored, At, Move, process, IInv, TypeOK, StartOK
<1>2. SUFFICES ASSUME ~overlapped'
               PROVE  /\ managed \in alive => table'.pid = managed
                      /\ \A u \in Starts : (Bare(u) /\ Own(u))'
  BY <1>1 DEF LostInv, NothingLost
<1>3. ~overlapped
  BY <1>2, HistoryAlone DEF IInv
<1>4. \A u \in Starts \ {t} : ~InGateway(start[u])
  BY <1>1, <1>3 DEF IInv, AloneInv, InGateway
<1>5. \A u \in Starts : ~InGateway(start'[u])
  BY <1>1, <1>4 DEF InGateway, AfterGateway
<1>6. Own(t)
  BY <1>3 DEF IInv, LostInv
<1>. QED BY <1>1, <1>5, <1>6 DEF Bare, Own, InGateway

LEMMA StartLost ==
  ASSUME IInv, History, NEW t \in Starts, StartStep(t)
  PROVE  LostInv'
<1>1. \A u \in Starts \ {t} : start'[u] = start[u]
  BY OthersStay DEF IInv
<1>2. CASE \/ HandleStartStream(t) \/ Enqueue(t) \/ RefuseStart(t) \/ HandleStreamNotFound(t)
           \/ Callback(t)
  <2>1. ~InGateway(start[t]) /\ ~InGateway(start'[t])
    BY <1>2 DEF HandleStartStream, Enqueue, RefuseStart, HandleStreamNotFound, Callback, At,
                Move, InGateway, IInv, TypeOK, StartOK
  <2>2. table' = table /\ managed' = managed /\ alive' = alive
    BY <1>2 DEF HandleStartStream, Enqueue, RefuseStart, HandleStreamNotFound, Callback,
                process
  <2>. QED BY <1>1, <2>1, <2>2, Outside DEF IInv
<1>. QED BY <1>1, <1>2, CheckLost, InsideLost, StoreLost DEF StartStep
-----------------------------------------------------------------------------
(* NothingLost under the other steps.                                      *)

LEMMA WorkerLost ==
  ASSUME IInv, History, NEW w \in Workers, WorkerTakes(w)
  PROVE  LostInv'
<1>1. PICK t \in Starts :
        /\ start[t].pc = "queued" /\ start'[t].pc = "check"
        /\ \A u \in Starts \ {t} : start'[u] = start[u]
        /\ table' = table /\ managed' = managed /\ alive' = alive
  BY WorkerMoves DEF IInv
<1>. QED BY <1>1, Outside DEF IInv, InGateway

\* The starts stay where they are: only the pid may get lost.
LEMMA StartsRest ==
  ASSUME IInv, History, start' = start,
         managed \in alive /\ table.here /\ table.pid = managed =>
           managed' \notin alive' \/ (table'.here /\ table'.pid = managed'),
         managed' \in alive' => managed' = managed /\ managed \in alive
  PROVE  LostInv'
<1>1. SUFFICES ASSUME ~overlapped', managed' \in alive'
               PROVE  /\ \/ table'.here /\ table'.pid = managed
                         \/ \E t \in Starts : Holds(t, managed)
                      /\ \A t \in Starts : Bare(t) /\ Own(t)
  BY DEF LostInv, NothingLost, Bare, Own, Holds
<1>2. ~overlapped
  BY <1>1, HistoryAlone DEF IInv
<1>. QED BY <1>1, <1>2 DEF IInv, LostInv, NothingLost

LEMMA StopLost ==
  ASSUME IInv, History, NEW s \in Stops, StopStep(s)
  PROVE  LostInv'
<1>1. start' = start
  BY StopsStay DEF IInv
<1>2. CASE HandleStopStream(s) \/ AlreadyStopped(s) \/ MarkStopping(s) \/ FinishStop(s)
  BY <1>1, <1>2, StartsRest
  DEF HandleStopStream, AlreadyStopped, MarkStopping, FinishStop, process
<1>3. CASE GatewayStop(s)
  <2>1. CASE StopsProcess(table)
    <3>1. managed' \notin alive'
      BY <1>3, <2>1, StreamLifecycleAssumption
      DEF GatewayStop, StopManaged, IInv, TypeOK, ProcessOK
    <3>. QED BY <1>1, <3>1, StartsRest
  <2>2. CASE ~StopsProcess(table)
    <3>1. managed' = managed /\ alive' = alive
      BY <1>3, <2>2 DEF GatewayStop, process
    <3>2. ~(managed \in alive /\ table.here /\ table.pid = managed)
      BY <2>2, StreamLifecycleAssumption DEF StopsProcess, HasPid, IInv, TypeOK, ProcessOK
    <3>. QED BY <1>1, <3>1, <3>2, StartsRest
  <2>. QED BY <2>1, <2>2
<1>4. CASE AskIsRunning(s)
  <2>1. PICK seen \in BOOLEAN, active \in BOOLEAN :
          (table.pid \in alive => seen) /\ table' = Rechecked(table, seen, active)
    BY <1>4 DEF AskIsRunning
  <2>2. managed' = managed /\ alive' = alive
    BY <1>4 DEF AskIsRunning, process
  <2>3. table.pid \in alive => table'.here = table.here /\ table'.pid = table.pid
    BY <2>1 DEF Rechecked, IInv, TypeOK, ProcessOK
  <2>. QED BY <1>1, <2>2, <2>3, StartsRest
<1>. QED BY <1>2, <1>3, <1>4 DEF StopStep

LEMMA EnvironmentLost ==
  ASSUME IInv, History, Environment
  PROVE  LostInv'
<1>1. start' = start /\ table' = table
  BY OthersStart
<1>2. managed' = managed /\ alive' \subseteq alive
  BY DEF Environment, Crash, MonitorVerdict, ZLMStatus, SyncRemoves, AutoRegister, process
<1>. QED BY <1>1, <1>2, StartsRest

-----------------------------------------------------------------------------
(* What a stop may rely on when no start disturbs it.                      *)

LEMMA NextCalm ==
  ASSUME IInv, Next
  PROVE  CalmInv'
<1>1. SUFFICES ASSUME NEW s \in Stops, stop'[s].pc \notin Ended \cup {"idle"},
                      s \notin disturbed'
               PROVE  \A t \in Starts : ~InProgress(start'[t])
  BY DEF CalmInv
<1>2. stop[s].pc \notin Ended
  <2>1. CASE stop'[s] = stop[s]
    BY <1>1, <2>1
  <2>2. CASE stop'[s] # stop[s]
    <3>1. StopStep(s)
      <4>1. \A t \in Starts : ~StartStep(t)
        BY <2>2, OthersStay DEF IInv
      <4>2. \A w \in Workers : ~WorkerTakes(w)
        BY <2>2, WorkerMoves DEF IInv
      <4>3. \A r \in Stops \ {s} : ~StopStep(r)
        BY <2>2, StopsStay DEF IInv
      <4>4. ~Environment
        BY <2>2, OthersStart
      <4>. QED BY <4>1, <4>2, <4>3, <4>4 DEF Next, Step
    <3>. QED BY <3>1, StopsStay DEF IInv
  <2>. QED BY <2>1, <2>2
<1>. QED BY <1>1, <1>2 DEF Next, History

\* Whoever touches the process is a start in progress.
LEMMA TouchingIsProgress ==
  ASSUME TypeOK, NEW t \in Starts, StartStep(t), ~InProgress(start'[t])
  PROVE  managed' = managed /\ alive' = alive
<1>1. CASE CheckExisting(t)
  <2>1. table.running
    BY <1>1 DEF CheckExisting, Move, InProgress, TypeOK, StartOK
  <2>. QED BY <1>1, <2>1 DEF CheckExisting, process
<1>2. CASE StartProcess(t) \/ StartProcessRefused(t)
  BY <1>2 DEF StartProcess, StartProcessRefused, Move, InProgress, TypeOK, StartOK
<1>3. CASE StartProcessSimple(t)
  <2>1. start'[t].pc = "validate" \/ start'[t].pc = "register"
    BY <1>3 DEF StartProcessSimple, TypeOK, StartOK
  <2>. QED BY <2>1 DEF InProgress
<1>. QED
  BY <1>1, <1>2, <1>3
  DEF StartStep, HandleStartStream, Enqueue, RefuseStart, HandleStreamNotFound,
      CreateRequested, DirectProxy, GetPid, ValidateSimple, RegisterStream,
      ReportStreamResult, StoreEntry, Callback, process

LEMMA NextGone ==
  ASSUME IInv, Next
  PROVE  GoneInv'
<1>1. SUFFICES ASSUME ~overlapped', NEW s \in Stops, stop'[s].pc \in {"ask", "finish"},
                      ~stop'[s].native, s \notin disturbed'
               PROVE  managed' \notin alive'
  BY DEF GoneInv
<1>2. ~overlapped /\ s \notin disturbed
  BY <1>1, HistoryAlone DEF IInv, Next
<1>3. \A t \in Starts : ~InProgress(start'[t])
  BY <1>1, NextCalm DEF CalmInv, Ended
<1>4. stop'[s] = stop[s] => managed \notin alive
  BY <1>1, <1>2 DEF IInv, GoneInv
<1>5. ASSUME NEW t \in Starts, StartStep(t) PROVE managed' \notin alive'
  BY <1>3, <1>4, <1>5, OthersStay, TouchingIsProgress DEF IInv
<1>6. ASSUME NEW w \in Workers, WorkerTakes(w) PROVE managed' \notin alive'
  BY <1>4, <1>6, WorkerMoves DEF IInv
<1>7. ASSUME NEW r \in Stops \ {s}, StopStep(r) PROVE managed' \notin alive'
  <2>1. managed \notin alive
    BY <1>4, <1>7, StopsStay DEF IInv
  <2>2. UNCHANGED process \/ StopManaged
    BY <1>7 DEF StopStep, HandleStopStream, AlreadyStopped, MarkStopping, GatewayStop,
                AskIsRunning, FinishStop
  <2>. QED BY <2>1, <2>2, StreamLifecycleAssumption
       DEF process, StopManaged, IInv, TypeOK, ProcessOK
<1>8. ASSUME StopStep(s) PROVE managed' \notin alive'
  <2>1. CASE GatewayStop(s)
    <3>1. \A t \in Starts : ~Holds(t, managed)
      BY <1>3, <1>8, StopsStay DEF IInv, InProgress, Holds
    <3>2. managed \in alive => StopsProcess(table)
      BY <1>2, <3>1, StreamLifecycleAssumption
      DEF IInv, LostInv, NothingLost, StopsProcess, HasPid, TypeOK, ProcessOK
    <3>3. (UNCHANGED process /\ ~StopsProcess(table)) \/ StopManaged
      BY <2>1 DEF GatewayStop
    <3>. QED BY <3>2, <3>3, StreamLifecycleAssumption
         DEF process, StopManaged, IInv, TypeOK, ProcessOK
  <2>2. CASE AskIsRunning(s)
    <3>1. stop[s].pc = "ask" /\ stop'[s].native = stop[s].native
          /\ managed' = managed /\ alive' = alive
      BY <2>2 DEF AskIsRunning, process, IInv, TypeOK, StopOK
    <3>. QED BY <1>1, <1>2, <3>1 DEF IInv, GoneInv
  <2>3. CASE MarkStopping(s)
    BY <1>1, <2>3 DEF MarkStopping, IInv, TypeOK, StopOK
  <2>4. CASE HandleStopStream(s)
    BY <1>1, <2>4 DEF HandleStopStream, StopsAt, IInv, TypeOK, StopOK
  <2>5. CASE AlreadyStopped(s) \/ FinishStop(s)
    BY <1>1, <2>5 DEF AlreadyStopped, FinishStop, StopMove, IInv, TypeOK, StopOK
  <2>. QED BY <1>8, <2>1, <2>2, <2>3, <2>4, <2>5 DEF StopStep
<1>9. ASSUME Environment PROVE managed' \notin alive'
  BY <1>4, <1>9, OthersStart
  DEF Environment, Crash, MonitorVerdict, ZLMStatus, SyncRemoves, AutoRegister, process
<1>. QED BY <1>5, <1>6, <1>7, <1>8, <1>9 DEF Next, Step

-----------------------------------------------------------------------------
LEMMA InitInv == Init => IInv
<1>. SUFFICES ASSUME Init PROVE IInv
  OBVIOUS
<1>1. QueuedInv /\ AloneInv
  BY DEF Init, Pool!Init, QueuedInv, AloneInv, InGateway
<1>2. LostInv
  BY DEF Init, LostInv, NothingLost, Bare, Own
<1>3. CalmInv /\ GoneInv
  BY DEF Init, CalmInv, GoneInv, Ended
<1>. QED BY <1>1, <1>2, <1>3, InitTyped DEF IInv

LEMMA StepInv == IInv /\ [Next]_vars => IInv'
<1>1. CASE UNCHANGED vars
  BY <1>1, StepTyped
  DEF vars, pool, process, IInv, QueuedInv, AloneInv, LostInv, NothingLost, Holds, Bare,
      Own, CalmInv, GoneInv
<1>2. ASSUME IInv, Next PROVE IInv'
  <2>1. TypeOK' /\ AloneInv' /\ CalmInv' /\ GoneInv'
    BY <1>2, StepTyped, HistoryAlone, NextCalm, NextGone DEF IInv, Next
  <2>2. QueuedInv'
    <3>1. ASSUME NEW s \in Stops, StopStep(s) PROVE QueuedInv'
      BY <1>2, <3>1, StopsStay DEF IInv, QueuedInv
    <3>2. CASE Environment
      BY <1>2, <3>2, OthersStart DEF IInv, QueuedInv
    <3>. QED BY <1>2, <3>1, <3>2, StartQueued, WorkerQueued DEF IInv, Next, Step
  <2>3. LostInv'
    BY <1>2, StartLost, WorkerLost, StopLost, EnvironmentLost DEF Next, Step
  <2>. QED BY <2>1, <2>2, <2>3 DEF IInv
<1>. QED BY <1>1, <1>2

\* Unless two starts of the stream have been in the gateway at once, the process
\* the manager runs is known to the gateway's entry, or to the start that will
\* store it there.
THEOREM NothingIsLost == Spec => []NothingLost
<1>1. IInv => NothingLost
  BY DEF IInv, LostInv
<1>. QED BY <1>1, InitInv, StepInv, PTL DEF Spec

\* A stop that no start disturbs is answered with the process gone.
THEOREM StopsLeaveNothing == Spec => StopLeavesNothing
<1>1. ASSUME IInv, [Next]_vars, NEW s \in Stops,
             stop[s].pc = "finish", stop'[s].pc # "finish", ~stop[s].native,
             ~overlapped', s \notin disturbed'
      PROVE  managed' \notin alive'
  <2>1. Next
    BY <1>1 DEF vars
  <2>2. ~overlapped /\ s \notin disturbed
    BY <1>1, <2>1, HistoryAlone DEF IInv, Next
  <2>3. managed \notin alive
    BY <1>1, <2>2 DEF IInv, GoneInv
  <2>4. StopStep(s)
    <3>1. \A t \in Starts : ~StartStep(t)
      BY <1>1, OthersStay DEF IInv
    <3>2. \A w \in Workers : ~WorkerTakes(w)
      BY <1>1, WorkerMoves DEF IInv
    <3>3. \A r \in Stops \ {s} : ~StopStep(r)
      BY <1>1, StopsStay DEF IInv
    <3>4. ~Environment
      BY <1>1, OthersStart
    <3>. QED BY <2>1, <3>1, <3>2, <3>3, <3>4 DEF Next, Step
  <2>5. managed' = managed /\ alive' = alive
    BY <1>1, <2>4 DEF StopStep, HandleStopStream, AlreadyStopped, MarkStopping,
                      GatewayStop, AskIsRunning, FinishStop, process
  <2>. QED BY <2>3, <2>5
<1>2. IInv /\ [Next]_vars =>
        [\A s \in Stops :
           /\ stop[s].pc = "finish" /\ stop'[s].pc # "finish" /\ ~stop[s].native
           /\ ~overlapped' /\ s \notin disturbed'
           => managed' \notin alive']_vars
  BY <1>1
<1>. QED BY <1>2, InitInv, StepInv, PTL DEF Spec, StopLeavesNothing
=============================================================================
