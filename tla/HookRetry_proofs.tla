--------------------------- MODULE HookRetry_proofs ---------------------------
(***************************************************************************)
(* Proofs about HookRetry, for any reports and any number of retries.      *)
(***************************************************************************)
EXTENDS HookRetry, FiniteSetTheorems, SequenceTheorems, WellFoundedInduction, TLAPS

-----------------------------------------------------------------------------
(* The inductive invariant.                                                *)

InQueue(e) == \E i \in DOMAIN queue : queue[i].event = e
InBatch(e) == \E i \in DOMAIN batch : batch[i].event = e

\* What is taken for a retry has one left, and is gone when the thread looks at the
\* queue again.
Retriable ==
  /\ \A i \in DOMAIN batch : batch[i].count < MAX_RETRY_COUNT
  /\ pc # "work" => batch = <<>>

\* The retry the first task of the batch has begun, once its stream was found.
Begun(i) == IF found /\ i = 1 THEN 1 ELSE 0

\* A report is in one place: with its handler, in the queue or in the batch.
OnePlace(e) ==
  /\ \A i, j \in DOMAIN queue : queue[i].event = e /\ queue[j].event = e => i = j
  /\ \A i, j \in DOMAIN batch : batch[i].event = e /\ batch[j].event = e => i = j
  /\ ~(InQueue(e) /\ InBatch(e))
  /\ e \in checked => ~InQueue(e) /\ ~InBatch(e)

\* Its task counts its retries.
Counts(e) ==
  /\ \A i \in DOMAIN queue : queue[i].event = e => retried[e] <= queue[i].count
  /\ \A i \in DOMAIN batch : batch[i].event = e => retried[e] <= batch[i].count + Begun(i)

\* Before it comes nothing was done for it, and it is done with but once, counted
\* or not once something was thrown.
Waits(e) == e \in checked \/ InQueue(e) \/ InBatch(e)
Done(e) ==
  /\ retried[e] <= MAX_RETRY_COUNT
  /\ e \notin arrived => retried[e] = 0
  /\ e \notin arrived \/ Waits(e) => counted[e] = 0 /\ (e \notin thrown => applied[e] = 0)
  /\ e \in arrived /\ ~Waits(e) =>
       counted[e] \in 0..1 /\ (e \notin thrown => counted[e] = 1 /\ applied[e] <= 1)

Changed == {e \in Events : e.kind = "changed"}

Once(e) == OnePlace(e) /\ Counts(e) /\ Done(e)

IInv == TypeOK /\ Retriable /\ \A e \in Changed : Once(e)

-----------------------------------------------------------------------------
(* Types.                                                                  *)

TaskOf(S) == [event : S, count : 0..MAX_RETRY_COUNT, wait : 0..(MAX_RETRY_COUNT + 1)]

LEMMA Types ==
  TypeOK <=>
    /\ entry \in [status : Statuses, readers : 0..1]
    /\ arrived \subseteq Events /\ checked \subseteq arrived /\ thrown \subseteq arrived
    /\ queue \in Seq(TaskOf(arrived)) /\ batch \in Seq(TaskOf(arrived))
    /\ found \in BOOLEAN /\ (found => batch # <<>>) /\ running \in BOOLEAN
    /\ pc \in {"test", "sleep", "work", "gone"}
    /\ retried \in [Events -> 0..Cap] /\ counted \in [Events -> 0..Cap]
    /\ applied \in [Events -> 0..Cap]
BY DEF TypeOK, TaskOf

LEMMA TypesNext ==
  ASSUME entry' \in [status : Statuses, readers : 0..1],
         arrived' \subseteq Events, checked' \subseteq arrived', thrown' \subseteq arrived',
         queue' \in Seq(TaskOf(arrived')), batch' \in Seq(TaskOf(arrived')),
         found' \in BOOLEAN, found' => batch' # <<>>, running' \in BOOLEAN,
         pc' \in {"test", "sleep", "work", "gone"},
         retried' \in [Events -> 0..Cap], counted' \in [Events -> 0..Cap],
         applied' \in [Events -> 0..Cap]
  PROVE  TypeOK'
BY DEF TypeOK, TaskOf

\* Elements of a sequence of tasks.
LEMMA TaskParts ==
  ASSUME NEW S, NEW s \in Seq(TaskOf(S))
  PROVE  /\ Len(s) \in Nat /\ DOMAIN s = 1..Len(s)
         /\ \A i \in DOMAIN s : /\ s[i] \in TaskOf(S) /\ s[i].event \in S
                                /\ s[i].count \in 0..MAX_RETRY_COUNT
<1>1. /\ Len(s) \in Nat /\ DOMAIN s = 1..Len(s)
  BY LenProperties
<1>2. \A i \in DOMAIN s : s[i] \in TaskOf(S)
  BY <1>1, ElementOfSeq
<1>. QED BY <1>1, <1>2 DEF TaskOf

LEMMA TaskMade ==
  ASSUME NEW S, NEW e \in S, NEW n \in 0..MAX_RETRY_COUNT
  PROVE  Task(e, n) \in TaskOf(S) /\ Task(e, n).event = e /\ Task(e, n).count = n
BY HookRetryAssumption DEF Task, TaskOf

LEMMA FirstRest ==
  ASSUME NEW S, NEW s \in Seq(TaskOf(S)), s # <<>>
  PROVE  /\ Len(s) \in Nat \ {0} /\ DOMAIN s = 1..Len(s) /\ 1 \in DOMAIN s
         /\ Head(s) = s[1] /\ s[1] \in TaskOf(S)
         /\ Tail(s) \in Seq(TaskOf(S)) /\ DOMAIN Tail(s) = 1..(Len(s) - 1)
         /\ \A i \in 1..(Len(s) - 1) : Tail(s)[i] = s[i + 1]
<1>1. Len(s) \in Nat \ {0} /\ DOMAIN s = 1..Len(s)
  BY EmptySeq, LenProperties
<1>2. 1 \in DOMAIN s /\ s[1] \in TaskOf(S)
  BY <1>1, ElementOfSeq
<1>3. Tail(s) \in Seq(TaskOf(S)) /\ Len(Tail(s)) = Len(s) - 1
      /\ \A i \in 1..Len(Tail(s)) : Tail(s)[i] = s[i + 1]
  BY HeadTailProperties
<1>4. DOMAIN Tail(s) = 1..(Len(s) - 1)
  BY <1>3, LenProperties
<1>5. Head(s) = s[1]
  BY <1>1
<1>. QED BY <1>1, <1>2, <1>3, <1>4, <1>5

Power == 2 ^ MAX_RETRY_COUNT

LEMMA PowerOf == Power \in Nat \ {0} /\ Cap \in Nat /\ Cap >= 2
<1>1. IsFiniteSet(1..MAX_RETRY_COUNT) /\ Cardinality(1..MAX_RETRY_COUNT) = MAX_RETRY_COUNT
  BY HookRetryAssumption, FS_Interval
<1>2. IsFiniteSet(SUBSET (1..MAX_RETRY_COUNT)) /\ Cardinality(SUBSET (1..MAX_RETRY_COUNT)) = Power
  BY <1>1, FS_SUBSET DEF Power
<1>3. Cardinality(SUBSET (1..MAX_RETRY_COUNT)) # 0
  BY <1>2, FS_EmptySet
<1>4. Power \in Nat \ {0}
  BY <1>2, <1>3, FS_CardinalityType
<1>. QED BY <1>4 DEF Cap, Power

LEMMA Bumping ==
  ASSUME NEW f \in [Events -> 0..Cap], NEW e \in Events
  PROVE  /\ Bumped(f, e) \in [Events -> 0..Cap]
         /\ Bumped(f, e)[e] <= f[e] + 1 /\ (f[e] = 0 => Bumped(f, e)[e] = 1)
         /\ \A x \in Events : x # e => Bumped(f, e)[x] = f[x]
BY PowerOf DEF Bumped, Capped

LEMMA EffectsTyped ==
  ASSUME NEW r \in [status : Statuses, readers : 0..1], NEW e \in Events,
         NEW x \in Effects(r, e)
  PROVE  x \in [status : Statuses, readers : 0..1]
<1>1. CASE r.status = "none" \/ e.kind \in {"none_reader", "play"}
  BY <1>1 DEF Effects
<1>2. CASE ~(r.status = "none" \/ e.kind \in {"none_reader", "play"})
  <2>1. e.kind \in {"changed", "publish"} /\ e.readers \in 0..1
        /\ e.regist \in BOOLEAN /\ e.alive \in BOOLEAN
    BY <1>2, HookRetryAssumption
  <2>2. Reported(r.status, e) \subseteq Statuses
    BY <2>1 DEF Reported, Statuses
  <2>3. x \in [status : Reported(r.status, e),
               readers : {IF e.kind = "publish" THEN 0 ELSE e.readers}]
    BY <1>2 DEF Effects
  <2>. QED BY <2>1, <2>2, <2>3
<1>. QED BY <1>1, <1>2

LEMMA EffectsCutTyped ==
  ASSUME NEW r \in [status : Statuses, readers : 0..1], NEW e \in Events,
         NEW x \in EffectsCut(r, e)
  PROVE  x \in [status : Statuses, readers : 0..1]
BY EffectsTyped DEF EffectsCut

-----------------------------------------------------------------------------
(* Steps that leave the reports where they are.                            *)

LEMMA Same ==
  ASSUME UNCHANGED <<arrived, checked, queue, batch, found, retried, counted, applied, thrown>>,
         NEW e \in Changed, Once(e)
  PROVE  Once(e)'
BY DEF Once, OnePlace, Counts, Done, Waits, InQueue, InBatch, Begun

LEMMA RegistryStep ==
  ASSUME IInv, Register \/ UnregisterStream \/ \E ok \in BOOLEAN : CreateResult(ok)
  PROVE  IInv'
<1>1. UNCHANGED <<arrived, checked, queue, batch, found, pc, running, retried, counted, applied, thrown>>
  BY DEF Register, UnregisterStream, CreateResult, thread, history
<1>2. entry' \in [status : Statuses, readers : 0..1]
  BY DEF Register, UnregisterStream, CreateResult, NoEntry, Statuses, Resulting, IInv, TypeOK
<1>3. TypeOK'
  BY <1>1, <1>2 DEF IInv, TypeOK
<1>4. ASSUME NEW e \in Changed
      PROVE  Once(e)'
  BY <1>1, Same DEF IInv
<1>5. Retriable'
  BY <1>1 DEF IInv, Retriable
<1>. QED BY <1>3, <1>4, <1>5 DEF IInv, Changed

LEMMA ThreadStep ==
  ASSUME IInv, Test \/ BatchDone \/ Stop
  PROVE  IInv'
<1>1. /\ UNCHANGED <<entry, arrived, checked, queue, batch, found, retried, counted, applied, thrown>>
      /\ running' \in BOOLEAN /\ pc' \in {"test", "sleep", "work", "gone"}
      /\ pc' # "work" => batch = <<>>
  BY DEF Test, BatchDone, Stop, thread, history, IInv, TypeOK, Retriable
<1>2. TypeOK'
  BY <1>1 DEF IInv, TypeOK
<1>3. ASSUME NEW e \in Changed
      PROVE  Once(e)'
  BY <1>1, Same DEF IInv
<1>4. Retriable'
  BY <1>1 DEF IInv, Retriable
<1>. QED BY <1>2, <1>3, <1>4 DEF IInv, Changed

LEMMA SecondStep ==
  ASSUME IInv, Second
  PROVE  IInv'
<1>1. /\ queue' = [i \in DOMAIN queue |->
                     [queue[i] EXCEPT !.wait = IF @ > 0 THEN @ - 1 ELSE 0]]
      /\ UNCHANGED <<entry, arrived, checked, batch, found, pc, running, retried, counted, applied, thrown>>
  BY DEF Second, thread, history
<1>2. queue \in Seq(TaskOf(arrived)) /\ Len(queue) \in Nat /\ DOMAIN queue = 1..Len(queue)
      /\ \A i \in DOMAIN queue : queue[i] \in TaskOf(arrived)
  BY Types, TaskParts DEF IInv
<1>3. \A i \in DOMAIN queue : /\ queue'[i] \in TaskOf(arrived)
                              /\ queue'[i].event = queue[i].event /\ queue'[i].count = queue[i].count
  <2>. SUFFICES ASSUME NEW i \in DOMAIN queue
                PROVE  /\ queue'[i] \in TaskOf(arrived)
                       /\ queue'[i].event = queue[i].event /\ queue'[i].count = queue[i].count
    OBVIOUS
  <2>1. queue[i].wait \in 0..(MAX_RETRY_COUNT + 1)
    BY <1>2 DEF TaskOf
  <2>2. (IF queue[i].wait > 0 THEN queue[i].wait - 1 ELSE 0) \in 0..(MAX_RETRY_COUNT + 1)
    BY <2>1, HookRetryAssumption
  <2>3. queue'[i] = [queue[i] EXCEPT !.wait = IF queue[i].wait > 0 THEN queue[i].wait - 1 ELSE 0]
    BY <1>1, <1>2 DEF TaskOf
  <2>. QED BY <1>2, <2>2, <2>3 DEF TaskOf
<1>4. DOMAIN queue' = DOMAIN queue /\ queue' \in Seq(TaskOf(arrived))
  <2>1. queue' \in [1..Len(queue) -> TaskOf(arrived)]
    BY <1>1, <1>2, <1>3
  <2>. QED BY <1>2, <2>1
<1>5. ASSUME NEW e \in Changed
      PROVE  Once(e)'
  <2>1. Once(e)
    BY DEF IInv
  <2>2. InQueue(e)' <=> InQueue(e)
    BY <1>3, <1>4 DEF InQueue
  <2>3. InBatch(e)' <=> InBatch(e)
    BY <1>1 DEF InBatch
  <2>4. OnePlace(e)'
    BY <1>1, <1>3, <1>4, <2>1, <2>2, <2>3 DEF Once, OnePlace
  <2>5. Counts(e)'
    <3>1. \A i \in DOMAIN queue : queue'[i].event = e => retried'[e] <= queue'[i].count
      BY <1>1, <1>3, <2>1 DEF Once, Counts
    <3>2. \A i \in DOMAIN batch : batch'[i].event = e => retried'[e] <= batch'[i].count + Begun(i)'
      BY <1>1, <2>1 DEF Once, Counts, Begun
    <3>. QED BY <1>1, <1>4, <3>1, <3>2 DEF Counts
  <2>6. Done(e)'
    BY <1>1, <2>1, <2>2, <2>3 DEF Once, Done, Waits
  <2>. QED BY <2>4, <2>5, <2>6 DEF Once
<1>6. TypeOK'
  <2>1. /\ arrived \subseteq Events /\ checked \subseteq arrived /\ thrown \subseteq arrived
        /\ entry \in [status : Statuses, readers : 0..1]
        /\ found \in BOOLEAN /\ (found => batch # <<>>) /\ running \in BOOLEAN
        /\ pc \in {"test", "sleep", "work", "gone"} /\ batch \in Seq(TaskOf(arrived))
        /\ retried \in [Events -> 0..Cap] /\ counted \in [Events -> 0..Cap]
        /\ applied \in [Events -> 0..Cap]
    BY Types DEF IInv
  <2>. QED BY <1>1, <1>4, <2>1, TypesNext
<1>7. Retriable'
  BY <1>1 DEF IInv, Retriable
<1>. QED BY <1>5, <1>6, <1>7 DEF IInv, Changed

-----------------------------------------------------------------------------
(* The handlers.                                                           *)

LEMMA Appended ==
  ASSUME NEW S, NEW s \in Seq(TaskOf(S)), NEW t \in TaskOf(S)
  PROVE  /\ Append(s, t) \in Seq(TaskOf(S)) /\ DOMAIN Append(s, t) = 1..(Len(s) + 1)
         /\ \A i \in 1..Len(s) : Append(s, t)[i] = s[i]
         /\ Append(s, t)[Len(s) + 1] = t
<1>1. Append(s, t) \in Seq(TaskOf(S)) /\ Len(Append(s, t)) = Len(s) + 1
  BY AppendProperties
<1>2. DOMAIN Append(s, t) = 1..(Len(s) + 1)
  BY <1>1, LenProperties
<1>. QED BY <1>1, <1>2, AppendProperties

LEMMA MoreReports ==
  ASSUME NEW S, NEW T, S \subseteq T
  PROVE  Seq(TaskOf(S)) \subseteq Seq(TaskOf(T))
<1>1. TaskOf(S) \subseteq TaskOf(T)
  BY DEF TaskOf
<1>. QED BY <1>1, SeqMonotonic

\* A report that has not come is nowhere.
LEMMA NotYet ==
  ASSUME TypeOK, NEW e, e \notin arrived
  PROVE  ~InQueue(e) /\ ~InBatch(e) /\ e \notin checked
<1>1. queue \in Seq(TaskOf(arrived)) /\ batch \in Seq(TaskOf(arrived)) /\ checked \subseteq arrived
  BY Types
<1>. QED BY <1>1, TaskParts DEF InQueue, InBatch

LEMMA ReceiveStep ==
  ASSUME IInv, NEW e \in Events, Receive(e)
  PROVE  IInv'
<1>1. /\ UNCHANGED <<entry, batch, found, pc, running, retried, applied, thrown>>
      /\ e \notin arrived /\ arrived' = arrived \cup {e}
  BY DEF Receive, thread
<1>2. /\ arrived \subseteq Events /\ checked \subseteq arrived /\ thrown \subseteq arrived
      /\ entry \in [status : Statuses, readers : 0..1]
      /\ found \in BOOLEAN /\ (found => batch # <<>>) /\ running \in BOOLEAN
      /\ pc \in {"test", "sleep", "work", "gone"}
      /\ queue \in Seq(TaskOf(arrived)) /\ batch \in Seq(TaskOf(arrived))
      /\ retried \in [Events -> 0..Cap] /\ counted \in [Events -> 0..Cap]
      /\ applied \in [Events -> 0..Cap]
  BY Types DEF IInv
<1>3. queue \in Seq(TaskOf(arrived')) /\ batch \in Seq(TaskOf(arrived'))
  BY <1>1, <1>2, MoreReports
<1>4. Task(e, 0) \in TaskOf(arrived') /\ Task(e, 0).event = e /\ Task(e, 0).count = 0
  <2>1. e \in arrived' /\ 0 \in 0..MAX_RETRY_COUNT
    BY <1>1, HookRetryAssumption
  <2>. QED BY <2>1, TaskMade
<1>5. /\ Len(queue) \in Nat /\ DOMAIN queue = 1..Len(queue)
      /\ Append(queue, Task(e, 0)) \in Seq(TaskOf(arrived'))
      /\ DOMAIN Append(queue, Task(e, 0)) = 1..(Len(queue) + 1)
      /\ \A i \in 1..Len(queue) : Append(queue, Task(e, 0))[i] = queue[i]
      /\ Append(queue, Task(e, 0))[Len(queue) + 1] = Task(e, 0)
  BY <1>3, <1>4, TaskParts, Appended
<1>6. /\ Bumped(counted, e) \in [Events -> 0..Cap] /\ (counted[e] = 0 => Bumped(counted, e)[e] = 1)
      /\ \A x \in Events : x # e => Bumped(counted, e)[x] = counted[x]
  BY <1>2, Bumping
<1>7. \/ /\ checked' = checked \cup {e} /\ queue' = queue /\ counted' = counted
      \/ /\ PutsOff(e) /\ checked' = checked /\ queue' = Append(queue, Task(e, 0))
         /\ counted' = IF CountsAtOnce(e) THEN Bumped(counted, e) ELSE counted
      \/ /\ ~PutsOff(e) /\ checked' = checked /\ queue' = queue /\ counted' = Bumped(counted, e)
  BY DEF Receive, CountsAtOnce
<1>8. TypeOK'
  <2>1. arrived' \subseteq Events /\ checked' \subseteq arrived' /\ thrown' \subseteq arrived'
    BY <1>1, <1>2, <1>7
  <2>2. queue' \in Seq(TaskOf(arrived')) /\ counted' \in [Events -> 0..Cap]
    BY <1>2, <1>3, <1>5, <1>6, <1>7
  <2>. QED BY <1>1, <1>2, <1>3, <2>1, <2>2, TypesNext
<1>9. Retriable'
  BY <1>1 DEF IInv, Retriable
<1>10. ~InQueue(e) /\ ~InBatch(e) /\ e \notin checked
  BY <1>1, NotYet DEF IInv
<1>11. ASSUME NEW x \in Changed
       PROVE  Once(x)'
  <2>1. Once(x) /\ x \in Events /\ (InBatch(x)' <=> InBatch(x))
    BY <1>1 DEF IInv, Changed, InBatch
  <2>2. CASE x # e
    <3>1. /\ x \in checked' <=> x \in checked
          /\ x \in arrived' <=> x \in arrived
          /\ counted'[x] = counted[x]
      BY <1>1, <1>6, <1>7, <2>1, <2>2
    <3>2. /\ \A i \in DOMAIN queue' : queue'[i].event = x => i \in DOMAIN queue /\ queue'[i] = queue[i]
          /\ \A i \in DOMAIN queue : i \in DOMAIN queue' /\ queue'[i] = queue[i]
      BY <1>4, <1>5, <1>7, <2>2
    <3>3. InQueue(x)' <=> InQueue(x)
      BY <3>2 DEF InQueue
    <3>4. OnePlace(x)'
      BY <1>1, <2>1, <3>1, <3>2, <3>3 DEF Once, OnePlace
    <3>5. Counts(x)'
      BY <1>1, <2>1, <3>2 DEF Once, Counts, Begun
    <3>6. Done(x)'
      BY <1>1, <2>1, <3>1, <3>3 DEF Once, Done, Waits
    <3>. QED BY <3>4, <3>5, <3>6 DEF Once
  <2>3. CASE x = e
    <3>1. retried[e] = 0 /\ counted[e] = 0 /\ (e \notin thrown => applied[e] = 0)
      BY <1>1, <2>1, <2>3 DEF Once, Done
    <3>2. ~InBatch(e)'
      BY <1>10, <2>1, <2>3
    <3>3. MAX_RETRY_COUNT \in Nat
      BY HookRetryAssumption
    <3>4. CASE checked' = checked \cup {e} /\ queue' = queue /\ counted' = counted
      <4>1. ~InQueue(e)' /\ e \in checked' /\ e \in arrived'
        BY <1>1, <1>10, <3>4 DEF InQueue
      <4>. QED BY <1>1, <3>1, <3>2, <3>3, <3>4, <4>1, <2>1, <2>3
             DEF Once, OnePlace, Counts, Done, Waits, InQueue, InBatch
    <3>5. CASE /\ PutsOff(e) /\ checked' = checked /\ queue' = Append(queue, Task(e, 0))
               /\ counted' = IF CountsAtOnce(e) THEN Bumped(counted, e) ELSE counted
      <4>1. counted' = counted
        BY <2>3, <3>5 DEF CountsAtOnce, Changed
      <4>2. \A i \in DOMAIN queue' : queue'[i].event = e => i = Len(queue) + 1
        BY <1>5, <1>10, <3>5 DEF InQueue
      <4>3. InQueue(e)' /\ e \notin checked' /\ e \in arrived'
        BY <1>1, <1>4, <1>5, <1>10, <3>5 DEF InQueue
      <4>4. OnePlace(e)'
        BY <3>2, <4>2, <4>3 DEF OnePlace, InBatch
      <4>5. Counts(e)'
        BY <1>1, <1>4, <1>5, <3>1, <3>2, <3>5, <4>2 DEF Counts, InBatch
      <4>6. Done(e)'
        BY <1>1, <3>1, <3>3, <4>1, <4>3 DEF Done, Waits
      <4>. QED BY <2>3, <4>4, <4>5, <4>6 DEF Once
    <3>6. CASE ~PutsOff(e) /\ checked' = checked /\ queue' = queue /\ counted' = Bumped(counted, e)
      <4>1. ~InQueue(e)' /\ e \notin checked' /\ e \in arrived' /\ counted'[e] = 1
        BY <1>1, <1>6, <1>10, <3>1, <3>6 DEF InQueue
      <4>2. OnePlace(e)' /\ Counts(e)'
        BY <3>2, <4>1 DEF OnePlace, Counts, InQueue, InBatch
      <4>3. Done(e)'
        BY <1>1, <3>1, <3>2, <3>3, <4>1 DEF Done, Waits
      <4>. QED BY <2>3, <4>2, <4>3 DEF Once
    <3>. QED BY <1>7, <3>4, <3>5, <3>6
  <2>. QED BY <2>2, <2>3
<1>. QED BY <1>8, <1>9, <1>11 DEF IInv, Changed

LEMMA ReceiveThrowsStep ==
  ASSUME IInv, NEW e \in Events, ReceiveThrows(e)
  PROVE  IInv'
<1>1. /\ UNCHANGED <<entry, checked, queue, batch, found, pc, running, retried, counted, applied>>
      /\ e \notin arrived /\ arrived' = arrived \cup {e} /\ thrown' = thrown \cup {e}
  BY DEF ReceiveThrows, thread
<1>2. /\ arrived \subseteq Events /\ checked \subseteq arrived /\ thrown \subseteq arrived
      /\ entry \in [status : Statuses, readers : 0..1]
      /\ found \in BOOLEAN /\ (found => batch # <<>>) /\ running \in BOOLEAN
      /\ pc \in {"test", "sleep", "work", "gone"}
      /\ queue \in Seq(TaskOf(arrived)) /\ batch \in Seq(TaskOf(arrived))
      /\ retried \in [Events -> 0..Cap] /\ counted \in [Events -> 0..Cap]
      /\ applied \in [Events -> 0..Cap]
  BY Types DEF IInv
<1>3. queue \in Seq(TaskOf(arrived')) /\ batch \in Seq(TaskOf(arrived'))
  BY <1>1, <1>2, MoreReports
<1>4. TypeOK'
  <2>1. arrived' \subseteq Events /\ checked' \subseteq arrived' /\ thrown' \subseteq arrived'
    BY <1>1, <1>2
  <2>. QED BY <1>1, <1>2, <1>3, <2>1, TypesNext
<1>5. Retriable'
  BY <1>1 DEF IInv, Retriable
<1>6. ~InQueue(e) /\ ~InBatch(e) /\ e \notin checked
  BY <1>1, NotYet DEF IInv
<1>7. ASSUME NEW x \in Changed
      PROVE  Once(x)'
  <2>1. Once(x) /\ (InQueue(x)' <=> InQueue(x)) /\ (InBatch(x)' <=> InBatch(x))
    BY <1>1 DEF IInv, InQueue, InBatch
  <2>2. OnePlace(x)' /\ Counts(x)'
    BY <1>1, <2>1 DEF Once, OnePlace, Counts, Begun
  <2>3. Done(x)'
    BY <1>1, <1>6, <2>1 DEF Once, Done, Waits
  <2>. QED BY <2>2, <2>3 DEF Once
<1>. QED BY <1>4, <1>5, <1>7 DEF IInv, Changed

LEMMA ApplyStep ==
  ASSUME IInv, NEW e \in Events, Apply(e) \/ ApplyThrows(e)
  PROVE  IInv'
<1>1. /\ UNCHANGED <<arrived, queue, batch, found, pc, running, retried>>
      /\ e \in checked /\ checked' = checked \ {e} /\ entry' \in EffectsCut(entry, e)
      /\ applied' = (IF Known THEN Bumped(applied, e) ELSE applied)
      /\ \/ counted' = Bumped(counted, e) /\ thrown' = thrown
         \/ counted' = counted /\ thrown' = thrown \cup {e}
  BY DEF Apply, ApplyThrows, EffectsCut, thread
<1>2. /\ arrived \subseteq Events /\ checked \subseteq arrived /\ thrown \subseteq arrived
      /\ entry \in [status : Statuses, readers : 0..1]
      /\ found \in BOOLEAN /\ (found => batch # <<>>) /\ running \in BOOLEAN
      /\ pc \in {"test", "sleep", "work", "gone"}
      /\ queue \in Seq(TaskOf(arrived)) /\ batch \in Seq(TaskOf(arrived))
      /\ retried \in [Events -> 0..Cap] /\ counted \in [Events -> 0..Cap]
      /\ applied \in [Events -> 0..Cap]
  BY Types DEF IInv
<1>3. /\ counted' \in [Events -> 0..Cap]
      /\ counted[e] = 0 => counted'[e] \in 0..1 /\ (e \notin thrown' => counted'[e] = 1)
      /\ thrown \subseteq thrown' /\ thrown' \subseteq thrown \cup {e}
      /\ \A x \in Events : x # e => counted'[x] = counted[x]
  <2>1. /\ Bumped(counted, e) \in [Events -> 0..Cap]
        /\ counted[e] = 0 => Bumped(counted, e)[e] = 1
        /\ \A x \in Events : x # e => Bumped(counted, e)[x] = counted[x]
    BY <1>2, Bumping
  <2>. QED BY <1>1, <1>2, <2>1
<1>4. /\ applied' \in [Events -> 0..Cap] /\ (applied[e] = 0 => applied'[e] \in 0..1)
      /\ \A x \in Events : x # e => applied'[x] = applied[x]
  <2>1. /\ Bumped(applied, e) \in [Events -> 0..Cap]
        /\ (applied[e] = 0 => Bumped(applied, e)[e] = 1)
        /\ \A x \in Events : x # e => Bumped(applied, e)[x] = applied[x]
    BY <1>2, Bumping
  <2>. QED BY <1>1, <1>2, <2>1
<1>5. TypeOK'
  <2>1. entry' \in [status : Statuses, readers : 0..1]
    BY <1>1, <1>2, EffectsCutTyped
  <2>2. checked' \subseteq arrived /\ thrown' \subseteq arrived
    BY <1>1, <1>2, <1>3
  <2>. QED BY <1>1, <1>2, <1>3, <1>4, <2>1, <2>2, TypesNext
<1>6. Retriable'
  BY <1>1 DEF IInv, Retriable
<1>7. ASSUME NEW x \in Changed
      PROVE  Once(x)'
  <2>1. Once(x) /\ x \in Events
    BY DEF IInv, Changed
  <2>2. (InQueue(x)' <=> InQueue(x)) /\ (InBatch(x)' <=> InBatch(x))
    BY <1>1 DEF InQueue, InBatch
  <2>3. OnePlace(x)' /\ Counts(x)'
    BY <1>1, <2>1, <2>2 DEF Once, OnePlace, Counts, Begun
  <2>4. CASE x # e
    <3>1. /\ (x \in checked' <=> x \in checked) /\ (x \in thrown' <=> x \in thrown)
          /\ counted'[x] = counted[x] /\ applied'[x] = applied[x]
      BY <1>1, <1>3, <1>4, <2>1, <2>4
    <3>2. Done(x)'
      BY <1>1, <2>1, <2>2, <3>1 DEF Once, Done, Waits
    <3>. QED BY <2>3, <3>2 DEF Once
  <2>5. CASE x = e
    <3>1. /\ ~InQueue(e) /\ ~InBatch(e) /\ e \in arrived /\ counted[e] = 0
          /\ e \notin thrown => applied[e] = 0
      BY <1>1, <1>2, <2>1, <2>5 DEF Once, OnePlace, Done, Waits
    <3>2. Done(e)'
      BY <1>1, <1>3, <1>4, <2>1, <2>2, <2>5, <3>1 DEF Once, Done, Waits
    <3>. QED BY <2>3, <2>5, <3>2 DEF Once
  <2>. QED BY <2>4, <2>5
<1>. QED BY <1>5, <1>6, <1>7 DEF IInv, Changed

-----------------------------------------------------------------------------
(* The retry thread with the first task of its batch.                      *)

\* The batch without its first task.
LEMMA Shifted ==
  ASSUME TypeOK, batch # <<>>, batch' = Tail(batch)
  PROVE  /\ batch' \in Seq(TaskOf(arrived)) /\ 1 \in DOMAIN batch /\ Head(batch) = batch[1]
         /\ batch[1] \in TaskOf(arrived)
         /\ \A i \in DOMAIN batch : i \in Nat
         /\ \A i \in DOMAIN batch' : i + 1 \in DOMAIN batch /\ i \in Nat \ {0}
                                     /\ batch'[i] = batch[i + 1]
         /\ \A i \in DOMAIN batch : i # 1 => i - 1 \in DOMAIN batch' /\ batch'[i - 1] = batch[i]
<1>1. batch \in Seq(TaskOf(arrived))
  BY Types
<1>2. /\ Len(batch) \in Nat \ {0} /\ DOMAIN batch = 1..Len(batch) /\ 1 \in DOMAIN batch
      /\ Head(batch) = batch[1] /\ batch[1] \in TaskOf(arrived)
      /\ Tail(batch) \in Seq(TaskOf(arrived)) /\ DOMAIN Tail(batch) = 1..(Len(batch) - 1)
      /\ \A i \in 1..(Len(batch) - 1) : Tail(batch)[i] = batch[i + 1]
  BY <1>1, FirstRest
<1>3. ASSUME NEW i \in DOMAIN batch'
      PROVE  i + 1 \in DOMAIN batch /\ i \in Nat \ {0} /\ batch'[i] = batch[i + 1]
  BY <1>2
<1>4. ASSUME NEW i \in DOMAIN batch, i # 1
      PROVE  i - 1 \in DOMAIN batch' /\ batch'[i - 1] = batch[i]
  <2>1. i - 1 \in 1..(Len(batch) - 1) /\ (i - 1) + 1 = i
    BY <1>2, <1>4
  <2>2. Tail(batch)[i - 1] = batch[(i - 1) + 1]
    BY <1>2, <2>1
  <2>. QED BY <1>2, <2>1, <2>2
<1>. QED BY <1>2, <1>3, <1>4

LEMMA RetryApplyStep ==
  ASSUME IInv, RetryApply
  PROVE  IInv'
<1>. DEFINE e == batch[1].event
<1>1. /\ arrived \subseteq Events /\ checked \subseteq arrived /\ thrown \subseteq arrived
      /\ entry \in [status : Statuses, readers : 0..1]
      /\ found \in BOOLEAN /\ (found => batch # <<>>) /\ running \in BOOLEAN
      /\ pc \in {"test", "sleep", "work", "gone"}
      /\ queue \in Seq(TaskOf(arrived)) /\ batch \in Seq(TaskOf(arrived))
      /\ retried \in [Events -> 0..Cap] /\ counted \in [Events -> 0..Cap]
      /\ applied \in [Events -> 0..Cap]
  BY Types DEF IInv
<1>2. /\ UNCHANGED <<arrived, checked, queue, pc, running, retried, thrown>>
      /\ found /\ ~found' /\ found' \in BOOLEAN /\ batch' = Tail(batch) /\ batch # <<>>
  BY <1>1 DEF RetryApply
<1>3. /\ batch' \in Seq(TaskOf(arrived)) /\ 1 \in DOMAIN batch /\ Head(batch) = batch[1]
      /\ e \in arrived /\ e \in Events
      /\ \A i \in DOMAIN batch : i \in Nat
      /\ \A i \in DOMAIN batch' : i + 1 \in DOMAIN batch /\ i \in Nat \ {0}
                                  /\ batch'[i] = batch[i + 1]
      /\ \A i \in DOMAIN batch : i # 1 => i - 1 \in DOMAIN batch' /\ batch'[i - 1] = batch[i]
  BY <1>1, <1>2, Shifted DEF IInv, TaskOf
<1>4. /\ entry' \in Effects(entry, e) /\ counted' = Bumped(counted, e)
      /\ applied' = (IF Known THEN Bumped(applied, e) ELSE applied)
  BY <1>3 DEF RetryApply
<1>5. /\ counted' \in [Events -> 0..Cap] /\ (counted[e] = 0 => counted'[e] = 1)
      /\ \A x \in Events : x # e => counted'[x] = counted[x]
  <2>1. /\ Bumped(counted, e) \in [Events -> 0..Cap]
        /\ (counted[e] = 0 => Bumped(counted, e)[e] = 1)
        /\ \A x \in Events : x # e => Bumped(counted, e)[x] = counted[x]
    BY <1>1, <1>3, Bumping
  <2>. QED BY <1>4, <2>1
<1>6. /\ applied' \in [Events -> 0..Cap] /\ (applied[e] = 0 => applied'[e] \in 0..1)
      /\ \A x \in Events : x # e => applied'[x] = applied[x]
  <2>1. /\ Bumped(applied, e) \in [Events -> 0..Cap]
        /\ (applied[e] = 0 => Bumped(applied, e)[e] = 1)
        /\ \A x \in Events : x # e => Bumped(applied, e)[x] = applied[x]
    BY <1>1, <1>3, Bumping
  <2>. QED BY <1>1, <1>4, <2>1
<1>7. TypeOK'
  <2>1. entry' \in [status : Statuses, readers : 0..1]
    BY <1>1, <1>3, <1>4, EffectsTyped
  <2>. QED BY <1>1, <1>2, <1>3, <1>5, <1>6, <2>1, TypesNext
<1>8. Retriable'
  BY <1>2, <1>3 DEF IInv, Retriable
<1>. HIDE DEF e
<1>9. ASSUME NEW x \in Changed
      PROVE  Once(x)'
  <2>1. Once(x) /\ x \in Events
    BY DEF IInv, Changed
  <2>2. InQueue(x)' <=> InQueue(x)
    BY <1>2 DEF InQueue
  <2>3. InBatch(x)' => InBatch(x)
    BY <1>3 DEF InBatch
  <2>4. OnePlace(x)'
    <3>1. \A i, j \in DOMAIN batch' : batch'[i].event = x /\ batch'[j].event = x => i = j
      <4>. SUFFICES ASSUME NEW i \in DOMAIN batch', NEW j \in DOMAIN batch',
                           batch'[i].event = x, batch'[j].event = x
                    PROVE  i = j
        OBVIOUS
      <4>1. i + 1 = j + 1
        BY <1>3, <2>1 DEF Once, OnePlace
      <4>. QED BY <1>3, <4>1
    <3>. QED BY <1>2, <2>1, <2>2, <2>3, <3>1 DEF Once, OnePlace
  <2>5. Counts(x)'
    <3>1. \A i \in DOMAIN batch' : batch'[i].event = x => retried'[x] <= batch'[i].count + Begun(i)'
      <4>. SUFFICES ASSUME NEW i \in DOMAIN batch', batch'[i].event = x
                    PROVE  retried'[x] <= batch'[i].count + Begun(i)'
        OBVIOUS
      <4>1. retried[x] <= batch[i + 1].count + Begun(i + 1) /\ Begun(i + 1) = 0
        BY <1>3, <2>1 DEF Once, Counts, Begun
      <4>. QED BY <1>2, <1>3, <4>1 DEF Begun
    <3>. QED BY <1>2, <2>1, <3>1 DEF Once, Counts
  <2>6. CASE x # e
    <3>1. counted'[x] = counted[x] /\ applied'[x] = applied[x]
      BY <1>5, <1>6, <2>1, <2>6
    <3>2. InBatch(x) => InBatch(x)'
      BY <1>3, <2>6 DEF InBatch, e
    <3>3. Done(x)'
      BY <1>2, <2>1, <2>2, <2>3, <3>1, <3>2 DEF Once, Done, Waits
    <3>. QED BY <2>4, <2>5, <3>3 DEF Once
  <2>7. CASE x = e
    <3>1. /\ InBatch(x) /\ ~InQueue(x) /\ x \notin checked /\ counted[x] = 0
          /\ x \notin thrown => applied[x] = 0
      BY <1>3, <2>1, <2>7 DEF InBatch, Once, OnePlace, Done, Waits, e
    <3>2. ~InBatch(x)'
      <4>. SUFFICES ASSUME NEW i \in DOMAIN batch', batch'[i].event = x
                    PROVE  FALSE
        BY DEF InBatch
      <4>1. i + 1 = 1
        BY <1>3, <2>1, <2>7 DEF Once, OnePlace, e
      <4>. QED BY <1>3, <4>1
    <3>3. counted'[x] = 1 /\ (x \notin thrown => applied'[x] \in 0..1) /\ x \in arrived
      BY <1>3, <1>5, <1>6, <2>7, <3>1
    <3>4. Done(x)'
      BY <1>2, <2>1, <2>2, <3>1, <3>2, <3>3 DEF Once, Done, Waits
    <3>. QED BY <2>4, <2>5, <3>4 DEF Once
  <2>. QED BY <2>6, <2>7
<1>. QED BY <1>7, <1>8, <1>9 DEF IInv, Changed

\* A task that is put back: once, or twice for a stream nobody watches.
LEMMA PutBacks ==
  ASSUME NEW S, NEW t \in TaskOf(S), t.count < MAX_RETRY_COUNT
  PROVE  /\ PutBack(t) \in Seq(TaskOf(S)) /\ Len(PutBack(t)) \in 1..2
         /\ \A i \in 1..Len(PutBack(t)) : PutBack(t)[i] = Again(t)
         /\ Again(t).event = t.event /\ Again(t).count = t.count + 1
         /\ t.event.kind # "none_reader" => Len(PutBack(t)) = 1
<1>1. t.event \in S /\ t.count + 1 \in 0..MAX_RETRY_COUNT
  BY HookRetryAssumption DEF TaskOf
<1>2. Again(t) \in TaskOf(S) /\ Again(t).event = t.event /\ Again(t).count = t.count + 1
  BY <1>1, TaskMade DEF Again
<1>. QED BY <1>2 DEF PutBack

\* The first task of the batch, of report e, goes back to the queue.
PutsBack(e) ==
  /\ pc = "work" /\ batch # <<>> /\ found' = FALSE /\ e = batch[1].event
  /\ queue' = queue \o PutBack(batch[1]) /\ batch' = Tail(batch)
  /\ UNCHANGED <<arrived, checked, pc, running, counted>>
  /\ entry' \in [status : Statuses, readers : 0..1]
  /\ retried' \in [Events -> 0..Cap]
  /\ e \in Changed => retried'[e] <= batch[1].count + 1
  /\ \A x \in Events : x # e => retried'[x] = retried[x]
  /\ applied' \in [Events -> 0..Cap]
  /\ \A x \in Events : x # e => applied'[x] = applied[x]
  /\ thrown \subseteq thrown' /\ thrown' \subseteq thrown \cup {e}
  /\ e \notin thrown' => applied'[e] = applied[e]

LEMMA PutBackStep ==
  ASSUME IInv, NEW e \in Events, PutsBack(e)
  PROVE  IInv'
<1>1. /\ arrived \subseteq Events /\ checked \subseteq arrived /\ thrown \subseteq arrived
      /\ running \in BOOLEAN /\ pc \in {"test", "sleep", "work", "gone"}
      /\ queue \in Seq(TaskOf(arrived)) /\ batch \in Seq(TaskOf(arrived))
      /\ counted \in [Events -> 0..Cap]
  BY Types DEF IInv
<1>2. /\ UNCHANGED <<arrived, checked, pc, running, counted>>
      /\ pc = "work" /\ batch # <<>> /\ found' = FALSE
      /\ queue' = queue \o PutBack(batch[1]) /\ batch' = Tail(batch)
  BY DEF PutsBack
<1>3. e = batch[1].event /\ e \in Events /\ e \in arrived
  BY <1>1, FirstRest DEF PutsBack, TaskOf
<1>4. /\ 1 \in DOMAIN batch /\ batch[1] \in TaskOf(arrived)
      /\ batch[1].count \in 0..MAX_RETRY_COUNT /\ batch[1].count < MAX_RETRY_COUNT
  BY <1>1, <1>2, FirstRest, TaskParts DEF IInv, Retriable
<1>5. /\ e \in Changed => retried'[e] <= batch[1].count + 1
      /\ \A x \in Events : x # e => retried'[x] = retried[x] /\ applied'[x] = applied[x]
      /\ thrown \subseteq thrown' /\ thrown' \subseteq thrown \cup {e} /\ thrown' \subseteq arrived
      /\ e \notin thrown' => applied'[e] = applied[e]
  BY <1>1, <1>3 DEF PutsBack
<1>6. \A x \in Changed : Once(x) /\ x \in Events
  BY DEF IInv, Changed
<1>7. MAX_RETRY_COUNT \in Nat /\ retried'[e] \in Nat
  BY <1>3, HookRetryAssumption, PowerOf DEF PutsBack
<1>8. IInv'
  <2>1. /\ PutBack(batch[1]) \in Seq(TaskOf(arrived)) /\ Len(PutBack(batch[1])) \in 1..2
        /\ \A i \in 1..Len(PutBack(batch[1])) : PutBack(batch[1])[i] = Again(batch[1])
        /\ Again(batch[1]).event = e /\ Again(batch[1]).count = batch[1].count + 1
        /\ e.kind # "none_reader" => Len(PutBack(batch[1])) = 1
    BY <1>3, <1>4, PutBacks
  <2>2. Len(queue) \in Nat /\ DOMAIN queue = 1..Len(queue)
    BY <1>1, TaskParts
  <2>3. /\ queue' \in Seq(TaskOf(arrived))
        /\ Len(queue') = Len(queue) + Len(PutBack(batch[1]))
        /\ \A i \in 1..(Len(queue) + Len(PutBack(batch[1]))) :
             queue'[i] = IF i <= Len(queue) THEN queue[i] ELSE PutBack(batch[1])[i - Len(queue)]
    BY <1>1, <1>2, <2>1, ConcatProperties
  <2>4. DOMAIN queue' = 1..(Len(queue) + Len(PutBack(batch[1])))
    BY <2>3, LenProperties
  <2>5. /\ \A i \in DOMAIN queue : i \in DOMAIN queue' /\ queue'[i] = queue[i]
        /\ \A i \in DOMAIN queue' : \/ i \in DOMAIN queue /\ queue'[i] = queue[i]
                                    \/ i > Len(queue) /\ queue'[i] = Again(batch[1])
    <3>1. \A i \in DOMAIN queue' : i > Len(queue) => i - Len(queue) \in 1..Len(PutBack(batch[1]))
      BY <2>1, <2>2, <2>4
    <3>. QED BY <2>1, <2>2, <2>3, <2>4, <3>1
  <2>6. /\ batch' \in Seq(TaskOf(arrived))
        /\ \A i \in DOMAIN batch : i \in Nat
        /\ \A i \in DOMAIN batch' : i + 1 \in DOMAIN batch /\ i \in Nat \ {0}
                                    /\ batch'[i] = batch[i + 1]
        /\ \A i \in DOMAIN batch : i # 1 => i - 1 \in DOMAIN batch' /\ batch'[i - 1] = batch[i]
    BY <1>2, Shifted DEF IInv
  <2>7. TypeOK'
    BY <1>1, <1>2, <1>5, <2>3, <2>6, TypesNext DEF PutsBack
  <2>8. Retriable'
    BY <1>2, <2>6 DEF IInv, Retriable
  <2>9. ASSUME NEW x \in Changed
        PROVE  Once(x)'
    <3>1. \A i, j \in DOMAIN batch' : batch'[i].event = x /\ batch'[j].event = x => i = j
      <4>. SUFFICES ASSUME NEW i \in DOMAIN batch', NEW j \in DOMAIN batch',
                           batch'[i].event = x, batch'[j].event = x
                    PROVE  i = j
        OBVIOUS
      <4>1. i + 1 = j + 1
        BY <1>6, <2>6 DEF Once, OnePlace
      <4>. QED BY <2>6, <4>1
    <3>2. CASE x # e
      <4>1. /\ retried'[x] = retried[x] /\ applied'[x] = applied[x]
            /\ x \in thrown' <=> x \in thrown
        BY <1>5, <1>6, <3>2
      <4>2. \A i \in DOMAIN queue' : queue'[i].event = x => i \in DOMAIN queue /\ queue'[i] = queue[i]
        BY <2>1, <2>5, <3>2
      <4>3. InQueue(x)' <=> InQueue(x)
        BY <2>5, <4>2 DEF InQueue
      <4>4. InBatch(x)' <=> InBatch(x)
        <5>1. InBatch(x)' => InBatch(x)
          BY <2>6 DEF InBatch
        <5>2. InBatch(x) => InBatch(x)'
          BY <1>3, <2>6, <3>2 DEF InBatch
        <5>. QED BY <5>1, <5>2
      <4>5. OnePlace(x)'
        BY <1>2, <1>6, <3>1, <4>2, <4>3, <4>4 DEF Once, OnePlace
      <4>6. Counts(x)'
        <5>1. \A i \in DOMAIN queue' : queue'[i].event = x => retried'[x] <= queue'[i].count
          BY <1>6, <4>1, <4>2 DEF Once, Counts
        <5>2. ASSUME NEW i \in DOMAIN batch', batch'[i].event = x
              PROVE  retried'[x] <= batch'[i].count + Begun(i)'
          <6>1. retried[x] <= batch[i + 1].count + Begun(i + 1) /\ Begun(i + 1) = 0 /\ Begun(i)' = 0
            BY <1>2, <1>6, <2>6, <5>2 DEF Once, Counts, Begun
          <6>. QED BY <2>6, <4>1, <6>1
        <5>. QED BY <5>1, <5>2 DEF Counts
      <4>7. Done(x)'
        BY <1>2, <1>6, <4>1, <4>3, <4>4 DEF Once, Done, Waits
      <4>. QED BY <4>5, <4>6, <4>7 DEF Once
    <3>3. CASE x = e
      <4>1. InBatch(x) /\ ~InQueue(x) /\ x \notin checked
        BY <1>3, <1>4, <1>6, <3>3 DEF InBatch, Once, OnePlace
      <4>2. ~InBatch(x)'
        <5>. SUFFICES ASSUME NEW i \in DOMAIN batch', batch'[i].event = x
                      PROVE  FALSE
          BY DEF InBatch
        <5>1. i + 1 = 1
          BY <1>3, <1>4, <1>6, <2>6, <3>3 DEF Once, OnePlace
        <5>. QED BY <2>6, <5>1
      <4>3. DOMAIN queue' = 1..(Len(queue) + 1)
        BY <2>1, <2>4, <3>3 DEF Changed
      <4>4. \A i \in DOMAIN queue' : queue'[i].event = x =>
              i = Len(queue) + 1 /\ queue'[i] = Again(batch[1])
        BY <2>2, <2>5, <4>1, <4>3 DEF InQueue
      <4>5. InQueue(x)'
        <5>1. Len(queue) + 1 \in DOMAIN queue' /\ Len(queue) + 1 \notin DOMAIN queue
          BY <2>2, <4>3
        <5>. QED BY <2>1, <2>5, <3>3, <5>1 DEF InQueue
      <4>6. retried'[x] <= batch[1].count + 1 /\ retried'[x] <= MAX_RETRY_COUNT
        BY <1>4, <1>5, <1>7, <3>3
      <4>7. OnePlace(x)'
        BY <1>2, <4>1, <4>2, <4>4 DEF OnePlace, InBatch
      <4>8. Counts(x)'
        BY <2>1, <4>2, <4>4, <4>6 DEF Counts, InBatch
      <4>9. Done(x)'
        <5>1. counted[x] = 0 /\ (x \notin thrown => applied[x] = 0)
          BY <1>6, <4>1 DEF Once, Done, Waits
        <5>2. counted'[x] = 0 /\ (x \notin thrown' => applied'[x] = 0)
          BY <1>2, <1>5, <3>3, <5>1
        <5>3. Waits(x)' /\ x \in arrived'
          BY <1>2, <1>3, <3>3, <4>5 DEF Waits
        <5>. QED BY <4>6, <5>2, <5>3 DEF Done
      <4>. QED BY <4>7, <4>8, <4>9 DEF Once
    <3>. QED BY <3>2, <3>3
  <2>. QED BY <2>7, <2>8, <2>9 DEF IInv, Changed
<1>. QED BY <1>8

LEMMA RetryStep ==
  ASSUME IInv, Retry
  PROVE  IInv'
<1>1. /\ arrived \subseteq Events /\ checked \subseteq arrived /\ thrown \subseteq arrived
      /\ entry \in [status : Statuses, readers : 0..1]
      /\ found \in BOOLEAN /\ (found => batch # <<>>) /\ running \in BOOLEAN
      /\ pc \in {"test", "sleep", "work", "gone"}
      /\ queue \in Seq(TaskOf(arrived)) /\ batch \in Seq(TaskOf(arrived))
      /\ retried \in [Events -> 0..Cap] /\ counted \in [Events -> 0..Cap]
      /\ applied \in [Events -> 0..Cap]
  BY Types DEF IInv
<1>2. /\ UNCHANGED <<entry, arrived, checked, pc, running, counted, applied, thrown>>
      /\ pc = "work" /\ batch # <<>> /\ ~found
  BY DEF Retry
<1>3. PICK e \in Events : e = batch[1].event
  BY <1>1, <1>2, FirstRest DEF TaskOf
<1>4. /\ 1 \in DOMAIN batch /\ Head(batch) = batch[1] /\ batch[1] \in TaskOf(arrived)
      /\ batch[1].count \in 0..MAX_RETRY_COUNT /\ batch[1].count < MAX_RETRY_COUNT
  BY <1>1, <1>2, FirstRest, TaskParts DEF IInv, Retriable
<1>5. /\ retried' \in [Events -> 0..Cap] /\ retried'[e] <= retried[e] + 1
      /\ \A x \in Events : x # e => retried'[x] = retried[x]
  <2>1. retried' = Bumped(retried, e)
    BY <1>3, <1>4 DEF Retry
  <2>2. /\ Bumped(retried, e) \in [Events -> 0..Cap] /\ Bumped(retried, e)[e] <= retried[e] + 1
        /\ \A x \in Events : x # e => Bumped(retried, e)[x] = retried[x]
    BY <1>1, Bumping
  <2>. QED BY <2>1, <2>2
<1>6. \A x \in Changed : Once(x) /\ x \in Events
  BY DEF IInv, Changed
<1>7. e \in arrived /\ MAX_RETRY_COUNT \in Nat /\ retried[e] \in Nat /\ retried'[e] \in Nat
  BY <1>1, <1>3, <1>4, <1>5, HookRetryAssumption, PowerOf DEF TaskOf
<1>8. CASE found' = TRUE /\ queue' = queue /\ batch' = batch
  <2>1. TypeOK'
    BY <1>1, <1>2, <1>5, <1>8, TypesNext
  <2>2. Retriable'
    BY <1>2, <1>8 DEF IInv, Retriable
  <2>3. ASSUME NEW x \in Changed
        PROVE  Once(x)'
    <3>1. (InQueue(x)' <=> InQueue(x)) /\ (InBatch(x)' <=> InBatch(x))
      BY <1>8 DEF InQueue, InBatch
    <3>2. OnePlace(x)'
      BY <1>2, <1>6, <1>8, <3>1 DEF Once, OnePlace
    <3>3. CASE x # e
      <4>1. retried'[x] = retried[x]
        BY <1>5, <1>6, <3>3
      <4>2. \A i \in DOMAIN batch : batch[i].event = x => Begun(i)' = Begun(i)
        BY <1>2, <1>3, <3>3 DEF Begun
      <4>3. Counts(x)'
        BY <1>6, <1>8, <4>1, <4>2 DEF Once, Counts
      <4>4. Done(x)'
        BY <1>2, <1>6, <3>1, <4>1 DEF Once, Done, Waits
      <4>. QED BY <3>2, <4>3, <4>4 DEF Once
    <3>4. CASE x = e
      <4>1. InBatch(x) /\ ~InQueue(x)
        BY <1>3, <1>4, <1>6, <3>4 DEF InBatch, Once, OnePlace
      <4>2. \A i \in DOMAIN batch : batch[i].event = x => i = 1
        BY <1>3, <1>4, <1>6, <3>4 DEF Once, OnePlace
      <4>3. retried[x] <= batch[1].count
        <5>1. retried[x] <= batch[1].count + Begun(1) /\ Begun(1) = 0
          BY <1>2, <1>3, <1>4, <1>6, <3>4 DEF Once, Counts, Begun
        <5>. QED BY <1>4, <1>7, <3>4, <5>1
      <4>4. retried'[x] <= batch[1].count + 1 /\ retried'[x] <= MAX_RETRY_COUNT
        BY <1>4, <1>5, <1>7, <3>4, <4>3
      <4>5. Counts(x)'
        BY <1>8, <4>1, <4>2, <4>4 DEF Counts, Begun, InQueue
      <4>6. Done(x)'
        BY <1>2, <1>6, <1>7, <3>1, <3>4, <4>4 DEF Once, Done, Waits
      <4>. QED BY <3>2, <4>5, <4>6 DEF Once
    <3>. QED BY <3>3, <3>4
  <2>. QED BY <2>1, <2>2, <2>3 DEF IInv, Changed
<1>9. CASE found' = found /\ queue' = queue \o PutBack(batch[1]) /\ batch' = Tail(batch)
  <2>1. e \in Changed => retried'[e] <= batch[1].count + 1
    <3>. SUFFICES ASSUME e \in Changed
                  PROVE  retried'[e] <= batch[1].count + 1
      OBVIOUS
    <3>1. retried[e] <= batch[1].count + Begun(1) /\ Begun(1) = 0
      BY <1>2, <1>3, <1>4, <1>6 DEF Once, Counts, Begun
    <3>. QED BY <1>4, <1>5, <1>7, <3>1
  <2>2. found' = FALSE
    BY <1>1, <1>2, <1>9
  <2>3. PutsBack(e)
    BY <1>1, <1>2, <1>3, <1>5, <1>9, <2>1, <2>2 DEF PutsBack
  <2>. QED BY <2>3, PutBackStep
<1>. QED BY <1>4, <1>8, <1>9 DEF Retry

\* Something was thrown in the retry, which had begun.
LEMMA RetryThrowsStep ==
  ASSUME IInv, RetryThrows
  PROVE  IInv'
<1>1. /\ entry \in [status : Statuses, readers : 0..1] /\ (found => batch # <<>>)
      /\ batch \in Seq(TaskOf(arrived)) /\ arrived \subseteq Events
      /\ retried \in [Events -> 0..Cap] /\ applied \in [Events -> 0..Cap]
  BY Types DEF IInv
<1>2. found /\ batch # <<>> /\ pc = "work" /\ found' = FALSE
  BY <1>1 DEF RetryThrows, IInv, Retriable
<1>3. PICK e \in Events : e = batch[1].event
  BY <1>1, <1>2, FirstRest DEF TaskOf
<1>4. Head(batch) = batch[1] /\ 1 \in DOMAIN batch /\ batch[1].count \in 0..MAX_RETRY_COUNT
  BY <1>1, <1>2, FirstRest, TaskParts
<1>5. /\ entry' \in EffectsCut(entry, e) /\ thrown' = thrown \cup {e}
      /\ applied' = (IF Known THEN Bumped(applied, e) ELSE applied)
      /\ queue' = queue \o PutBack(batch[1]) /\ batch' = Tail(batch)
      /\ UNCHANGED <<arrived, checked, pc, running, retried, counted>>
  BY <1>3, <1>4 DEF RetryThrows
<1>6. entry' \in [status : Statuses, readers : 0..1]
  BY <1>1, <1>5, EffectsCutTyped
<1>7. /\ applied' \in [Events -> 0..Cap]
      /\ \A x \in Events : x # e => applied'[x] = applied[x]
  <2>1. /\ Bumped(applied, e) \in [Events -> 0..Cap]
        /\ \A x \in Events : x # e => Bumped(applied, e)[x] = applied[x]
    BY <1>1, Bumping
  <2>. QED BY <1>1, <1>5, <2>1
<1>8. e \in Changed => retried'[e] <= batch[1].count + 1
  BY <1>2, <1>3, <1>4, <1>5 DEF IInv, Once, Counts, Begun
<1>9. /\ retried' \in [Events -> 0..Cap]
      /\ \A x \in Events : x # e => retried'[x] = retried[x]
      /\ UNCHANGED <<arrived, checked, pc, running, counted>>
  BY <1>1, <1>5
<1>10. thrown \subseteq thrown' /\ thrown' \subseteq thrown \cup {e} /\ ~(e \notin thrown')
  BY <1>5
<1>11. e = batch[1].event /\ queue' = queue \o PutBack(batch[1]) /\ batch' = Tail(batch)
  BY <1>3, <1>5
<1>12. PutsBack(e)
  BY <1>2, <1>6, <1>7, <1>8, <1>9, <1>10, <1>11 DEF PutsBack
<1>. QED BY <1>12, PutBackStep

-----------------------------------------------------------------------------
(* The due tasks.                                                          *)

LEMMA Least ==
  ASSUME NEW S, S \subseteq Nat, S # {}
  PROVE  \E n \in S : \A m \in S : n <= m
<1>. DEFINE Less == OpToRel(<, Nat)
<1>1. \E n \in S : \A m \in S : <<m, n>> \notin Less
  BY NatLessThanWellFounded, WFMin
<1>2. \A m, n \in Nat : <<m, n>> \in Less <=> m < n
  BY DEF OpToRel
<1>. HIDE DEF Less
<1>3. PICK n \in S : \A m \in S : <<m, n>> \notin Less
  BY <1>1
<1>4. \A m \in S : ~(m < n)
  BY <1>2, <1>3
<1>. QED BY <1>4

\* A queue has a due prefix: it ends where a task is not due, or the queue does.
LEMMA DuePrefix ==
  ASSUME NEW S, NEW q \in Seq(TaskOf(S))
  PROVE  Due(q) \in 0..Len(q)
<1>. DEFINE Ends == {n \in 0..Len(q) : n < Len(q) => q[n + 1].wait > 0}
<1>1. Len(q) \in Nat /\ \A i \in 1..Len(q) : q[i].wait \in Nat
  BY TaskParts, HookRetryAssumption DEF TaskOf
<1>2. Ends \subseteq Nat /\ Len(q) \in Ends
  BY <1>1
<1>3. PICK n \in Ends : \A m \in Ends : n <= m
  BY <1>2, Least
<1>4. ASSUME NEW i \in 1..n
      PROVE  q[i].wait = 0
  <2>1. i - 1 \in 0..Len(q) /\ i - 1 < n /\ (i - 1) + 1 = i /\ i \in 1..Len(q)
    BY <1>1, <1>3
  <2>2. i - 1 \notin Ends
    <3>. HIDE DEF Ends
    <3>. SUFFICES ASSUME i - 1 \in Ends
                  PROVE  FALSE
      OBVIOUS
    <3>1. n \in Nat /\ n <= i - 1 /\ i - 1 \in Nat
      BY <1>2, <1>3
    <3>. QED BY <2>1, <3>1
  <2>. QED BY <1>1, <2>1, <2>2
<1>5. \E m \in 0..Len(q) : /\ \A i \in 1..m : q[i].wait = 0
                           /\ m < Len(q) => q[m + 1].wait > 0
  BY <1>3, <1>4
<1>. QED BY <1>5 DEF Due

\* An order of a finite set of places goes through all of them once.
LEMMA Ordered ==
  ASSUME NEW n \in Nat, NEW P, P \subseteq 1..n, NEW f \in InOrder(P)
  PROVE  /\ Cardinality(P) \in Nat /\ f \in [1..Cardinality(P) -> P]
         /\ \A i, j \in 1..Cardinality(P) : f[i] = f[j] => i = j
         /\ \A k \in P : \E i \in 1..Cardinality(P) : f[i] = k
<1>1. IsFiniteSet(P) /\ Cardinality(P) \in Nat
  <2>1. IsFiniteSet(1..n)
    BY FS_Interval
  <2>2. IsFiniteSet(P)
    BY <2>1, FS_Subset
  <2>. QED BY <2>2, FS_CardinalityType
<1>2. f \in [1..Cardinality(P) -> P] /\ \A i, j \in 1..Cardinality(P) : i < j => f[i] < f[j]
  BY DEF InOrder
<1>3. \A i, j \in 1..Cardinality(P) : f[i] = f[j] => i = j
  <2>. SUFFICES ASSUME NEW i \in 1..Cardinality(P), NEW j \in 1..Cardinality(P), f[i] = f[j]
                PROVE  i = j
    OBVIOUS
  <2>1. f[i] \in Nat
    <3>1. f[i] \in 1..n
      BY <1>2
    <3>. QED BY <3>1
  <2>2. ~(i < j)
    <3>1. i < j => f[i] < f[j]
      BY <1>2
    <3>. QED BY <2>1, <3>1
  <2>3. ~(j < i)
    <3>1. j < i => f[j] < f[i]
      BY <1>2
    <3>. QED BY <2>1, <3>1
  <2>. QED BY <1>1, <2>2, <2>3
<1>4. f \in Injection(1..Cardinality(P), P)
  BY <1>2, <1>3 DEF Injection, IsInjective
<1>5. Cardinality(1..Cardinality(P)) = Cardinality(P)
  BY <1>1, FS_Interval
<1>6. f \in Surjection(1..Cardinality(P), P)
  BY <1>1, <1>4, <1>5, FS_Injection
<1>. QED BY <1>1, <1>2, <1>3, <1>6 DEF Surjection

\* The queue is parted at Due(queue): what is not taken stays, each task once, and
\* of the rest the tasks that have retries left are in the batch, each once.
LEMMA Parted ==
  ASSUME TypeOK, Drain
  PROVE  \E n \in 0..Len(queue) :
           /\ counted' = [e \in Events |-> Capped(counted[e] + Dropped(SubSeq(queue, 1, n), e))]
           /\ queue' \in Seq(TaskOf(arrived)) /\ batch' \in Seq(TaskOf(arrived))
           /\ \E r \in [DOMAIN queue' -> (n + 1)..Len(queue)] :
                /\ \A i, j \in DOMAIN queue' : r[i] = r[j] => i = j
                /\ \A k \in (n + 1)..Len(queue) : \E i \in DOMAIN queue' : r[i] = k
                /\ \A i \in DOMAIN queue' : queue'[i] = queue[r[i]]
           /\ \E p \in [DOMAIN batch' -> 1..n] :
                /\ \A i, j \in DOMAIN batch' : p[i] = p[j] => i = j
                /\ \A k \in 1..n : queue[k].count < MAX_RETRY_COUNT =>
                                     \E i \in DOMAIN batch' : p[i] = k
                /\ \A i \in DOMAIN batch' : batch'[i] = queue[p[i]] /\ batch'[i].count < MAX_RETRY_COUNT
<1>1. /\ queue \in Seq(TaskOf(arrived)) /\ Len(queue) \in Nat /\ DOMAIN queue = 1..Len(queue)
      /\ \A i \in 1..Len(queue) : queue[i] \in TaskOf(arrived)
  BY Types, TaskParts
<1>2. PICK n \in 0..Len(queue) : n = Due(queue)
  BY <1>1, DuePrefix
<1>. DEFINE taken == SubSeq(queue, 1, n)
            rest == SubSeq(queue, n + 2, Len(queue))
<1>3. /\ \E place \in InOrder(Remaining(taken)) :
           batch' = [i \in DOMAIN place |-> taken[place[i]]]
      /\ queue' = IF n < Len(queue) THEN Append(rest, queue[n + 1]) ELSE rest
      /\ counted' = [e \in Events |-> Capped(counted[e] + Dropped(taken, e))]
  BY <1>2 DEF Drain
<1>4. taken \in Seq(TaskOf(arrived)) /\ DOMAIN taken = 1..n /\ \A i \in 1..n : taken[i] = queue[i]
  <2>1. \A i \in 1..n : queue[i] \in TaskOf(arrived)
    BY <1>1
  <2>2. /\ taken \in Seq(TaskOf(arrived)) /\ Len(taken) = (IF 1 <= n THEN n - 1 + 1 ELSE 0)
        /\ \A i \in 1..(n - 1 + 1) : taken[i] = queue[1 + i - 1]
    BY <2>1, SubSeqProperties
  <2>3. Len(taken) = n /\ \A i \in 1..n : i \in 1..(n - 1 + 1) /\ 1 + i - 1 = i
    BY <2>2
  <2>4. DOMAIN taken = 1..n
    BY <2>2, <2>3, LenProperties
  <2>. QED BY <2>2, <2>3, <2>4
<1>5. /\ rest \in Seq(TaskOf(arrived))
      /\ Len(rest) = IF n < Len(queue) THEN Len(queue) - n - 1 ELSE 0
      /\ \A i \in 1..Len(rest) : rest[i] = queue[n + 1 + i]
  <2>1. \A i \in (n + 2)..Len(queue) : queue[i] \in TaskOf(arrived)
    BY <1>1
  <2>2. n + 2 \in Int /\ Len(queue) \in Int
    BY <1>1
  <2>3. /\ rest \in Seq(TaskOf(arrived))
        /\ Len(rest) = (IF n + 2 <= Len(queue) THEN Len(queue) - (n + 2) + 1 ELSE 0)
        /\ \A i \in 1..(Len(queue) - (n + 2) + 1) : rest[i] = queue[(n + 2) + i - 1]
    BY <2>1, <2>2, SubSeqProperties
  <2>4. Len(rest) = IF n < Len(queue) THEN Len(queue) - n - 1 ELSE 0
    BY <1>1, <2>3
  <2>5. \A i \in 1..Len(rest) : i \in 1..(Len(queue) - (n + 2) + 1) /\ (n + 2) + i - 1 = n + 1 + i
    BY <1>1, <2>4
  <2>. QED BY <2>3, <2>4, <2>5
<1>. HIDE DEF taken, rest
<1>6. /\ queue' \in Seq(TaskOf(arrived)) /\ DOMAIN queue' = 1..(Len(queue) - n)
      /\ \A i \in DOMAIN queue' :
           queue'[i] = queue[IF i = Len(queue) - n THEN n + 1 ELSE n + 1 + i]
  <2>1. CASE n < Len(queue)
    <3>1. queue[n + 1] \in TaskOf(arrived) /\ queue' = Append(rest, queue[n + 1])
      BY <1>1, <1>3, <2>1
    <3>2. /\ queue' \in Seq(TaskOf(arrived)) /\ DOMAIN queue' = 1..(Len(rest) + 1)
          /\ \A i \in 1..Len(rest) : queue'[i] = rest[i]
          /\ queue'[Len(rest) + 1] = queue[n + 1]
      <4>1. \A t \in TaskOf(arrived) :
              /\ Append(rest, t) \in Seq(TaskOf(arrived))
              /\ DOMAIN Append(rest, t) = 1..(Len(rest) + 1)
              /\ \A i \in 1..Len(rest) : Append(rest, t)[i] = rest[i]
              /\ Append(rest, t)[Len(rest) + 1] = t
        BY <1>5, Appended
      <4>. QED BY <3>1, <4>1
    <3>3. Len(rest) = Len(queue) - n - 1
      BY <1>5, <2>1
    <3>4. Len(rest) + 1 = Len(queue) - n
      BY <1>1, <3>3
    <3>5. ASSUME NEW i \in 1..(Len(queue) - n), i # Len(queue) - n
          PROVE  i \in 1..Len(rest)
      <4>1. Len(queue) \in Nat /\ n \in Nat
        BY <1>1
      <4>2. i \in Int /\ 1 <= i /\ i <= Len(queue) - n
        BY <4>1
      <4>3. i <= Len(queue) - n - 1
        BY <3>5, <4>1, <4>2
      <4>. QED BY <3>3, <4>2, <4>3
    <3>. QED BY <1>5, <3>2, <3>4, <3>5
  <2>2. CASE ~(n < Len(queue))
    <3>1. Len(rest) = 0 /\ queue' = rest /\ 1..(Len(queue) - n) = {}
      BY <1>1, <1>3, <1>5, <2>2
    <3>2. DOMAIN queue' = {}
      BY <1>5, <3>1, LenProperties
    <3>. QED BY <1>5, <3>1, <3>2
  <2>. QED BY <2>1, <2>2
<1>7. \E r \in [DOMAIN queue' -> (n + 1)..Len(queue)] :
        /\ \A i, j \in DOMAIN queue' : r[i] = r[j] => i = j
        /\ \A k \in (n + 1)..Len(queue) : \E i \in DOMAIN queue' : r[i] = k
        /\ \A i \in DOMAIN queue' : queue'[i] = queue[r[i]]
  <2>. DEFINE r == [i \in DOMAIN queue' |-> IF i = Len(queue) - n THEN n + 1 ELSE n + 1 + i]
  <2>1. r \in [DOMAIN queue' -> (n + 1)..Len(queue)]
    BY <1>1, <1>6
  <2>2. \A i, j \in DOMAIN queue' : r[i] = r[j] => i = j
    BY <1>1, <1>6
  <2>3. ASSUME NEW k \in (n + 1)..Len(queue)
        PROVE  \E i \in DOMAIN queue' : r[i] = k
    <3>1. CASE k = n + 1
      <4>1. Len(queue) - n \in DOMAIN queue' /\ r[Len(queue) - n] = k
        BY <1>1, <1>6, <3>1
      <4>. QED BY <4>1
    <3>2. CASE k # n + 1
      <4>1. k - n - 1 \in DOMAIN queue' /\ k - n - 1 # Len(queue) - n
        BY <1>1, <1>6, <3>2
      <4>2. r[k - n - 1] = k
        BY <1>1, <4>1
      <4>. QED BY <4>1, <4>2
    <3>. QED BY <3>1, <3>2
  <2>4. \A i \in DOMAIN queue' : queue'[i] = queue[r[i]]
    BY <1>6
  <2>. HIDE DEF r
  <2>. QED BY <2>1, <2>2, <2>3, <2>4
<1>8. PICK p \in InOrder(Remaining(taken)) : batch' = [i \in DOMAIN p |-> taken[p[i]]]
  BY <1>3
<1>9. Remaining(taken) = {i \in 1..n : queue[i].count < MAX_RETRY_COUNT}
  BY <1>4 DEF Remaining
<1>10. /\ Cardinality(Remaining(taken)) \in Nat
       /\ p \in [1..Cardinality(Remaining(taken)) -> Remaining(taken)]
       /\ \A i, j \in 1..Cardinality(Remaining(taken)) : p[i] = p[j] => i = j
       /\ \A k \in Remaining(taken) : \E i \in 1..Cardinality(Remaining(taken)) : p[i] = k
  <2>1. Remaining(taken) \subseteq 1..n /\ n \in Nat
    BY <1>1, <1>9
  <2>. QED BY <2>1, Ordered
<1>11. DOMAIN batch' = 1..Cardinality(Remaining(taken))
       /\ \A i \in DOMAIN batch' : /\ p[i] \in 1..n /\ queue[p[i]].count < MAX_RETRY_COUNT
                                   /\ batch'[i] = queue[p[i]]
  BY <1>4, <1>8, <1>9, <1>10
<1>12. batch' \in Seq(TaskOf(arrived))
  <2>1. \A i \in DOMAIN batch' : batch'[i] \in TaskOf(arrived)
    BY <1>1, <1>11
  <2>2. batch' \in [1..Cardinality(Remaining(taken)) -> TaskOf(arrived)]
    BY <1>8, <1>10, <1>11, <2>1
  <2>. QED BY <1>10, <2>2
<1>13. p \in [DOMAIN batch' -> 1..n]
  BY <1>10, <1>11
<1>14. /\ \A i, j \in DOMAIN batch' : p[i] = p[j] => i = j
       /\ \A k \in 1..n : queue[k].count < MAX_RETRY_COUNT => \E i \in DOMAIN batch' : p[i] = k
  BY <1>9, <1>10, <1>11
<1>15. counted' = [e \in Events |-> Capped(counted[e] + Dropped(SubSeq(queue, 1, n), e))]
  BY <1>3 DEF taken
<1>16. \E f \in [DOMAIN batch' -> 1..n] :
         /\ \A i, j \in DOMAIN batch' : f[i] = f[j] => i = j
         /\ \A k \in 1..n : queue[k].count < MAX_RETRY_COUNT => \E i \in DOMAIN batch' : f[i] = k
         /\ \A i \in DOMAIN batch' : batch'[i] = queue[f[i]] /\ batch'[i].count < MAX_RETRY_COUNT
  BY <1>11, <1>13, <1>14
<1>17. queue' \in Seq(TaskOf(arrived))
  BY <1>6
<1>. QED BY <1>7, <1>12, <1>15, <1>16, <1>17

LEMMA DroppedTasks ==
  ASSUME NEW S, NEW q \in Seq(TaskOf(S)), NEW n \in 0..Len(q), NEW e
  PROVE  /\ Dropped(SubSeq(q, 1, n), e) \in Nat
         /\ (\A k \in 1..n : q[k].event = e => q[k].count < MAX_RETRY_COUNT)
              => Dropped(SubSeq(q, 1, n), e) = 0
         /\ \A k \in 1..n :
              /\ q[k].event = e /\ q[k].count >= MAX_RETRY_COUNT
              /\ \A j \in 1..n : q[j].event = e => j = k
              => Dropped(SubSeq(q, 1, n), e) = 1
<1>1. Len(q) \in Nat /\ \A i \in 1..Len(q) : q[i] \in TaskOf(S) /\ q[i].count \in 0..MAX_RETRY_COUNT
  BY TaskParts
<1>2. DOMAIN SubSeq(q, 1, n) = 1..n /\ \A i \in 1..n : SubSeq(q, 1, n)[i] = q[i]
  <2>1. \A i \in 1..n : q[i] \in TaskOf(S)
    BY <1>1
  <2>2. /\ SubSeq(q, 1, n) \in Seq(TaskOf(S))
        /\ Len(SubSeq(q, 1, n)) = (IF 1 <= n THEN n - 1 + 1 ELSE 0)
        /\ \A i \in 1..(n - 1 + 1) : SubSeq(q, 1, n)[i] = q[1 + i - 1]
    BY <2>1, SubSeqProperties
  <2>3. Len(SubSeq(q, 1, n)) = n /\ \A i \in 1..n : i \in 1..(n - 1 + 1) /\ 1 + i - 1 = i
    BY <2>2
  <2>4. DOMAIN SubSeq(q, 1, n) = 1..n
    BY <2>2, <2>3, LenProperties
  <2>. QED BY <2>2, <2>3, <2>4
<1>. DEFINE D == {i \in 1..n : q[i].event = e /\ q[i].count >= MAX_RETRY_COUNT}
<1>3. Dropped(SubSeq(q, 1, n), e) = Cardinality(D)
  <2>1. {i \in DOMAIN SubSeq(q, 1, n) : /\ SubSeq(q, 1, n)[i].event = e
                                        /\ SubSeq(q, 1, n)[i].count >= MAX_RETRY_COUNT} = D
    BY <1>2
  <2>. QED BY <2>1 DEF Dropped
<1>4. Cardinality(D) \in Nat
  <2>1. IsFiniteSet(1..n)
    BY FS_Interval
  <2>2. D \in SUBSET (1..n)
    OBVIOUS
  <2>3. IsFiniteSet(D)
    BY <2>1, <2>2, FS_Subset
  <2>. QED BY <2>3, FS_CardinalityType
<1>5. ASSUME \A k \in 1..n : q[k].event = e => q[k].count < MAX_RETRY_COUNT
      PROVE  Cardinality(D) = 0
  <2>1. D = {}
    BY <1>1, <1>5, HookRetryAssumption
  <2>. QED BY <2>1, FS_EmptySet
<1>6. ASSUME NEW k \in 1..n, q[k].event = e, q[k].count >= MAX_RETRY_COUNT,
             \A j \in 1..n : q[j].event = e => j = k
      PROVE  Cardinality(D) = 1
  <2>1. D = {k}
    BY <1>6
  <2>. QED BY <2>1, FS_Singleton
<1>. HIDE DEF D
<1>. QED BY <1>3, <1>4, <1>5, <1>6

LEMMA Capping ==
  ASSUME NEW n \in Nat
  PROVE  Capped(n) \in 0..Cap /\ (n <= Cap => Capped(n) = n)
BY PowerOf DEF Capped

LEMMA DrainStep ==
  ASSUME IInv, Drain
  PROVE  IInv'
<1>1. /\ arrived \subseteq Events /\ checked \subseteq arrived /\ thrown \subseteq arrived
      /\ entry \in [status : Statuses, readers : 0..1]
      /\ found \in BOOLEAN /\ (found => batch # <<>>) /\ running \in BOOLEAN
      /\ queue \in Seq(TaskOf(arrived))
      /\ retried \in [Events -> 0..Cap] /\ counted \in [Events -> 0..Cap]
      /\ applied \in [Events -> 0..Cap]
  BY Types DEF IInv
<1>2. /\ UNCHANGED <<entry, arrived, checked, found, running, retried, applied, thrown>>
      /\ pc = "sleep" /\ pc' = "work" /\ batch = <<>> /\ ~found
  BY <1>1 DEF Drain, IInv, Retriable
<1>3. PICK n \in 0..Len(queue) :
        /\ counted' = [e \in Events |-> Capped(counted[e] + Dropped(SubSeq(queue, 1, n), e))]
        /\ queue' \in Seq(TaskOf(arrived)) /\ batch' \in Seq(TaskOf(arrived))
        /\ \E r \in [DOMAIN queue' -> (n + 1)..Len(queue)] :
             /\ \A i, j \in DOMAIN queue' : r[i] = r[j] => i = j
             /\ \A k \in (n + 1)..Len(queue) : \E i \in DOMAIN queue' : r[i] = k
             /\ \A i \in DOMAIN queue' : queue'[i] = queue[r[i]]
        /\ \E p \in [DOMAIN batch' -> 1..n] :
             /\ \A i, j \in DOMAIN batch' : p[i] = p[j] => i = j
             /\ \A k \in 1..n : queue[k].count < MAX_RETRY_COUNT =>
                                  \E i \in DOMAIN batch' : p[i] = k
             /\ \A i \in DOMAIN batch' : batch'[i] = queue[p[i]] /\ batch'[i].count < MAX_RETRY_COUNT
  BY Parted DEF IInv
<1>4. PICK r \in [DOMAIN queue' -> (n + 1)..Len(queue)] :
        /\ \A i, j \in DOMAIN queue' : r[i] = r[j] => i = j
        /\ \A k \in (n + 1)..Len(queue) : \E i \in DOMAIN queue' : r[i] = k
        /\ \A i \in DOMAIN queue' : queue'[i] = queue[r[i]]
  BY <1>3
<1>5. PICK p \in [DOMAIN batch' -> 1..n] :
        /\ \A i, j \in DOMAIN batch' : p[i] = p[j] => i = j
        /\ \A k \in 1..n : queue[k].count < MAX_RETRY_COUNT => \E i \in DOMAIN batch' : p[i] = k
        /\ \A i \in DOMAIN batch' : batch'[i] = queue[p[i]] /\ batch'[i].count < MAX_RETRY_COUNT
  BY <1>3
<1>6. /\ Len(queue) \in Nat /\ DOMAIN queue = 1..Len(queue) /\ MAX_RETRY_COUNT \in Nat
      /\ \A i \in DOMAIN queue : queue[i].event \in arrived /\ queue[i].count \in 0..MAX_RETRY_COUNT
  BY <1>1, TaskParts, HookRetryAssumption
<1>7. /\ 1..n \subseteq DOMAIN queue /\ (n + 1)..Len(queue) \subseteq DOMAIN queue
      /\ \A i \in DOMAIN queue : i \in 1..n \/ i \in (n + 1)..Len(queue)
      /\ \A i \in 1..n : i \notin (n + 1)..Len(queue)
  BY <1>6
<1>8. /\ \A i \in DOMAIN queue' : r[i] \in (n + 1)..Len(queue) /\ r[i] \in DOMAIN queue
      /\ \A i \in DOMAIN batch' : p[i] \in 1..n /\ p[i] \in DOMAIN queue
  BY <1>4, <1>5, <1>7
<1>9. \A e \in Events : Dropped(SubSeq(queue, 1, n), e) \in Nat
  BY <1>1, DroppedTasks
<1>10. counted' \in [Events -> 0..Cap]
       /\ \A e \in Events : counted'[e] = Capped(counted[e] + Dropped(SubSeq(queue, 1, n), e))
  <2>1. \A e \in Events : counted[e] + Dropped(SubSeq(queue, 1, n), e) \in Nat
    BY <1>1, <1>9
  <2>2. \A e \in Events : Capped(counted[e] + Dropped(SubSeq(queue, 1, n), e)) \in 0..Cap
    BY <2>1, Capping
  <2>. QED BY <1>3, <2>2
<1>11. TypeOK'
  BY <1>1, <1>2, <1>3, <1>10, TypesNext
<1>12. Retriable'
  BY <1>2, <1>5 DEF Retriable
<1>13. ASSUME NEW x \in Changed
       PROVE  Once(x)'
  <2>1. Once(x) /\ x \in Events /\ ~InBatch(x)
    BY <1>2 DEF IInv, Changed, InBatch
  <2>2. \A i \in DOMAIN queue' : queue'[i].event = x <=> queue[r[i]].event = x
    BY <1>4
  <2>3. \A i \in DOMAIN batch' : batch'[i].event = x <=> queue[p[i]].event = x
    BY <1>5
  <2>4. (InQueue(x)' \/ InBatch(x)') => InQueue(x)
    BY <1>8, <2>2, <2>3 DEF InQueue, InBatch
  <2>5. \A i, j \in DOMAIN queue : queue[i].event = x /\ queue[j].event = x => i = j
    BY <2>1 DEF Once, OnePlace
  <2>6. OnePlace(x)'
    <3>1. \A i, j \in DOMAIN queue' : queue'[i].event = x /\ queue'[j].event = x => i = j
      BY <1>4, <1>8, <2>2, <2>5
    <3>2. \A i, j \in DOMAIN batch' : batch'[i].event = x /\ batch'[j].event = x => i = j
      BY <1>5, <1>8, <2>3, <2>5
    <3>3. ~(InQueue(x)' /\ InBatch(x)')
      <4>. SUFFICES ASSUME NEW i \in DOMAIN queue', NEW j \in DOMAIN batch',
                           queue'[i].event = x, batch'[j].event = x
                    PROVE  FALSE
        BY DEF InQueue, InBatch
      <4>1. r[i] = p[j]
        BY <1>8, <2>2, <2>3, <2>5
      <4>. QED BY <1>7, <1>8, <4>1
    <3>4. x \in checked' => ~InQueue(x)' /\ ~InBatch(x)'
      BY <1>2, <2>1, <2>4 DEF Once, OnePlace
    <3>. QED BY <3>1, <3>2, <3>3, <3>4 DEF OnePlace
  <2>7. Counts(x)'
    <3>1. \A i \in DOMAIN queue : queue[i].event = x => retried[x] <= queue[i].count
      BY <2>1 DEF Once, Counts
    <3>2. \A i \in DOMAIN queue' : queue'[i].event = x => retried'[x] <= queue'[i].count
      BY <1>2, <1>4, <1>8, <2>2, <3>1
    <3>3. ASSUME NEW i \in DOMAIN batch', batch'[i].event = x
          PROVE  retried'[x] <= batch'[i].count + Begun(i)'
      <4>1. retried[x] <= queue[p[i]].count /\ queue[p[i]].count \in Nat /\ batch'[i] = queue[p[i]]
        BY <1>5, <1>6, <1>8, <2>3, <3>1, <3>3
      <4>2. Begun(i)' = 0
        BY <1>2 DEF Begun
      <4>. QED BY <1>2, <4>1, <4>2
    <3>. QED BY <3>2, <3>3 DEF Counts
  <2>8. /\ retried'[x] <= MAX_RETRY_COUNT /\ (x \notin arrived' => retried'[x] = 0)
        /\ counted[x] \in 0..Cap
    BY <1>1, <1>2, <2>1 DEF Once, Done
  <2>9. CASE \A k \in 1..n : queue[k].event = x => queue[k].count < MAX_RETRY_COUNT
    <3>1. counted'[x] = counted[x]
      <4>1. Dropped(SubSeq(queue, 1, n), x) = 0
        BY <1>1, <2>9, DroppedTasks
      <4>2. Capped(counted[x] + 0) = counted[x]
        BY <2>8, Capping, PowerOf
      <4>. QED BY <1>10, <2>1, <4>1, <4>2
    <3>2. InQueue(x) => InQueue(x)' \/ InBatch(x)'
      <4>. SUFFICES ASSUME NEW k \in DOMAIN queue, queue[k].event = x
                    PROVE  InQueue(x)' \/ InBatch(x)'
        BY DEF InQueue
      <4>1. CASE k \in 1..n
        <5>1. PICK i \in DOMAIN batch' : p[i] = k
          BY <1>5, <2>9, <4>1
        <5>. QED BY <2>3, <5>1 DEF InBatch
      <4>2. CASE k \in (n + 1)..Len(queue)
        <5>1. PICK i \in DOMAIN queue' : r[i] = k
          BY <1>4, <4>2
        <5>. QED BY <2>2, <5>1 DEF InQueue
      <4>. QED BY <1>7, <4>1, <4>2
    <3>3. Waits(x)' <=> Waits(x)
      BY <1>2, <2>1, <2>4, <3>2 DEF Waits
    <3>4. Done(x)'
      BY <1>2, <2>1, <2>8, <3>1, <3>3 DEF Once, Done
    <3>. QED BY <2>6, <2>7, <3>4 DEF Once
  <2>10. CASE \E k \in 1..n : queue[k].event = x /\ ~(queue[k].count < MAX_RETRY_COUNT)
    <3>1. PICK k \in 1..n : queue[k].event = x /\ ~(queue[k].count < MAX_RETRY_COUNT)
      BY <2>10
    <3>2. /\ queue[k].count >= MAX_RETRY_COUNT /\ k \in DOMAIN queue
          /\ \A j \in 1..n : queue[j].event = x => j = k
      BY <1>6, <1>7, <2>5, <3>1
    <3>3. InQueue(x) /\ x \in arrived
      BY <1>6, <3>1, <3>2 DEF InQueue
    <3>4. counted[x] = 0 /\ (x \notin thrown => applied[x] = 0) /\ x \notin checked
      BY <2>1, <3>3 DEF Once, Done, Waits, OnePlace
    <3>5. counted'[x] = 1
      <4>1. Dropped(SubSeq(queue, 1, n), x) = 1
        BY <1>1, <3>1, <3>2, DroppedTasks
      <4>2. Capped(0 + 1) = 1
        BY PowerOf DEF Capped
      <4>. QED BY <1>10, <2>1, <3>4, <4>1, <4>2
    <3>6. ~InQueue(x)'
      <4>. SUFFICES ASSUME NEW i \in DOMAIN queue', queue'[i].event = x
                    PROVE  FALSE
        BY DEF InQueue
      <4>1. r[i] = k
        BY <1>8, <2>2, <2>5, <3>1, <3>2
      <4>. QED BY <1>7, <1>8, <4>1
    <3>7. ~InBatch(x)'
      <4>. SUFFICES ASSUME NEW i \in DOMAIN batch', batch'[i].event = x
                    PROVE  FALSE
        BY DEF InBatch
      <4>1. p[i] = k
        BY <1>8, <2>3, <2>5, <3>1, <3>2
      <4>. QED BY <1>5, <3>1, <4>1
    <3>8. Done(x)'
      BY <1>2, <2>8, <3>3, <3>4, <3>5, <3>6, <3>7 DEF Done, Waits
    <3>. QED BY <2>6, <2>7, <3>8 DEF Once
  <2>. QED BY <2>9, <2>10
<1>. QED BY <1>11, <1>12, <1>13 DEF IInv, Changed

-----------------------------------------------------------------------------
(* How often a task can come back.  A task of a stream_none_reader report   *)
(* comes back as two with a retry less: what becomes of it is a tree, and   *)
(* a path in it the set of the retries after which it takes the second of   *)
(* the two.                                                                 *)

\* Places of tasks with the paths still open to the task there, by its count.
Paths(A, count) ==
  {x \in A \X SUBSET (1..MAX_RETRY_COUNT) : x[2] \subseteq (count[x[1]] + 1)..MAX_RETRY_COUNT}

\* Those but one stand for the retries of the task.
Tries(A, count) == {x \in Paths(A, count) : x[2] # {}}

Counting(A) == [A -> 0..MAX_RETRY_COUNT]

LEMMA PathsFinite ==
  ASSUME NEW A, IsFiniteSet(A), NEW count \in Counting(A)
  PROVE  /\ IsFiniteSet(Paths(A, count)) /\ Cardinality(Paths(A, count)) \in Nat
         /\ IsFiniteSet(Tries(A, count)) /\ Cardinality(Tries(A, count)) \in Nat
<1>1. IsFiniteSet(SUBSET (1..MAX_RETRY_COUNT))
  <2>1. IsFiniteSet(1..MAX_RETRY_COUNT)
    BY HookRetryAssumption, FS_Interval
  <2>. QED BY <2>1, FS_SUBSET
<1>2. IsFiniteSet(A \X SUBSET (1..MAX_RETRY_COUNT))
  BY <1>1, FS_Product
<1>3. Paths(A, count) \subseteq A \X SUBSET (1..MAX_RETRY_COUNT) /\ Tries(A, count) \subseteq Paths(A, count)
  BY DEF Paths, Tries
<1>. QED BY <1>2, <1>3, FS_Subset, FS_CardinalityType

LEMMA OnePath ==
  ASSUME NEW A, NEW count, NEW x
  PROVE  x \in Paths(A, count) <=>
           /\ x = <<x[1], x[2]>> /\ x[1] \in A /\ x[2] \in SUBSET (1..MAX_RETRY_COUNT)
           /\ x[2] \subseteq (count[x[1]] + 1)..MAX_RETRY_COUNT
BY DEF Paths

\* Tasks that only change places, or go.
LEMMA TasksMoved ==
  ASSUME NEW A, IsFiniteSet(A), NEW count \in Counting(A),
         NEW B, NEW tally \in Counting(B), NEW h \in Injection(B, A),
         \A b \in B : tally[b] = count[h[b]]
  PROVE  /\ IsFiniteSet(B)
         /\ Cardinality(Paths(B, tally)) <= Cardinality(Paths(A, count))
         /\ Cardinality(Tries(B, tally)) <= Cardinality(Tries(A, count))
<1>. DEFINE g == [x \in Paths(B, tally) |-> <<h[x[1]], x[2]>>]
            g1 == [x \in Tries(B, tally) |-> <<h[x[1]], x[2]>>]
<1>1. h \in [B -> A] /\ \A a, b \in B : h[a] = h[b] => a = b
  BY DEF Injection, IsInjective
<1>2. ASSUME NEW x \in Paths(B, tally) PROVE g[x] \in Paths(A, count)
  BY <1>1, OnePath
<1>3. ASSUME NEW x \in Paths(B, tally), NEW y \in Paths(B, tally), g[x] = g[y]
      PROVE  x = y
  BY <1>1, <1>3, OnePath
<1>4. g \in Injection(Paths(B, tally), Paths(A, count))
  BY <1>2, <1>3 DEF Injection, IsInjective
<1>5. \A x \in Tries(B, tally) : x \in Paths(B, tally) /\ g1[x] = g[x] /\ g1[x] \in Tries(A, count)
  BY <1>2 DEF Tries
<1>6. g1 \in Injection(Tries(B, tally), Tries(A, count))
  BY <1>3, <1>5 DEF Injection, IsInjective
<1>. HIDE DEF g, g1
<1>. QED BY <1>4, <1>6, PathsFinite, FS_Injection

\* A task that goes while it has retries left takes one of them with it.
LEMMA TaskGone ==
  ASSUME NEW A, IsFiniteSet(A), NEW count \in Counting(A), NEW a \in A,
         count[a] < MAX_RETRY_COUNT,
         NEW B, NEW tally \in Counting(B), NEW h \in Injection(B, A \ {a}),
         \A b \in B : tally[b] = count[h[b]]
  PROVE  /\ IsFiniteSet(B)
         /\ Cardinality(Paths(B, tally)) <= Cardinality(Paths(A, count))
         /\ Cardinality(Tries(B, tally)) <= Cardinality(Tries(A, count)) - 1
<1>. DEFINE rest == [b \in A \ {a} |-> count[b]]
            one == <<a, {count[a] + 1}>>
<1>1. count[a] \in Nat /\ MAX_RETRY_COUNT \in Nat
  BY HookRetryAssumption DEF Counting
<1>2. one \in Tries(A, count)
  <2>1. {count[a] + 1} \subseteq (count[a] + 1)..MAX_RETRY_COUNT
        /\ {count[a] + 1} \subseteq 1..MAX_RETRY_COUNT
    BY <1>1
  <2>2. one \in Paths(A, count)
    BY <2>1, OnePath
  <2>3. one[2] # {}
    OBVIOUS
  <2>. QED BY <2>2, <2>3 DEF Tries
<1>3. IsFiniteSet(A \ {a}) /\ rest \in Counting(A \ {a})
  BY FS_Difference, FS_RemoveElement DEF Counting
<1>4. \A b \in B : h[b] \in A \ {a} /\ tally[b] = rest[h[b]]
  BY DEF Injection
<1>5. /\ Paths(A \ {a}, rest) \subseteq Paths(A, count)
      /\ Tries(A \ {a}, rest) \subseteq Tries(A, count) \ {one}
  <2>1. ASSUME NEW x \in Paths(A \ {a}, rest) PROVE x \in Paths(A, count) /\ x # one
    BY <2>1, OnePath
  <2>. QED BY <2>1 DEF Tries
<1>. HIDE DEF rest, one
<1>6. /\ IsFiniteSet(B)
      /\ Cardinality(Paths(B, tally)) <= Cardinality(Paths(A \ {a}, rest))
      /\ Cardinality(Tries(B, tally)) <= Cardinality(Tries(A \ {a}, rest))
  BY <1>3, <1>4, TasksMoved
<1>7. Cardinality(Paths(A \ {a}, rest)) <= Cardinality(Paths(A, count))
  BY <1>5, PathsFinite, FS_Subset
<1>8. Cardinality(Tries(A \ {a}, rest)) <= Cardinality(Tries(A, count)) - 1
  <2>1. /\ IsFiniteSet(Tries(A, count) \ {one})
        /\ Cardinality(Tries(A, count) \ {one}) = Cardinality(Tries(A, count)) - 1
    BY <1>2, PathsFinite, FS_RemoveElement
  <2>2. Tries(A \ {a}, rest) \in SUBSET (Tries(A, count) \ {one})
    BY <1>5
  <2>3. Cardinality(Tries(A \ {a}, rest)) <= Cardinality(Tries(A, count) \ {one})
    BY <2>1, <2>2, FS_Subset
  <2>. QED BY <2>1, <2>3
<1>9. /\ Cardinality(Paths(A, count)) \in Nat /\ Cardinality(Tries(A, count)) \in Nat
      /\ Cardinality(Paths(A \ {a}, rest)) \in Nat /\ Cardinality(Tries(A \ {a}, rest)) \in Nat
      /\ Cardinality(Paths(B, tally)) \in Nat /\ Cardinality(Tries(B, tally)) \in Nat
  BY <1>3, <1>6, PathsFinite
<1>. QED BY <1>6, <1>7, <1>8, <1>9

LEMMA WithoutIt ==
  ASSUME NEW S, NEW T, NEW c, c \notin S, c \notin T, S \cup {c} = T \cup {c}
  PROVE  S = T
<1>1. S = (S \cup {c}) \ {c} /\ T = (T \cup {c}) \ {c}
  OBVIOUS
<1>. QED BY <1>1

\* A task that is put back twice has one retry less.
LEMMA TaskDoubled ==
  ASSUME NEW A, IsFiniteSet(A), NEW count \in Counting(A), NEW a \in A,
         count[a] < MAX_RETRY_COUNT,
         NEW B, IsFiniteSet(B), NEW tally \in Counting(B), NEW b1 \in B, NEW b2 \in B, b1 # b2,
         tally[b1] = count[a] + 1, tally[b2] = count[a] + 1,
         NEW h \in Injection(B \ {b1, b2}, A \ {a}),
         \A b \in B \ {b1, b2} : tally[b] = count[h[b]]
  PROVE  /\ Cardinality(Paths(B, tally)) <= Cardinality(Paths(A, count))
         /\ Cardinality(Tries(B, tally)) <= Cardinality(Tries(A, count)) - 1
<1>. DEFINE c == count[a] + 1
            one == <<a, {c}>>
            f(x) == IF x[1] = b1 THEN <<a, x[2]>>
                    ELSE IF x[1] = b2 THEN <<a, x[2] \cup {c}>> ELSE <<h[x[1]], x[2]>>
            g == [x \in Paths(B, tally) |-> f(x)]
            g1 == [x \in Tries(B, tally) |-> f(x)]
<1>1. c \in 1..MAX_RETRY_COUNT /\ MAX_RETRY_COUNT \in Nat /\ count[a] = c - 1
  BY HookRetryAssumption DEF Counting
<1>2. /\ h \in [B \ {b1, b2} -> A \ {a}]
      /\ \A u, v \in B \ {b1, b2} : h[u] = h[v] => u = v
  BY DEF Injection, IsInjective
<1>3. one \in Tries(A, count)
  <2>1. {c} \subseteq (count[a] + 1)..MAX_RETRY_COUNT /\ {c} \subseteq 1..MAX_RETRY_COUNT
    BY <1>1
  <2>2. one \in Paths(A, count)
    BY <2>1, OnePath
  <2>3. one[2] # {}
    OBVIOUS
  <2>. QED BY <2>2, <2>3 DEF Tries
<1>4. \A x \in Paths(B, tally) : x[1] \in {b1, b2} =>
        /\ x[2] \subseteq (c + 1)..MAX_RETRY_COUNT /\ c \notin x[2]
        /\ x[2] \in SUBSET (1..MAX_RETRY_COUNT)
  <2>. SUFFICES ASSUME NEW x \in Paths(B, tally), x[1] \in {b1, b2}
               PROVE  /\ x[2] \subseteq (c + 1)..MAX_RETRY_COUNT /\ c \notin x[2]
                      /\ x[2] \in SUBSET (1..MAX_RETRY_COUNT)
    OBVIOUS
  <2>1. tally[x[1]] = c
    OBVIOUS
  <2>2. x[2] \subseteq (c + 1)..MAX_RETRY_COUNT /\ x[2] \in SUBSET (1..MAX_RETRY_COUNT)
    BY <2>1, OnePath
  <2>3. c \notin (c + 1)..MAX_RETRY_COUNT
    BY <1>1
  <2>. QED BY <2>2, <2>3
<1>. HIDE DEF c
<1>5. ASSUME NEW x \in Paths(B, tally) PROVE f(x) \in Paths(A, count)
  <2>1. CASE x[1] = b1
    <3>1. x[2] \subseteq (c + 1)..MAX_RETRY_COUNT /\ x[2] \in SUBSET (1..MAX_RETRY_COUNT)
      BY <1>4, <2>1
    <3>2. x[2] \subseteq (count[a] + 1)..MAX_RETRY_COUNT
      BY <1>1, <3>1
    <3>. QED BY <2>1, <3>1, <3>2, OnePath
  <2>2. CASE x[1] = b2
    <3>1. x[2] \subseteq (c + 1)..MAX_RETRY_COUNT /\ x[2] \in SUBSET (1..MAX_RETRY_COUNT)
      BY <1>4, <2>2
    <3>2. x[2] \cup {c} \subseteq (count[a] + 1)..MAX_RETRY_COUNT
      BY <1>1, <3>1
    <3>3. x[2] \cup {c} \in SUBSET (1..MAX_RETRY_COUNT)
      BY <1>1, <3>1
    <3>. QED BY <2>2, <3>2, <3>3, OnePath
  <2>3. CASE x[1] \notin {b1, b2}
    BY <1>2, <2>3, OnePath
  <2>. QED BY <2>1, <2>2, <2>3
<1>6. ASSUME NEW x \in Paths(B, tally), NEW y \in Paths(B, tally), f(x) = f(y)
      PROVE  x = y
  <2>1. x = <<x[1], x[2]>> /\ y = <<y[1], y[2]>> /\ x[1] \in B /\ y[1] \in B
    BY OnePath
  <2>2. CASE x[1] \in {b1, b2} /\ y[1] \in {b1, b2}
    <3>1. c \notin x[2] /\ c \notin y[2]
      BY <1>4, <2>2
    <3>2. CASE x[1] = b1 /\ y[1] = b1
      BY <1>6, <2>1, <3>2
    <3>3. CASE x[1] = b1 /\ y[1] = b2
      <4>1. x[2] = y[2] \cup {c}
        BY <1>6, <3>3
      <4>. QED BY <3>1, <4>1
    <3>4. CASE x[1] = b2 /\ y[1] = b1
      <4>1. y[2] = x[2] \cup {c}
        BY <1>6, <3>4
      <4>. QED BY <3>1, <4>1
    <3>5. CASE x[1] = b2 /\ y[1] = b2
      <4>1. x[2] \cup {c} = y[2] \cup {c}
        BY <1>6, <3>5
      <4>2. x[2] = y[2]
        BY <3>1, <4>1, WithoutIt
      <4>. QED BY <2>1, <3>5, <4>2
    <3>. QED BY <2>2, <3>2, <3>3, <3>4, <3>5
  <2>3. CASE x[1] \in {b1, b2} /\ y[1] \notin {b1, b2}
    BY <1>2, <1>6, <2>1, <2>3
  <2>4. CASE x[1] \notin {b1, b2} /\ y[1] \in {b1, b2}
    BY <1>2, <1>6, <2>1, <2>4
  <2>5. CASE x[1] \notin {b1, b2} /\ y[1] \notin {b1, b2}
    <3>1. h[x[1]] = h[y[1]] /\ x[2] = y[2]
      BY <1>6, <2>5
    <3>2. x[1] = y[1]
      BY <1>2, <2>1, <2>5, <3>1
    <3>. QED BY <2>1, <3>1, <3>2
  <2>. QED BY <2>2, <2>3, <2>4, <2>5
<1>7. ASSUME NEW x \in Tries(B, tally) PROVE x \in Paths(B, tally) /\ f(x) \in Tries(A, count) \ {one}
  <2>1. x \in Paths(B, tally) /\ x[2] # {}
    BY DEF Tries
  <2>2. f(x) \in Paths(A, count)
    BY <1>5, <2>1
  <2>3. f(x)[2] # {}
    BY <2>1
  <2>4. f(x) # one
    <3>1. CASE x[1] = b1
      BY <1>4, <2>1, <3>1
    <3>2. CASE x[1] = b2
      <4>1. b2 # b1 /\ c \notin x[2]
        BY <1>4, <2>1, <3>2
      <4>2. x[2] \cup {c} # {c}
        BY <2>1, <4>1
      <4>. QED BY <3>2, <4>1, <4>2
    <3>3. CASE x[1] \notin {b1, b2}
      <4>1. h[x[1]] # a
        BY <1>2, <2>1, <3>3, OnePath
      <4>. QED BY <3>3, <4>1
    <3>. QED BY <3>1, <3>2, <3>3
  <2>. QED BY <2>1, <2>2, <2>3, <2>4 DEF Tries
<1>. HIDE DEF f, one
<1>8. g \in Injection(Paths(B, tally), Paths(A, count))
  BY <1>5, <1>6 DEF Injection, IsInjective
<1>9. g1 \in Injection(Tries(B, tally), Tries(A, count) \ {one})
  BY <1>6, <1>7 DEF Injection, IsInjective
<1>. HIDE DEF g, g1
<1>10. /\ IsFiniteSet(Tries(A, count) \ {one})
       /\ Cardinality(Tries(A, count) \ {one}) = Cardinality(Tries(A, count)) - 1
  BY <1>3, PathsFinite, FS_RemoveElement
<1>. QED BY <1>8, <1>9, <1>10, PathsFinite, FS_Injection

\* A new task has all its retries.
LEMMA TaskNew ==
  ASSUME NEW a, NEW count \in Counting({a}), count[a] = 0
  PROVE  /\ Cardinality(Paths({a}, count)) <= Power
         /\ Cardinality(Tries({a}, count)) <= Power - 1
<1>. DEFINE All == SUBSET (1..MAX_RETRY_COUNT)
            g == [x \in Paths({a}, count) |-> x[2]]
            g1 == [x \in Tries({a}, count) |-> x[2]]
<1>1. IsFiniteSet(1..MAX_RETRY_COUNT) /\ Cardinality(1..MAX_RETRY_COUNT) = MAX_RETRY_COUNT
  BY HookRetryAssumption, FS_Interval
<1>2. IsFiniteSet(All) /\ Cardinality(All) = Power
  BY <1>1, FS_SUBSET DEF Power
<1>3. {} \in All
  OBVIOUS
<1>4. \A x \in Paths({a}, count) : x = <<a, x[2]>> /\ x[2] \in All
  BY OnePath
<1>. HIDE DEF All
<1>5. g \in Injection(Paths({a}, count), All)
  BY <1>4 DEF Injection, IsInjective
<1>6. g1 \in Injection(Tries({a}, count), All \ {{}})
  BY <1>4 DEF Tries, Injection, IsInjective
<1>. HIDE DEF g, g1
<1>7. IsFiniteSet(All \ {{}}) /\ Cardinality(All \ {{}}) = Power - 1
  BY <1>2, <1>3, FS_RemoveElement
<1>. QED BY <1>2, <1>5, <1>6, <1>7, FS_Injection

\* The places of a report's tasks in a queue and a batch, and their counts.
PlacesIn(q, b, e) ==
  ({"queue"} \X {i \in DOMAIN q : q[i].event = e}) \cup ({"batch"} \X {i \in DOMAIN b : b[i].event = e})
CountsIn(q, b, e) ==
  [x \in PlacesIn(q, b, e) |-> IF x[1] = "queue" THEN q[x[2]].count ELSE b[x[2]].count]

\* The retry of the report's task that has begun.
BegunOn(e) == IF found /\ batch[1].event = e THEN 1 ELSE 0

\* The retries a report has had and may still have.
Few(e) ==
  /\ Cardinality(Paths(PlacesIn(queue, batch, e), CountsIn(queue, batch, e))) <= Power
  /\ retried[e] + Cardinality(Tries(PlacesIn(queue, batch, e), CountsIn(queue, batch, e)))
       < Power + BegunOn(e)
  /\ e \notin arrived => retried[e] = 0

NoneReaders == {e \in Events : e.kind = "none_reader"}
Doubling == \A e \in NoneReaders : Few(e)

LEMMA PlacesTyped ==
  ASSUME NEW S, NEW q \in Seq(TaskOf(S)), NEW b \in Seq(TaskOf(S)), NEW e
  PROVE  /\ IsFiniteSet(PlacesIn(q, b, e)) /\ CountsIn(q, b, e) \in Counting(PlacesIn(q, b, e))
         /\ Cardinality(Paths(PlacesIn(q, b, e), CountsIn(q, b, e))) \in Nat
         /\ Cardinality(Tries(PlacesIn(q, b, e), CountsIn(q, b, e))) \in Nat
<1>1. /\ Len(q) \in Nat /\ DOMAIN q = 1..Len(q) /\ Len(b) \in Nat /\ DOMAIN b = 1..Len(b)
      /\ \A i \in DOMAIN q : q[i].count \in 0..MAX_RETRY_COUNT
      /\ \A i \in DOMAIN b : b[i].count \in 0..MAX_RETRY_COUNT
  BY TaskParts
<1>2. IsFiniteSet({"queue", "batch"}) /\ IsFiniteSet(DOMAIN q) /\ IsFiniteSet(DOMAIN b)
  <2>1. IsFiniteSet({"queue"}) /\ IsFiniteSet({"queue"} \cup {"batch"})
    BY FS_Singleton, FS_AddElement
  <2>2. {"queue", "batch"} = {"queue"} \cup {"batch"}
    OBVIOUS
  <2>. QED BY <1>1, <2>1, <2>2, FS_Interval
<1>3. IsFiniteSet({"queue", "batch"} \X (DOMAIN q \cup DOMAIN b))
  BY <1>2, FS_Union, FS_Product
<1>4. PlacesIn(q, b, e) \subseteq {"queue", "batch"} \X (DOMAIN q \cup DOMAIN b)
  BY DEF PlacesIn
<1>5. IsFiniteSet(PlacesIn(q, b, e))
  BY <1>3, <1>4, FS_Subset
<1>6. CountsIn(q, b, e) \in Counting(PlacesIn(q, b, e))
  <2>1. \A x \in PlacesIn(q, b, e) :
          (IF x[1] = "queue" THEN q[x[2]].count ELSE b[x[2]].count) \in 0..MAX_RETRY_COUNT
    BY <1>1 DEF PlacesIn
  <2>. QED BY <2>1 DEF CountsIn, Counting
<1>. QED BY <1>5, <1>6, PathsFinite

\* What is at a place.
LEMMA AtPlace ==
  ASSUME NEW q, NEW b, NEW e
  PROVE  /\ \A i : <<"queue", i>> \in PlacesIn(q, b, e) <=> i \in DOMAIN q /\ q[i].event = e
         /\ \A i : <<"batch", i>> \in PlacesIn(q, b, e) <=> i \in DOMAIN b /\ b[i].event = e
         /\ \A x \in PlacesIn(q, b, e) : \/ x = <<"queue", x[2]>> /\ x[1] = "queue"
                                         \/ x = <<"batch", x[2]>> /\ x[1] = "batch"
         /\ \A i : <<"queue", i>> \in PlacesIn(q, b, e) => CountsIn(q, b, e)[<<"queue", i>>] = q[i].count
         /\ \A i : <<"batch", i>> \in PlacesIn(q, b, e) => CountsIn(q, b, e)[<<"batch", i>>] = b[i].count
<1>1. "queue" # "batch"
  OBVIOUS
<1>2. \A x : x \in PlacesIn(q, b, e) <=>
        \/ x \in {"queue"} \X {i \in DOMAIN q : q[i].event = e}
        \/ x \in {"batch"} \X {i \in DOMAIN b : b[i].event = e}
  BY DEF PlacesIn
<1>. QED BY <1>1, <1>2 DEF CountsIn

\* Two queues that hold a report's tasks at the same places.
LEMMA PlacesAlike ==
  ASSUME NEW q, NEW r, NEW b, NEW e,
         \A i : i \in DOMAIN q /\ q[i].event = e <=> i \in DOMAIN r /\ r[i].event = e,
         \A i \in DOMAIN q : q[i].event = e => q[i].count = r[i].count
  PROVE  PlacesIn(q, b, e) = PlacesIn(r, b, e) /\ CountsIn(q, b, e) = CountsIn(r, b, e)
<1>1. {i \in DOMAIN q : q[i].event = e} = {i \in DOMAIN r : r[i].event = e}
  OBVIOUS
<1>2. PlacesIn(q, b, e) = PlacesIn(r, b, e)
  BY <1>1 DEF PlacesIn
<1>3. \A x \in PlacesIn(q, b, e) :
        (IF x[1] = "queue" THEN q[x[2]].count ELSE b[x[2]].count)
          = IF x[1] = "queue" THEN r[x[2]].count ELSE b[x[2]].count
  BY DEF PlacesIn
<1>. QED BY <1>2, <1>3 DEF CountsIn

\* Each place has the count of another.
Embeds(B, tally, A, count) == \E h \in Injection(B, A) : \A x \in B : tally[x] = count[h[x]]

\* The first task of the batch is gone, and the queue keeps its tasks: but for the
\* places in N, where the queue has new ones, each place had its task before.
LEMMA ShiftedPlaces ==
  ASSUME NEW S, NEW q \in Seq(TaskOf(S)), NEW b \in Seq(TaskOf(S)), b # <<>>,
         NEW q2, NEW e, NEW N,
         \A i \in DOMAIN q2 : /\ q2[i].event = e /\ <<"queue", i>> \notin N
                              => i \in DOMAIN q /\ q2[i] = q[i]
  PROVE  Embeds(PlacesIn(q2, Tail(b), e) \ N, CountsIn(q2, Tail(b), e),
                PlacesIn(q, b, e) \ {<<"batch", 1>>}, CountsIn(q, b, e))
<1>. DEFINE b2 == Tail(b)
            B == PlacesIn(q2, b2, e) \ N
            A == PlacesIn(q, b, e) \ {<<"batch", 1>>}
            h == [x \in B |-> IF x[1] = "queue" THEN x ELSE <<"batch", x[2] + 1>>]
<1>1. /\ Len(b) \in Nat \ {0} /\ DOMAIN b = 1..Len(b) /\ DOMAIN b2 = 1..(Len(b) - 1)
      /\ \A i \in DOMAIN b2 : b2[i] = b[i + 1]
  BY FirstRest
<1>2. \A i \in DOMAIN b2 : i \in Nat \ {0} /\ i + 1 \in DOMAIN b /\ i + 1 # 1
  BY <1>1
<1>. HIDE DEF b2
<1>3. ASSUME NEW x \in B
      PROVE  /\ x[1] = "queue" => /\ x = <<"queue", x[2]>> /\ h[x] = x /\ x \in A
                                  /\ CountsIn(q2, b2, e)[x] = CountsIn(q, b, e)[x]
             /\ x[1] # "queue" => /\ x = <<"batch", x[2]>> /\ x[1] = "batch" /\ x[2] \in Nat \ {0}
                                  /\ h[x] = <<"batch", x[2] + 1>> /\ h[x] \in A
                                  /\ CountsIn(q2, b2, e)[x] = CountsIn(q, b, e)[h[x]]
  <2>1. x \in PlacesIn(q2, b2, e) /\ x \notin N
    OBVIOUS
  <2>2. CASE x = <<"queue", x[2]>> /\ x[1] = "queue"
    <3>1. x[2] \in DOMAIN q2 /\ q2[x[2]].event = e /\ x[2] \in DOMAIN q /\ q2[x[2]] = q[x[2]]
      BY <2>1, <2>2, AtPlace
    <3>2. x \in PlacesIn(q, b, e) /\ x # <<"batch", 1>>
      BY <2>2, <3>1, AtPlace
    <3>3. CountsIn(q2, b2, e)[x] = q2[x[2]].count /\ CountsIn(q, b, e)[x] = q[x[2]].count
      BY <2>1, <2>2, <3>2, AtPlace
    <3>. QED BY <2>2, <3>1, <3>2, <3>3
  <2>3. CASE x = <<"batch", x[2]>> /\ x[1] = "batch"
    <3>1. x[2] \in DOMAIN b2 /\ b2[x[2]].event = e
      BY <2>1, <2>3, AtPlace
    <3>2. x[2] \in Nat \ {0} /\ x[2] + 1 \in DOMAIN b /\ x[2] + 1 # 1 /\ b2[x[2]] = b[x[2] + 1]
      BY <1>1, <1>2, <3>1
    <3>3. h[x] = <<"batch", x[2] + 1>>
      BY <2>3
    <3>4. h[x] \in PlacesIn(q, b, e) /\ h[x] # <<"batch", 1>>
      BY <3>1, <3>2, <3>3, AtPlace
    <3>5. CountsIn(q2, b2, e)[x] = b2[x[2]].count /\ CountsIn(q, b, e)[h[x]] = b[x[2] + 1].count
      BY <2>1, <2>3, <3>3, <3>4, AtPlace
    <3>. QED BY <2>3, <3>2, <3>3, <3>4, <3>5
  <2>. QED BY <2>1, <2>2, <2>3, AtPlace
<1>4. h = [x \in B |-> h[x]]
  OBVIOUS
<1>. HIDE DEF h
<1>5. \A x \in B : h[x] \in A /\ CountsIn(q2, b2, e)[x] = CountsIn(q, b, e)[h[x]]
  BY <1>3
<1>6. ASSUME NEW x \in B, NEW y \in B, h[x] = h[y]
      PROVE  x = y
  <2>1. CASE x[1] = "queue" /\ y[1] = "queue"
    BY <1>3, <1>6, <2>1
  <2>2. CASE x[1] # "queue" /\ y[1] # "queue"
    <3>1. x[2] + 1 = y[2] + 1 /\ x[2] \in Nat /\ y[2] \in Nat
      BY <1>3, <1>6, <2>2
    <3>2. x[2] = y[2]
      BY <3>1
    <3>. QED BY <1>3, <2>2, <3>2
  <2>3. CASE x[1] = "queue" /\ y[1] # "queue"
    BY <1>3, <1>6, <2>3
  <2>4. CASE x[1] # "queue" /\ y[1] = "queue"
    BY <1>3, <1>6, <2>4
  <2>. QED BY <2>1, <2>2, <2>3, <2>4
<1>7. h \in Injection(B, A)
  BY <1>4, <1>5, <1>6 DEF Injection, IsInjective
<1>. QED BY <1>5, <1>7 DEF b2, Embeds

LEMMA TypesHere ==
  ASSUME TypeOK'
  PROVE  /\ arrived' \subseteq Events
         /\ queue' \in Seq(TaskOf(arrived')) /\ batch' \in Seq(TaskOf(arrived'))
         /\ retried' \in [Events -> 0..Cap]
BY DEF TypeOK, TaskOf

\* A task that changes no place: what the queue and the batch hold of the report
\* stays, or is less.
LEMMA FewLess ==
  ASSUME NEW e, Few(e), TypeOK, TypeOK', e \in Events, e \in arrived' \/ e \notin arrived,
         Cardinality(Paths(PlacesIn(queue', batch', e), CountsIn(queue', batch', e)))
           <= Cardinality(Paths(PlacesIn(queue, batch, e), CountsIn(queue, batch, e))),
         retried'[e] + Cardinality(Tries(PlacesIn(queue', batch', e), CountsIn(queue', batch', e)))
           <= retried[e] + Cardinality(Tries(PlacesIn(queue, batch, e), CountsIn(queue, batch, e)))
                + (BegunOn(e)' - BegunOn(e)),
         e \notin arrived' => retried'[e] = retried[e]
  PROVE  Few(e)'
<1>1. /\ retried[e] \in Nat /\ retried'[e] \in Nat
      /\ BegunOn(e) \in 0..1 /\ BegunOn(e)' \in 0..1 /\ Power \in Nat
  BY Types, TypesHere, PowerOf DEF BegunOn
<1>2. /\ Cardinality(Paths(PlacesIn(queue, batch, e), CountsIn(queue, batch, e))) \in Nat
      /\ Cardinality(Tries(PlacesIn(queue, batch, e), CountsIn(queue, batch, e))) \in Nat
  BY Types, PlacesTyped
<1>3. /\ Cardinality(Paths(PlacesIn(queue', batch', e), CountsIn(queue', batch', e))) \in Nat
      /\ Cardinality(Tries(PlacesIn(queue', batch', e), CountsIn(queue', batch', e))) \in Nat
  BY TypesHere, PlacesTyped
<1>4. Cardinality(Paths(PlacesIn(queue', batch', e), CountsIn(queue', batch', e))) <= Power
  BY <1>1, <1>2, <1>3 DEF Few
<1>5. retried'[e] + Cardinality(Tries(PlacesIn(queue', batch', e), CountsIn(queue', batch', e)))
        < Power + BegunOn(e)'
  BY <1>1, <1>2, <1>3 DEF Few
<1>6. e \notin arrived' => retried'[e] = 0
  BY DEF Few
<1>. QED BY <1>4, <1>5, <1>6 DEF Few

\* Steps that leave the tasks as they are.
LEMMA FewSame ==
  ASSUME NEW e, Few(e), UNCHANGED <<arrived, queue, batch, found, retried>>
  PROVE  Few(e)'
BY DEF Few, BegunOn

LEMMA FewAlike ==
  ASSUME NEW e \in Events, Few(e), TypeOK, TypeOK', UNCHANGED <<batch, found, retried>>,
         arrived \subseteq arrived',
         \A i : i \in DOMAIN queue' /\ queue'[i].event = e <=> i \in DOMAIN queue /\ queue[i].event = e,
         \A i \in DOMAIN queue' : queue'[i].event = e => queue'[i].count = queue[i].count
  PROVE  Few(e)'
<1>1. \A q2 : /\ \A i : i \in DOMAIN q2 /\ q2[i].event = e <=> i \in DOMAIN queue /\ queue[i].event = e
              /\ \A i \in DOMAIN q2 : q2[i].event = e => q2[i].count = queue[i].count
              => /\ PlacesIn(q2, batch, e) = PlacesIn(queue, batch, e)
                 /\ CountsIn(q2, batch, e) = CountsIn(queue, batch, e)
  BY PlacesAlike
<1>2. /\ PlacesIn(queue', batch', e) = PlacesIn(queue, batch, e)
      /\ CountsIn(queue', batch', e) = CountsIn(queue, batch, e)
  BY <1>1
<1>3. BegunOn(e)' = BegunOn(e)
  BY DEF BegunOn
<1>. QED BY <1>2, <1>3 DEF Few

LEMMA FewSecond ==
  ASSUME TypeOK, TypeOK', Second, NEW e \in Events, Few(e)
  PROVE  Few(e)'
<1>1. /\ queue' = [i \in DOMAIN queue |->
                     [queue[i] EXCEPT !.wait = IF @ > 0 THEN @ - 1 ELSE 0]]
      /\ UNCHANGED <<arrived, batch, found, retried>>
  BY DEF Second, thread, history
<1>2. \A i \in DOMAIN queue : queue[i] \in TaskOf(arrived)
  BY Types, TaskParts
<1>3. \A i \in DOMAIN queue : queue'[i].event = queue[i].event /\ queue'[i].count = queue[i].count
  BY <1>1, <1>2 DEF TaskOf
<1>4. DOMAIN queue' = DOMAIN queue
  BY <1>1
<1>. QED BY <1>1, <1>3, <1>4, FewAlike

\* A report that comes has no task yet, and gets one.
LEMMA FewReceived ==
  ASSUME TypeOK, TypeOK', NEW x \in Events, Receive(x), NEW e \in Events, Few(e)
  PROVE  Few(e)'
<1>1. /\ UNCHANGED <<batch, found, retried>> /\ x \notin arrived /\ arrived' = arrived \cup {x}
      /\ queue' = queue \/ queue' = Append(queue, Task(x, 0))
  BY DEF Receive, thread
<1>2. CASE queue' = queue
  BY <1>1, <1>2, FewAlike
<1>3. CASE queue' = Append(queue, Task(x, 0))
  <2>1. Task(x, 0) \in TaskOf(arrived') /\ Task(x, 0).event = x /\ Task(x, 0).count = 0
    <3>1. x \in arrived' /\ 0 \in 0..MAX_RETRY_COUNT
      BY <1>1, HookRetryAssumption
    <3>. QED BY <3>1, TaskMade
  <2>2. queue \in Seq(TaskOf(arrived)) /\ arrived \subseteq arrived'
    BY <1>1, Types
  <2>3. /\ Len(queue) \in Nat /\ DOMAIN queue = 1..Len(queue)
        /\ DOMAIN queue' = 1..(Len(queue) + 1)
        /\ \A i \in 1..Len(queue) : queue'[i] = queue[i]
        /\ queue'[Len(queue) + 1] = Task(x, 0)
    <3>1. queue \in Seq(TaskOf(arrived'))
      BY <2>2, MoreReports
    <3>. QED BY <1>3, <2>1, <3>1, TaskParts, Appended
  <2>4. CASE e # x
    <3>1. /\ \A i : i \in DOMAIN queue' /\ queue'[i].event = e <=> i \in DOMAIN queue /\ queue[i].event = e
          /\ \A i \in DOMAIN queue' : queue'[i].event = e => queue'[i].count = queue[i].count
      BY <2>1, <2>3, <2>4
    <3>. QED BY <1>1, <2>2, <3>1, FewAlike
  <2>5. CASE e = x
    <3>. DEFINE a == <<"queue", Len(queue) + 1>>
    <3>1. ~InQueue(e) /\ ~InBatch(e)
      BY <1>1, <2>5, NotYet
    <3>2. PlacesIn(queue', batch', e) = {a}
      <4>1. \A i : i \in DOMAIN queue' /\ queue'[i].event = e <=> i = Len(queue) + 1
        BY <2>1, <2>3, <2>5, <3>1 DEF InQueue
      <4>2. \A i : ~(i \in DOMAIN batch' /\ batch'[i].event = e)
        BY <1>1, <3>1 DEF InBatch
      <4>3. {i \in DOMAIN queue' : queue'[i].event = e} = {Len(queue) + 1}
        BY <4>1
      <4>4. {i \in DOMAIN batch' : batch'[i].event = e} = {}
        BY <4>2
      <4>5. PlacesIn(queue', batch', e) = ({"queue"} \X {Len(queue) + 1}) \cup ({"batch"} \X {})
        BY <4>3, <4>4 DEF PlacesIn
      <4>. QED BY <4>5
    <3>3. CountsIn(queue', batch', e)[a] = 0
      <4>1. CountsIn(queue', batch', e)[a] = queue'[Len(queue) + 1].count
        BY <3>2, AtPlace
      <4>. QED BY <2>1, <2>3, <4>1
    <3>4. CountsIn(queue', batch', e) \in Counting({a})
      BY <3>2, TypesHere, PlacesTyped
    <3>5. /\ Cardinality(Paths({a}, CountsIn(queue', batch', e))) <= Power
          /\ Cardinality(Tries({a}, CountsIn(queue', batch', e))) <= Power - 1
          /\ Cardinality(Tries({a}, CountsIn(queue', batch', e))) \in Nat
      <4>1. IsFiniteSet({a})
        BY FS_Singleton
      <4>. HIDE DEF a
      <4>. QED BY <3>3, <3>4, <4>1, TaskNew, PathsFinite
    <3>6. retried'[e] = 0 /\ e \in arrived'
      BY <1>1, <2>5 DEF Few
    <3>7. BegunOn(e)' \in 0..1 /\ Power \in Nat
      BY PowerOf DEF BegunOn
    <3>. HIDE DEF a
    <3>8. retried'[e] + Cardinality(Tries({a}, CountsIn(queue', batch', e))) < Power + BegunOn(e)'
      BY <3>5, <3>6, <3>7
    <3>. QED BY <3>2, <3>5, <3>6, <3>8 DEF Few
  <2>. QED BY <2>4, <2>5
<1>. QED BY <1>1, <1>2, <1>3

\* Tasks that are taken or go to the back of the queue change places only.
LEMMA FewDrained ==
  ASSUME TypeOK, TypeOK', Retriable, Drain, NEW e \in Events, Few(e)
  PROVE  Few(e)'
<1>1. /\ UNCHANGED <<arrived, found, retried>> /\ batch = <<>> /\ ~found
  BY Types DEF Drain, Retriable
<1>2. PICK n \in 0..Len(queue) :
        /\ counted' = [x \in Events |-> Capped(counted[x] + Dropped(SubSeq(queue, 1, n), x))]
        /\ queue' \in Seq(TaskOf(arrived)) /\ batch' \in Seq(TaskOf(arrived))
        /\ \E r \in [DOMAIN queue' -> (n + 1)..Len(queue)] :
             /\ \A i, j \in DOMAIN queue' : r[i] = r[j] => i = j
             /\ \A k \in (n + 1)..Len(queue) : \E i \in DOMAIN queue' : r[i] = k
             /\ \A i \in DOMAIN queue' : queue'[i] = queue[r[i]]
        /\ \E p \in [DOMAIN batch' -> 1..n] :
             /\ \A i, j \in DOMAIN batch' : p[i] = p[j] => i = j
             /\ \A k \in 1..n : queue[k].count < MAX_RETRY_COUNT =>
                                  \E i \in DOMAIN batch' : p[i] = k
             /\ \A i \in DOMAIN batch' : batch'[i] = queue[p[i]] /\ batch'[i].count < MAX_RETRY_COUNT
  BY Parted
<1>3. PICK r \in [DOMAIN queue' -> (n + 1)..Len(queue)] :
        /\ \A i, j \in DOMAIN queue' : r[i] = r[j] => i = j
        /\ \A i \in DOMAIN queue' : queue'[i] = queue[r[i]]
  BY <1>2
<1>4. PICK p \in [DOMAIN batch' -> 1..n] :
        /\ \A i, j \in DOMAIN batch' : p[i] = p[j] => i = j
        /\ \A i \in DOMAIN batch' : batch'[i] = queue[p[i]]
  BY <1>2
<1>5. /\ Len(queue) \in Nat /\ DOMAIN queue = 1..Len(queue)
      /\ queue \in Seq(TaskOf(arrived)) /\ batch \in Seq(TaskOf(arrived))
  BY Types, TaskParts
<1>6. /\ \A i \in DOMAIN queue' : r[i] \in (n + 1)..Len(queue) /\ r[i] \in DOMAIN queue
      /\ \A i \in DOMAIN batch' : p[i] \in 1..n /\ p[i] \in DOMAIN queue
      /\ \A i \in DOMAIN queue', j \in DOMAIN batch' : r[i] # p[j]
  BY <1>5
<1>7. PICK B, A, tally, count :
        /\ B = PlacesIn(queue', batch', e) /\ A = PlacesIn(queue, batch, e)
        /\ tally = CountsIn(queue', batch', e) /\ count = CountsIn(queue, batch, e)
  OBVIOUS
<1>8. PICK h : h = [x \in B |-> <<"queue", IF x[1] = "queue" THEN r[x[2]] ELSE p[x[2]]>>]
  OBVIOUS
<1>9. ASSUME NEW x \in B
      PROVE  /\ h[x] \in A /\ tally[x] = count[h[x]]
             /\ \/ /\ x = <<"queue", x[2]>> /\ x[1] = "queue" /\ x[2] \in DOMAIN queue'
                   /\ h[x] = <<"queue", r[x[2]]>>
                \/ /\ x = <<"batch", x[2]>> /\ x[1] = "batch" /\ x[2] \in DOMAIN batch'
                   /\ h[x] = <<"queue", p[x[2]]>>
  <2>1. CASE x = <<"queue", x[2]>> /\ x[1] = "queue"
    <3>1. x[2] \in DOMAIN queue' /\ queue'[x[2]].event = e /\ tally[x] = queue'[x[2]].count
      BY <1>7, <2>1, AtPlace
    <3>2. h[x] = <<"queue", r[x[2]]>>
      BY <1>8, <2>1
    <3>3. h[x] \in A
      BY <1>3, <1>6, <1>7, <3>1, <3>2, AtPlace
    <3>4. count[h[x]] = queue[r[x[2]]].count
      BY <1>7, <3>2, <3>3, AtPlace
    <3>. QED BY <1>3, <2>1, <3>1, <3>2, <3>3, <3>4
  <2>2. CASE x = <<"batch", x[2]>> /\ x[1] = "batch"
    <3>1. x[2] \in DOMAIN batch' /\ batch'[x[2]].event = e /\ tally[x] = batch'[x[2]].count
      BY <1>7, <2>2, AtPlace
    <3>2. h[x] = <<"queue", p[x[2]]>>
      BY <1>8, <2>2
    <3>3. h[x] \in A
      BY <1>4, <1>6, <1>7, <3>1, <3>2, AtPlace
    <3>4. count[h[x]] = queue[p[x[2]]].count
      BY <1>7, <3>2, <3>3, AtPlace
    <3>. QED BY <1>4, <2>2, <3>1, <3>2, <3>3, <3>4
  <2>. QED BY <1>7, <2>1, <2>2, AtPlace
<1>10. ASSUME NEW x \in B, NEW y \in B, h[x] = h[y]
       PROVE  x = y
  BY <1>3, <1>4, <1>6, <1>9, <1>10
<1>11. h \in Injection(B, A)
  BY <1>8, <1>9, <1>10 DEF Injection, IsInjective
<1>12. IsFiniteSet(A) /\ count \in Counting(A) /\ tally \in Counting(B)
  BY <1>5, <1>7, TypesHere, PlacesTyped
<1>13. /\ Cardinality(Paths(B, tally)) <= Cardinality(Paths(A, count))
       /\ Cardinality(Tries(B, tally)) <= Cardinality(Tries(A, count))
  BY <1>9, <1>11, <1>12, TasksMoved
<1>14. BegunOn(e) = 0 /\ BegunOn(e)' = 0
  BY <1>1 DEF BegunOn
<1>15. retried'[e] = retried[e] /\ retried[e] \in Nat
  BY <1>1, Types, PowerOf
<1>16. Cardinality(Tries(B, tally)) \in Nat /\ Cardinality(Tries(A, count)) \in Nat
  BY <1>5, <1>7, TypesHere, PlacesTyped
<1>17. retried'[e] + Cardinality(Tries(B, tally))
         <= retried[e] + Cardinality(Tries(A, count)) + (BegunOn(e)' - BegunOn(e))
  BY <1>13, <1>14, <1>15, <1>16
<1>. QED BY <1>1, <1>7, <1>13, <1>15, <1>17, FewLess

\* The first task of the batch leaves it: what is left of the others.
LEMMA OthersShift ==
  ASSUME TypeOK, batch # <<>>, batch' = Tail(batch), NEW e, NEW N,
         \A i \in DOMAIN queue' : /\ queue'[i].event = e /\ <<"queue", i>> \notin N
                                  => i \in DOMAIN queue /\ queue'[i] = queue[i]
  PROVE  Embeds(PlacesIn(queue', batch', e) \ N, CountsIn(queue', batch', e),
                PlacesIn(queue, batch, e) \ {<<"batch", 1>>}, CountsIn(queue, batch, e))
<1>1. queue \in Seq(TaskOf(arrived)) /\ batch \in Seq(TaskOf(arrived))
  BY Types
<1>2. PICK q2 : q2 = queue'
  OBVIOUS
<1>3. \A i \in DOMAIN q2 : /\ q2[i].event = e /\ <<"queue", i>> \notin N
                           => i \in DOMAIN queue /\ q2[i] = queue[i]
  BY <1>2
<1>4. Embeds(PlacesIn(q2, Tail(batch), e) \ N, CountsIn(q2, Tail(batch), e),
             PlacesIn(queue, batch, e) \ {<<"batch", 1>>}, CountsIn(queue, batch, e))
  BY <1>1, <1>3, ShiftedPlaces
<1>. QED BY <1>2, <1>4

\* It was not the report's.
LEMMA FewOthers ==
  ASSUME TypeOK, TypeOK', NEW e \in Events, Few(e), batch # <<>>, batch' = Tail(batch),
         UNCHANGED arrived, ~found', batch[1].event # e, retried'[e] = retried[e],
         \A i \in DOMAIN queue' : queue'[i].event = e => i \in DOMAIN queue /\ queue'[i] = queue[i]
  PROVE  Few(e)'
<1>1. PICK B, A, tally, count :
        /\ B = PlacesIn(queue', batch', e) /\ A = PlacesIn(queue, batch, e)
        /\ tally = CountsIn(queue', batch', e) /\ count = CountsIn(queue, batch, e)
  OBVIOUS
<1>2. <<"batch", 1>> \notin A
  BY <1>1, AtPlace
<1>3. Embeds(B \ {}, tally, A \ {<<"batch", 1>>}, count)
  BY <1>1, OthersShift
<1>4. B \ {} = B /\ A \ {<<"batch", 1>>} = A
  BY <1>2
<1>5. PICK h \in Injection(B, A) : \A x \in B : tally[x] = count[h[x]]
  BY <1>3, <1>4 DEF Embeds
<1>6. IsFiniteSet(A) /\ count \in Counting(A) /\ tally \in Counting(B)
  BY <1>1, Types, TypesHere, PlacesTyped
<1>7. /\ Cardinality(Paths(B, tally)) <= Cardinality(Paths(A, count))
      /\ Cardinality(Tries(B, tally)) <= Cardinality(Tries(A, count))
  BY <1>5, <1>6, TasksMoved
<1>8. BegunOn(e) = 0 /\ BegunOn(e)' = 0
  BY DEF BegunOn
<1>9. retried[e] \in Nat
  BY Types, PowerOf
<1>10. Cardinality(Tries(B, tally)) \in Nat /\ Cardinality(Tries(A, count)) \in Nat
  BY <1>1, Types, TypesHere, PlacesTyped
<1>11. retried'[e] + Cardinality(Tries(B, tally))
         <= retried[e] + Cardinality(Tries(A, count)) + (BegunOn(e)' - BegunOn(e))
  BY <1>7, <1>8, <1>9, <1>10
<1>. QED BY <1>1, <1>7, <1>11, FewLess

\* A retry that finds the stream has begun.
LEMMA FewBegun ==
  ASSUME TypeOK, TypeOK', NEW e \in Events, Few(e), batch # <<>>,
         UNCHANGED <<arrived, queue, batch>>, ~found, found', retried' = Bumped(retried, batch[1].event),
         batch[1].event \in Events
  PROVE  Few(e)'
<1>1. /\ Cardinality(Paths(PlacesIn(queue, batch, e), CountsIn(queue, batch, e))) \in Nat
      /\ Cardinality(Tries(PlacesIn(queue, batch, e), CountsIn(queue, batch, e))) \in Nat
  BY Types, PlacesTyped
<1>2. retried \in [Events -> 0..Cap] /\ retried[e] \in Nat /\ retried'[e] \in Nat /\ Power \in Nat
  BY Types, TypesHere, PowerOf
<1>3. CASE batch[1].event = e
  <2>1. BegunOn(e) = 0 /\ BegunOn(e)' = 1
    BY <1>3 DEF BegunOn
  <2>2. retried'[e] <= retried[e] + 1
    BY <1>2, <1>3, Bumping
  <2>3. e \in arrived'
    BY <1>3, Types, FirstRest DEF TaskOf
  <2>4. retried'[e] + Cardinality(Tries(PlacesIn(queue, batch, e), CountsIn(queue, batch, e)))
          < Power + 1
    BY <1>1, <1>2, <2>1, <2>2 DEF Few
  <2>. QED BY <2>1, <2>3, <2>4 DEF Few
<1>4. CASE batch[1].event # e
  <2>1. BegunOn(e) = 0 /\ BegunOn(e)' = 0
    BY <1>4 DEF BegunOn
  <2>2. retried'[e] = retried[e]
    BY <1>2, <1>4, Bumping
  <2>. QED BY <2>1, <2>2 DEF Few
<1>. QED BY <1>3, <1>4

\* One that does not puts the task back, twice.
LEMMA FewDoubled ==
  ASSUME TypeOK, TypeOK', Retriable, NEW e \in NoneReaders, Few(e), batch # <<>>, batch[1].event = e,
         batch' = Tail(batch), queue' = queue \o PutBack(batch[1]), ~found, ~found',
         UNCHANGED arrived, retried' = Bumped(retried, e)
  PROVE  Few(e)'
<1>1. PICK B, A, tally, count :
        /\ B = PlacesIn(queue', batch', e) /\ A = PlacesIn(queue, batch, e)
        /\ tally = CountsIn(queue', batch', e) /\ count = CountsIn(queue, batch, e)
  OBVIOUS
<1>2. /\ queue \in Seq(TaskOf(arrived)) /\ batch \in Seq(TaskOf(arrived))
      /\ Len(queue) \in Nat /\ DOMAIN queue = 1..Len(queue)
      /\ 1 \in DOMAIN batch /\ batch[1] \in TaskOf(arrived) /\ batch[1].count < MAX_RETRY_COUNT
      /\ e \in Events /\ e \in arrived
  <2>1. queue \in Seq(TaskOf(arrived)) /\ batch \in Seq(TaskOf(arrived))
    BY Types
  <2>2. 1 \in DOMAIN batch /\ batch[1] \in TaskOf(arrived)
    BY <2>1, FirstRest
  <2>3. e \in arrived
    BY <2>2 DEF TaskOf
  <2>. QED BY <2>1, <2>2, <2>3, TaskParts DEF Retriable, NoneReaders
<1>. DEFINE t == Again(batch[1])
            a == <<"batch", 1>>
            b1 == <<"queue", Len(queue) + 1>>
            b2 == <<"queue", Len(queue) + 2>>
<1>3. t \in TaskOf(arrived) /\ t.event = e /\ t.count = batch[1].count + 1
  <2>1. e \in arrived /\ batch[1].count + 1 \in 0..MAX_RETRY_COUNT
    BY <1>2, HookRetryAssumption DEF TaskOf
  <2>. QED BY <2>1, TaskMade DEF Again
<1>4. PutBack(batch[1]) = <<t, t>>
  BY DEF PutBack, NoneReaders
<1>. HIDE DEF t
<1>5. /\ DOMAIN queue' = 1..(Len(queue) + 2)
      /\ \A i \in 1..Len(queue) : queue'[i] = queue[i]
      /\ queue'[Len(queue) + 1] = t /\ queue'[Len(queue) + 2] = t
  <2>1. <<t, t>> \in Seq(TaskOf(arrived)) /\ Len(<<t, t>>) = 2 /\ <<t, t>>[1] = t /\ <<t, t>>[2] = t
    BY <1>3
  <2>2. /\ queue' \in Seq(TaskOf(arrived)) /\ Len(queue') = Len(queue) + 2
        /\ \A i \in 1..(Len(queue) + 2) :
             queue'[i] = IF i <= Len(queue) THEN queue[i] ELSE <<t, t>>[i - Len(queue)]
    BY <1>2, <1>4, <2>1, ConcatProperties
  <2>3. DOMAIN queue' = 1..(Len(queue) + 2)
    BY <2>2, LenProperties
  <2>4. \A i \in 1..Len(queue) : queue'[i] = queue[i]
    BY <1>2, <2>2
  <2>5. /\ Len(queue) + 1 \in 1..(Len(queue) + 2) /\ ~(Len(queue) + 1 <= Len(queue))
        /\ (Len(queue) + 1) - Len(queue) = 1
    BY <1>2
  <2>6. queue'[Len(queue) + 1] = <<t, t>>[(Len(queue) + 1) - Len(queue)]
    BY <2>2, <2>5
  <2>7. /\ Len(queue) + 2 \in 1..(Len(queue) + 2) /\ ~(Len(queue) + 2 <= Len(queue))
        /\ (Len(queue) + 2) - Len(queue) = 2
    BY <1>2
  <2>8. queue'[Len(queue) + 2] = <<t, t>>[(Len(queue) + 2) - Len(queue)]
    BY <2>2, <2>7
  <2>9. queue'[Len(queue) + 1] = t
    BY <2>1, <2>5, <2>6
  <2>10. queue'[Len(queue) + 2] = t
    BY <2>1, <2>7, <2>8
  <2>. QED BY <2>3, <2>4, <2>9, <2>10
<1>6. Len(queue) + 1 \in DOMAIN queue' /\ Len(queue) + 2 \in DOMAIN queue'
      /\ Len(queue) + 1 # Len(queue) + 2
      /\ \A i \in DOMAIN queue' : i \in DOMAIN queue \/ i = Len(queue) + 1 \/ i = Len(queue) + 2
  <2>1. \A n \in Nat : /\ n + 1 \in 1..(n + 2) /\ n + 2 \in 1..(n + 2) /\ n + 1 # n + 2
                       /\ \A i \in 1..(n + 2) : i \in 1..n \/ i = n + 1 \/ i = n + 2
    OBVIOUS
  <2>. QED BY <1>2, <1>5, <2>1
<1>7. /\ a \in A /\ count[a] = batch[1].count
      /\ b1 \in B /\ b2 \in B /\ b1 # b2
      /\ tally[b1] = count[a] + 1 /\ tally[b2] = count[a] + 1
  <2>1. a \in A /\ count[a] = batch[1].count
    BY <1>1, <1>2, AtPlace
  <2>2. /\ \A i : <<"queue", i>> \in B <=> i \in DOMAIN queue' /\ queue'[i].event = e
        /\ \A i : <<"queue", i>> \in B => tally[<<"queue", i>>] = queue'[i].count
    <3>1. PICK q, b : q = queue' /\ b = batch'
      OBVIOUS
    <3>2. B = PlacesIn(q, b, e) /\ tally = CountsIn(q, b, e)
      BY <1>1, <3>1
    <3>3. ASSUME NEW i
          PROVE  <<"queue", i>> \in B <=> i \in DOMAIN q /\ q[i].event = e
      BY <3>2, AtPlace
    <3>4. \A i : <<"queue", i>> \in B => tally[<<"queue", i>>] = q[i].count
      BY <3>2, AtPlace
    <3>. QED BY <3>1, <3>3, <3>4
  <2>3. b1 \in B /\ b2 \in B /\ b1 # b2
    BY <1>3, <1>5, <1>6, <2>2
  <2>4. tally[b1] = t.count /\ tally[b2] = t.count
    BY <1>5, <2>2, <2>3
  <2>. QED BY <1>3, <2>1, <2>3, <2>4
<1>8. \A i \in DOMAIN queue' : /\ queue'[i].event = e /\ <<"queue", i>> \notin {b1, b2}
                               => i \in DOMAIN queue /\ queue'[i] = queue[i]
  BY <1>2, <1>5, <1>6
<1>. HIDE DEF a, b1, b2
<1>9. PICK h \in Injection(B \ {b1, b2}, A \ {a}) : \A x \in B \ {b1, b2} : tally[x] = count[h[x]]
  <2>1. Embeds(B \ {b1, b2}, tally, A \ {<<"batch", 1>>}, count)
    BY <1>1, <1>8, OthersShift
  <2>. QED BY <2>1 DEF a, Embeds
<1>10. IsFiniteSet(A) /\ count \in Counting(A) /\ IsFiniteSet(B) /\ tally \in Counting(B)
  BY <1>1, <1>2, TypesHere, PlacesTyped
<1>11. /\ Cardinality(Paths(B, tally)) <= Cardinality(Paths(A, count))
       /\ Cardinality(Tries(B, tally)) <= Cardinality(Tries(A, count)) - 1
  <2>1. count[a] < MAX_RETRY_COUNT
    BY <1>2, <1>7
  <2>. QED BY <1>7, <1>9, <1>10, <2>1, TaskDoubled
<1>12. BegunOn(e) = 0 /\ BegunOn(e)' = 0
  BY DEF BegunOn
<1>13. retried'[e] <= retried[e] + 1 /\ retried[e] \in Nat /\ retried'[e] \in Nat
  <2>1. retried \in [Events -> 0..Cap] /\ retried' \in [Events -> 0..Cap] /\ Cap \in Nat
    BY Types, TypesHere, PowerOf
  <2>2. retried'[e] <= retried[e] + 1
    BY <1>2, <2>1, Bumping
  <2>. QED BY <1>2, <2>1, <2>2
<1>14. Cardinality(Tries(B, tally)) \in Nat /\ Cardinality(Tries(A, count)) \in Nat
  BY <1>10, PathsFinite
<1>15. retried'[e] + Cardinality(Tries(B, tally))
         <= retried[e] + Cardinality(Tries(A, count)) + (BegunOn(e)' - BegunOn(e))
  BY <1>11, <1>12, <1>13, <1>14
<1>. QED BY <1>1, <1>2, <1>11, <1>15, FewLess

\* A retry that has begun is over, and its task with it.
LEMMA FewApplied ==
  ASSUME TypeOK, TypeOK', Retriable, NEW e \in Events, Few(e), batch # <<>>, batch[1].event = e,
         batch' = Tail(batch), UNCHANGED <<arrived, queue, retried>>, found, ~found'
  PROVE  Few(e)'
<1>1. PICK B, A, tally, count :
        /\ B = PlacesIn(queue', batch', e) /\ A = PlacesIn(queue, batch, e)
        /\ tally = CountsIn(queue', batch', e) /\ count = CountsIn(queue, batch, e)
  OBVIOUS
<1>2. /\ queue \in Seq(TaskOf(arrived)) /\ batch \in Seq(TaskOf(arrived))
      /\ 1 \in DOMAIN batch /\ batch[1].count < MAX_RETRY_COUNT
  BY Types, FirstRest DEF Retriable
<1>. DEFINE a == <<"batch", 1>>
<1>3. a \in A /\ count[a] < MAX_RETRY_COUNT
  BY <1>1, <1>2, AtPlace
<1>4. Embeds(B \ {}, tally, A \ {a}, count)
  BY <1>1, OthersShift
<1>. HIDE DEF a
<1>5. B \ {} = B
  OBVIOUS
<1>6. PICK h \in Injection(B, A \ {a}) : \A x \in B : tally[x] = count[h[x]]
  BY <1>4, <1>5 DEF Embeds
<1>7. IsFiniteSet(A) /\ count \in Counting(A) /\ tally \in Counting(B)
  BY <1>1, <1>2, TypesHere, PlacesTyped
<1>8. /\ Cardinality(Paths(B, tally)) <= Cardinality(Paths(A, count))
      /\ Cardinality(Tries(B, tally)) <= Cardinality(Tries(A, count)) - 1
  BY <1>3, <1>6, <1>7, TaskGone
<1>9. BegunOn(e) = 1 /\ BegunOn(e)' = 0
  BY DEF BegunOn
<1>10. retried'[e] = retried[e] /\ retried[e] \in Nat
  BY Types, PowerOf
<1>11. Cardinality(Tries(B, tally)) \in Nat /\ Cardinality(Tries(A, count)) \in Nat
  BY <1>1, <1>2, TypesHere, PlacesTyped
<1>12. retried'[e] + Cardinality(Tries(B, tally))
         <= retried[e] + Cardinality(Tries(A, count)) + (BegunOn(e)' - BegunOn(e))
  BY <1>8, <1>9, <1>10, <1>11
<1>. QED BY <1>1, <1>8, <1>10, <1>12, FewLess

\* Someone else's task is put back.
LEMMA FewPutBack ==
  ASSUME TypeOK, TypeOK', NEW e \in Events, Few(e), batch # <<>>, batch' = Tail(batch),
         UNCHANGED arrived, ~found', batch[1].event # e, retried'[e] = retried[e],
         batch[1] \in TaskOf(arrived), batch[1].count < MAX_RETRY_COUNT,
         queue' = queue \o PutBack(batch[1])
  PROVE  Few(e)'
<1>1. /\ PutBack(batch[1]) \in Seq(TaskOf(arrived)) /\ Len(PutBack(batch[1])) \in 1..2
      /\ \A i \in 1..Len(PutBack(batch[1])) : PutBack(batch[1])[i] = Again(batch[1])
      /\ Again(batch[1]).event = batch[1].event
  BY PutBacks
<1>2. queue \in Seq(TaskOf(arrived)) /\ Len(queue) \in Nat /\ DOMAIN queue = 1..Len(queue)
  BY Types, TaskParts
<1>3. /\ queue' \in Seq(TaskOf(arrived))
      /\ Len(queue') = Len(queue) + Len(PutBack(batch[1]))
      /\ \A i \in 1..(Len(queue) + Len(PutBack(batch[1]))) :
           queue'[i] = IF i <= Len(queue) THEN queue[i] ELSE PutBack(batch[1])[i - Len(queue)]
  BY <1>1, <1>2, ConcatProperties
<1>4. DOMAIN queue' = 1..(Len(queue) + Len(PutBack(batch[1])))
  BY <1>3, LenProperties
<1>5. \A i \in DOMAIN queue' : i > Len(queue) => i - Len(queue) \in 1..Len(PutBack(batch[1]))
  BY <1>1, <1>2, <1>4
<1>6. \A i \in DOMAIN queue' : queue'[i].event = e => i \in DOMAIN queue /\ queue'[i] = queue[i]
  BY <1>1, <1>2, <1>3, <1>4, <1>5
<1>. QED BY <1>6, FewOthers

LEMMA FewRetried ==
  ASSUME IInv, TypeOK', Retry \/ RetryApply \/ RetryThrows, NEW e \in NoneReaders, Few(e)
  PROVE  Few(e)'
<1>1. e \in Events /\ TypeOK /\ Retriable /\ found \in BOOLEAN
  BY DEF NoneReaders, IInv, TypeOK
<1>2. batch # <<>> /\ UNCHANGED arrived
  BY <1>1 DEF Retry, RetryApply, RetryThrows, TypeOK
<1>3. Head(batch) = batch[1] /\ batch[1].event \in Events /\ batch[1] \in TaskOf(arrived)
      /\ batch[1].count < MAX_RETRY_COUNT
  BY <1>1, <1>2, Types, FirstRest DEF TaskOf, Retriable
<1>4. CASE Retry
  <2>1. ~found /\ retried' = Bumped(retried, batch[1].event)
        /\ \/ found' = TRUE /\ UNCHANGED <<queue, batch>>
           \/ /\ queue' = queue \o PutBack(batch[1]) /\ batch' = Tail(batch)
              /\ found' = found
    BY <1>3, <1>4 DEF Retry
  <2>2. CASE found' = TRUE /\ UNCHANGED <<queue, batch>>
    BY <1>1, <1>2, <1>3, <2>1, <2>2, FewBegun
  <2>3. CASE queue' = queue \o PutBack(batch[1]) /\ batch' = Tail(batch) /\ found' = found
    <3>1. CASE batch[1].event = e
      BY <1>1, <1>2, <2>1, <2>3, <3>1, FewDoubled
    <3>2. CASE batch[1].event # e
      <4>1. retried'[e] = retried[e]
        BY <1>1, <1>3, <2>1, <3>2, Types, Bumping
      <4>. QED BY <1>1, <1>2, <1>3, <2>1, <2>3, <3>2, <4>1, FewPutBack
    <3>. QED BY <3>1, <3>2
  <2>. QED BY <2>1, <2>2, <2>3
<1>5. CASE RetryApply
  <2>1. found /\ ~found' /\ batch' = Tail(batch) /\ UNCHANGED <<queue, retried>>
    BY <1>5 DEF RetryApply
  <2>2. CASE batch[1].event = e
    BY <1>1, <1>2, <2>1, <2>2, FewApplied
  <2>3. CASE batch[1].event # e
    BY <1>1, <1>2, <2>1, <2>3, FewOthers
  <2>. QED BY <2>2, <2>3
<1>6. CASE RetryThrows
  <2>1. /\ batch[1].event.kind = "changed" /\ ~found' /\ batch' = Tail(batch)
        /\ UNCHANGED retried /\ queue' = queue \o PutBack(batch[1])
    BY <1>3, <1>6 DEF RetryThrows
  <2>2. batch[1].event # e
    BY <2>1 DEF NoneReaders
  <2>. QED BY <1>1, <1>2, <1>3, <2>1, <2>2, FewPutBack
<1>. QED BY <1>4, <1>5, <1>6


LEMMA DoublingHolds ==
  ASSUME IInv, IInv', Doubling, [Next]_vars
  PROVE  Doubling'
<1>1. TypeOK /\ TypeOK' /\ Retriable
  BY DEF IInv
<1>2. SUFFICES ASSUME NEW e \in NoneReaders
               PROVE  Few(e)'
  BY DEF Doubling, NoneReaders
<1>3. e \in Events /\ Few(e)
  BY DEF Doubling, NoneReaders
<1>4. CASE \/ Register \/ UnregisterStream \/ \E ok \in BOOLEAN : CreateResult(ok)
           \/ \E x \in Events : Apply(x) \/ ApplyThrows(x)
           \/ Test \/ BatchDone \/ Stop \/ UNCHANGED vars
  <2>1. UNCHANGED <<arrived, queue, batch, found, retried>>
    BY <1>4 DEF Register, UnregisterStream, CreateResult, Apply, ApplyThrows, Test, BatchDone,
                Stop, vars, thread, history
  <2>. QED BY <1>3, <2>1, FewSame
<1>5. CASE \E x \in Events : Receive(x) \/ ReceiveThrows(x)
  <2>1. ASSUME NEW x \in Events, ReceiveThrows(x)
        PROVE  Few(e)'
    <3>1. UNCHANGED <<queue, batch, found, retried>> /\ arrived' = arrived \cup {x}
      BY <2>1 DEF ReceiveThrows, thread
    <3>. QED BY <1>1, <1>3, <3>1, FewAlike
  <2>. QED BY <1>1, <1>3, <1>5, <2>1, FewReceived
<1>6. CASE Second
  BY <1>1, <1>3, <1>6, FewSecond
<1>7. CASE Drain
  BY <1>1, <1>3, <1>7, FewDrained
<1>8. CASE Retry \/ RetryApply \/ RetryThrows
  BY <1>1, <1>3, <1>8, FewRetried
<1>. QED BY <1>4, <1>5, <1>6, <1>7, <1>8 DEF Next, RetryThread

LEMMA DoublingInit == Init => Doubling
<1>. SUFFICES ASSUME Init, NEW e \in NoneReaders
              PROVE  Few(e)
  BY DEF Doubling
<1>1. queue = <<>> /\ batch = <<>> /\ ~found /\ e \in Events /\ retried[e] = 0
  BY DEF Init, NoneReaders
<1>2. PlacesIn(queue, batch, e) = {}
  BY <1>1 DEF PlacesIn
<1>3. \A count : Paths({}, count) = {} /\ Tries({}, count) = {}
  BY DEF Paths, Tries
<1>4. BegunOn(e) = 0
  BY <1>1 DEF BegunOn
<1>5. Cardinality({}) = 0 /\ 0 <= Power /\ 0 + 0 < Power + 0
  BY PowerOf, FS_EmptySet
<1>. QED BY <1>1, <1>2, <1>3, <1>4, <1>5 DEF Few

\* Its tasks are no more than their paths.
LEMMA TasksFew ==
  ASSUME TypeOK, NEW e \in Events, Few(e)
  PROVE  Cardinality(Tasks(e)) <= Power
<1>1. PICK A, count : A = PlacesIn(queue, batch, e) /\ count = CountsIn(queue, batch, e)
  OBVIOUS
<1>2. /\ IsFiniteSet(Paths(A, count)) /\ Cardinality(Paths(A, count)) \in Nat
      /\ Cardinality(Paths(A, count)) <= Power /\ Power \in Nat
  BY <1>1, Types, PlacesTyped, PathsFinite, PowerOf DEF Few
<1>3. PICK g : g = [i \in Tasks(e) |-> <<<<"queue", i>>, {}>>]
  OBVIOUS
<1>4. \A i \in Tasks(e) : g[i] = <<<<"queue", i>>, {}>> /\ <<"queue", i>> \in A
  BY <1>1, <1>3, AtPlace DEF Tasks
<1>5. \A i \in Tasks(e) : g[i] \in Paths(A, count)
  BY <1>4, OnePath
<1>6. g \in Injection(Tasks(e), Paths(A, count))
  BY <1>3, <1>4, <1>5 DEF Injection, IsInjective
<1>7. IsFiniteSet(Tasks(e)) /\ Cardinality(Tasks(e)) <= Cardinality(Paths(A, count))
  BY <1>2, <1>6, FS_Injection
<1>8. Cardinality(Tasks(e)) \in Nat
  BY <1>7, FS_CardinalityType
<1>. QED BY <1>2, <1>7, <1>8

\* The retry that has begun was the task's own.
LEMMA RetriesFew ==
  ASSUME TypeOK, Retriable, NEW e \in Events, Few(e)
  PROVE  retried[e] < Power
<1>1. PICK A, count : A = PlacesIn(queue, batch, e) /\ count = CountsIn(queue, batch, e)
  OBVIOUS
<1>2. /\ IsFiniteSet(Tries(A, count)) /\ Cardinality(Tries(A, count)) \in Nat /\ Power \in Nat
      /\ retried[e] \in Nat /\ retried[e] + Cardinality(Tries(A, count)) < Power + BegunOn(e)
  BY <1>1, Types, PlacesTyped, PathsFinite, PowerOf DEF Few
<1>3. CASE BegunOn(e) = 0
  BY <1>2, <1>3
<1>4. CASE BegunOn(e) # 0
  <2>1. BegunOn(e) = 1 /\ found /\ batch[1].event = e
    BY <1>4 DEF BegunOn
  <2>2. batch # <<>> /\ batch \in Seq(TaskOf(arrived))
    BY <2>1, Types
  <2>3. 1 \in DOMAIN batch /\ batch[1].count < MAX_RETRY_COUNT /\ batch[1].count \in Nat
    BY <2>2, FirstRest, TaskParts DEF Retriable
  <2>4. <<"batch", 1>> \in A /\ count[<<"batch", 1>>] = batch[1].count
    BY <1>1, <2>1, <2>3, AtPlace
  <2>5. {MAX_RETRY_COUNT} \subseteq (batch[1].count + 1)..MAX_RETRY_COUNT
        /\ {MAX_RETRY_COUNT} \in SUBSET (1..MAX_RETRY_COUNT)
    BY <2>3, HookRetryAssumption
  <2>6. <<<<"batch", 1>>, {MAX_RETRY_COUNT}>> \in Paths(A, count)
    BY <2>4, <2>5, OnePath
  <2>7. Tries(A, count) # {}
    BY <2>6 DEF Tries
  <2>8. Cardinality(Tries(A, count)) # 0
    BY <1>2, <2>7, FS_EmptySet
  <2>. QED BY <1>2, <2>1, <2>8
<1>. QED BY <1>3, <1>4

-----------------------------------------------------------------------------
(* The theorems.                                                           *)

LEMMA InitHolds == Init => IInv
<1>. SUFFICES ASSUME Init
              PROVE  IInv
  OBVIOUS
<1>1. /\ arrived = {} /\ checked = {} /\ queue = <<>> /\ batch = <<>> /\ ~found
      /\ retried = [e \in Events |-> 0] /\ counted = [e \in Events |-> 0]
      /\ applied = [e \in Events |-> 0] /\ pc = "test" /\ MAX_RETRY_COUNT \in Nat
      /\ entry = NoEntry /\ running = TRUE /\ found = FALSE /\ thrown = {}
  BY HookRetryAssumption DEF Init
<1>2. TypeOK
  <2>1. entry \in [status : Statuses, readers : 0..1]
    BY <1>1 DEF NoEntry, Statuses
  <2>2. <<>> \in Seq(TaskOf({})) /\ 0 \in 0..Cap
    BY PowerOf
  <2>. QED BY <1>1, <2>1, <2>2, Types
<1>3. Retriable
  BY <1>1 DEF Retriable
<1>4. ASSUME NEW e \in Changed
      PROVE  Once(e)
  <2>1. e \in Events /\ DOMAIN queue = {} /\ DOMAIN batch = {}
    BY <1>1 DEF Changed
  <2>2. retried[e] = 0 /\ counted[e] = 0 /\ applied[e] = 0
    BY <1>1, <2>1
  <2>. QED BY <1>1, <2>1, <2>2 DEF Once, OnePlace, Counts, Done, Waits, InQueue, InBatch
<1>. QED BY <1>2, <1>3, <1>4 DEF IInv

LEMMA Inductive == IInv /\ [Next]_vars => IInv'
<1>. SUFFICES ASSUME IInv, [Next]_vars
              PROVE  IInv'
  OBVIOUS
<1>1. CASE Register \/ UnregisterStream \/ \E ok \in BOOLEAN : CreateResult(ok)
  BY <1>1, RegistryStep
<1>2. CASE \E e \in Events : Receive(e) \/ ReceiveThrows(e) \/ Apply(e) \/ ApplyThrows(e)
  BY <1>2, ReceiveStep, ReceiveThrowsStep, ApplyStep
<1>3. CASE Second
  BY <1>3, SecondStep
<1>4. CASE RetryThread
  BY <1>4, ThreadStep, DrainStep, RetryStep, RetryApplyStep, RetryThrowsStep DEF RetryThread
<1>5. CASE Stop
  BY <1>5, ThreadStep
<1>6. CASE UNCHANGED vars
  <2>1. UNCHANGED <<entry, arrived, checked, queue, batch, found, pc, running,
                    retried, counted, applied, thrown>>
    BY <1>6 DEF vars, thread, history
  <2>2. TypeOK' /\ Retriable'
    BY <2>1 DEF IInv, TypeOK, Retriable
  <2>3. ASSUME NEW e \in Changed
        PROVE  Once(e)'
    BY <2>1, Same DEF IInv
  <2>. QED BY <2>2, <2>3 DEF IInv, Changed
<1>. QED BY <1>1, <1>2, <1>3, <1>4, <1>5, <1>6 DEF Next

THEOREM Invariance == Spec => []IInv
BY InitHolds, Inductive, PTL DEF Spec

\* Whatever reports come and however often they are retried, the queue and the
\* batch hold tasks of reports that have come, and no task's count passes
\* MAX_RETRY_COUNT (hook_handler.cpp).
THEOREM TypeCorrect == Spec => []TypeOK
<1>1. IInv => TypeOK
  BY DEF IInv
<1>. QED BY <1>1, Invariance, PTL

\* For any reports, any limit and any interleaving of handlers, retries and the
\* registry, a stream_changed report is tried again within the limit and counted at
\* most once, when it is done with; it is counted, and applied at most once, unless
\* something was thrown in its processing, which the code catches and forgets.
THEOREM ChangedIsCountedOnce == Spec => []ChangedOnce
<1>1. IInv => ChangedOnce
  <2>. SUFFICES ASSUME IInv, NEW e \in arrived, e.kind = "changed"
                PROVE  /\ retried[e] <= MAX_RETRY_COUNT
                       /\ counted[e] <= IF Pending(e) THEN 0 ELSE 1
                       /\ e \notin thrown => applied[e] <= 1 /\ (Pending(e) \/ counted[e] = 1)
    BY DEF ChangedOnce
  <2>1. e \in Changed /\ applied[e] \in Nat
    BY Types, PowerOf DEF IInv, Changed
  <2>2. Once(e)
    BY <2>1 DEF IInv
  <2>3. Pending(e) <=> Waits(e)
    <3>1. Tasks(e) # {} <=> InQueue(e)
      BY DEF Tasks, InQueue
    <3>. QED BY <3>1 DEF Pending, Waits, InBatch
  <2>. QED BY <2>1, <2>2, <2>3 DEF Once, Done
<1>. QED BY <1>1, Invariance, PTL

\* A stream_none_reader report, whose task comes back as two after each retry that
\* does not find the stream, is tried less than 2^MAX_RETRY_COUNT times, and has at
\* most as many tasks, for any limit and any interleaving (RetryThreadLoop).
THEOREM NoneReaderEnds == Spec => []NoneReaderBounded
<1>1. Spec => []Doubling
  BY DoublingInit, DoublingHolds, Invariance, PTL DEF Spec
<1>2. IInv /\ Doubling => NoneReaderBounded
  <2>. SUFFICES ASSUME IInv, Doubling, NEW e \in arrived, e.kind = "none_reader"
                PROVE  retried[e] < Power /\ Cardinality(Tasks(e)) <= Power
    BY DEF NoneReaderBounded, Power
  <2>1. TypeOK /\ Retriable /\ e \in Events /\ Few(e)
    BY Types DEF IInv, Doubling, NoneReaders
  <2>. QED BY <2>1, TasksFew, RetriesFew
<1>. QED BY <1>1, <1>2, Invariance, PTL
=============================================================================
