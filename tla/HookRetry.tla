------------------------------ MODULE HookRetry ------------------------------
(***************************************************************************)
(* The hook handler (api/handlers/hook_handler.cpp): what ZLMediaKit       *)
(* reports of streams, and the thread that tries again with the reports of *)
(* streams the registry does not know yet.                                 *)
(*                                                                         *)
(* A report is taken by a thread of the HTTP server: it looks the stream   *)
(* up and, in a second critical section, updates it; the registry may      *)
(* change in between.  A report of an unknown stream the gateway is likely *)
(* to have started goes into the retry queue.  Every 100 ms the retry      *)
(* thread takes the tasks that are due from the front of the queue and     *)
(* tries them one by one.                                                  *)
(*                                                                         *)
(* One stream is modelled.  ZLMediaKit calls it by its name, by its name   *)
(* and a time stamp (GB28181), or by a name the gateway takes for someone  *)
(* else's ("external").  One tick is a second.  The registry's own clocks  *)
(* are not modelled: where they decide, either may happen.  alive stands   *)
(* for effective_alive.                                                    *)
(*                                                                         *)
(* ProcessStreamChanged catches what is thrown in it, be it at a field of  *)
(* the body that has another type or in the registry, and says false, as   *)
(* it does of a report it has put off: nobody counts such a report, and    *)
(* only the retry thread tries it again.  The other handlers count what    *)
(* they catch.  The retry of stream_none_reader catches nothing, and what  *)
(* is thrown there ends the program; it is left out.                       *)
(***************************************************************************)
EXTENDS Naturals, FiniteSets, Sequences, RegistryView

CONSTANTS
  Events,          (* reports: kind, name, regist, alive, readers           *)
  MAX_RETRY_COUNT

ASSUME HookRetryAssumption ==
  /\ MAX_RETRY_COUNT \in Nat
  /\ \A e \in Events : /\ e.kind \in {"changed", "none_reader", "play", "publish"}
                       /\ e.name \in {"plain", "stamped", "external"}
                       /\ e.regist \in BOOLEAN /\ e.alive \in BOOLEAN
                       /\ e.readers \in 0..1

VARIABLES
  entry,     (* the stream in the registry                                  *)
  arrived,   (* reports that have come                                      *)
  checked,   (* reports whose handler has found the stream                  *)
  queue,     (* retry_queue_: report, retry_count, seconds until it is due  *)
  batch,     (* tasks_to_retry                                              *)
  found,     (* the retry thread has found the stream of the first of batch *)
  pc,        (* of the retry thread                                         *)
  running,   (* retry_running_                                              *)
  retried,   (* history: retries of each report                             *)
  counted,   (* history: times it went into success_count or failed_count   *)
  applied,   (* history: times it changed the registry                      *)
  thrown     (* history: those in whose ProcessStreamChanged it threw       *)

thread  == <<batch, found, pc>>
history == <<retried, counted, applied, thrown>>
vars    == <<entry, arrived, checked, queue, thread, running, history>>

-----------------------------------------------------------------------------
\* Where the histories stop: beyond what the properties below allow of them.
Cap == 2 ^ MAX_RETRY_COUNT + 1
Capped(n) == IF n < Cap THEN n ELSE Cap
Bumped(f, e) == [f EXCEPT ![e] = Capped(@ + 1)]

NoEntry == [status |-> "none", readers |-> 0]
Known   == entry.status # "none"

\* StreamExists, under the name of the report; stream_changed alone looks for
\* the name without its time stamp as well.
Finds(e) == Known /\ (e.name = "plain" \/ (e.name = "stamped" /\ e.kind = "changed"))

IsGatewayManagedStream(e) == e.name # "external"

-----------------------------------------------------------------------------
(* The registry.                                                           *)

\* OnZLMStreamState: a stream that runs since a short while (30 s) is not
\* stopped, one that was just created (60 s) may still come alive.
Reported(status, e) ==
  CASE e.kind = "publish" \/ (e.regist /\ e.alive) -> {"Running"}
    [] e.kind = "changed" /\ ~(e.regist /\ e.alive) ->
         {"Error"} \cup (IF status = "Running" \/ (status = "Starting" /\ e.regist)
                        THEN {status} ELSE {})

\* What a report may make of the registry's entry; nothing is done to a stream
\* that is gone.  HandleStreamNoneReader and HandlePlay set reader_count of a
\* copy, and UpdateStreamMetadata takes nothing of it over but the time.
Effects(r, e) ==
  IF r.status = "none" \/ e.kind \in {"none_reader", "play"} THEN {r}
  ELSE [status : Reported(r.status, e), readers : {IF e.kind = "publish" THEN 0 ELSE e.readers}]

\* RegisterStream, of the gateways' threads.
Register ==
  /\ ~Known
  /\ entry' = [status |-> "Starting", readers |-> 0]
  /\ UNCHANGED <<arrived, checked, queue, thread, running, history>>

\* OnStreamCreateResult
CreateResult(ok) ==
  /\ entry.status = "Starting"
  /\ entry' = [entry EXCEPT !.status = Resulting(@, ok)]
  /\ UNCHANGED <<arrived, checked, queue, thread, running, history>>

UnregisterStream ==
  /\ Known
  /\ entry' = NoEntry
  /\ UNCHANGED <<arrived, checked, queue, thread, running, history>>

-----------------------------------------------------------------------------
(* The handlers.                                                           *)

\* Mutant: the delay starts at two seconds.
TaskLate(e, n) == [event |-> e, count |-> n, wait |-> n + 2]

Task(e, n) == [event |-> e, count |-> n, wait |-> n + 1]

\* Reports of unknown streams that wait; play and publish never do.
PutsOff(e) == IsGatewayManagedStream(e) /\ e.kind \in {"changed", "none_reader"}

\* HandleStreamChanged counts a report only when it is done with it.
CountsAtOnce(e) == ~PutsOff(e) \/ e.kind = "none_reader"

\* The handlers up to StreamExists.
Receive(e) ==
  /\ running /\ e \notin arrived
  /\ arrived' = arrived \cup {e}
  /\ IF Finds(e)
     THEN checked' = checked \cup {e} /\ UNCHANGED <<queue, counted>>
     ELSE /\ UNCHANGED checked
          /\ queue' = IF PutsOff(e) THEN Append(queue, Task(e, 0)) ELSE queue
          /\ counted' = IF CountsAtOnce(e) THEN Bumped(counted, e) ELSE counted
  /\ UNCHANGED <<entry, thread, running, retried, applied, thrown>>

\* A field of a stream_changed report is not what it is taken for: the report is
\* neither looked up nor put off, and not counted.
ReceiveThrows(e) ==
  /\ running /\ e \notin arrived /\ e.kind = "changed"
  /\ arrived' = arrived \cup {e}
  /\ thrown' = thrown \cup {e}
  /\ UNCHANGED <<entry, checked, queue, thread, running, retried, counted, applied>>

\* OnZLMStreamState or UpdateStreamMetadata, and RecordStats.
Apply(e) ==
  /\ e \in checked
  /\ checked' = checked \ {e}
  /\ entry' \in Effects(entry, e)
  /\ applied' = IF Known THEN Bumped(applied, e) ELSE applied
  /\ counted' = Bumped(counted, e)
  /\ UNCHANGED <<arrived, queue, thread, running, retried, thrown>>

\* What the registry makes of a report when it throws, before its entry is
\* updated or after.
EffectsCut(r, e) == Effects(r, e) \cup {r}

ApplyThrows(e) ==
  /\ e \in checked
  /\ checked' = checked \ {e}
  /\ entry' \in EffectsCut(entry, e)
  /\ applied' = IF Known THEN Bumped(applied, e) ELSE applied
  /\ IF e.kind = "changed"
     THEN thrown' = thrown \cup {e} /\ UNCHANGED counted
     ELSE counted' = Bumped(counted, e) /\ UNCHANGED thrown
  /\ UNCHANGED <<arrived, queue, thread, running, retried>>

-----------------------------------------------------------------------------
(* The retry thread.                                                       *)

Second ==
  /\ \E i \in DOMAIN queue : queue[i].wait > 0
  /\ queue' = [i \in DOMAIN queue |-> [queue[i] EXCEPT !.wait = IF @ > 0 THEN @ - 1 ELSE 0]]
  /\ UNCHANGED <<entry, arrived, checked, thread, running, history>>

\* Mutant: the thread does not look at retry_running_ again.
TestNothing ==
  /\ pc = "test"
  /\ pc' = "sleep"
  /\ UNCHANGED <<entry, arrived, checked, queue, batch, found, running, history>>

Test ==
  /\ pc = "test"
  /\ pc' = IF running THEN "sleep" ELSE "gone"
  /\ UNCHANGED <<entry, arrived, checked, queue, batch, found, running, history>>

\* Mutant: a task is due before its time is reached, never at it.
DueNever(q) == Len(q) - Len(q)

\* Length of the due prefix of the queue.
Due(q) ==
  CHOOSE n \in 0..Len(q) : /\ \A i \in 1..n : q[i].wait = 0
                          /\ n < Len(q) => q[n + 1].wait > 0

\* Mutant: a task that has had its retries is dropped silently.
DroppedSilently(ts, e) == 0

\* Tasks of a report that have had their retries.
Dropped(ts, e) ==
  Cardinality({i \in DOMAIN ts : ts[i].event = e /\ ts[i].count >= MAX_RETRY_COUNT})

\* Those that have some left, in their order.
Remaining(ts) == {i \in DOMAIN ts : ts[i].count < MAX_RETRY_COUNT}
InOrder(places) ==
  {f \in [1..Cardinality(places) -> places] : \A i, j \in DOMAIN f : i < j => f[i] < f[j]}

\* In one critical section: the due tasks at the front are taken, and the first
\* that is not due goes to the back.
Drain ==
  /\ pc = "sleep"
  /\ LET n == Due(queue)
         taken == SubSeq(queue, 1, n)
         rest == SubSeq(queue, n + 2, Len(queue))
     IN /\ \E place \in InOrder(Remaining(taken)) :
             batch' = [i \in DOMAIN place |-> taken[place[i]]]
        /\ queue' = IF n < Len(queue) THEN Append(rest, queue[n + 1]) ELSE rest
        /\ counted' = [e \in Events |-> Capped(counted[e] + Dropped(taken, e))]
  /\ pc' = "work"
  /\ UNCHANGED <<entry, arrived, checked, found, running, retried, applied, thrown>>

Again(t) == Task(t.event, t.count + 1)

\* Mutant: a stream_none_reader task that was found unknown is put back by
\* whoever looks at it.
PutBackThrice(t) ==
  IF t.event.kind = "none_reader" THEN <<Again(t), Again(t), Again(t)>> ELSE <<Again(t)>>

\* A task whose stream is still unknown; stream_none_reader puts it back itself,
\* and so does the common end.
PutBack(t) == IF t.event.kind = "none_reader" THEN <<Again(t), Again(t)>> ELSE <<Again(t)>>

Retry ==
  /\ pc = "work" /\ batch # <<>> /\ ~found
  /\ retried' = Bumped(retried, Head(batch).event)
  /\ IF Finds(Head(batch).event)
     THEN found' = TRUE /\ UNCHANGED <<queue, batch>>
     ELSE /\ queue' = queue \o PutBack(Head(batch))
          /\ batch' = Tail(batch)
          /\ UNCHANGED found
  /\ UNCHANGED <<entry, arrived, checked, pc, running, counted, applied, thrown>>

RetryApply ==
  /\ found
  /\ LET e == Head(batch).event
     IN /\ entry' \in Effects(entry, e)
        /\ applied' = IF Known THEN Bumped(applied, e) ELSE applied
        /\ counted' = Bumped(counted, e)
  /\ batch' = Tail(batch)
  /\ found' = FALSE
  /\ UNCHANGED <<arrived, checked, queue, pc, running, retried, thrown>>

\* The retry of a stream_changed report throws: it counts as one that failed.
RetryThrows ==
  /\ found /\ Head(batch).event.kind = "changed"
  /\ LET e == Head(batch).event
     IN /\ entry' \in EffectsCut(entry, e)
        /\ applied' = IF Known THEN Bumped(applied, e) ELSE applied
        /\ thrown' = thrown \cup {e}
  /\ queue' = queue \o PutBack(Head(batch))
  /\ batch' = Tail(batch)
  /\ found' = FALSE
  /\ UNCHANGED <<arrived, checked, pc, running, retried, counted>>

BatchDone ==
  /\ pc = "work" /\ batch = <<>>
  /\ pc' = "test"
  /\ UNCHANGED <<entry, arrived, checked, queue, batch, found, running, history>>

\* The first half of ~HookHandler; the second, join, waits for pc = "gone".
Stop ==
  /\ running
  /\ running' = FALSE
  /\ UNCHANGED <<entry, arrived, checked, queue, thread, history>>

-----------------------------------------------------------------------------
Init ==
  /\ entry = NoEntry
  /\ arrived = {} /\ checked = {}
  /\ queue = <<>> /\ batch = <<>> /\ found = FALSE
  /\ pc = "test" /\ running = TRUE
  /\ retried = [e \in Events |-> 0]
  /\ counted = [e \in Events |-> 0]
  /\ applied = [e \in Events |-> 0]
  /\ thrown = {}

RetryThread == Test \/ Drain \/ Retry \/ RetryApply \/ RetryThrows \/ BatchDone

Next ==
  \/ Register \/ UnregisterStream
  \/ \E ok \in BOOLEAN : CreateResult(ok)
  \/ \E e \in Events : Receive(e) \/ ReceiveThrows(e) \/ Apply(e) \/ ApplyThrows(e)
  \/ Second \/ RetryThread \/ Stop

Spec == Init /\ [][Next]_vars

\* The operating system runs the retry thread, and time passes.
FairSpec == Spec /\ WF_vars(RetryThread) /\ WF_vars(Second)

-----------------------------------------------------------------------------
Tasks(e) == {i \in DOMAIN queue : queue[i].event = e}
Pending(e) == \/ e \in checked
              \/ Tasks(e) # {}
              \/ \E i \in DOMAIN batch : batch[i].event = e

\* Type invariant.
TypeOK ==
  /\ entry \in [status : Statuses, readers : 0..1]
  /\ arrived \subseteq Events /\ checked \subseteq arrived /\ thrown \subseteq arrived
  /\ LET T == [event : arrived, count : 0..MAX_RETRY_COUNT, wait : 0..(MAX_RETRY_COUNT + 1)]
     IN queue \in Seq(T) /\ batch \in Seq(T)
  /\ found \in BOOLEAN /\ (found => batch # <<>>) /\ running \in BOOLEAN
  /\ pc \in {"test", "sleep", "work", "gone"}
  /\ {retried, counted, applied} \subseteq [Events -> 0..Cap]

\* A stream_changed report is tried again at most MAX_RETRY_COUNT times, and goes
\* into the statistics at most once and only when it is done with, however
\* handlers, retries and the registry interleave.  Unless something was thrown in
\* its processing, it does go into them, and touches the registry at most once
\* (AddRetryTask, RetryThreadLoop, ProcessStreamChanged).
ChangedOnce ==
  \A e \in arrived : e.kind = "changed" =>
    /\ retried[e] <= MAX_RETRY_COUNT
    /\ counted[e] <= IF Pending(e) THEN 0 ELSE 1
    /\ e \notin thrown => applied[e] <= 1 /\ (Pending(e) \/ counted[e] = 1)

\* A stream_none_reader report, whose task doubles at each failed retry, still
\* comes to an end: with two retries allowed it is tried three times.
NoneReaderBounded ==
  \A e \in arrived : e.kind = "none_reader" =>
    /\ retried[e] < 2 ^ MAX_RETRY_COUNT
    /\ Cardinality(Tasks(e)) <= 2 ^ MAX_RETRY_COUNT

\* As long as the handler lives, the retry queue empties: no report waits behind
\* a task that is not due, or is put back, for ever.
Drains == []<>(queue = <<>> \/ ~running)

\* ~HookHandler returns: the retry thread ends whatever is in its batch.
StopEnds == ~running ~> pc = "gone"
=============================================================================
