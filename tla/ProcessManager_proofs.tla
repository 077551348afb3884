------------------------ MODULE ProcessManager_proofs ------------------------
(***************************************************************************)
(* Proofs about ProcessManager, for any ids, any pids and any limits.      *)
(***************************************************************************)
EXTENDS ProcessManager, FiniteSetTheorems, TLAPS

-----------------------------------------------------------------------------
(* The inductive invariant.                                                *)

PresentIds == {id \in Ids : Present(id)}

\* An id without an entry has no pid, and the table is within its limit.
TableOK ==
  /\ \A id \in Ids : ~Present(id) => table[id].pid = NoPid
  /\ Cardinality(PresentIds) <= MaxProcesses

MonOK == mon.pc # "idle" => mon.id \in Ids

\* A pid that somebody remembers is not given out again.
PidsKept ==
  ~ignored =>
    /\ \A p \in loose : child[p] # "free"
    /\ \A id \in Ids : table[id].pid # NoPid => child[table[id].pid] # "free"

IInv == TypeOK /\ TableOK /\ MonOK /\ NoOrphan /\ PidsKept /\ OwnPids

-----------------------------------------------------------------------------
(* The kernel.                                                             *)

Children == [Pids -> {"free", "alive", "zombie"}]

\* Killing ends at most one process, and frees its pid only if it is reaped.
LEMMA KilledIsDead ==
  ASSUME TypeOK, NEW p \in Pids \cup {NoPid}
  PROVE  /\ Killed(child, p) \in Children
         /\ p # NoPid => Killed(child, p)[p] # "alive"
         /\ \A q \in Pids : Killed(child, p)[q] = "alive" => child[q] = "alive"
         /\ ~ignored => \A q \in Pids : Killed(child, p)[q] = "free" => child[q] = "free"
BY DEF Killed, Dead, TypeOK, Children

\* A fork gives out a free pid, and only a child that lives is alive.
LEMMA ForkedIsNew ==
  ASSUME ignored \in BOOLEAN, NEW c \in Children, NEW f \in Forks(c)
  PROVE  /\ f.pid \in Pids \cup {NoPid} /\ f.lives \in BOOLEAN
         /\ Forked(c, f) \in Children
         /\ f.pid # NoPid => c[f.pid] = "free"
         /\ \A q \in Pids : Forked(c, f)[q] = "alive" =>
              c[q] = "alive" \/ (q = f.pid /\ Launched(f))
         /\ ~ignored => \A q \in Pids : Forked(c, f)[q] = "free" =>
              c[q] = "free" /\ q # f.pid
         /\ f.pid = NoPid => ~Launched(f)
         /\ ~ignored /\ f.pid # NoPid => Launched(f)
<1>1. \/ f = [pid |-> NoPid, lives |-> FALSE]
      \/ f \in [pid : {p \in Pids : c[p] = "free"}, lives : BOOLEAN]
  BY DEF Forks
<1>2. f.pid \in Pids \cup {NoPid} /\ f.lives \in BOOLEAN
  <2>1. CASE f = [pid |-> NoPid, lives |-> FALSE]
    BY <2>1
  <2>2. CASE f \in [pid : {p \in Pids : c[p] = "free"}, lives : BOOLEAN]
    BY <2>2
  <2>. QED BY <1>1, <2>1, <2>2
<1>3. f.pid # NoPid => f.pid \in Pids /\ c[f.pid] = "free"
  BY <1>1
<1>4. Dead \in {"free", "zombie"} /\ (~ignored => Dead = "zombie")
  BY DEF Dead
<1>5. CASE f.pid = NoPid
  BY <1>2, <1>5, ProcessManagerAssumption DEF Forked, Launched, Children
<1>6. CASE f.pid # NoPid
  <2>. DEFINE k == IF f.lives THEN "alive" ELSE Dead
  <2>1. /\ k \in {"free", "alive", "zombie"}
        /\ k = "alive" => f.lives
        /\ ~ignored => k # "free"
    BY <1>4
  <2>2. Forked(c, f) = [c EXCEPT ![f.pid] = k]
    BY <1>6 DEF Forked
  <2>. HIDE DEF k
  <2>3. /\ Forked(c, f) \in Children
        /\ \A q \in Pids : Forked(c, f)[q] = IF q = f.pid THEN k ELSE c[q]
    BY <1>3, <1>6, <2>1, <2>2 DEF Children
  <2>4. (f.lives => Launched(f)) /\ (~ignored => Launched(f))
    BY <1>6 DEF Launched
  <2>. QED BY <1>2, <1>3, <1>6, <2>1, <2>3, <2>4
<1>. QED BY <1>5, <1>6

-----------------------------------------------------------------------------
(* The table.                                                              *)

\* A new process goes into the entry of its id, which the process of the older
\* entry has left.  If the fork failed, the entry keeps no pid.
LEMMA LaunchStep ==
  ASSUME IInv, NEW id \in Ids, NEW f \in Forks(Replaced(id)), Launch(id, f),
         NEW e \in Entry, table' = [table EXCEPT ![id] = e],
         e.pid \in {f.pid, NoPid}, Launched(f) => e.pid = f.pid,
         UNCHANGED ignored
  PROVE  /\ child' \in Children /\ loose' \subseteq Pids /\ table' \in [Ids -> Entry]
         /\ NoOrphan' /\ PidsKept' /\ OwnPids'
<1>. DEFINE k == Replaced(id)
<1>1. table[id].pid \in Pids \cup {NoPid} /\ ignored \in BOOLEAN
  BY DEF IInv, TypeOK, Entry
<1>2. /\ k \in Children
      /\ table[id].pid # NoPid => k[table[id].pid] # "alive"
      /\ \A q \in Pids : k[q] = "alive" => child[q] = "alive"
      /\ ~ignored => \A q \in Pids : k[q] = "free" => child[q] = "free"
  BY <1>1, KilledIsDead DEF IInv, Replaced
<1>. HIDE DEF k
<1>3. /\ f.pid \in Pids \cup {NoPid}
      /\ Forked(k, f) \in Children
      /\ f.pid # NoPid => k[f.pid] = "free"
      /\ \A q \in Pids : Forked(k, f)[q] = "alive" =>
           k[q] = "alive" \/ (q = f.pid /\ Launched(f))
      /\ ~ignored => \A q \in Pids : Forked(k, f)[q] = "free" =>
           k[q] = "free" /\ q # f.pid
      /\ f.pid = NoPid => ~Launched(f)
  BY <1>1, <1>2, ForkedIsNew DEF k
<1>4. child' = Forked(k, f) /\ loose' = loose \ {f.pid}
  BY DEF Launch, k
<1>5. \A i \in Ids : table'[i] = IF i = id THEN e ELSE table[i]
  BY DEF IInv, TypeOK
<1>6. child' \in Children /\ loose' \subseteq Pids /\ table' \in [Ids -> Entry]
  BY <1>3, <1>4, <1>5 DEF IInv, TypeOK
<1>7. NoOrphan'
  <2>. SUFFICES ASSUME NEW q \in Pids, child'[q] = "alive", q \notin loose'
                PROVE  \E i \in Ids : table'[i].pid = q
    BY DEF NoOrphan, Alive, Managed
  <2>1. CASE q = f.pid /\ Launched(f)
    BY <1>5, <2>1
  <2>2. CASE k[q] = "alive"
    <3>1. q # f.pid
      BY <1>3, <2>2, ProcessManagerAssumption
    <3>2. PICK i \in Ids : table[i].pid = q
      BY <1>2, <1>4, <2>2, <3>1 DEF IInv, NoOrphan, Alive, Managed
    <3>3. i # id
      BY <1>2, <2>2, <3>2, ProcessManagerAssumption
    <3>. QED BY <1>5, <3>2, <3>3
  <2>. QED BY <1>3, <1>4, <2>1, <2>2
<1>8. PidsKept'
  <2>. SUFFICES ASSUME ~ignored
                PROVE  /\ \A q \in loose' : child'[q] # "free"
                       /\ \A i \in Ids : table'[i].pid # NoPid
                                           => child'[table'[i].pid] # "free"
    BY DEF PidsKept
  <2>1. \A q \in Pids : child[q] # "free" => child'[q] # "free"
    BY <1>2, <1>3, <1>4
  <2>2. f.pid # NoPid => child'[f.pid] # "free"
    BY <1>3, <1>4
  <2>3. \A i \in Ids : table[i].pid \in Pids \cup {NoPid}
    BY DEF IInv, TypeOK, Entry
  <2>. QED BY <1>4, <1>5, <2>1, <2>2, <2>3 DEF IInv, TypeOK, PidsKept
<1>9. OwnPids'
  <2>. SUFFICES ASSUME ~ignored, NEW i \in Ids, table'[i].pid # NoPid
                PROVE  /\ table'[i].pid \notin loose'
                       /\ \A j \in Ids \ {i} : table'[j].pid # table'[i].pid
    BY DEF OwnPids
  <2>1. f.pid # NoPid => child[f.pid] = "free"
    BY <1>2, <1>3
  <2>2. \A j \in Ids : f.pid # NoPid => table[j].pid # f.pid
    BY <2>1 DEF IInv, PidsKept
  <2>3. e.pid \in {f.pid, NoPid}
    OBVIOUS
  <2>4. CASE i = id
    <3>1. table'[i].pid = f.pid /\ f.pid # NoPid
      BY <1>5, <2>3, <2>4
    <3>. QED BY <1>4, <1>5, <2>2, <2>4, <3>1
  <2>5. CASE i # id
    <3>1. table'[i].pid = table[i].pid
      BY <1>5, <2>5
    <3>2. \A j \in Ids : j # id => table'[j].pid = table[j].pid
      BY <1>5
    <3>3. table'[id].pid # table'[i].pid
      BY <1>5, <2>2, <2>3, <3>1
    <3>. QED BY <1>4, <3>1, <3>2, <3>3 DEF IInv, OwnPids
  <2>. QED BY <2>4, <2>5
<1>. QED BY <1>6, <1>7, <1>8, <1>9

\* Adding one entry while the table is below its limit keeps it within.
LEMMA RoomForOne ==
  ASSUME IInv, NEW id \in Ids, ~AtLimit \/ Present(id)
  PROVE  Cardinality(PresentIds \cup {id}) <= MaxProcesses
<1>1. IsFiniteSet(PresentIds)
  BY FS_Subset, ProcessManagerAssumption DEF PresentIds
<1>2. Cardinality(PresentIds) \in Nat
  BY <1>1, FS_CardinalityType
<1>3. Cardinality(PresentIds \cup {id}) =
        IF id \in PresentIds THEN Cardinality(PresentIds) ELSE Cardinality(PresentIds) + 1
  BY <1>1, FS_AddElement
<1>4. CASE Present(id)
  BY <1>2, <1>3, <1>4 DEF IInv, TableOK, PresentIds
<1>5. CASE ~AtLimit
  BY <1>2, <1>3, <1>5, ProcessManagerAssumption DEF AtLimit, IInv, TableOK, PresentIds
<1>. QED BY <1>4, <1>5

LEMMA FewerPresent ==
  ASSUME NEW S \in SUBSET Ids, NEW T \in SUBSET S
  PROVE  Cardinality(T) <= Cardinality(S) /\ Cardinality(T) \in Nat
                                         /\ Cardinality(S) \in Nat
<1>1. IsFiniteSet(S) /\ IsFiniteSet(T)
  BY FS_Subset, ProcessManagerAssumption
<1>. QED BY <1>1, FS_Subset, FS_CardinalityType

\* Steps that write the entry of an id, or that of an id already in the table.
LEMMA TableStep ==
  ASSUME IInv, NEW id \in Ids, ~AtLimit \/ Present(id),
         NEW e \in Entry, table' = [table EXCEPT ![id] = e],
         e.status = "absent" => e.pid = NoPid
  PROVE  TableOK'
<1>1. \A i \in Ids : table'[i] = IF i = id THEN e ELSE table[i]
  BY DEF IInv, TypeOK
<1>2. \A i \in Ids : ~Present(i)' => table'[i].pid = NoPid
  BY <1>1 DEF IInv, TableOK, Present
<1>3. PresentIds' \subseteq PresentIds \cup {id}
  BY <1>1 DEF PresentIds, Present
<1>4. PresentIds \cup {id} \in SUBSET Ids
  BY DEF PresentIds
<1>5. Cardinality(PresentIds') <= MaxProcesses
  <2>1. Cardinality(PresentIds \cup {id}) <= MaxProcesses
    BY RoomForOne
  <2>2. /\ Cardinality(PresentIds') <= Cardinality(PresentIds \cup {id})
        /\ Cardinality(PresentIds') \in Nat
        /\ Cardinality(PresentIds \cup {id}) \in Nat
    BY <1>3, <1>4, FewerPresent
  <2>. QED BY <2>1, <2>2, ProcessManagerAssumption
<1>. QED BY <1>2, <1>5 DEF TableOK

-----------------------------------------------------------------------------
(* The executor.                                                           *)

\* What changing some fields of an entry gives.
LEMMA EntryStatus ==
  ASSUME NEW e \in Entry, NEW s \in Statuses
  PROVE  /\ [e EXCEPT !.status = s] \in Entry
         /\ [e EXCEPT !.status = s].pid = e.pid
         /\ [e EXCEPT !.status = s].status = s
BY DEF Entry

LEMMA EntryTried ==
  ASSUME NEW e \in Entry
  PROVE  /\ [e EXCEPT !.tried = TRUE] \in Entry
         /\ [e EXCEPT !.tried = TRUE].pid = e.pid
         /\ [e EXCEPT !.tried = TRUE].status = e.status
BY DEF Entry

LEMMA EntryTypes ==
  /\ Absent \in Entry /\ Absent.pid = NoPid
  /\ \A p \in Pids : NewEntry(p) \in Entry /\ NewEntry(p).pid = p
  /\ \A e \in Entry : Halted(e) \in Entry /\ Halted(e).pid = NoPid
                      /\ (Halted(e).status = "absent" => e.status = "absent")
<1>1. Absent \in Entry /\ Absent.pid = NoPid
  <2>1. 0 \in 0 .. MaxRestarts
    BY ProcessManagerAssumption
  <2>. QED BY <2>1 DEF Absent, Entry, Statuses, Errors
<1>2. ASSUME NEW p \in Pids
      PROVE  NewEntry(p) \in Entry /\ NewEntry(p).pid = p
  <2>1. "Running" \in Statuses
    BY DEF Statuses
  <2>. QED BY <1>1, <2>1 DEF NewEntry, Entry
<1>3. ASSUME NEW e \in Entry
      PROVE  /\ Halted(e) \in Entry /\ Halted(e).pid = NoPid
             /\ Halted(e).status = "absent" => e.status = "absent"
  <2>1. CASE e.pid = NoPid
    BY <2>1 DEF Halted
  <2>2. CASE e.pid # NoPid
    <3>1. Halted(e) = [e EXCEPT !.status = "Stopped", !.pid = NoPid]
      BY <2>2 DEF Halted
    <3>2. "Stopped" \in Statuses
      BY DEF Statuses
    <3>3. /\ Halted(e) \in Entry /\ Halted(e).pid = NoPid
          /\ Halted(e).status = "Stopped"
      BY <3>1, <3>2 DEF Entry
    <3>. QED BY <3>3
  <2>. QED BY <2>1, <2>2
<1>. QED BY <1>1, <1>2, <1>3

LEMMA ExecutorStartStep ==
  ASSUME IInv, NEW id \in Ids, ExecutorStart(id)
  PROVE  IInv'
<1>1. PICK started \in BOOLEAN :
        /\ StartProcess(id, started)
        /\ starting' = [starting EXCEPT ![id] = IF started THEN "started" ELSE "simple"]
  BY DEF ExecutorStart
<1>2. UNCHANGED <<ignored, mon, held>>
  BY DEF ExecutorStart
<1>3. starting' \in [Ids -> {"no", "started", "simple"}]
  BY <1>1 DEF IInv, TypeOK
<1>4. MonOK'
  BY <1>2 DEF IInv, MonOK
<1>5. CASE UNCHANGED <<child, loose, table>>
  BY <1>2, <1>3, <1>4, <1>5
     DEF IInv, TypeOK, TableOK, PresentIds, Present, NoOrphan, Alive, Managed,
         PidsKept, OwnPids
<1>6. ASSUME ~AtLimit, NEW f \in Forks(Replaced(id)), Launch(id, f),
             table' = [table EXCEPT ![id] =
               IF Launched(f) THEN NewEntry(f.pid) ELSE Halted(@)]
      PROVE  IInv'
  <2>. DEFINE e == IF Launched(f) THEN NewEntry(f.pid) ELSE Halted(table[id])
  <2>1. table[id] \in Entry /\ ignored \in BOOLEAN
    BY DEF IInv, TypeOK
  <2>2. Replaced(id) \in Children
    BY <2>1, KilledIsDead DEF Replaced, Entry, IInv
  <2>3. f.pid \in Pids \cup {NoPid} /\ (f.pid = NoPid => ~Launched(f))
    BY <2>1, <2>2, <1>6, ForkedIsNew
  <2>4. /\ e \in Entry /\ e.pid \in {f.pid, NoPid}
        /\ Launched(f) => e.pid = f.pid
    BY <2>1, <2>3, EntryTypes
  <2>5. table' = [table EXCEPT ![id] = e]
    BY <1>6
  <2>6. e.status = "absent" => e.pid = NoPid
    BY <2>1, <2>3, EntryTypes DEF NewEntry, Absent
  <2>. HIDE DEF e
  <2>7. TableOK'
    BY <1>6, <2>4, <2>5, <2>6, TableStep
  <2>8. /\ child' \in Children /\ loose' \subseteq Pids /\ table' \in [Ids -> Entry]
        /\ NoOrphan' /\ PidsKept' /\ OwnPids'
    BY <1>2, <1>6, <2>4, <2>5, LaunchStep
  <2>9. TypeOK'
    BY <1>2, <1>3, <2>8 DEF IInv, TypeOK, Children
  <2>. QED BY <1>4, <2>7, <2>8, <2>9 DEF IInv
<1>. QED BY <1>1, <1>5, <1>6 DEF StartProcess

LEMMA ExecutorGetPidStep ==
  ASSUME IInv, NEW id \in Ids, ExecutorGetPid(id)
  PROVE  IInv'
BY DEF ExecutorGetPid, kernel, IInv, TypeOK, TableOK, PresentIds, Present, MonOK,
       NoOrphan, Alive, Managed, PidsKept, OwnPids

LEMMA StartProcessSimpleStep ==
  ASSUME IInv, NEW id \in Ids, StartProcessSimple(id)
  PROVE  IInv'
<1>1. PICK f \in Forks(child) :
        /\ child' = Forked(child, f)
        /\ loose' = (loose \cup {f.pid}) \ {NoPid}
        /\ held' = IF f.pid = NoPid THEN held \ {id} ELSE held \cup {id}
  BY DEF StartProcessSimple
<1>2. UNCHANGED <<ignored, table, mon>>
      /\ starting' = [starting EXCEPT ![id] = "no"]
  BY DEF StartProcessSimple
<1>3. child \in Children /\ ignored \in BOOLEAN
  BY DEF IInv, TypeOK, Children
<1>4. /\ f.pid \in Pids \cup {NoPid}
      /\ child' \in Children
      /\ f.pid # NoPid => child[f.pid] = "free"
      /\ \A q \in Pids : child'[q] = "alive" => child[q] = "alive" \/ q = f.pid
      /\ ~ignored => \A q \in Pids : child'[q] = "free" => child[q] = "free" /\ q # f.pid
  BY <1>1, <1>3, ForkedIsNew
<1>5. TypeOK'
  BY <1>1, <1>2, <1>4, ProcessManagerAssumption DEF IInv, TypeOK, Children
<1>6. TableOK' /\ MonOK'
  BY <1>2 DEF IInv, TableOK, PresentIds, Present, MonOK
<1>7. NoOrphan'
  BY <1>1, <1>2, <1>4, ProcessManagerAssumption DEF IInv, NoOrphan, Alive, Managed
<1>8. PidsKept'
  <2>1. \A i \in Ids : table[i].pid \in Pids \cup {NoPid}
    BY DEF IInv, TypeOK, Entry
  <2>. QED BY <1>1, <1>2, <1>4, <2>1 DEF IInv, TypeOK, PidsKept
<1>9. OwnPids'
  BY <1>1, <1>2, <1>4 DEF IInv, OwnPids, PidsKept
<1>. QED BY <1>5, <1>6, <1>7, <1>8, <1>9 DEF IInv

LEMMA ExecutorStopStep ==
  ASSUME IInv, NEW id \in Ids, ExecutorStop(id)
  PROVE  IInv'
<1>1. /\ child' = Killed(child, table[id].pid)
      /\ table' = [table EXCEPT ![id] = Absent]
      /\ held' = held \ {id}
      /\ UNCHANGED <<ignored, loose, mon, starting>>
  BY DEF ExecutorStop, StopProcess
<1>2. \A i \in Ids : table[i] \in Entry /\ table[i].pid \in Pids \cup {NoPid}
  BY DEF IInv, TypeOK, Entry
<1>3. /\ child' \in Children
      /\ table[id].pid # NoPid => child'[table[id].pid] # "alive"
      /\ \A q \in Pids : child'[q] = "alive" => child[q] = "alive"
      /\ ~ignored => \A q \in Pids : child'[q] = "free" => child[q] = "free"
  BY <1>1, <1>2, KilledIsDead DEF IInv
<1>4. /\ table' \in [Ids -> Entry]
      /\ table'[id].pid = NoPid
      /\ \A i \in Ids \ {id} : table'[i] = table[i]
  BY <1>1, EntryTypes DEF IInv, TypeOK
<1>5. TypeOK'
  BY <1>1, <1>3, <1>4 DEF IInv, TypeOK, Children
<1>6. TableOK'
  <2>1. PresentIds' \subseteq PresentIds /\ PresentIds \subseteq Ids
    BY <1>1 DEF PresentIds, Present, Absent, IInv, TypeOK
  <2>2. Cardinality(PresentIds') <= MaxProcesses
    BY <2>1, FewerPresent, ProcessManagerAssumption DEF IInv, TableOK
  <2>. QED BY <1>4, <2>2 DEF IInv, TableOK, Present
<1>7. MonOK'
  BY <1>1 DEF IInv, MonOK
<1>8. NoOrphan'
  <2>. SUFFICES ASSUME NEW q \in Pids, child'[q] = "alive", q \notin loose
                PROVE  \E i \in Ids : table'[i].pid = q
    BY <1>1 DEF NoOrphan, Alive, Managed
  <2>1. PICK i \in Ids : table[i].pid = q
    BY <1>3 DEF IInv, NoOrphan, Alive, Managed
  <2>2. i # id
    BY <1>3, <2>1, ProcessManagerAssumption
  <2>. QED BY <1>4, <2>1, <2>2
<1>9. PidsKept'
  BY <1>1, <1>2, <1>3, <1>4 DEF IInv, TypeOK, PidsKept
<1>10. OwnPids'
  BY <1>1, <1>4 DEF IInv, OwnPids
<1>. QED BY <1>5, <1>6, <1>7, <1>8, <1>9, <1>10 DEF IInv

-----------------------------------------------------------------------------
(* The monitor and the processes themselves.                               *)

\* Steps that change nothing but the monitor's own copy.
LEMMA LookStep ==
  ASSUME IInv, UNCHANGED <<kernel, table, starting, held>>,
         mon' \in Monitor, mon'.pc # "idle" => mon'.id \in Ids
  PROVE  IInv'
BY DEF kernel, IInv, TypeOK, TableOK, PresentIds, Present, MonOK, NoOrphan, Alive,
       Managed, PidsKept, OwnPids

LEMMA MonitorTypes ==
  ASSUME NEW i \in Ids, NEW p \in Pids \cup {NoPid}, NEW b \in BOOLEAN,
         NEW r \in BOOLEAN, NEW v \in Errors,
         NEW c \in {"check", "update", "restart"}
  PROVE  /\ Idle \in Monitor
         /\ [Idle EXCEPT !.pc = c, !.id = i] \in Monitor
         /\ [Idle EXCEPT !.pc = c, !.id = i, !.pid = p, !.running = r, !.budget = b]
              \in Monitor
         /\ [Idle EXCEPT !.pc = c, !.id = i, !.verdict = v, !.budget = b] \in Monitor
BY DEF Idle, Monitor, Errors

LEMMA MonitorCopyStep ==
  ASSUME IInv, NEW id \in Ids, MonitorCopy(id)
  PROVE  IInv'
<1>1. table[id].pid \in Pids \cup {NoPid}
  BY DEF IInv, TypeOK, Entry
<1>2. mon' = [Idle EXCEPT !.pc = "check", !.id = id, !.pid = table[id].pid,
                !.running = table[id].status = "Running",
                !.budget = table[id].restarts < MaxRestarts]
  BY DEF MonitorCopy
<1>3. (table[id].status = "Running") \in BOOLEAN
      /\ (table[id].restarts < MaxRestarts) \in BOOLEAN
  OBVIOUS
<1>4. mon' \in Monitor
  BY <1>1, <1>2, <1>3, MonitorTypes DEF Errors
<1>5. mon'.id = id
  BY <1>2 DEF Idle
<1>. QED BY <1>4, <1>5, LookStep DEF MonitorCopy

LEMMA MonitorCheckStep ==
  ASSUME IInv, MonitorCheck
  PROVE  IInv'
<1>1. mon.id \in Ids /\ mon.budget \in BOOLEAN
  BY DEF MonitorCheck, IInv, MonOK, TypeOK, Monitor
<1>2. PICK v \in Errors :
        mon' = [Idle EXCEPT !.pc = "update", !.id = mon.id, !.verdict = v,
                  !.budget = mon.budget /\ v = "restartable"]
  BY DEF MonitorCheck, Errors
<1>3. (mon.budget /\ v = "restartable") \in BOOLEAN
  OBVIOUS
<1>4. mon' \in Monitor
  BY <1>1, <1>2, <1>3, MonitorTypes
<1>5. mon'.id \in Ids
  BY <1>1, <1>2 DEF Idle
<1>. QED BY <1>4, <1>5, LookStep DEF MonitorCheck, Seen, kernel

\* A verdict changes the status of an entry and never its pid.
LEMMA VerdictStep ==
  ASSUME IInv, NEW id \in Ids, Present(id),
         NEW e \in Entry, e.pid = table[id].pid, e.status # "absent",
         table' = [table EXCEPT ![id] = e],
         mon' \in Monitor, mon'.pc # "idle" => mon'.id \in Ids,
         UNCHANGED <<kernel, starting, held>>
  PROVE  IInv'
<1>1. /\ \A i \in Ids : table'[i].pid = table[i].pid
      /\ table' \in [Ids -> Entry]
  BY DEF IInv, TypeOK
<1>2. TableOK'
  BY TableStep
<1>3. TypeOK' /\ MonOK'
  BY <1>1 DEF IInv, TypeOK, MonOK, kernel
<1>4. NoOrphan' /\ PidsKept' /\ OwnPids'
  BY <1>1 DEF IInv, NoOrphan, Alive, Managed, PidsKept, OwnPids, kernel
<1>. QED BY <1>2, <1>3, <1>4 DEF IInv

LEMMA MonitorUpdateStep ==
  ASSUME IInv, MonitorUpdate
  PROVE  IInv'
<1>1. mon.id \in Ids /\ mon.verdict \in Errors
  BY DEF MonitorUpdate, IInv, MonOK, TypeOK, Monitor
<1>2. CASE mon.verdict # "none" /\ Present(mon.id)
  <2>. DEFINE e == [table[mon.id] EXCEPT !.status = "Error", !.error = mon.verdict]
  <2>1. e \in Entry /\ e.pid = table[mon.id].pid /\ e.status # "absent"
    <3>1. table[mon.id] \in Entry /\ "Error" \in Statuses
      BY <1>1 DEF IInv, TypeOK, Statuses
    <3>2. e \in Entry /\ e.pid = table[mon.id].pid /\ e.status = "Error"
      BY <1>1, <3>1 DEF Entry
    <3>. QED BY <3>2
  <2>2. table' = [table EXCEPT ![mon.id] = e]
    BY <1>1, <1>2 DEF MonitorUpdate, IInv, TypeOK
  <2>3. mon' = [Idle EXCEPT !.pc = "restart", !.id = mon.id] \/ mon' = Idle
    BY <1>2 DEF MonitorUpdate
  <2>4. mon' \in Monitor /\ (mon'.pc # "idle" => mon'.id \in Ids)
    <3>1. CASE mon' = Idle
      BY <3>1, MonitorTypes, <1>1 DEF Idle, Errors
    <3>2. CASE mon' = [Idle EXCEPT !.pc = "restart", !.id = mon.id]
      <4>1. mon'.id = mon.id
        BY <3>2 DEF Idle
      <4>2. mon' \in Monitor
        BY <1>1, <3>2, MonitorTypes DEF Errors
      <4>. QED BY <1>1, <4>1, <4>2
    <3>. QED BY <2>3, <3>1, <3>2
  <2>. HIDE DEF e
  <2>. QED BY <1>1, <1>2, <2>1, <2>2, <2>4, VerdictStep DEF MonitorUpdate
<1>3. CASE ~(mon.verdict # "none" /\ Present(mon.id))
  <2>1. mon' = Idle /\ UNCHANGED table
    BY <1>3 DEF MonitorUpdate
  <2>2. mon' \in Monitor /\ mon'.pc = "idle"
    BY <2>1 DEF Idle, Monitor, Errors
  <2>. QED BY <2>1, <2>2, LookStep DEF MonitorUpdate
<1>. QED BY <1>2, <1>3

LEMMA TryRestartStep ==
  ASSUME IInv, TryRestartProcess
  PROVE  IInv'
<1>. DEFINE id == mon.id
<1>1. id \in Ids /\ table[id] \in Entry /\ ignored \in BOOLEAN
  BY DEF TryRestartProcess, IInv, MonOK, TypeOK
<1>2. mon' \in Monitor /\ mon'.pc = "idle" /\ MonOK'
  BY DEF TryRestartProcess, Idle, Monitor, Errors, MonOK
<1>3. UNCHANGED <<ignored, starting, held>>
  BY DEF TryRestartProcess
<1>4. CASE UNCHANGED <<child, loose, table>>
  BY <1>2, <1>3, <1>4, LookStep DEF kernel
<1>5. ASSUME Present(id), UNCHANGED <<child, loose>>,
             \/ table' = [table EXCEPT ![id].status = "Error"]
             \/ table' = [table EXCEPT ![id].tried = TRUE]
      PROVE  IInv'
  <2>1. PICK e \in Entry : /\ table' = [table EXCEPT ![id] = e]
                           /\ e.pid = table[id].pid /\ e.status # "absent"
    <3>1. CASE table' = [table EXCEPT ![id].status = "Error"]
      <4>1. "Error" \in Statuses
        BY DEF Statuses
      <4>2. table' = [table EXCEPT ![id] = [table[id] EXCEPT !.status = "Error"]]
        BY <3>1
      <4>3. [table[id] EXCEPT !.status = "Error"].status # "absent"
        BY <1>1, <4>1, EntryStatus
      <4>. QED BY <1>1, <4>1, <4>2, <4>3, EntryStatus
    <3>2. CASE table' = [table EXCEPT ![id].tried = TRUE]
      <4>1. table' = [table EXCEPT ![id] = [table[id] EXCEPT !.tried = TRUE]]
        BY <3>2
      <4>2. [table[id] EXCEPT !.tried = TRUE].status # "absent"
        BY <1>1, <1>5, EntryTried DEF Present
      <4>. QED BY <1>1, <4>1, <4>2, EntryTried
    <3>. QED BY <1>5, <3>1, <3>2
  <2>. HIDE DEF id
  <2>. QED BY <1>1, <1>2, <1>3, <1>5, <2>1, VerdictStep DEF kernel
<1>6. ASSUME Present(id), table[id].restarts < MaxRestarts,
             NEW f \in Forks(Replaced(id)), Launch(id, f),
             table' = [table EXCEPT ![id] =
               [table[id] EXCEPT !.status = IF Launched(f) THEN "Running" ELSE "Error",
                                 !.pid = f.pid, !.restarts = @ + 1]]
      PROVE  IInv'
  <2>. DEFINE s == IF Launched(f) THEN "Running" ELSE "Error"
              e == [table[id] EXCEPT !.status = s, !.pid = f.pid, !.restarts = @ + 1]
  <2>1. Replaced(id) \in Children
    BY <1>1, KilledIsDead DEF Replaced, Entry, IInv
  <2>2. f.pid \in Pids \cup {NoPid}
    BY <1>1, <1>6, <2>1, ForkedIsNew
  <2>3. s \in Statuses /\ s # "absent"
    BY DEF Statuses
  <2>4. table' = [table EXCEPT ![id] = e]
    BY <1>6
  <2>. HIDE DEF s
  <2>5. e \in Entry /\ e.pid = f.pid /\ e.status # "absent"
    <3>. DEFINE n == table[id].restarts + 1
    <3>1. n \in 0 .. MaxRestarts
      <4>1. table[id].restarts \in 0 .. MaxRestarts
        BY <1>1 DEF Entry
      <4>. QED BY <1>6, <4>1, ProcessManagerAssumption
    <3>2. e = [table[id] EXCEPT !.status = s, !.pid = f.pid, !.restarts = n]
      OBVIOUS
    <3>. HIDE DEF n, e, id
    <3>. QED BY <1>1, <2>2, <2>3, <3>1, <3>2 DEF Entry
  <2>. HIDE DEF e, id
  <2>6. TableOK'
    BY <1>1, <1>6, <2>4, <2>5, TableStep
  <2>7. /\ child' \in Children /\ loose' \subseteq Pids /\ table' \in [Ids -> Entry]
        /\ NoOrphan' /\ PidsKept' /\ OwnPids'
    BY <1>1, <1>3, <1>6, <2>4, <2>5, LaunchStep
  <2>8. TypeOK'
    BY <1>2, <1>3, <2>7 DEF IInv, TypeOK, Children
  <2>. QED BY <1>2, <2>6, <2>7, <2>8 DEF IInv
<1>7. ~(table[id].restarts >= MaxRestarts) <=> table[id].restarts < MaxRestarts
  BY <1>1, ProcessManagerAssumption DEF Entry
<1>. QED BY <1>4, <1>5, <1>6, <1>7 DEF TryRestartProcess

LEMMA CrashStep ==
  ASSUME IInv, NEW p \in Pids, Crash(p)
  PROVE  IInv'
<1>1. /\ child' = [child EXCEPT ![p] = Dead] /\ child[p] = "alive"
      /\ UNCHANGED <<ignored, loose, table, mon, starting, held>>
  BY DEF Crash
<1>2. /\ child' \in Children
      /\ \A q \in Pids : child'[q] = "alive" => child[q] = "alive"
      /\ ~ignored => \A q \in Pids : child'[q] = "free" => child[q] = "free"
  BY <1>1 DEF IInv, TypeOK, Children, Dead
<1>3. TypeOK' /\ TableOK' /\ MonOK'
  BY <1>1, <1>2 DEF IInv, TypeOK, TableOK, MonOK, PresentIds, Present, Children
<1>4. NoOrphan' /\ OwnPids'
  BY <1>1, <1>2 DEF IInv, NoOrphan, Alive, Managed, OwnPids
<1>5. PidsKept'
  <2>1. \A i \in Ids : table[i].pid \in Pids \cup {NoPid}
    BY DEF IInv, TypeOK, Entry
  <2>. QED BY <1>1, <1>2, <2>1 DEF IInv, TypeOK, PidsKept
<1>. QED BY <1>3, <1>4, <1>5 DEF IInv

-----------------------------------------------------------------------------
LEMMA InitIInv == Init => IInv
<1>. SUFFICES ASSUME Init PROVE IInv
  OBVIOUS
<1>1. TypeOK /\ MonOK
  BY EntryTypes, ProcessManagerAssumption
     DEF Init, TypeOK, MonOK, Idle, Monitor, Errors
<1>2. PresentIds = {}
  BY DEF Init, PresentIds, Present, Absent
<1>3. TableOK
  BY <1>2, FS_EmptySet, ProcessManagerAssumption DEF Init, TableOK, Absent
<1>4. NoOrphan /\ PidsKept /\ OwnPids
  BY DEF Init, NoOrphan, Alive, PidsKept, OwnPids, Absent
<1>. QED BY <1>1, <1>3, <1>4 DEF IInv

LEMMA NextIInv == IInv /\ [Next]_vars => IInv'
<1>. SUFFICES ASSUME IInv, [Next]_vars PROVE IInv'
  OBVIOUS
<1>1. ASSUME NEW id \in Ids, Executor(id) \/ MonitorCopy(id) PROVE IInv'
  BY <1>1, ExecutorStartStep, ExecutorGetPidStep, StartProcessSimpleStep,
     ExecutorStopStep, MonitorCopyStep DEF Executor
<1>2. CASE MonitorLoop
  BY <1>2, MonitorCheckStep, MonitorUpdateStep, TryRestartStep DEF MonitorLoop
<1>3. ASSUME NEW p \in Pids, Crash(p) PROVE IInv'
  BY <1>3, CrashStep
<1>4. CASE UNCHANGED vars
  BY <1>4 DEF vars, kernel, IInv, TypeOK, TableOK, PresentIds, Present, MonOK,
              NoOrphan, Alive, Managed, PidsKept, OwnPids
<1>. QED BY <1>1, <1>2, <1>3, <1>4 DEF Next

\* The invariant the others follow from.
THEOREM Invariance == Spec => []IInv
BY InitIInv, NextIInv, PTL DEF Spec

\* The table and the monitor's copies of it stay well typed.
THEOREM TypeCorrect == Spec => []TypeOK
<1>1. IInv => TypeOK
  BY DEF IInv
<1>. QED BY Invariance, <1>1, PTL

\* No process the manager started is ever out of its reach.
THEOREM NothingOrphaned == Spec => []NoOrphan
<1>1. IInv => NoOrphan
  BY DEF IInv
<1>. QED BY Invariance, <1>1, PTL

\* With zombies left in place, no entry refers to another one's process.
THEOREM PidsAreOwn == Spec => []OwnPids
<1>1. IInv => OwnPids
  BY DEF IInv
<1>. QED BY Invariance, <1>1, PTL

\* The processes the manager started and that live are no more than it may have.
THEOREM WithinLimit == Spec => []LimitHeld
<1>1. IInv => LimitHeld
  <2>. SUFFICES ASSUME IInv PROVE LimitHeld
    OBVIOUS
  <2>. DEFINE f == [id \in PresentIds |-> table[id].pid]
              T == {table[id].pid : id \in PresentIds}
  <2>1. IsFiniteSet(PresentIds)
    BY FS_Subset, ProcessManagerAssumption DEF PresentIds
  <2>2. f \in Surjection(PresentIds, T)
    BY DEF Surjection
  <2>. HIDE DEF f
  <2>3. IsFiniteSet(T) /\ Cardinality(T) <= Cardinality(PresentIds)
    BY <2>1, <2>2, FS_Surjection
  <2>4. Alive \ loose \subseteq T
    <3>. SUFFICES ASSUME NEW p \in Alive \ loose PROVE p \in T
      OBVIOUS
    <3>1. PICK id \in Ids : table[id].pid = p
      BY DEF IInv, NoOrphan, Managed
    <3>2. id \in PresentIds
      BY <3>1, ProcessManagerAssumption DEF Alive, PresentIds, IInv, TableOK
    <3>. QED BY <3>1, <3>2
  <2>. HIDE DEF T
  <2>5. Cardinality(Alive \ loose) <= Cardinality(T) /\ IsFiniteSet(Alive \ loose)
    BY <2>3, <2>4, FS_Subset
  <2>6. /\ Cardinality(PresentIds) \in Nat /\ Cardinality(T) \in Nat
        /\ Cardinality(Alive \ loose) \in Nat
    BY <2>1, <2>3, <2>5, FS_CardinalityType
  <2>. QED BY <2>3, <2>5, <2>6, ProcessManagerAssumption DEF LimitHeld, IInv, TableOK
<1>. QED BY Invariance, <1>1, PTL
=============================================================================
