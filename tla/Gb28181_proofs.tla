--------------------------- MODULE Gb28181_proofs ---------------------------
(***************************************************************************)
(* Proofs about the two modules of GB28181: SipDevices, for any devices,   *)
(* requests and times, and Gb28181Streams, for any attempts, stops and     *)
(* answers.                                                                *)
(***************************************************************************)
EXTENDS SipDevices, Gb28181Streams, TLAPS

-----------------------------------------------------------------------------
(* The SIP server and its devices: the inductive invariant.                *)

\* Ticks an online device may be past the timeout: those since the last check,
\* whose devices are all online or about to be removed.
Slack == IF check.remove = {} THEN check.slept ELSE 0

OnlineSince ==
  \A d \in Devices : device[d].online => device[d].known /\ device[d].age <= Timeout + Slack

\* What was granted lately is remembered, and for long enough.
GrantsKept ==
  \A k \in Keys : granted[k] <= Retain =>
    transaction[k].kept /\ transaction[k].age <= granted[k]

SipIInv == SipTypeOK /\ OnlineSince /\ FinalAnswersKept /\ GrantsKept

Transactions == [kept : BOOLEAN, age : 0..Retain + 1, code : Codes]
DeviceInfos  == [known : BOOLEAN, online : BOOLEAN, creds : BOOLEAN, age : 0..MaxAge]

-----------------------------------------------------------------------------
LEMMA Bounds ==
  /\ Timeout \in Nat \ {0} /\ Interval \in Nat \ {0} /\ Retain \in Nat \ {0}
  /\ CleanEvery \in Nat \ {0} /\ MaxQueue \in Nat \ {0}
  /\ MaxAge \in Nat /\ MaxAge = Timeout + Interval + 1
BY SipDevicesAssumption DEF MaxAge

\* Every answer that is sent is one of the codes; the last is final.
LEMMA AnswersFinal ==
  ASSUME NEW m \in Requests, NEW sent \in SUBSET (1..Len(AnswerCodes(m))), sent # {}
  PROVE  /\ Stored(AnswerCodes(m), sent) \in Transactions
         /\ Stored(AnswerCodes(m), sent).kept /\ Stored(AnswerCodes(m), sent).age = 0
         /\ Len(AnswerCodes(m)) \in sent => Stored(AnswerCodes(m), sent).code >= 200
         /\ AnswerCodes(m) = <<200>> => Stored(AnswerCodes(m), sent).code = 200
<1>. DEFINE codes == AnswerCodes(m)
            last == CHOOSE i \in sent : \A j \in sent : j <= i
<1>1. RegisterCode(m) \in {200, 400, 401, 403}
  BY SipDevicesAssumption DEF RegisterCode
<1>2. MessageCode(m) \in {200, 400}
  BY DEF MessageCode
<1>3. codes \in {<<200>>, <<400>>, <<401>>, <<403>>, <<405>>, <<100, 488>>}
  BY <1>1, <1>2, SipDevicesAssumption DEF AnswerCodes, InviteCodes, Method
<1>. HIDE DEF codes
<1>4. Len(codes) \in {1, 2} /\ sent \subseteq {1, 2} /\ sent \in SUBSET (1..Len(codes))
  <2>1. sent \in SUBSET (1..Len(codes))
    BY DEF codes
  <2>2. Len(codes) \in {1, 2}
    <3>1. CASE codes = <<100, 488>>
      BY <3>1
    <3>2. ASSUME NEW n \in {200, 400, 401, 403, 405}, codes = <<n>> PROVE Len(codes) = 1
      BY <3>2
    <3>. QED BY <1>3, <3>1, <3>2
  <2>. DEFINE n == Len(codes)
  <2>. HIDE DEF n
  <2>3. n \in {1, 2} => 1..n \subseteq {1, 2}
    OBVIOUS
  <2>4. 1..Len(codes) \subseteq {1, 2}
    BY <2>2, <2>3 DEF n
  <2>. QED BY <2>1, <2>2, <2>4
<1>5. \E i \in sent : \A j \in sent : j <= i
  <2>1. CASE 2 \in sent
    BY <1>4, <2>1
  <2>2. CASE 2 \notin sent
    <3>1. sent = {1}
      BY <1>4, <2>2
    <3>. QED BY <3>1
  <2>. QED BY <2>1, <2>2
<1>6. last \in sent /\ \A j \in sent : j <= last
  BY <1>5
<1>. HIDE DEF last
<1>7. last \in {1, 2} /\ last <= Len(codes) /\ (Len(codes) \in sent => last = Len(codes))
  BY <1>4, <1>6
<1>8. /\ codes[last] \in {100, 200, 400, 401, 403, 405, 488}
      /\ Len(codes) \in sent => codes[last] >= 200
      /\ codes = <<200>> => codes[last] = 200
  <2>1. CASE codes = <<100, 488>>
    BY <1>7, <2>1
  <2>2. ASSUME NEW n \in {200, 400, 401, 403, 405}, codes = <<n>>
        PROVE  codes[last] = n /\ (codes = <<200>> => n = 200)
    <3>1. Len(codes) = 1
      BY <2>2
    <3>2. last = 1
      BY <1>7, <3>1
    <3>. QED BY <2>2, <3>2
  <2>. QED BY <1>3, <2>1, <2>2
<1>9. 0 \in 0..Retain + 1
  BY Bounds
<1>10. Stored(codes, sent) = [kept |-> TRUE, age |-> 0, code |-> codes[last]]
  BY DEF Stored, last
<1>. QED BY <1>8, <1>9, <1>10 DEF Transactions, Codes, codes

\* A clean-up keeps what is not older than Retain, as it is.
LEMMA CleanUp ==
  ASSUME NEW ts \in [Keys -> Transactions], CleanedUp(ts), sinceClean \in 0..CleanEvery + 1
  PROVE  /\ transaction' \in [Keys -> Transactions]
         /\ sinceClean' \in 0..CleanEvery + 1
         /\ \A k \in Keys : transaction'[k] = ts[k] \/
              (ts[k].age > Retain /\ transaction'[k] = NoTransaction)
<1>1. NoTransaction \in Transactions
  BY Bounds DEF NoTransaction, Transactions, Codes
<1>. QED BY <1>1, Bounds DEF CleanedUp, KeptTransaction

\* So a clean-up neither forgets a grant nor keeps an answer that is not final.
LEMMA CleanUpKeeps ==
  ASSUME NEW ts \in [Keys -> Transactions], CleanedUp(ts), SipIInv,
         \A k \in Keys \ unsent' : ts[k].kept => ts[k].code >= 200,
         \A k \in Keys : granted[k] <= Retain => ts[k].kept /\ ts[k].age <= granted[k],
         UNCHANGED granted
  PROVE  FinalAnswersKept' /\ GrantsKept'
<1>1. /\ granted \in [Keys -> 0..Retain + 1]
      /\ sinceClean \in 0..CleanEvery + 1
  BY DEF SipIInv, SipTypeOK
<1>2. \A k \in Keys : transaction'[k] = ts[k] \/
              (ts[k].age > Retain /\ transaction'[k] = NoTransaction)
  BY <1>1, CleanUp
<1>3. \A k \in Keys : ts[k].age \in 0..Retain + 1
  BY DEF Transactions
<1>4. FinalAnswersKept'
  BY <1>2 DEF FinalAnswersKept, NoTransaction
<1>5. GrantsKept'
  BY <1>1, <1>2, <1>3, Bounds DEF GrantsKept
<1>. QED BY <1>4, <1>5

LEMMA DevicesUnchanged ==
  ASSUME SipIInv, UNCHANGED <<device, check>>
  PROVE  OnlineSince'
BY DEF SipIInv, OnlineSince, Slack

LEMMA TransactionsUnchanged ==
  ASSUME SipIInv, UNCHANGED <<transaction, granted, unsent>>
  PROVE  FinalAnswersKept' /\ GrantsKept'
BY DEF SipIInv, FinalAnswersKept, GrantsKept

\* Types, by variable, so that a step proves those it changes.
LEMMA TypeParts ==
  SipTypeOK <=>
  /\ device \in [Devices -> DeviceInfos]
  /\ \A d \in Devices : ~device[d].known => device[d] = Unknown
  /\ queue \in Seq(Requests) /\ Len(queue) <= MaxQueue
  /\ handling \in Requests \cup {Silent}
  /\ handling # Silent /\ Traceable(handling) => transaction[handling.key].code = 200
  /\ transaction \in [Keys -> Transactions]
  /\ sinceClean \in 0..CleanEvery + 1
  /\ check \in [slept : 0..Interval, remove : SUBSET Devices]
  /\ check.remove # {} => AutoRemove /\ check.slept = Interval
  /\ granted \in [Keys -> 0..Retain + 1] /\ unsent \subseteq Keys
BY DEF SipTypeOK, DeviceInfos, Transactions

\* Taking the first request from the queue.
LEMMA Dequeued ==
  ASSUME SipTypeOK, queue # <<>>
  PROVE  /\ Head(queue) \in Requests /\ Head(queue).key \in Keys
         /\ Tail(queue) \in Seq(Requests) /\ Len(Tail(queue)) <= MaxQueue
<1>1. queue \in Seq(Requests) /\ Len(queue) <= MaxQueue
  BY DEF SipTypeOK
<1>2. Head(queue) \in Requests /\ Tail(queue) \in Seq(Requests)
      /\ Len(Tail(queue)) = Len(queue) - 1 /\ Len(queue) \in Nat
  BY <1>1
<1>. QED BY <1>1, <1>2, Bounds DEF Keys

-----------------------------------------------------------------------------
(* The message thread.                                                     *)

LEMMA ReceiveStep ==
  ASSUME SipIInv, NEW m \in Requests, Receive(m)
  PROVE  SipIInv'
<1>1. queue' \in Seq(Requests) /\ Len(queue') <= MaxQueue
  BY Bounds DEF SipIInv, SipTypeOK, Receive
<1>2. SipTypeOK'
  BY <1>1 DEF SipIInv, SipTypeOK, Traceable, Receive
<1>. QED BY <1>2, DevicesUnchanged, TransactionsUnchanged DEF SipIInv, Receive

\* A message that is only answered from memory.
LEMMA SilentStep ==
  ASSUME SipIInv, HandleRetransmission
  PROVE  SipIInv'
<1>1. /\ queue # <<>> /\ handling = Silent /\ queue' = Tail(queue)
      /\ CleanedUp(transaction) /\ UNCHANGED <<device, handling, check, granted, unsent>>
  BY DEF HandleRetransmission
<1>2. transaction \in [Keys -> Transactions] /\ sinceClean \in 0..CleanEvery + 1
  BY TypeParts DEF SipIInv
<1>3. transaction' \in [Keys -> Transactions] /\ sinceClean' \in 0..CleanEvery + 1
  BY <1>1, <1>2, CleanUp
<1>4. SipTypeOK'
  BY <1>1, <1>3, Dequeued DEF SipIInv, SipTypeOK, Traceable, DeviceInfos, Transactions
<1>5. FinalAnswersKept' /\ GrantsKept'
  BY <1>1, <1>2, CleanUpKeeps DEF SipIInv, FinalAnswersKept, GrantsKept
<1>. QED BY <1>1, <1>4, <1>5, DevicesUnchanged DEF SipIInv

LEMMA HandleMessageStep ==
  ASSUME SipIInv, HandleMessage
  PROVE  SipIInv'
<1>. DEFINE m == Head(queue)
            codes == AnswerCodes(m)
<1>1. /\ m \in Requests /\ m.key \in Keys
      /\ Tail(queue) \in Seq(Requests) /\ Len(Tail(queue)) <= MaxQueue
  BY Dequeued DEF HandleMessage, SipIInv
<1>2. PICK sent \in SUBSET (1..Len(codes)) :
        LET stores == Traceable(m) /\ sent # {}
            ts == IF stores THEN [transaction EXCEPT ![m.key] = Stored(codes, sent)]
                  ELSE transaction
        IN /\ handling' = IF Method(m) \in Callbacks /\ codes = <<200>> /\ sent # {}
                          THEN m ELSE Silent
           /\ unsent' = IF ~stores THEN unsent
                        ELSE IF Len(codes) \in sent THEN unsent \ {m.key}
                        ELSE unsent \cup {m.key}
           /\ IF handling' = Silent
              THEN CleanedUp(ts) /\ UNCHANGED granted
              ELSE /\ transaction' = ts /\ UNCHANGED sinceClean
                   /\ granted' = IF Traceable(m) THEN [granted EXCEPT ![m.key] = 0]
                                 ELSE granted
  BY DEF HandleMessage
<1>. DEFINE t == Stored(codes, sent)
            stores == Traceable(m) /\ sent # {}
            ts == IF stores THEN [transaction EXCEPT ![m.key] = t] ELSE transaction
<1>3. sent # {} =>
        /\ t \in Transactions /\ t.kept /\ t.age = 0
        /\ Len(codes) \in sent => t.code >= 200
        /\ codes = <<200>> => t.code = 200
  BY <1>1, AnswersFinal
<1>4. /\ queue' = Tail(queue) /\ handling = Silent /\ UNCHANGED <<device, check>>
      /\ handling' # Silent => handling' = m /\ sent # {} /\ codes = <<200>>
      /\ unsent' = IF ~stores THEN unsent
                   ELSE IF Len(codes) \in sent THEN unsent \ {m.key}
                   ELSE unsent \cup {m.key}
      /\ handling' = Silent => CleanedUp(ts) /\ UNCHANGED granted
      /\ handling' # Silent =>
           /\ transaction' = ts /\ UNCHANGED sinceClean
           /\ granted' = IF Traceable(m) THEN [granted EXCEPT ![m.key] = 0] ELSE granted
  BY <1>2 DEF HandleMessage
<1>. HIDE DEF t, m, codes
<1>5. /\ transaction \in [Keys -> Transactions] /\ sinceClean \in 0..CleanEvery + 1
      /\ granted \in [Keys -> 0..Retain + 1] /\ unsent \subseteq Keys
  BY TypeParts DEF SipIInv
<1>6. /\ ts \in [Keys -> Transactions]
      /\ \A k \in Keys : ts[k] = IF k = m.key /\ stores THEN t
                                 ELSE transaction[k]
  BY <1>1, <1>3, <1>5
<1>. HIDE DEF ts
<1>7. unsent' \subseteq Keys
  BY <1>1, <1>4, <1>5
<1>8. \A k \in Keys \ unsent' : ts[k].kept => ts[k].code >= 200
  <2>1. ASSUME NEW k \in Keys \ unsent', ts[k].kept PROVE ts[k].code >= 200
    <3>1. CASE k = m.key /\ stores
      BY <1>3, <1>4, <1>6, <2>1, <3>1
    <3>2. CASE k # m.key \/ ~stores
      BY <1>4, <1>6, <2>1, <3>2 DEF SipIInv, FinalAnswersKept
    <3>. QED BY <3>1, <3>2
  <2>. QED BY <2>1
<1>9. \A k \in Keys : granted[k] <= Retain => ts[k].kept /\ ts[k].age <= granted[k]
  BY <1>3, <1>5, <1>6, Bounds DEF SipIInv, GrantsKept
<1>10. OnlineSince'
  BY <1>4, DevicesUnchanged
<1>11. CASE handling' = Silent
  <2>1. transaction' \in [Keys -> Transactions] /\ sinceClean' \in 0..CleanEvery + 1
    BY <1>4, <1>5, <1>6, <1>11, CleanUp
  <2>2. SipTypeOK'
    BY <1>1, <1>4, <1>7, <1>11, <2>1 DEF SipIInv, SipTypeOK, Traceable, DeviceInfos, Transactions
  <2>3. FinalAnswersKept' /\ GrantsKept'
    BY <1>4, <1>6, <1>8, <1>9, <1>11, CleanUpKeeps
  <2>. QED BY <1>10, <2>2, <2>3 DEF SipIInv
<1>12. CASE handling' # Silent
  <2>1. /\ handling' = m /\ transaction' = ts /\ UNCHANGED sinceClean
        /\ sent # {} /\ t.code = 200
        /\ granted' = IF Traceable(m) THEN [granted EXCEPT ![m.key] = 0] ELSE granted
    BY <1>3, <1>4, <1>12
  <2>2. /\ granted' \in [Keys -> 0..Retain + 1]
        /\ \A k \in Keys : granted'[k] = IF k = m.key /\ Traceable(m) THEN 0 ELSE granted[k]
    BY <1>1, <1>5, <2>1, Bounds
  <2>3. Traceable(m) => ts[m.key].code = 200
    BY <1>1, <1>6, <2>1
  <2>4. SipTypeOK'
    BY <1>1, <1>4, <1>6, <1>7, <2>1, <2>2, <2>3
       DEF SipIInv, SipTypeOK, Traceable, DeviceInfos, Transactions
  <2>5. FinalAnswersKept'
    BY <1>8, <2>1 DEF FinalAnswersKept
  <2>6. GrantsKept'
    BY <1>3, <1>6, <1>9, <2>1, <2>2 DEF GrantsKept
  <2>. QED BY <1>10, <2>4, <2>5, <2>6 DEF SipIInv
<1>. QED BY <1>11, <1>12

\* What a device becomes is well typed, and online only with a fresh age.
LEMMA DeviceChanges ==
  ASSUME NEW d \in DeviceInfos, ~d.known => d = Unknown
  PROVE  \A e \in {RegisteredDevice(d), HeardDevice(d), AddedDevice(d), Unknown} :
           /\ e \in DeviceInfos /\ (~e.known => e = Unknown)
           /\ e.online => e.known /\ (e.age = 0 \/ (d.online /\ e.age = d.age))
<1>1. 0 \in 0..MaxAge
  BY Bounds
<1>2. ~Unknown.online /\ ~Unknown.known /\ Unknown \in DeviceInfos
  BY <1>1 DEF Unknown, DeviceInfos
<1>3. /\ RegisteredDevice(d) \in DeviceInfos /\ RegisteredDevice(d).known
      /\ RegisteredDevice(d).age = 0
  BY <1>1 DEF RegisteredDevice, DeviceInfos
<1>4. CASE d.known
  <2>1. /\ HeardDevice(d) \in DeviceInfos /\ HeardDevice(d).known /\ HeardDevice(d).age = 0
    BY <1>1, <1>4 DEF HeardDevice, DeviceInfos
  <2>2. /\ AddedDevice(d) \in DeviceInfos /\ AddedDevice(d).known
        /\ AddedDevice(d).online => d.online /\ AddedDevice(d).age = d.age
    BY <1>1, <1>4 DEF AddedDevice, DeviceInfos
  <2>. QED BY <1>2, <1>3, <2>1, <2>2
<1>5. CASE ~d.known
  <2>1. HeardDevice(d) = Unknown
    BY <1>5 DEF HeardDevice
  <2>2. /\ AddedDevice(d) \in DeviceInfos /\ AddedDevice(d).known /\ ~AddedDevice(d).online
    BY <1>1, <1>2, <1>5 DEF AddedDevice, DeviceInfos
  <2>. QED BY <1>2, <1>3, <2>1, <2>2
<1>. QED BY <1>4, <1>5

\* Changing one device in one of these ways keeps the table's part.
LEMMA DeviceStep ==
  ASSUME SipIInv, NEW d \in Devices, UNCHANGED check,
         NEW e \in {RegisteredDevice(device[d]), HeardDevice(device[d]),
                    AddedDevice(device[d]), Unknown},
         device' = [device EXCEPT ![d] = e]
  PROVE  /\ device' \in [Devices -> DeviceInfos]
         /\ \A x \in Devices : ~device'[x].known => device'[x] = Unknown
         /\ OnlineSince'
<1>1. /\ device \in [Devices -> DeviceInfos]
      /\ \A x \in Devices : ~device[x].known => device[x] = Unknown
      /\ check \in [slept : 0..Interval, remove : SUBSET Devices]
  BY TypeParts DEF SipIInv
<1>2. /\ e \in DeviceInfos /\ (~e.known => e = Unknown)
      /\ e.online => e.known /\ (e.age = 0 \/ (device[d].online /\ e.age = device[d].age))
  BY <1>1, DeviceChanges
<1>3. \A x \in Devices : device'[x] = IF x = d THEN e ELSE device[x]
  BY <1>1
<1>4. Slack' = Slack /\ Slack \in Nat
  BY <1>1, Bounds DEF Slack
<1>5. OnlineSince'
  BY <1>1, <1>2, <1>3, <1>4, Bounds DEF OnlineSince, SipIInv
<1>. QED BY <1>1, <1>2, <1>3, <1>5

LEMMA CallBackStep ==
  ASSUME SipIInv, CallBack
  PROVE  SipIInv'
<1>. DEFINE d == Dev(handling)
            e == IF Method(handling) = "REGISTER" THEN RegisteredDevice(device[d])
                 ELSE HeardDevice(device[d])
<1>1. /\ handling # Silent /\ handling' = Silent
      /\ device' = [device EXCEPT ![d] = e]
      /\ CleanedUp(transaction) /\ UNCHANGED <<queue, check, granted, unsent>>
  BY DEF CallBack
<1>2. transaction \in [Keys -> Transactions] /\ sinceClean \in 0..CleanEvery + 1
  BY TypeParts DEF SipIInv
<1>3. transaction' \in [Keys -> Transactions] /\ sinceClean' \in 0..CleanEvery + 1
  BY <1>1, <1>2, CleanUp
<1>4. FinalAnswersKept' /\ GrantsKept'
  BY <1>1, <1>2, CleanUpKeeps DEF SipIInv, FinalAnswersKept, GrantsKept
<1>5. /\ device' \in [Devices -> DeviceInfos]
      /\ \A x \in Devices : ~device'[x].known => device'[x] = Unknown
      /\ OnlineSince'
  <2>1. CASE d \in Devices
    BY <1>1, <2>1, DeviceStep
  <2>2. CASE d \notin Devices
    <3>1. device' = device
      BY <1>1, <2>2, TypeParts DEF SipIInv
    <3>2. /\ device \in [Devices -> DeviceInfos]
          /\ \A x \in Devices : ~device[x].known => device[x] = Unknown
      BY TypeParts DEF SipIInv
    <3>3. OnlineSince'
      BY <1>1, <3>1, DevicesUnchanged
    <3>. QED BY <3>1, <3>2, <3>3
  <2>. QED BY <2>1, <2>2
<1>6. SipTypeOK'
  BY <1>1, <1>3, <1>5 DEF SipIInv, SipTypeOK, Traceable, DeviceInfos, Transactions
<1>. QED BY <1>4, <1>5, <1>6 DEF SipIInv

-----------------------------------------------------------------------------
(* The heartbeat thread, the handlers and the clock.                       *)

LEMMA CheckStep ==
  ASSUME SipIInv, CheckDeviceHeartbeat
  PROVE  SipIInv'
<1>. DEFINE offline == {d \in Devices : Overdue(device[d])}
<1>1. /\ check.slept = Interval /\ check.remove = {}
      /\ device' = [d \in Devices |-> IF d \in offline
                      THEN [device[d] EXCEPT !.online = FALSE] ELSE device[d]]
      /\ check' = IF AutoRemove /\ offline # {}
                  THEN [check EXCEPT !.remove = offline]
                  ELSE [slept |-> 0, remove |-> {}]
      /\ UNCHANGED <<queue, handling, transaction, sinceClean, granted, unsent>>
  BY DEF CheckDeviceHeartbeat
<1>2. /\ device \in [Devices -> DeviceInfos]
      /\ \A d \in Devices : ~device[d].known => device[d] = Unknown
      /\ check \in [slept : 0..Interval, remove : SUBSET Devices]
  BY TypeParts DEF SipIInv
<1>3. \A d \in Devices :
        /\ device'[d] \in DeviceInfos
        /\ ~device'[d].known => device'[d] = Unknown
        /\ device'[d].online => device[d].online /\ device'[d].known
                                /\ device'[d].age <= Timeout
  <2>1. SUFFICES ASSUME NEW d \in Devices
        PROVE  /\ device'[d] \in DeviceInfos
               /\ ~device'[d].known => device'[d] = Unknown
               /\ device'[d].online => device[d].online /\ device'[d].known
                                       /\ device'[d].age <= Timeout
    OBVIOUS
  <2>2. CASE Overdue(device[d])
    <3>1. device'[d] = [device[d] EXCEPT !.online = FALSE]
      BY <1>1, <2>2
    <3>. QED BY <1>2, <2>2, <3>1 DEF Overdue, DeviceInfos
  <2>3. CASE ~Overdue(device[d])
    <3>1. device'[d] = device[d]
      BY <1>1, <2>3
    <3>. QED BY <1>2, <2>3, <3>1, Bounds DEF Overdue, DeviceInfos, SipIInv, OnlineSince
  <2>. QED BY <2>2, <2>3
<1>4. /\ check' \in [slept : 0..Interval, remove : SUBSET Devices]
      /\ check'.remove # {} => AutoRemove /\ check'.slept = Interval
      /\ check'.remove # {} \/ check'.slept = 0
  BY <1>1, <1>2, Bounds
<1>5. Slack' = 0
  BY <1>4 DEF Slack
<1>6. OnlineSince'
  BY <1>3, <1>5, Bounds DEF OnlineSince
<1>7. SipTypeOK'
  BY <1>1, <1>3, <1>4 DEF SipIInv, SipTypeOK, Traceable, DeviceInfos, Transactions
<1>. QED BY <1>1, <1>6, <1>7, TransactionsUnchanged DEF SipIInv

LEMMA RemoveOfflineStep ==
  ASSUME SipIInv, RemoveOffline
  PROVE  SipIInv'
<1>1. /\ check.remove # {}
      /\ device' = [d \in Devices |-> IF d \in check.remove THEN Unknown ELSE device[d]]
      /\ check' = [slept |-> 0, remove |-> {}]
      /\ UNCHANGED <<queue, handling, transaction, sinceClean, granted, unsent>>
  BY DEF RemoveOffline
<1>2. /\ device \in [Devices -> DeviceInfos]
      /\ \A d \in Devices : ~device[d].known => device[d] = Unknown
  BY TypeParts DEF SipIInv
<1>3. ~Unknown.online /\ Unknown \in DeviceInfos
  BY Bounds DEF Unknown, DeviceInfos
<1>4. check' \in [slept : 0..Interval, remove : SUBSET Devices]
  BY <1>1, Bounds
<1>5. SipTypeOK'
  BY <1>1, <1>2, <1>3, <1>4 DEF SipIInv, SipTypeOK, Traceable, DeviceInfos, Transactions
<1>6. OnlineSince'
  BY <1>1, <1>2, <1>3 DEF OnlineSince, Slack, SipIInv
<1>. QED BY <1>1, <1>5, <1>6, TransactionsUnchanged DEF SipIInv

LEMMA HandlerStep ==
  ASSUME SipIInv, NEW d \in Devices,
         AddDevice(d) \/ RemoveDevice(d) \/ UpdateDeviceCredentials(d)
  PROVE  SipIInv'
<1>1. UNCHANGED <<queue, handling, transaction, sinceClean, check, granted, unsent>>
  BY DEF AddDevice, RemoveDevice, UpdateDeviceCredentials
<1>2. /\ device' \in [Devices -> DeviceInfos]
      /\ \A x \in Devices : ~device'[x].known => device'[x] = Unknown
      /\ OnlineSince'
  <2>1. CASE AddDevice(d) \/ RemoveDevice(d)
    BY <1>1, <2>1, DeviceStep DEF AddDevice, RemoveDevice
  <2>2. CASE UpdateDeviceCredentials(d)
    <3>1. device' = [device EXCEPT ![d].creds = TRUE] /\ device[d].known
      BY <2>2 DEF UpdateDeviceCredentials
    <3>2. /\ device \in [Devices -> DeviceInfos]
          /\ \A x \in Devices : ~device[x].known => device[x] = Unknown
      BY TypeParts DEF SipIInv
    <3>3. \A x \in Devices :
            /\ device'[x] \in DeviceInfos
            /\ device'[x].known = device[x].known /\ device'[x].online = device[x].online
            /\ device'[x].age = device[x].age
            /\ x # d => device'[x] = device[x]
      BY <3>1, <3>2 DEF DeviceInfos
    <3>4. device' \in [Devices -> DeviceInfos]
      BY <3>1, <3>2, <3>3
    <3>5. Slack' = Slack
      BY <1>1 DEF Slack
    <3>. QED BY <3>1, <3>2, <3>3, <3>4, <3>5 DEF OnlineSince, SipIInv
  <2>. QED BY <2>1, <2>2
<1>3. SipTypeOK'
  BY <1>1, <1>2 DEF SipIInv, SipTypeOK, Traceable, DeviceInfos, Transactions
<1>. QED BY <1>1, <1>2, <1>3, TransactionsUnchanged DEF SipIInv

LEMMA TickStep ==
  ASSUME SipIInv, Tick
  PROVE  SipIInv'
<1>1. /\ check.slept < Interval
      /\ check' = [check EXCEPT !.slept = @ + 1]
      /\ device' = [d \in Devices |-> IF device[d].known
                     THEN [device[d] EXCEPT !.age = Capped(@, MaxAge)] ELSE device[d]]
      /\ transaction' = [k \in Keys |-> IF transaction[k].kept
                          THEN [transaction[k] EXCEPT !.age = Capped(@, Retain + 1)]
                          ELSE transaction[k]]
      /\ sinceClean' = Capped(sinceClean, CleanEvery + 1)
      /\ granted' = [k \in Keys |-> Capped(granted[k], Retain + 1)]
      /\ UNCHANGED <<queue, handling, unsent>>
  BY DEF Tick
<1>2. /\ device \in [Devices -> DeviceInfos]
      /\ \A d \in Devices : ~device[d].known => device[d] = Unknown
      /\ transaction \in [Keys -> Transactions] /\ sinceClean \in 0..CleanEvery + 1
      /\ check \in [slept : 0..Interval, remove : SUBSET Devices]
      /\ check.remove # {} => AutoRemove /\ check.slept = Interval
      /\ granted \in [Keys -> 0..Retain + 1]
  BY TypeParts DEF SipIInv
<1>3. /\ check' \in [slept : 0..Interval, remove : SUBSET Devices]
      /\ check'.remove = {} /\ Slack' = Slack + 1 /\ Slack \in Nat
  BY <1>1, <1>2, Bounds DEF Slack
<1>4. \A d \in Devices :
        /\ device'[d] \in DeviceInfos
        /\ ~device'[d].known => device'[d] = Unknown
        /\ device'[d].online = device[d].online /\ device'[d].known = device[d].known
        /\ device'[d].age <= device[d].age + 1
  <2>1. SUFFICES ASSUME NEW d \in Devices
        PROVE  /\ device'[d] \in DeviceInfos
               /\ ~device'[d].known => device'[d] = Unknown
               /\ device'[d].online = device[d].online /\ device'[d].known = device[d].known
               /\ device'[d].age <= device[d].age + 1
    OBVIOUS
  <2>2. CASE device[d].known
    <3>1. device'[d] = [device[d] EXCEPT !.age = Capped(@, MaxAge)]
      BY <1>1, <2>2
    <3>2. /\ Capped(device[d].age, MaxAge) \in 0..MaxAge
          /\ Capped(device[d].age, MaxAge) <= device[d].age + 1
      BY <1>2, Bounds DEF DeviceInfos, Capped
    <3>. QED BY <1>2, <2>2, <3>1, <3>2 DEF DeviceInfos
  <2>3. CASE ~device[d].known
    BY <1>1, <1>2, <2>3 DEF DeviceInfos
  <2>. QED BY <2>2, <2>3
<1>5. \A k \in Keys :
        /\ transaction'[k] \in Transactions
        /\ transaction'[k].kept = transaction[k].kept
        /\ transaction'[k].code = transaction[k].code
        /\ transaction'[k].age = Capped(transaction[k].age, Retain + 1) \/ ~transaction[k].kept
  <2>1. SUFFICES ASSUME NEW k \in Keys
        PROVE  /\ transaction'[k] \in Transactions
               /\ transaction'[k].kept = transaction[k].kept
               /\ transaction'[k].code = transaction[k].code
               /\ transaction'[k].age = Capped(transaction[k].age, Retain + 1)
                    \/ ~transaction[k].kept
    OBVIOUS
  <2>2. CASE transaction[k].kept
    <3>1. transaction'[k] = [transaction[k] EXCEPT !.age = Capped(@, Retain + 1)]
      BY <1>1, <2>2
    <3>2. Capped(transaction[k].age, Retain + 1) \in 0..Retain + 1
      BY <1>2, Bounds DEF Transactions, Capped
    <3>. QED BY <1>2, <2>2, <3>1, <3>2 DEF Transactions
  <2>3. CASE ~transaction[k].kept
    BY <1>1, <1>2, <2>3
  <2>. QED BY <2>2, <2>3
<1>6. /\ granted' \in [Keys -> 0..Retain + 1]
      /\ \A k \in Keys : granted'[k] = Capped(granted[k], Retain + 1)
      /\ sinceClean' \in 0..CleanEvery + 1
  BY <1>1, <1>2, Bounds DEF Capped
<1>7. SipTypeOK'
  <2>1. handling' # Silent /\ Traceable(handling)' => transaction'[handling'.key].code = 200
    BY <1>1, <1>5, TypeParts DEF SipIInv, Keys, Traceable
  <2>2. device' \in [Devices -> DeviceInfos] /\ transaction' \in [Keys -> Transactions]
    BY <1>1, <1>4, <1>5
  <2>. QED BY <1>1, <1>3, <1>4, <1>6, <2>1, <2>2 DEF SipIInv, SipTypeOK, Traceable, DeviceInfos, Transactions
<1>8. OnlineSince'
  BY <1>2, <1>3, <1>4, Bounds DEF OnlineSince, SipIInv, DeviceInfos
<1>9. FinalAnswersKept'
  BY <1>1, <1>5 DEF FinalAnswersKept, SipIInv
<1>10. GrantsKept'
  BY <1>2, <1>5, <1>6, Bounds DEF GrantsKept, SipIInv, Capped, Transactions
<1>. QED BY <1>7, <1>8, <1>9, <1>10 DEF SipIInv

-----------------------------------------------------------------------------
(* The theorems about SipDevices.                                          *)

LEMMA SipInitially == SipInit => SipIInv
<1>. SUFFICES ASSUME SipInit PROVE SipIInv
  OBVIOUS
<1>1. Unknown \in DeviceInfos /\ ~Unknown.online /\ NoTransaction \in Transactions
      /\ ~NoTransaction.kept
  BY Bounds DEF Unknown, DeviceInfos, NoTransaction, Transactions, Codes
<1>2. SipTypeOK
  BY <1>1, TypeParts, Bounds DEF SipInit
<1>. QED BY <1>1, <1>2, Bounds DEF SipInit, SipIInv, OnlineSince, FinalAnswersKept, GrantsKept

LEMMA SipInductive == SipIInv /\ [SipNext]_sipVars => SipIInv'
<1>. SUFFICES ASSUME SipIInv, [SipNext]_sipVars PROVE SipIInv'
  OBVIOUS
<1>1. CASE UNCHANGED sipVars
  BY <1>1 DEF sipVars, SipIInv, SipTypeOK, Traceable, OnlineSince, Slack, FinalAnswersKept, GrantsKept
<1>2. CASE SipNext
  BY <1>2, ReceiveStep, SilentStep, HandleMessageStep, CallBackStep, CheckStep,
     RemoveOfflineStep, HandlerStep, TickStep DEF SipNext
<1>. QED BY <1>1, <1>2

LEMMA SipInvariance == SipSpec => []SipIInv
BY SipInitially, SipInductive, PTL DEF SipSpec

\* Requests, callbacks, heartbeat checks and handlers leave every variable well typed,
\* and what is about to be reported to the gateway was answered with 200.
THEOREM SipTypeCorrect == SipSpec => []SipTypeOK
<1>1. SipIInv => SipTypeOK
  BY DEF SipIInv
<1>. QED BY <1>1, SipInvariance, PTL

\* Whatever adds, removes and changes devices meanwhile, an online device was heard of
\* within the timeout and one interval of the check.
THEOREM OnlineAreFresh == SipSpec => []OnlineFresh
<1>1. SipIInv => OnlineFresh
  <2>. SUFFICES ASSUME SipIInv, NEW d \in Devices, device[d].online
                PROVE  device[d].known /\ device[d].age <= Timeout + Interval
    BY DEF OnlineFresh
  <2>1. /\ check \in [slept : 0..Interval, remove : SUBSET Devices]
        /\ device[d] \in DeviceInfos
    BY TypeParts DEF SipIInv
  <2>2. Slack \in Nat /\ Slack <= Interval
    BY <2>1, Bounds DEF Slack
  <2>. QED BY <2>1, <2>2, Bounds DEF SipIInv, OnlineSince, DeviceInfos
<1>. QED BY <1>1, SipInvariance, PTL

\* A retransmission is answered with a final answer, whichever of the answers went out,
\* unless the final one was not sent after one before it was.
THEOREM AnswersAreFinal == SipSpec => []FinalAnswersKept
<1>1. SipIInv => FinalAnswersKept
  BY DEF SipIInv
<1>. QED BY <1>1, SipInvariance, PTL

\* Whatever clean-ups come in between, a request with a Call-ID and a CSeq is not
\* granted again while its transaction is younger than Retain.
THEOREM GrantedOnce == SipSpec => AtMostOnce
<1>1. SipIInv /\ [SipNext]_sipVars =>
        [handling' # handling /\ handling' # Silent /\ Traceable(handling')
           => granted[handling'.key] > Retain]_sipVars
  <2>. SUFFICES ASSUME SipIInv, SipNext, handling' # handling, handling' # Silent,
                       Traceable(handling')
                PROVE  granted[handling'.key] > Retain
    BY DEF sipVars
  <2>1. HandleMessage
    BY DEF SipNext, Receive, HandleRetransmission, CallBack, CheckDeviceHeartbeat,
           RemoveOffline, AddDevice, RemoveDevice, UpdateDeviceCredentials, Tick
  <2>2. handling' = Head(queue) /\ ~transaction[Head(queue).key].kept
    BY <2>1 DEF HandleMessage, Retransmission
  <2>3. Head(queue).key \in Keys
    BY <2>1, Dequeued DEF HandleMessage, SipIInv
  <2>. QED BY <2>2, <2>3, TypeParts, Bounds DEF SipIInv, GrantsKept
<1>. QED BY <1>1, SipInvariance, PTL DEF SipSpec, AtMostOnce

-----------------------------------------------------------------------------
(* The streams: the inductive invariant.  What the properties leave aside  *)
(* once excused is left aside here as well.                                *)

Working(t) == start[t] \notin {"idle", "done"}

\* TypeOK, and the same for the copy of the status thread.
Typed ==
  /\ TypeOK
  /\ poll.copy.call \in {None, poll.copy.rtp}
  /\ poll.pc = "clean" => poll.failed

\* A stop that saw no start under way since it came found all there was.
Undisturbed ==
  ~excused => \A s \in Stops \ disturbed : stop[s].pc # "idle" =>
    /\ \A t \in Starts : ~Working(t)
    /\ stop[s].pc \in {"absent", "done"} => ~entry.here

\* The servers open for a reason: no attempt to close them has failed.
Live == open \ kept

\* One start opens at a time, and no live server is left but its own by then.
OneOpens == \A t, u \in Starts : Opening(t) /\ Opening(u) => t = u

OwnServer == \A t \in Starts : Opening(t) => Live \subseteq {t}

\* The entry's attempt has ended; whoever took it up still has the same one, and
\* has closed its server where it is about to erase the entry.
Current ==
  /\ entry.rtp # None => start[entry.rtp] = "done"
  /\ entry.here =>
       /\ ~Idle(poll) => poll.copy.rtp = entry.rtp
       /\ sip.pc = "teardown" => sip.call = entry.rtp
       /\ sip.pc = "erase" => entry.rtp \notin Live
       /\ \A s \in Stops : /\ stop[s].pc = "teardown" => stop[s].rtp = entry.rtp
                           /\ stop[s].pc = "erase" => entry.rtp \notin Live

\* Starting is what a start under way has asked for, or what an entry says that
\* nobody is about to erase or to overwrite.
Awaited ==
  reg = "Starting" =>
    \/ \E t \in Starts : Working(t)
    \/ /\ entry.here /\ entry.status = "Starting"
       /\ sip.pc # "erase" /\ \A s \in Stops : stop[s].pc # "erase"
       /\ ~Idle(poll) => poll.copy.status = "Starting"

Servers == \A r \in Live : (entry.here /\ entry.rtp = r) \/ Opening(r)

Coherent == OneOpens /\ OwnServer /\ Servers /\ Current /\ Awaited

IInv == Typed /\ Undisturbed /\ (~excused => Coherent)

-----------------------------------------------------------------------------
(* Types and records.                                                      *)

ServersOK == open \subseteq Starts /\ heard \subseteq open /\ kept \subseteq open

LEMMA RegistryCalls ==
  /\ \A r \in Statuses : Requested(r) \in Statuses
  /\ \A r \in Statuses, ok \in BOOLEAN :
       Resulting(r, ok) \in Statuses /\ Resulting(r, ok) # "Starting"
  /\ \A r \in Statuses, k \in {"Starting", "Running"} : Reregistered(r, k) \in Statuses
  /\ \A r \in Statuses : Reregistered(r, "Running") # "Starting"
BY DEF Statuses, Requested, Resulting, Reregistered

LEMMA InfoParts ==
  /\ NoInfo \in Infos /\ ~NoInfo.here /\ NoInfo.rtp = None /\ NoInfo.call = None
  /\ \A r, c \in Id, k \in States :
       /\ Info(r, c, k) \in Infos /\ Info(r, c, k).here
       /\ Info(r, c, k).rtp = r /\ Info(r, c, k).call = c /\ Info(r, c, k).status = k
BY DEF NoInfo, Info, Infos, Id, States

LEMMA InfoChanges ==
  ASSUME NEW e \in Infos
  PROVE  /\ \A k \in States :
              /\ [e EXCEPT !.status = k] \in Infos /\ [e EXCEPT !.status = k].status = k
              /\ [e EXCEPT !.status = k].here = e.here
              /\ [e EXCEPT !.status = k].rtp = e.rtp /\ [e EXCEPT !.status = k].call = e.call
         /\ \A b \in BOOLEAN :
              /\ [e EXCEPT !.answered = b] \in Infos
              /\ [e EXCEPT !.answered = b].status = e.status
              /\ [e EXCEPT !.answered = b].here = e.here
              /\ [e EXCEPT !.answered = b].rtp = e.rtp /\ [e EXCEPT !.answered = b].call = e.call
BY DEF Infos

LEMMA StopMoved ==
  ASSUME TypeOK, NEW s \in Stops, NEW k \in StopPlaces, StopMove(s, k)
  PROVE  /\ stop' \in [Stops -> [pc : StopPlaces, rtp : Id, call : Id]]
         /\ stop'[s].pc = k /\ stop'[s].rtp = stop[s].rtp /\ stop'[s].call = stop[s].call
         /\ \A x \in Stops : x # s => stop'[x] = stop[x]
BY DEF TypeOK, StopMove

LEMMA StopSet ==
  ASSUME TypeOK, NEW s \in Stops, NEW k \in StopPlaces, NEW r \in Id, NEW c \in Id,
         stop' = [stop EXCEPT ![s] = [pc |-> k, rtp |-> r, call |-> c]]
  PROVE  /\ stop' \in [Stops -> [pc : StopPlaces, rtp : Id, call : Id]]
         /\ stop'[s].pc = k /\ stop'[s].rtp = r /\ stop'[s].call = c
         /\ \A x \in Stops : x # s => stop'[x] = stop[x]
BY DEF TypeOK

LEMMA Moved ==
  ASSUME TypeOK, NEW t \in Starts, NEW k \in StartPlaces, Move(t, k)
  PROVE  /\ start' \in [Starts -> StartPlaces] /\ start'[t] = k
         /\ \A u \in Starts : u # t => start'[u] = start[u]
BY DEF TypeOK, Move

\* However an attempt to close a server ends, the server is not a live one any more.
LEMMA Closed ==
  ASSUME TypeOK, NEW r, Close(r)
  PROVE  ServersOK' /\ open' \subseteq open /\ Live' = Live \ {r}
<1>1. CASE open' = open \ {r} /\ heard' = heard \ {r} /\ kept' = kept \ {r}
  BY <1>1 DEF TypeOK, ServersOK, Live
<1>2. CASE kept' = kept \cup ({r} \cap open) /\ UNCHANGED <<open, heard>>
  BY <1>2 DEF TypeOK, ServersOK, Live
<1>. QED BY <1>1, <1>2 DEF Close

-----------------------------------------------------------------------------
(* What the histories say of a step.                                       *)

LEMMA Watched ==
  ASSUME IInv, Watch
  PROVE  /\ excused' \in BOOLEAN /\ disturbed' \subseteq Stops
         /\ ~excused' =>
              /\ ~excused /\ Coherent /\ OneOpens'
              /\ \A t \in Starts : start[t] # "done" /\ Opening(t) /\ start'[t] = "done" => ~Busy
              /\ \A t \in Starts : start[t] = "open" /\ start'[t] = "done" => t \notin open'
         /\ ~excused' => \A s \in Stops \ disturbed' :
              s \notin disturbed /\ (stop'[s].pc # "idle" => \A t \in Starts : ~Working(t)')
<1>1. /\ excused' = (excused \/ Excusing)
      /\ disturbed' = IF excused' THEN {}
                      ELSE disturbed \cup {s \in Stops : UnderWay /\ stop'[s].pc # "idle"}
  BY DEF Watch
<1>2. excused \in BOOLEAN /\ Excusing \in BOOLEAN /\ disturbed \subseteq Stops
  BY DEF IInv, Typed, TypeOK, Excusing
<1>3. ~excused' =>
              /\ ~excused /\ OneOpens'
              /\ \A t \in Starts : start[t] # "done" /\ Opening(t) /\ start'[t] = "done" => ~Busy
              /\ \A t \in Starts : start[t] = "open" /\ start'[t] = "done" => t \notin open'
  BY <1>1, <1>2 DEF Excusing, OneOpens
<1>4. ~excused' => \A s \in Stops \ disturbed' :
              s \notin disturbed /\ (stop'[s].pc # "idle" => \A t \in Starts : ~Working(t)')
  BY <1>1 DEF UnderWay, Working
<1>. QED BY <1>1, <1>2, <1>3, <1>4 DEF IInv

LEMMA UndisturbedKept ==
  ASSUME IInv, Watch,
         \A s \in Stops : stop'[s].pc \in {"absent", "done"} =>
           ~entry'.here \/ stop[s].pc \in {"absent", "done"},
         entry'.here => entry.here \/ \E t \in Starts : Working(t)
  PROVE  Undisturbed'
BY Watched DEF IInv, Undisturbed

-----------------------------------------------------------------------------
(* Steps of the threads other than the starts: what they do to servers.    *)

LEMMA OthersStep ==
  ASSUME IInv, Coherent, start' = start, Live' \subseteq Live,
         entry'.rtp \in {None, entry.rtp},
         entry'.here => entry.here /\ entry'.rtp = entry.rtp,
         entry.here /\ ~entry'.here => entry.rtp \notin Live',
         ~Idle(poll)' => poll'.copy.rtp = entry.rtp \/ (~Idle(poll) /\ poll'.copy.rtp = poll.copy.rtp),
         sip'.pc = "teardown" => sip' = sip \/ sip'.call = entry.rtp,
         sip'.pc = "erase" => sip.pc = "erase" \/ (entry'.here => entry.rtp \notin Live'),
         \A s \in Stops :
           /\ stop'[s].pc = "teardown" => stop'[s] = stop[s] \/ stop'[s].rtp = entry.rtp
           /\ stop'[s].pc = "erase" =>
                stop[s].pc = "erase" \/ (entry'.here => entry.rtp \notin Live')
  PROVE  OneOpens' /\ OwnServer' /\ Servers' /\ Current'
<1>1. \A t \in Starts : Opening(t)' = Opening(t)
  BY DEF Opening
<1>2. OneOpens' /\ OwnServer'
  BY <1>1 DEF Coherent, OneOpens, OwnServer
<1>3. Servers'
  BY <1>1 DEF IInv, Typed, TypeOK, Coherent, Servers, Live
<1>4. Current'
  BY DEF Coherent, Current
<1>. QED BY <1>2, <1>3, <1>4

-----------------------------------------------------------------------------
(* Stops.                                                                  *)

LEMMA HandleStopStreamStep ==
  ASSUME IInv, Watch, UNCHANGED up, NEW s \in Stops, HandleStopStream(s) \/ StopStreamByDevice(s)
  PROVE  IInv'
<1>1. /\ stop[s].pc = "idle" /\ StopMove(s, "find") /\ reg' \in {reg, "none"}
      /\ UNCHANGED <<start, sip, poll, entry, open, heard, kept, invited>>
  BY DEF HandleStopStream, StopStreamByDevice, StopAt, servers
<1>2. /\ stop' \in [Stops -> [pc : StopPlaces, rtp : Id, call : Id]]
      /\ stop'[s].pc = "find" /\ \A x \in Stops : x # s => stop'[x] = stop[x]
  BY <1>1, StopMoved DEF IInv, Typed, StopPlaces
<1>3. Typed'
  BY <1>1, <1>2, Watched DEF IInv, Typed, TypeOK, ServersOK, Statuses, Idle
<1>4. Undisturbed'
  BY <1>1, <1>2, UndisturbedKept
<1>5. ASSUME ~excused'
      PROVE  Coherent'
  <2>1. Coherent
    BY <1>5, Watched
  <2>2. OneOpens' /\ OwnServer' /\ Servers' /\ Current'
    BY <1>1, <1>2, <2>1, OthersStep DEF Coherent, Current, Idle, Live
  <2>3. Awaited'
    BY <1>1, <1>2, <2>1 DEF Coherent, Awaited, Working, Idle
  <2>. QED BY <2>2, <2>3 DEF Coherent
<1>. QED BY <1>3, <1>4, <1>5 DEF IInv

LEMMA FindEntryStep ==
  ASSUME IInv, Watch, UNCHANGED up, NEW s \in Stops, FindEntry(s)
  PROVE  IInv'
<1>1. /\ stop[s].pc = "find"
      /\ stop' = [stop EXCEPT ![s] =
                    IF entry.here
                    THEN [pc |-> "teardown", rtp |-> entry.rtp, call |-> entry.call]
                    ELSE [pc |-> "absent", rtp |-> None, call |-> None]]
      /\ UNCHANGED <<start, sip, poll, entry, open, heard, kept, invited, reg>>
  BY DEF FindEntry, StopAt, StopFinds, servers
<1>2. /\ stop' \in [Stops -> [pc : StopPlaces, rtp : Id, call : Id]]
      /\ stop'[s].pc = IF entry.here THEN "teardown" ELSE "absent"
      /\ entry.here => stop'[s].rtp = entry.rtp
      /\ \A x \in Stops : x # s => stop'[x] = stop[x]
  <2>1. entry \in Infos
    BY DEF IInv, Typed, TypeOK
  <2>2. CASE entry.here
    BY <1>1, <2>1, <2>2, StopSet DEF IInv, Typed, StopPlaces, Infos
  <2>3. CASE ~entry.here
    BY <1>1, <2>3, StopSet DEF IInv, Typed, StopPlaces, Id
  <2>. QED BY <2>2, <2>3
<1>3. Typed'
  BY <1>1, <1>2, Watched DEF IInv, Typed, TypeOK, ServersOK, Idle
<1>4. Undisturbed'
  BY <1>1, <1>2, UndisturbedKept
<1>5. ASSUME ~excused'
      PROVE  Coherent'
  <2>1. Coherent
    BY <1>5, Watched
  <2>2. OneOpens' /\ OwnServer' /\ Servers' /\ Current'
    BY <1>1, <1>2, <2>1, OthersStep DEF Coherent, Current, Idle, Live
  <2>3. Awaited'
    BY <1>1, <1>2, <2>1 DEF Coherent, Awaited, Working, Idle
  <2>. QED BY <2>2, <2>3 DEF Coherent
<1>. QED BY <1>3, <1>4, <1>5 DEF IInv

LEMMA StopAbsentStep ==
  ASSUME IInv, Watch, UNCHANGED up, NEW s \in Stops, StopAbsent(s)
  PROVE  IInv'
<1>1. /\ stop[s].pc = "absent" /\ StopMove(s, "done")
      /\ ServersOK' /\ Live' \subseteq Live /\ reg' \in {reg, "none"}
      /\ UNCHANGED <<start, sip, poll, entry, invited>>
  <2>1. CASE Close(GetRtpStreamId(entry))
    BY <2>1, Closed DEF StopAbsent, StopAt, IInv, Typed
  <2>2. CASE UNCHANGED servers
    BY <2>2 DEF StopAbsent, StopAt, IInv, Typed, TypeOK, ServersOK, Live, servers
  <2>. QED BY <2>1, <2>2 DEF StopAbsent, StopAt
<1>2. /\ stop' \in [Stops -> [pc : StopPlaces, rtp : Id, call : Id]]
      /\ stop'[s].pc = "done" /\ \A x \in Stops : x # s => stop'[x] = stop[x]
  BY <1>1, StopMoved DEF IInv, Typed, StopPlaces
<1>3. Typed'
  BY <1>1, <1>2, Watched DEF IInv, Typed, TypeOK, ServersOK, Statuses, Idle
<1>4. Undisturbed'
  BY <1>1, <1>2, UndisturbedKept
<1>5. ASSUME ~excused'
      PROVE  Coherent'
  <2>1. Coherent
    BY <1>5, Watched
  <2>2. OneOpens' /\ OwnServer' /\ Servers' /\ Current'
    BY <1>1, <1>2, <2>1, OthersStep DEF Coherent, Current, Idle, Live
  <2>3. Awaited'
    BY <1>1, <1>2, <2>1 DEF Coherent, Awaited, Working, Idle
  <2>. QED BY <2>2, <2>3 DEF Coherent
<1>. QED BY <1>3, <1>4, <1>5 DEF IInv

LEMMA StopTeardownStep ==
  ASSUME IInv, Watch, UNCHANGED up, NEW s \in Stops, StopTeardown(s)
  PROVE  IInv'
<1>1. /\ stop[s].pc = "teardown" /\ StopMove(s, "erase")
      /\ ServersOK' /\ Live' = Live \ {stop[s].rtp} /\ reg' = "none"
      /\ UNCHANGED <<start, sip, poll, entry, invited>>
  BY Closed DEF StopTeardown, StopAt, IInv, Typed
<1>2. /\ stop' \in [Stops -> [pc : StopPlaces, rtp : Id, call : Id]]
      /\ stop'[s].pc = "erase" /\ \A x \in Stops : x # s => stop'[x] = stop[x]
  BY <1>1, StopMoved DEF IInv, Typed, StopPlaces
<1>3. Typed'
  BY <1>1, <1>2, Watched DEF IInv, Typed, TypeOK, ServersOK, Statuses, Idle
<1>4. Undisturbed'
  BY <1>1, <1>2, UndisturbedKept
<1>5. ASSUME ~excused'
      PROVE  Coherent'
  <2>1. Coherent
    BY <1>5, Watched
  <2>2. OneOpens' /\ OwnServer' /\ Servers' /\ Current'
    <3>1. entry.here => entry.rtp \notin Live'
      BY <1>1, <2>1 DEF Coherent, Current
    <3>. QED BY <1>1, <1>2, <2>1, <3>1, OthersStep DEF Coherent, Current, Idle, Live
  <2>3. Awaited'
    BY <1>1 DEF Awaited
  <2>. QED BY <2>2, <2>3 DEF Coherent
<1>. QED BY <1>3, <1>4, <1>5 DEF IInv

LEMMA StopEraseStep ==
  ASSUME IInv, Watch, UNCHANGED up, NEW s \in Stops, StopErase(s)
  PROVE  IInv'
<1>1. /\ stop[s].pc = "erase"
      /\ stop' = [stop EXCEPT ![s] = [pc |-> "done", rtp |-> None, call |-> None]]
      /\ entry' = NoInfo
      /\ UNCHANGED <<start, sip, poll, open, heard, kept, invited, reg>>
  BY DEF StopErase, StopAt, servers
<1>2. /\ stop' \in [Stops -> [pc : StopPlaces, rtp : Id, call : Id]]
      /\ stop'[s].pc = "done" /\ \A x \in Stops : x # s => stop'[x] = stop[x]
  BY <1>1, StopSet DEF IInv, Typed, StopPlaces, Id
<1>3. Typed'
  BY <1>1, <1>2, InfoParts, Watched DEF IInv, Typed, TypeOK, ServersOK, Idle
<1>4. Undisturbed'
  BY <1>1, <1>2, InfoParts, UndisturbedKept
<1>5. ASSUME ~excused'
      PROVE  Coherent'
  <2>1. Coherent
    BY <1>5, Watched
  <2>2. OneOpens' /\ OwnServer' /\ Servers' /\ Current'
    <3>1. entry.here => entry.rtp \notin Live'
      BY <1>1, <2>1 DEF Coherent, Current, Live
    <3>. QED BY <1>1, <1>2, <2>1, <3>1, InfoParts, OthersStep DEF Coherent, Current, Idle, Live
  <2>3. Awaited'
    BY <1>1, <2>1 DEF Coherent, Awaited, Working
  <2>. QED BY <2>2, <2>3 DEF Coherent
<1>. QED BY <1>3, <1>4, <1>5 DEF IInv

-----------------------------------------------------------------------------
(* The message thread.                                                     *)

LEMMA MatchResponseStep ==
  ASSUME IInv, Watch, UNCHANGED up, NEW c \in Starts, NEW a \in Answers, MatchResponse(c, a)
  PROVE  IInv'
<1>1. /\ sip' = [pc |-> "respond", call |-> c, answer |-> a]
      /\ UNCHANGED <<start, stop, poll, entry, open, heard, kept, invited, reg>>
  BY DEF MatchResponse, servers
<1>2. sip' \in [pc : SipPlaces, call : Id, answer : Answers] /\ sip'.pc = "respond"
  BY <1>1 DEF SipPlaces, Id
<1>3. Typed'
  BY <1>1, <1>2, Watched DEF IInv, Typed, TypeOK, ServersOK, Idle
<1>4. Undisturbed'
  BY <1>1, UndisturbedKept
<1>5. ASSUME ~excused'
      PROVE  Coherent'
  <2>1. Coherent
    BY <1>5, Watched
  <2>2. OneOpens' /\ OwnServer' /\ Servers' /\ Current'
    BY <1>1, <1>2, <2>1, OthersStep DEF Coherent, Current, Idle, Live
  <2>3. Awaited'
    BY <1>1, <1>2, <2>1 DEF Coherent, Awaited, Working, Idle
  <2>. QED BY <2>2, <2>3 DEF Coherent
<1>. QED BY <1>3, <1>4, <1>5 DEF IInv

LEMMA ApplyResponseStep ==
  ASSUME IInv, Watch, UNCHANGED up, ApplyResponse
  PROVE  IInv'
<1>1. /\ sip' = SipIdle
      /\ UNCHANGED <<start, stop, poll, invited>>
      /\ \/ UNCHANGED <<entry, open, heard, kept, reg>>
         \/ /\ entry.here
            /\ entry' = [entry EXCEPT !.answered = @ \/ entry.status = "Starting"]
            /\ UNCHANGED <<open, heard, kept, reg>>
         \/ /\ entry.here
            /\ entry' = [entry EXCEPT !.status = "Error"]
            /\ Close(entry.rtp)
            /\ reg' = Resulting(reg, FALSE)
  BY DEF ApplyResponse, servers
<1>2. sip' \in [pc : SipPlaces, call : Id, answer : Answers] /\ sip'.pc = "idle"
  BY <1>1, Gb28181StreamsAssumption DEF SipIdle, SipPlaces, Id
<1>3. /\ entry' \in Infos /\ entry'.here = entry.here
      /\ entry'.rtp = entry.rtp /\ entry'.call = entry.call
      /\ entry' # entry => entry.here
      /\ ServersOK' /\ Live' \subseteq Live /\ reg' \in Statuses
      /\ (entry'.status = entry.status /\ reg' = reg) \/ reg' # "Starting"
  <2>1. /\ entry \in Infos /\ reg \in Statuses /\ entry.answered \in BOOLEAN
        /\ ServersOK /\ TypeOK
    BY DEF IInv, Typed, TypeOK, Infos, ServersOK
  <2>2. CASE UNCHANGED <<entry, open, heard, kept, reg>>
    BY <2>1, <2>2 DEF ServersOK, Live
  <2>3. CASE /\ entry.here
             /\ entry' = [entry EXCEPT !.answered = @ \/ entry.status = "Starting"]
             /\ UNCHANGED <<open, heard, kept, reg>>
    <3>. DEFINE b == entry.answered \/ entry.status = "Starting"
    <3>1. entry' = [entry EXCEPT !.answered = b] /\ b \in BOOLEAN
      BY <2>3
    <3>. HIDE DEF b
    <3>. QED BY <2>1, <2>3, <3>1, InfoChanges DEF ServersOK, Live
  <2>4. CASE /\ entry.here
             /\ entry' = [entry EXCEPT !.status = "Error"]
             /\ Close(entry.rtp)
             /\ reg' = Resulting(reg, FALSE)
    <3>1. ServersOK' /\ Live' \subseteq Live
      BY <2>1, <2>4, Closed
    <3>2. reg' \in Statuses /\ reg' # "Starting"
      BY <2>1, <2>4, RegistryCalls
    <3>. QED BY <2>1, <2>4, <3>1, <3>2, InfoChanges DEF States
  <2>. QED BY <1>1, <2>2, <2>3, <2>4
<1>4. Typed'
  BY <1>1, <1>2, <1>3, Watched DEF IInv, Typed, TypeOK, ServersOK, Idle
<1>5. Undisturbed'
  BY <1>1, <1>3, UndisturbedKept
<1>6. ASSUME ~excused'
      PROVE  Coherent'
  <2>1. Coherent
    BY <1>6, Watched
  <2>2. OneOpens' /\ OwnServer' /\ Servers' /\ Current'
    BY <1>1, <1>2, <1>3, <2>1, OthersStep DEF Coherent, Current, Idle, Live
  <2>3. Awaited'
    BY <1>1, <1>2, <1>3, <2>1 DEF Coherent, Awaited, Working, Idle
  <2>. QED BY <2>2, <2>3 DEF Coherent
<1>. QED BY <1>4, <1>5, <1>6 DEF IInv

LEMMA MatchByeStep ==
  ASSUME IInv, Watch, UNCHANGED up, NEW c \in Starts, MatchBye(c)
  PROVE  IInv'
<1>1. /\ entry.here /\ entry.call = c
      /\ sip' = [pc |-> "teardown", call |-> c, answer |-> "ok"]
      /\ UNCHANGED <<start, stop, poll, entry, open, heard, kept, invited, reg>>
  BY DEF MatchBye, servers
<1>2. /\ sip' \in [pc : SipPlaces, call : Id, answer : Answers]
      /\ sip'.pc = "teardown" /\ sip'.call = entry.rtp
  BY <1>1, Gb28181StreamsAssumption DEF IInv, Typed, TypeOK, SipPlaces, Id
<1>3. Typed'
  BY <1>1, <1>2, Watched DEF IInv, Typed, TypeOK, ServersOK, Idle
<1>4. Undisturbed'
  BY <1>1, UndisturbedKept
<1>5. ASSUME ~excused'
      PROVE  Coherent'
  <2>1. Coherent
    BY <1>5, Watched
  <2>2. OneOpens' /\ OwnServer' /\ Servers' /\ Current'
    BY <1>1, <1>2, <2>1, OthersStep DEF Coherent, Current, Idle, Live
  <2>3. Awaited'
    BY <1>1, <1>2, <2>1 DEF Coherent, Awaited, Working, Idle
  <2>. QED BY <2>2, <2>3 DEF Coherent
<1>. QED BY <1>3, <1>4, <1>5 DEF IInv

LEMMA ByeTeardownStep ==
  ASSUME IInv, Watch, UNCHANGED up, ByeTeardown
  PROVE  IInv'
<1>1. /\ sip.pc = "teardown" /\ sip' = [sip EXCEPT !.pc = "erase"]
      /\ ServersOK' /\ Live' = Live \ {sip.call} /\ reg' = "none"
      /\ UNCHANGED <<start, stop, poll, entry, invited>>
  BY Closed DEF ByeTeardown, SipAt, IInv, Typed
<1>2. sip' \in [pc : SipPlaces, call : Id, answer : Answers] /\ sip'.pc = "erase"
  BY <1>1 DEF IInv, Typed, TypeOK, SipPlaces
<1>3. Typed'
  BY <1>1, <1>2, Watched DEF IInv, Typed, TypeOK, ServersOK, Idle, Statuses
<1>4. Undisturbed'
  BY <1>1, UndisturbedKept
<1>5. ASSUME ~excused'
      PROVE  Coherent'
  <2>1. Coherent
    BY <1>5, Watched
  <2>2. OneOpens' /\ OwnServer' /\ Servers' /\ Current'
    <3>1. entry.here => entry.rtp \notin Live'
      BY <1>1, <2>1 DEF Coherent, Current
    <3>. QED BY <1>1, <1>2, <2>1, <3>1, OthersStep DEF Coherent, Current, Idle, Live
  <2>3. Awaited'
    BY <1>1 DEF Awaited
  <2>. QED BY <2>2, <2>3 DEF Coherent
<1>. QED BY <1>3, <1>4, <1>5 DEF IInv

LEMMA ByeEraseStep ==
  ASSUME IInv, Watch, UNCHANGED up, ByeErase
  PROVE  IInv'
<1>1. /\ sip.pc = "erase" /\ sip' = SipIdle /\ entry' = NoInfo
      /\ UNCHANGED <<start, stop, poll, open, heard, kept, invited, reg>>
  BY DEF ByeErase, SipAt, servers
<1>2. sip' \in [pc : SipPlaces, call : Id, answer : Answers] /\ sip'.pc = "idle"
  BY <1>1, Gb28181StreamsAssumption DEF SipIdle, SipPlaces, Id
<1>3. Typed'
  BY <1>1, <1>2, InfoParts, Watched DEF IInv, Typed, TypeOK, ServersOK, Idle
<1>4. Undisturbed'
  BY <1>1, InfoParts, UndisturbedKept
<1>5. ASSUME ~excused'
      PROVE  Coherent'
  <2>1. Coherent
    BY <1>5, Watched
  <2>2. OneOpens' /\ OwnServer' /\ Servers' /\ Current'
    <3>1. entry.here => entry.rtp \notin Live'
      BY <1>1, <2>1 DEF Coherent, Current, Live
    <3>. QED BY <1>1, <1>2, <2>1, <3>1, InfoParts, OthersStep DEF Coherent, Current, Idle, Live
  <2>3. Awaited'
    BY <1>1, <2>1 DEF Coherent, Awaited, Working
  <2>. QED BY <2>2, <2>3 DEF Coherent
<1>. QED BY <1>3, <1>4, <1>5 DEF IInv

-----------------------------------------------------------------------------
(* The status thread.                                                      *)

LEMMA PollCopyStep ==
  ASSUME IInv, Watch, UNCHANGED up, PollCopy
  PROVE  IInv'
<1>1. /\ poll.pc = "idle" /\ entry.here /\ entry.status \in {"Starting", "Running"}
      /\ poll' = [pc |-> "look", copy |-> entry, failed |-> FALSE]
      /\ UNCHANGED <<start, stop, sip, entry, open, heard, kept, invited, reg>>
  BY DEF PollCopy, PollAt, Polled, servers
<1>2. /\ poll' \in [pc : PollPlaces, copy : Infos, failed : BOOLEAN]
      /\ poll'.pc = "look" /\ poll'.copy = entry /\ poll'.failed = FALSE
  BY <1>1 DEF IInv, Typed, TypeOK, PollPlaces
<1>3. Typed'
  BY <1>1, <1>2, Watched DEF IInv, Typed, TypeOK, ServersOK, Idle
<1>4. Undisturbed'
  BY <1>1, UndisturbedKept
<1>5. ASSUME ~excused'
      PROVE  Coherent'
  <2>1. Coherent
    BY <1>5, Watched
  <2>2. OneOpens' /\ OwnServer' /\ Servers' /\ Current'
    BY <1>1, <1>2, <2>1, OthersStep DEF Coherent, Current, Idle, Live
  <2>3. Awaited'
    BY <1>1, <1>2, <2>1 DEF Coherent, Awaited, Working, Idle
  <2>. QED BY <2>2, <2>3 DEF Coherent
<1>. QED BY <1>3, <1>4, <1>5 DEF IInv

\* A look changes the copy, and the registry if a start has come to its end.
LEMMA LookStep ==
  ASSUME IInv, Watch, UNCHANGED up, LookActive \/ LookLate \/ LookInactive
  PROVE  IInv'
<1>1. PICK k \in {"Running", "Error", "Starting", "Stopped"} :
        /\ Looked(k)
        /\ k = "Starting" => poll.copy.status = "Starting"
        /\ poll.copy.status = "Starting" => k = "Starting" \/ reg' # "Starting"
  BY RegistryCalls DEF LookActive, LookLate, LookInactive, TimeoutReport, IInv, Typed, TypeOK
<1>2. /\ poll.pc = "look" /\ UNCHANGED <<start, stop, sip, entry, open, heard, kept, invited>>
      /\ reg' \in {reg, Reregistered(reg, "Running"), Resulting(reg, FALSE)}
  BY DEF LookActive, LookLate, LookInactive, TimeoutReport, PollAt, servers
<1>3. reg' \in Statuses /\ (reg' = "Starting" => reg = "Starting")
  BY <1>2, RegistryCalls DEF IInv, Typed, TypeOK
<1>4. /\ poll' \in [pc : PollPlaces, copy : Infos, failed : BOOLEAN]
      /\ poll'.pc = "back" /\ poll'.failed = (k = "Error")
      /\ poll'.copy.status = k /\ poll'.copy.here = poll.copy.here
      /\ poll'.copy.rtp = poll.copy.rtp /\ poll'.copy.call = poll.copy.call
  <2>1. poll \in [pc : PollPlaces, copy : Infos, failed : BOOLEAN]
    BY DEF IInv, Typed, TypeOK
  <2>. DEFINE copied == [poll.copy EXCEPT !.status = k]
  <2>2. /\ copied \in Infos /\ copied.status = k /\ copied.here = poll.copy.here
        /\ copied.rtp = poll.copy.rtp /\ copied.call = poll.copy.call
    BY <2>1 DEF Infos, States
  <2>3. poll' = [poll EXCEPT !.pc = "back", !.copy = copied, !.failed = (k = "Error")]
    BY <1>1, <2>1 DEF Looked
  <2>. HIDE DEF copied
  <2>4. /\ poll'.pc = "back" /\ poll'.copy = copied /\ poll'.failed = (k = "Error")
        /\ poll' \in [pc : PollPlaces, copy : Infos, failed : BOOLEAN]
    BY <2>1, <2>2, <2>3 DEF PollPlaces
  <2>. QED BY <2>2, <2>4
<1>5. Typed'
  BY <1>2, <1>3, <1>4, Watched DEF IInv, Typed, TypeOK, ServersOK, Idle
<1>6. Undisturbed'
  BY <1>2, UndisturbedKept
<1>7. ASSUME ~excused'
      PROVE  Coherent'
  <2>1. Coherent
    BY <1>7, Watched
  <2>2. OneOpens' /\ OwnServer' /\ Servers' /\ Current'
    BY <1>2, <1>4, <2>1, OthersStep DEF Coherent, Current, Idle, Live
  <2>3. Awaited'
    BY <1>1, <1>2, <1>3, <1>4, <2>1 DEF Coherent, Awaited, Working, Idle
  <2>. QED BY <2>2, <2>3 DEF Coherent
<1>. QED BY <1>5, <1>6, <1>7 DEF IInv

LEMMA PollIdleParts ==
  /\ PollIdle \in [pc : PollPlaces, copy : Infos, failed : BOOLEAN]
  /\ PollIdle.pc = "idle" /\ PollIdle.copy = NoInfo
BY InfoParts DEF PollIdle, PollPlaces

LEMMA LookThrowsStep ==
  ASSUME IInv, Watch, UNCHANGED up, LookThrows
  PROVE  IInv'
<1>1. /\ poll' = PollIdle
      /\ UNCHANGED <<start, stop, sip, entry, open, heard, kept, invited, reg>>
  BY DEF LookThrows, servers
<1>2. Typed'
  BY <1>1, PollIdleParts, InfoParts, Watched DEF IInv, Typed, TypeOK, ServersOK, Idle
<1>3. Undisturbed'
  BY <1>1, UndisturbedKept
<1>4. ASSUME ~excused'
      PROVE  Coherent'
  <2>1. Coherent
    BY <1>4, Watched
  <2>2. OneOpens' /\ OwnServer' /\ Servers' /\ Current'
    BY <1>1, <2>1, PollIdleParts, OthersStep DEF Coherent, Current, Idle, Live
  <2>3. Awaited'
    BY <1>1, <2>1, PollIdleParts DEF Coherent, Awaited, Working, Idle
  <2>. QED BY <2>2, <2>3 DEF Coherent
<1>. QED BY <1>2, <1>3, <1>4 DEF IInv

LEMMA PollWriteBackStep ==
  ASSUME IInv, Watch, UNCHANGED up, PollWriteBack
  PROVE  IInv'
<1>1. /\ poll.pc = "back" /\ entry' = IF entry.here THEN poll.copy ELSE entry
      /\ poll' = IF poll.failed THEN [poll EXCEPT !.pc = "clean"] ELSE PollIdle
      /\ UNCHANGED <<start, stop, sip, open, heard, kept, invited, reg>>
  BY DEF PollWriteBack, PollAt, WrittenBack, servers
<1>2. /\ poll \in [pc : PollPlaces, copy : Infos, failed : BOOLEAN] /\ poll.copy.here
      /\ poll.copy.call \in {None, poll.copy.rtp}
      /\ entry \in Infos /\ (~entry.here => entry = NoInfo)
  BY <1>1 DEF IInv, Typed, TypeOK, Idle
<1>3. /\ poll' \in [pc : PollPlaces, copy : Infos, failed : BOOLEAN]
      /\ \/ poll.failed /\ poll'.pc = "clean" /\ poll'.copy = poll.copy /\ poll'.failed
         \/ poll' = PollIdle
  BY <1>1, <1>2, PollIdleParts DEF PollPlaces
<1>4. entry' \in Infos /\ entry'.here = entry.here
  BY <1>1, <1>2
<1>5. Typed'
  BY <1>1, <1>2, <1>3, <1>4, PollIdleParts, InfoParts, Watched DEF IInv, Typed, TypeOK, ServersOK, Idle
<1>6. Undisturbed'
  BY <1>1, <1>4, UndisturbedKept
<1>7. ASSUME ~excused'
      PROVE  Coherent'
  <2>1. Coherent
    BY <1>7, Watched
  <2>2. entry'.rtp = entry.rtp
    BY <1>1, <2>1 DEF Coherent, Current, Idle
  <2>3. OneOpens' /\ OwnServer' /\ Servers' /\ Current'
    BY <1>1, <1>3, <1>4, <2>1, <2>2, PollIdleParts, OthersStep DEF Coherent, Current, Idle, Live
  <2>4. Awaited'
    BY <1>1, <1>3, <1>4, <2>1, PollIdleParts DEF Coherent, Awaited, Working, Idle
  <2>. QED BY <2>3, <2>4 DEF Coherent
<1>. QED BY <1>5, <1>6, <1>7 DEF IInv

LEMMA PollCleanStep ==
  ASSUME IInv, Watch, UNCHANGED up, PollClean
  PROVE  IInv'
<1>1. /\ poll.pc = "clean" /\ poll' = PollIdle /\ entry' = NoInfo
      /\ ServersOK' /\ Live' = IF entry.here THEN Live \ {entry.rtp} ELSE Live
      /\ UNCHANGED <<start, stop, sip, invited, reg>>
  <2>1. CASE entry.here
    BY <2>1, Closed DEF PollClean, PollAt, Cleaned, IInv, Typed
  <2>2. CASE ~entry.here
    BY <2>2 DEF PollClean, PollAt, Cleaned, IInv, Typed, TypeOK, ServersOK, Live, servers
  <2>. QED BY <2>1, <2>2
<1>2. Typed'
  BY <1>1, PollIdleParts, InfoParts, Watched DEF IInv, Typed, TypeOK, ServersOK, Idle
<1>3. Undisturbed'
  BY <1>1, InfoParts, UndisturbedKept
<1>4. ASSUME ~excused'
      PROVE  Coherent'
  <2>1. Coherent
    BY <1>4, Watched
  <2>2. OneOpens' /\ OwnServer' /\ Servers' /\ Current'
    BY <1>1, <2>1, PollIdleParts, InfoParts, OthersStep DEF Coherent, Current, Idle, Live
  <2>3. poll.copy.status = "Error"
    BY <1>1 DEF IInv, Typed, TypeOK, Idle
  <2>4. Awaited'
    BY <1>1, <2>1, <2>3 DEF Coherent, Awaited, Working, Idle
  <2>. QED BY <2>2, <2>4 DEF Coherent
<1>. QED BY <1>2, <1>3, <1>4 DEF IInv

-----------------------------------------------------------------------------
(* The registry, ZLMediaKit and the destructor.                            *)

LEMMA RegistryMovesStep ==
  ASSUME IInv, Watch, UNCHANGED up, RegistryMoves
  PROVE  IInv'
<1>1. /\ reg' \in Statuses /\ reg' # "Starting"
      /\ UNCHANGED <<start, stop, sip, poll, entry, open, heard, kept, invited>>
  BY DEF RegistryMoves, HookStatuses, threads, servers
<1>2. Typed'
  BY <1>1, Watched DEF IInv, Typed, TypeOK, ServersOK, Idle
<1>3. Undisturbed'
  BY <1>1, UndisturbedKept
<1>4. ASSUME ~excused'
      PROVE  Coherent'
  <2>1. Coherent
    BY <1>4, Watched
  <2>2. OneOpens' /\ OwnServer' /\ Servers' /\ Current'
    BY <1>1, <2>1, OthersStep DEF Coherent, Current, Idle, Live
  <2>. QED BY <1>1, <2>2 DEF Coherent, Awaited
<1>. QED BY <1>2, <1>3, <1>4 DEF IInv

LEMMA ServerTimesOutStep ==
  ASSUME IInv, Watch, UNCHANGED up, ServerTimesOut
  PROVE  IInv'
<1>1. /\ ServersOK' /\ Live' \subseteq Live
      /\ UNCHANGED <<start, stop, sip, poll, entry, invited, reg>>
  BY DEF ServerTimesOut, threads, IInv, Typed, TypeOK, ServersOK, Live
<1>2. Typed'
  BY <1>1, Watched DEF IInv, Typed, TypeOK, ServersOK, Idle
<1>3. Undisturbed'
  BY <1>1, UndisturbedKept
<1>4. ASSUME ~excused'
      PROVE  Coherent'
  <2>1. Coherent
    BY <1>4, Watched
  <2>2. OneOpens' /\ OwnServer' /\ Servers' /\ Current'
    BY <1>1, <2>1, OthersStep DEF Coherent, Current, Idle, Live
  <2>. QED BY <1>1, <2>1, <2>2 DEF Coherent, Awaited, Working, Idle
<1>. QED BY <1>2, <1>3, <1>4 DEF IInv

LEMMA DataComesStep ==
  ASSUME IInv, Watch, UNCHANGED up, DataComes
  PROVE  IInv'
<1>1. /\ ServersOK' /\ Live' = Live
      /\ UNCHANGED <<start, stop, sip, poll, entry, invited, reg>>
  BY DEF DataComes, threads, IInv, Typed, TypeOK, ServersOK, Live
<1>2. Typed'
  BY <1>1, Watched DEF IInv, Typed, TypeOK, ServersOK, Idle
<1>3. Undisturbed'
  BY <1>1, UndisturbedKept
<1>4. ASSUME ~excused'
      PROVE  Coherent'
  <2>1. Coherent
    BY <1>4, Watched
  <2>2. OneOpens' /\ OwnServer' /\ Servers' /\ Current'
    BY <1>1, <2>1, OthersStep DEF Coherent, Current, Idle
  <2>. QED BY <1>1, <2>1, <2>2 DEF Coherent, Awaited, Working, Idle
<1>. QED BY <1>2, <1>3, <1>4 DEF IInv

LEMMA DestroyStep ==
  ASSUME IInv, Destroy
  PROVE  IInv'
<1>1. /\ up' = FALSE /\ Idle(poll) /\ Idle(sip)
      /\ \A t \in Starts : ~Working(t)
      /\ entry' = NoInfo /\ ServersOK' /\ Live' = Live \ {entry.rtp}
      /\ reg' = IF entry.here THEN "none" ELSE reg
      /\ UNCHANGED <<start, stop, sip, poll, invited, excused, disturbed>>
  BY Closed DEF Destroy, threads, history, Working, IInv, Typed
<1>2. Typed'
  BY <1>1, InfoParts DEF IInv, Typed, TypeOK, Idle, Statuses, ServersOK
<1>3. Undisturbed'
  BY <1>1, InfoParts DEF IInv, Undisturbed, Working
<1>4. ASSUME ~excused'
      PROVE  Coherent'
  <2>1. Coherent
    BY <1>1, <1>4 DEF IInv
  <2>2. OneOpens' /\ OwnServer' /\ Servers' /\ Current'
    BY <1>1, <2>1, InfoParts, OthersStep DEF Coherent, Current, Idle, Live
  <2>3. Awaited'
    BY <1>1, <2>1 DEF Coherent, Awaited, Working, Idle
  <2>. QED BY <2>2, <2>3 DEF Coherent
<1>. QED BY <1>2, <1>3, <1>4 DEF IInv

-----------------------------------------------------------------------------
(* Starts.                                                                 *)

\* A start that is not done moves on: the entry is not its own yet.
LEMMA StartMoves ==
  ASSUME IInv, Coherent, NEW t \in Starts, start[t] # "done",
         start' \in [Starts -> StartPlaces],
         \A u \in Starts : u # t => start'[u] = start[u]
  PROVE  entry.rtp # t /\ (entry.rtp # None => start'[entry.rtp] = "done")
BY Gb28181StreamsAssumption DEF IInv, Typed, TypeOK, Infos, Id, Coherent, Current

\* Where the entry is stored nobody else is at work.
LEMMA StoredStarting ==
  ASSUME IInv, Watch, ~excused', NEW t \in Starts, Opening(t), Move(t, "done"),
         UNCHANGED <<stop, sip, poll>>, Live' \subseteq {t},
         entry'.rtp \in {None, t},
         t \in Live' => entry'.here /\ entry'.rtp = t
  PROVE  /\ OneOpens' /\ OwnServer' /\ Servers' /\ Current'
         /\ Idle(poll)' /\ sip'.pc = "idle" /\ \A s \in Stops : stop'[s].pc # "erase"
<1>1. /\ start' \in [Starts -> StartPlaces] /\ start'[t] = "done"
      /\ \A u \in Starts : u # t => start'[u] = start[u]
  BY Moved DEF IInv, Typed, StartPlaces
<1>2. Coherent /\ OneOpens' /\ ~Busy
  BY <1>1, Watched DEF Opening
<1>3. Idle(sip) /\ Idle(poll) /\ \A s \in Stops : stop[s].pc \notin {"teardown", "erase"}
  BY <1>2 DEF Busy
<1>4. OwnServer'
  <2>1. \A u \in Starts : ~Opening(u)'
    BY <1>1, <1>2 DEF Coherent, OneOpens, Opening
  <2>. QED BY <2>1 DEF OwnServer
<1>5. Servers'
  BY DEF Servers
<1>6. Current'
  BY <1>1, <1>3, Gb28181StreamsAssumption DEF Current, Idle
<1>. QED BY <1>2, <1>3, <1>4, <1>5, <1>6 DEF Idle

LEMMA StartBegins ==
  ASSUME IInv, Watch, UNCHANGED up, NEW t \in Starts, Start(t) \/ FindDevice(t)
  PROVE  IInv'
<1>1. PICK k \in {"device", "check", "done"} :
        /\ start[t] \in {"idle", "device"} /\ Move(t, k)
        /\ k = "done" => reg' # "Starting"
        /\ reg' \in Statuses
  BY RegistryCalls DEF Start, FindDevice, At, IInv, Typed, TypeOK
<1>2. UNCHANGED <<stop, sip, poll, entry, open, heard, kept, invited>>
  BY DEF Start, FindDevice, servers
<1>3. /\ start' \in [Starts -> StartPlaces] /\ start'[t] = k
      /\ \A u \in Starts : u # t => start'[u] = start[u]
  BY <1>1, Moved DEF IInv, Typed, StartPlaces
<1>4. Typed'
  BY <1>1, <1>2, <1>3, Watched DEF IInv, Typed, TypeOK, ServersOK, Idle
<1>5. Undisturbed'
  BY <1>2, UndisturbedKept
<1>6. ASSUME ~excused'
      PROVE  Coherent'
  <2>1. Coherent /\ OneOpens'
    BY <1>6, Watched
  <2>2. \A u \in Starts : Opening(u)' = Opening(u)
    BY <1>1, <1>3 DEF Opening
  <2>3. OwnServer' /\ Servers'
    BY <1>2, <2>1, <2>2 DEF Coherent, OwnServer, Servers, IInv, Typed, TypeOK, Live
  <2>4. Current'
    BY <1>1, <1>2, <1>3, <2>1, StartMoves DEF Coherent, Current, Idle, Live
  <2>5. Awaited'
    BY <1>1, <1>3 DEF Awaited, Working
  <2>. QED BY <2>1, <2>3, <2>4, <2>5 DEF Coherent
<1>. QED BY <1>4, <1>5, <1>6 DEF IInv

LEMMA CheckStreamExistsStep ==
  ASSUME IInv, Watch, UNCHANGED up, NEW t \in Starts, CheckStreamExists(t)
  PROVE  IInv'
<1>1. PICK k \in {"open", "done"} :
        /\ start[t] = "check" /\ Move(t, k)
        /\ k = "done" => reg' # "Starting" /\ Live' = Live
        /\ k = "open" => Live' = IF entry.here THEN Live \ {entry.rtp} ELSE Live
        /\ ServersOK' /\ reg' \in Statuses
        /\ \/ entry' = entry
           \/ entry.here /\ entry' = [entry EXCEPT !.status = "Stopped"]
        /\ UNCHANGED <<stop, sip, poll, invited>>
  <2>1. reg \in Statuses /\ ServersOK /\ TypeOK
    BY DEF IInv, Typed, TypeOK, ServersOK
  <2>2. start[t] = "check" /\ UNCHANGED <<stop, sip, poll, invited>>
    BY DEF CheckStreamExists, At
  <2>3. CASE ~entry.here /\ Move(t, "open") /\ UNCHANGED <<entry, open, heard, kept, reg>>
    <3>. WITNESS "open" \in {"open", "done"}
    <3>. QED BY <2>1, <2>2, <2>3 DEF ServersOK, Live
  <2>4. CASE /\ Move(t, "done") /\ reg' = Resulting(reg, TRUE)
             /\ UNCHANGED <<entry, open, heard, kept>>
    <3>1. reg' \in Statuses /\ reg' # "Starting"
      BY <2>1, <2>4, RegistryCalls
    <3>. WITNESS "done" \in {"open", "done"}
    <3>. QED BY <2>1, <2>2, <2>4, <3>1 DEF ServersOK, Live
  <2>5. CASE /\ entry.here /\ Move(t, "open")
             /\ Close(entry.rtp)
             /\ entry' = [entry EXCEPT !.status = "Stopped"]
             /\ UNCHANGED reg
    <3>. WITNESS "open" \in {"open", "done"}
    <3>. QED BY <2>1, <2>2, <2>5, Closed
  <2>. QED BY <2>3, <2>4, <2>5 DEF CheckStreamExists, servers
<1>2. /\ start' \in [Starts -> StartPlaces] /\ start'[t] = k
      /\ \A u \in Starts : u # t => start'[u] = start[u]
  BY <1>1, Moved DEF IInv, Typed, StartPlaces
<1>3. /\ entry' \in Infos /\ entry'.here = entry.here
      /\ entry'.rtp = entry.rtp /\ entry'.call = entry.call
      /\ entry' # entry => entry.here
  <2>1. entry \in Infos
    BY DEF IInv, Typed, TypeOK
  <2>2. CASE entry' = entry
    BY <2>1, <2>2
  <2>3. CASE entry.here /\ entry' = [entry EXCEPT !.status = "Stopped"]
    BY <2>1, <2>3, InfoChanges DEF States
  <2>. QED BY <1>1, <2>2, <2>3
<1>4. Live' \subseteq Live
  BY <1>1
<1>5. Typed'
  BY <1>1, <1>2, <1>3, <1>4, Watched DEF IInv, Typed, TypeOK, ServersOK, Idle
<1>6. Undisturbed'
  BY <1>1, <1>3, UndisturbedKept
<1>7. ASSUME ~excused'
      PROVE  Coherent'
  <2>1. Coherent /\ OneOpens'
    BY <1>7, Watched
  <2>2. OwnServer' /\ Servers'
    <3>1. CASE k = "open"
      <4>1. \A u \in Starts : ~Opening(u)
        BY <1>1, <1>2, <2>1, <3>1 DEF OneOpens, Opening
      <4>2. Live' = {}
        BY <1>1, <2>1, <3>1, <4>1 DEF Coherent, Servers, IInv, Typed, TypeOK, Live
      <4>. QED BY <4>2 DEF OwnServer, Servers
    <3>2. CASE k = "done"
      <4>1. \A u \in Starts : Opening(u)' = Opening(u)
        BY <1>1, <1>2, <3>2 DEF Opening
      <4>. QED BY <1>1, <1>3, <2>1, <3>2, <4>1 DEF Coherent, OwnServer, Servers, IInv, Typed, TypeOK, Live
    <3>. QED BY <3>1, <3>2
  <2>3. Current'
    <3>1. entry.rtp # None => start'[entry.rtp] = "done"
      BY <1>1, <1>2, <2>1, StartMoves
    <3>. QED BY <1>1, <1>3, <1>4, <2>1, <3>1 DEF Coherent, Current, Idle
  <2>4. Awaited'
    BY <1>1, <1>2 DEF Awaited, Working
  <2>. QED BY <2>1, <2>2, <2>3, <2>4 DEF Coherent
<1>. QED BY <1>5, <1>6, <1>7 DEF IInv

LEMMA TriesOpenOwn ==
  ASSUME NEW rest, NEW t, NEW try \in Tries(rest, t)
  PROVE  rest \subseteq try.servers /\ try.servers \subseteq rest \cup {t} /\ try.opened \in BOOLEAN
<1>1. CASE try = [opened |-> TRUE, servers |-> rest \cup {t}]
  BY <1>1
<1>2. CASE try \in [opened : {FALSE}, servers : {rest, rest \cup {t}}]
  BY <1>2
<1>. QED BY <1>1, <1>2 DEF Tries

LEMMA OpenRtpServerStep ==
  ASSUME IInv, Watch, UNCHANGED up, NEW t \in Starts, OpenRtpServer(t)
  PROVE  IInv'
<1>0. PICK rest \in SUBSET open : \E try \in Tries(rest, t) :
        /\ open' = try.servers
        /\ heard' = heard \cap rest /\ kept' = kept \cap rest
        /\ \/ try.opened /\ Move(t, "invite") /\ UNCHANGED <<entry, reg>>
           \/ /\ ~try.opened /\ Move(t, "done")
              /\ entry' = Info(None, None, "Error")
              /\ reg' = Resulting(reg, FALSE)
  BY DEF OpenRtpServer, Swept
<1>1. PICK try \in Tries(rest, t) :
        /\ open' = try.servers
        /\ heard' = heard \cap rest /\ kept' = kept \cap rest
        /\ \/ try.opened /\ Move(t, "invite") /\ UNCHANGED <<entry, reg>>
           \/ /\ ~try.opened /\ Move(t, "done")
              /\ entry' = Info(None, None, "Error")
              /\ reg' = Resulting(reg, FALSE)
  BY <1>0
<1>2. start[t] = "open" /\ UNCHANGED <<stop, sip, poll, invited>>
  BY DEF OpenRtpServer, At
<1>3. Opening(t) /\ ServersOK' /\ Live' \subseteq Live \cup {t}
  <2>1. rest \subseteq try.servers /\ try.servers \subseteq rest \cup {t} /\ rest \subseteq open
    BY TriesOpenOwn
  <2>2. heard' = heard \cap rest /\ kept' = kept \cap rest /\ open' = try.servers
    BY <1>1
  <2>. QED BY <1>2, <2>1, <2>2 DEF Opening, IInv, Typed, TypeOK, ServersOK, Live
<1>4. Undisturbed'
  <2>1. Working(t)
    BY <1>2 DEF Working
  <2>. QED BY <1>2, <2>1, UndisturbedKept
<1>5. CASE Move(t, "invite") /\ UNCHANGED <<entry, reg>>
  <2>1. /\ start' \in [Starts -> StartPlaces] /\ start'[t] = "invite"
        /\ \A u \in Starts : u # t => start'[u] = start[u]
    BY <1>5, Moved DEF IInv, Typed, StartPlaces
  <2>2. Typed'
    BY <1>2, <1>3, <1>5, <2>1, Watched DEF IInv, Typed, TypeOK, ServersOK, Idle
  <2>3. ASSUME ~excused'
        PROVE  Coherent'
    <3>1. Coherent /\ OneOpens' /\ Live' \subseteq {t} /\ Opening(t)'
      BY <1>3, <2>1, <2>3, Watched DEF Coherent, OwnServer, Opening
    <3>2. OwnServer' /\ Servers'
      BY <3>1 DEF OneOpens, OwnServer, Servers
    <3>3. Current'
      <4>1. entry.rtp # t /\ (entry.rtp # None => start'[entry.rtp] = "done")
        BY <1>2, <2>1, <3>1, StartMoves
      <4>. QED BY <1>2, <1>5, <3>1, <4>1 DEF Coherent, Current, Idle
    <3>4. Awaited'
      BY <2>1 DEF Awaited, Working
    <3>. QED BY <3>1, <3>2, <3>3, <3>4 DEF Coherent
  <2>. QED BY <1>4, <2>2, <2>3 DEF IInv
<1>6. CASE /\ Move(t, "done") /\ entry' = Info(None, None, "Error")
           /\ reg' = Resulting(reg, FALSE)
  <2>1. /\ start' \in [Starts -> StartPlaces] /\ start'[t] = "done"
        /\ \A u \in Starts : u # t => start'[u] = start[u]
    BY <1>6, Moved DEF IInv, Typed, StartPlaces
  <2>2. /\ entry' \in Infos /\ entry'.here /\ entry'.rtp = None /\ entry'.call = None
        /\ reg' \in Statuses /\ reg' # "Starting"
    <3>1. reg' \in Statuses /\ reg' # "Starting"
      BY <1>6, RegistryCalls DEF IInv, Typed, TypeOK
    <3>2. None \in Id /\ "Error" \in States
      BY DEF Id, States
    <3>3. /\ Info(None, None, "Error") \in Infos /\ Info(None, None, "Error").here
          /\ Info(None, None, "Error").rtp = None /\ Info(None, None, "Error").call = None
      BY <3>2, InfoParts
    <3>. QED BY <1>6, <3>1, <3>3
  <2>3. Typed'
    BY <1>2, <1>3, <2>1, <2>2, Watched DEF IInv, Typed, TypeOK, ServersOK, Idle
  <2>4. ASSUME ~excused'
        PROVE  Coherent'
    <3>1. Live' \subseteq {t} /\ t \notin Live'
      BY <1>2, <1>3, <2>1, <2>4, Watched DEF Coherent, OwnServer, Live
    <3>2. OneOpens' /\ OwnServer' /\ Servers' /\ Current'
      BY <1>2, <1>3, <1>6, <2>2, <2>4, <3>1, StoredStarting
    <3>. QED BY <2>2, <3>2 DEF Coherent, Awaited
  <2>. QED BY <1>4, <2>3, <2>4 DEF IInv
<1>. QED BY <1>1, <1>5, <1>6

LEMMA SendInviteStep ==
  ASSUME IInv, Watch, UNCHANGED up, NEW t \in Starts, SendInvite(t)
  PROVE  IInv'
<1>1. /\ start[t] = "invite" /\ Move(t, "store")
      /\ invited' = invited \cup {t}
      /\ UNCHANGED <<stop, sip, poll, entry, open, heard, kept, reg>>
  BY DEF SendInvite, At, servers
<1>2. /\ start' \in [Starts -> StartPlaces] /\ start'[t] = "store"
      /\ \A u \in Starts : u # t => start'[u] = start[u]
  BY <1>1, Moved DEF IInv, Typed, StartPlaces
<1>3. Typed'
  BY <1>1, <1>2, Watched DEF IInv, Typed, TypeOK, ServersOK, Idle
<1>4. Undisturbed'
  BY <1>1, UndisturbedKept
<1>5. ASSUME ~excused'
      PROVE  Coherent'
  <2>1. Coherent /\ OneOpens'
    BY <1>5, Watched
  <2>2. \A u \in Starts : Opening(u)' = Opening(u)
    BY <1>1, <1>2 DEF Opening
  <2>3. OwnServer' /\ Servers'
    BY <1>1, <2>1, <2>2 DEF Coherent, OwnServer, Servers, IInv, Typed, TypeOK, Live
  <2>4. Current'
    BY <1>1, <1>2, <2>1, StartMoves DEF Coherent, Current, Idle, Live
  <2>5. Awaited'
    BY <1>2 DEF Awaited, Working
  <2>. QED BY <2>1, <2>3, <2>4, <2>5 DEF Coherent
<1>. QED BY <1>3, <1>4, <1>5 DEF IInv

LEMMA InviteFailsStep ==
  ASSUME IInv, Watch, UNCHANGED up, NEW t \in Starts, InviteFails(t)
  PROVE  IInv'
<1>1. /\ start[t] = "invite" /\ Move(t, "done") /\ ServersOK' /\ Live' = Live \ {t}
      /\ entry' = Info(t, None, "Error") /\ reg' = Resulting(reg, FALSE)
      /\ UNCHANGED <<stop, sip, poll, invited>>
  BY Closed DEF InviteFails, At, IInv, Typed
<1>2. /\ start' \in [Starts -> StartPlaces] /\ start'[t] = "done"
      /\ \A u \in Starts : u # t => start'[u] = start[u]
  BY <1>1, Moved DEF IInv, Typed, StartPlaces
<1>3. /\ entry' \in Infos /\ entry'.here /\ entry'.rtp = t /\ entry'.call = None
      /\ reg' \in Statuses /\ reg' # "Starting"
  <2>1. reg' \in Statuses /\ reg' # "Starting"
    BY <1>1, RegistryCalls DEF IInv, Typed, TypeOK
  <2>2. None \in Id /\ t \in Id /\ "Error" \in States
    BY DEF Id, States
  <2>3. /\ Info(t, None, "Error") \in Infos /\ Info(t, None, "Error").here
        /\ Info(t, None, "Error").rtp = t /\ Info(t, None, "Error").call = None
    BY <2>2, InfoParts
  <2>. QED BY <1>1, <2>1, <2>3
<1>4. Typed'
  BY <1>1, <1>2, <1>3, Watched DEF IInv, Typed, TypeOK, ServersOK, Idle
<1>5. Undisturbed'
  <2>1. Working(t)
    BY <1>1 DEF Working
  <2>. QED BY <1>1, <2>1, UndisturbedKept
<1>6. ASSUME ~excused'
      PROVE  Coherent'
  <2>1. Opening(t)
    BY <1>1 DEF Opening
  <2>2. Live' = {}
    BY <1>1, <1>6, <2>1, Watched DEF Coherent, OwnServer
  <2>3. OneOpens' /\ OwnServer' /\ Servers' /\ Current'
    BY <1>1, <1>3, <1>6, <2>1, <2>2, StoredStarting
  <2>. QED BY <1>3, <2>3 DEF Coherent, Awaited
<1>. QED BY <1>4, <1>5, <1>6 DEF IInv

LEMMA StoreStartingStep ==
  ASSUME IInv, Watch, UNCHANGED up, NEW t \in Starts, StoreStarting(t)
  PROVE  IInv'
<1>1. /\ start[t] = "store" /\ Move(t, "done")
      /\ entry' = Info(t, t, "Starting") /\ reg' = Reregistered(reg, "Starting")
      /\ UNCHANGED <<stop, sip, poll, open, heard, kept, invited>>
  BY DEF StoreStarting, At, servers
<1>2. /\ start' \in [Starts -> StartPlaces] /\ start'[t] = "done"
      /\ \A u \in Starts : u # t => start'[u] = start[u]
  BY <1>1, Moved DEF IInv, Typed, StartPlaces
<1>3. /\ entry' \in Infos /\ entry'.here /\ entry'.rtp = t /\ entry'.call = t
      /\ entry'.status = "Starting" /\ reg' \in Statuses
  BY <1>1, InfoParts, RegistryCalls DEF IInv, Typed, TypeOK, Id, States
<1>4. Typed'
  BY <1>1, <1>2, <1>3, Watched DEF IInv, Typed, TypeOK, ServersOK, Idle
<1>5. Undisturbed'
  <2>1. Working(t)
    BY <1>1 DEF Working
  <2>. QED BY <1>1, <2>1, UndisturbedKept
<1>6. ASSUME ~excused'
      PROVE  Coherent'
  <2>1. Opening(t)
    BY <1>1 DEF Opening
  <2>2. Live' \subseteq {t}
    BY <1>1, <1>6, <2>1, Watched DEF Coherent, OwnServer, Live
  <2>3. /\ OneOpens' /\ OwnServer' /\ Servers' /\ Current'
        /\ Idle(poll)' /\ sip'.pc = "idle" /\ \A s \in Stops : stop'[s].pc # "erase"
    BY <1>1, <1>3, <1>6, <2>1, <2>2, StoredStarting
  <2>. QED BY <1>3, <2>3 DEF Coherent, Awaited
<1>. QED BY <1>4, <1>5, <1>6 DEF IInv

-----------------------------------------------------------------------------
(* The invariant.                                                          *)

LEMMA Initially == Init => IInv
<1>. SUFFICES ASSUME Init PROVE IInv
  OBVIOUS
<1>1. /\ start = [t \in Starts |-> "idle"]
      /\ stop = [s \in Stops |-> [pc |-> "idle", rtp |-> None, call |-> None]]
      /\ sip = SipIdle /\ poll = PollIdle /\ entry = NoInfo
      /\ open = {} /\ heard = {} /\ kept = {} /\ invited = {}
      /\ reg = "none" /\ up = TRUE /\ excused = FALSE /\ disturbed = {}
  BY DEF Init
<1>2. sip \in [pc : SipPlaces, call : Id, answer : Answers] /\ sip.pc = "idle"
  BY <1>1, Gb28181StreamsAssumption DEF SipIdle, SipPlaces, Id
<1>3. Typed
  <2>1. start \in [Starts -> StartPlaces]
        /\ stop \in [Stops -> [pc : StopPlaces, rtp : Id, call : Id]]
    BY <1>1 DEF StartPlaces, StopPlaces, Id
  <2>. QED BY <1>1, <1>2, <2>1, InfoParts, PollIdleParts DEF Typed, TypeOK, Idle, Statuses
<1>4. Undisturbed
  BY <1>1 DEF Undisturbed
<1>5. Coherent
  <2>1. \A t \in Starts : ~Opening(t)
    BY <1>1 DEF Opening
  <2>. QED BY <1>1, <1>2, <2>1, InfoParts, PollIdleParts
           DEF Coherent, OneOpens, OwnServer, Servers, Live, Current, Awaited, Idle
<1>. QED BY <1>3, <1>4, <1>5 DEF IInv

LEMMA StutterStep ==
  ASSUME IInv, UNCHANGED vars
  PROVE  IInv'
<1>1. UNCHANGED <<start, stop, sip, poll, entry, open, heard, kept, invited, reg, up, excused, disturbed>>
  BY DEF vars, threads, servers, history
<1>2. Typed'
  BY <1>1 DEF IInv, Typed, TypeOK, Idle
<1>3. Undisturbed'
  BY <1>1 DEF IInv, Undisturbed, Working
<1>4. ASSUME ~excused'
      PROVE  Coherent'
  <2>1. Coherent
    BY <1>1, <1>4 DEF IInv
  <2>2. OneOpens' /\ OwnServer' /\ Servers' /\ Current'
    BY <1>1, <2>1, OthersStep DEF Coherent, Current, Idle, Live
  <2>. QED BY <1>1, <2>1, <2>2 DEF Coherent, Awaited, Working, Idle
<1>. QED BY <1>2, <1>3, <1>4 DEF IInv

LEMMA Inductive == IInv /\ [Next]_vars => IInv'
<1>. SUFFICES ASSUME IInv, [Next]_vars PROVE IInv'
  OBVIOUS
<1>1. ASSUME Threads, UNCHANGED up, Watch PROVE IInv'
  <2>1. ASSUME NEW t \in Starts, StartStep(t) PROVE IInv'
    BY <1>1, <2>1, StartBegins, CheckStreamExistsStep, OpenRtpServerStep, SendInviteStep,
       InviteFailsStep, StoreStartingStep DEF StartStep
  <2>2. ASSUME NEW s \in Stops, StopStep(s) PROVE IInv'
    BY <1>1, <2>2, HandleStopStreamStep, FindEntryStep, StopAbsentStep, StopTeardownStep,
       StopEraseStep DEF StopStep
  <2>3. ASSUME SipStep PROVE IInv'
    BY <1>1, <2>3, MatchByeStep, MatchResponseStep, ApplyResponseStep, ByeTeardownStep,
       ByeEraseStep DEF SipStep
  <2>4. ASSUME PollStep PROVE IInv'
    BY <1>1, <2>4, PollCopyStep, LookStep, LookThrowsStep, PollWriteBackStep, PollCleanStep
       DEF PollStep
  <2>. QED BY <1>1, <2>1, <2>2, <2>3, <2>4, RegistryMovesStep, ServerTimesOutStep,
           DataComesStep DEF Threads
<1>2. ASSUME Destroy PROVE IInv'
  BY <1>2, DestroyStep
<1>3. ASSUME UNCHANGED vars PROVE IInv'
  BY <1>3, StutterStep
<1>. QED BY <1>1, <1>2, <1>3 DEF Next

LEMMA Invariance == Spec => []IInv
<1>1. Init => IInv
  BY Initially
<1>2. IInv /\ [Next]_vars => IInv'
  BY Inductive
<1>. QED BY <1>1, <1>2, PTL DEF Spec

-----------------------------------------------------------------------------
(* The theorems about Gb28181Streams.                                     *)

\* TypeOK: every thread keeps its shape, an entry has the ids of one attempt, and the
\* status thread looks at entries only that a start or a running stream left behind
\* (Start, Stop, HandleBye, the status thread).
THEOREM TypeCorrect == Spec => []TypeOK
<1>1. IInv => TypeOK
  BY DEF IInv, Typed
<1>. QED BY <1>1, Invariance, PTL

\* ServersKnown: for any number of starts and stops, every RTP server open in
\* ZLMediaKit is the entry's or the one start's that opens one, or it is still open
\* after an attempt to close it failed, as long as no start was overtaken
\* (OpenRtpServer, CloseRtpServer, the erasures of streams_).
THEOREM NoServerForgotten == Spec => []ServersKnown
<1>1. IInv => ServersKnown
  BY DEF IInv, Coherent, Servers, Live, ServersKnown
<1>. QED BY <1>1, Invariance, PTL

\* StopIsFinal: after a stop that no start came across there is no entry and no RTP
\* server but those that a failed attempt to close them left open, whatever the other
\* threads had copied before (Stop, the write-back of the status thread,
\* HandleInviteResponse).
THEOREM StopsAreFinal == Spec => []StopIsFinal
<1>1. IInv => StopIsFinal
  <2>. SUFFICES ASSUME IInv, ~excused, NEW s \in Stops, stop[s].pc = "done", s \notin disturbed
                PROVE  ~entry.here /\ open \subseteq kept
    BY DEF StopIsFinal
  <2>1. ~entry.here /\ \A t \in Starts : ~Working(t)
    BY DEF IInv, Undisturbed
  <2>2. \A t \in Starts : ~Opening(t)
    BY <2>1 DEF Opening, Working
  <2>. QED BY <2>1, <2>2 DEF IInv, Coherent, Servers, Live, Typed, TypeOK
<1>. QED BY <1>1, Invariance, PTL

\* NoLimbo: the registry says Starting only while somebody will say how the start
\* ended (Start, CheckStreamStatus, HandleInviteResponse, Stop).
THEOREM NoStartInLimbo == Spec => []NoLimbo
<1>1. IInv => NoLimbo
  BY DEF IInv, Coherent, Awaited, NoLimbo, Working
<1>. QED BY <1>1, Invariance, PTL
=============================================================================
