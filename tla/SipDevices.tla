----------------------------- MODULE SipDevices -----------------------------
(***************************************************************************)
(* The SIP server (gateway/gb28181/sip_server.cpp) and the device table of *)
(* the GB28181 gateway it serves (gb28181_gateway.cpp).                    *)
(*                                                                         *)
(* The receiving thread puts requests into a queue, the message thread     *)
(* takes them out one by one: it answers a retransmission with the answer  *)
(* of the stored transaction, or handles the request, answers it, stores   *)
(* each answer that went out, and calls the gateway back.  A thread of the *)
(* gateway wakes up every Interval, marks the devices it has not heard of  *)
(* for Timeout offline and, in a second critical section, removes them.    *)
(* Handlers add, remove and change devices at any time.                    *)
(*                                                                         *)
(* Requests come over UDP: late, twice, in any order or not at all.  A     *)
(* request is its device, method, CSeq and what its Authorization header   *)
(* is worth; device, method and CSeq are its transaction key, as a device  *)
(* keeps one Call-ID per method; CSeq 0 stands for a request that has no   *)
(* CSeq or no Call-ID.  BYE and responses are the business of              *)
(* Gb28181Streams.  Ages are in ticks and stop at a limit.                 *)
(***************************************************************************)
EXTENDS Naturals, FiniteSets, Sequences

CONSTANTS
  Devices,     (* device ids                                                *)
  Nobody,      (* a From header without a device id                         *)
  Requests,    (* what the devices send                                     *)
  MaxQueue,    (* bounds the requests waiting                               *)
  Timeout,     (* heartbeat_timeout, in ticks                               *)
  Interval,    (* of the heartbeat check                                    *)
  Retain,      (* the 30 s a transaction is kept at least                   *)
  CleanEvery,  (* the 60 s between two clean-ups                            *)
  AutoRemove   (* auto_remove_offline                                       *)

ASSUME SipDevicesAssumption ==
  /\ Nobody \notin Devices
  /\ {MaxQueue, Timeout, Interval, Retain, CleanEvery} \subseteq Nat \ {0}
  /\ AutoRemove \in BOOLEAN
  /\ \A m \in Requests :
       /\ m.key[1] \in Devices \cup {Nobody}
       /\ m.key[2] \in {"REGISTER", "MESSAGE", "INVITE", "OTHER"}
       /\ m.key[3] \in Nat
       /\ m.auth \in {"none", "malformed", "bad", "good"}

VARIABLES
  device,      (* devices_: who is known, online, has credentials, and the age of last_seen *)
  queue,       (* message_queue_                                            *)
  handling,    (* the request the message thread is about to call back for, or none *)
  transaction, (* transactions_: age and status code by key                 *)
  sinceClean,  (* ticks since the last clean-up                             *)
  check,       (* the heartbeat thread: ticks slept, devices to remove      *)
  granted,     (* history: ticks since the gateway was to be called back for a transaction *)
  unsent       (* history: keys whose last answer could not be sent, but one before it *)

sipVars == <<device, queue, handling, transaction, sinceClean, check, granted, unsent>>

-----------------------------------------------------------------------------
Keys   == {m.key : m \in Requests}
Codes  == {100, 200, 400, 401, 403, 405, 488}
MaxAge == Timeout + Interval + 1

Silent == [key |-> <<Nobody, "OTHER", 0>>, auth |-> "none"]

Dev(m)    == m.key[1]
Method(m) == m.key[2]
Callbacks == {"REGISTER", "MESSAGE"}

Unknown == [known |-> FALSE, online |-> FALSE, creds |-> FALSE, age |-> 0]
NoTransaction == [kept |-> FALSE, age |-> 0, code |-> 200]

Capped(n, limit) == IF n < limit THEN n + 1 ELSE n

-----------------------------------------------------------------------------
(* Receiving.                                                              *)

\* ServerLoop: receive, parse, push.
Receive(m) ==
  /\ Len(queue) < MaxQueue
  /\ queue' = Append(queue, m)
  /\ UNCHANGED <<device, handling, transaction, sinceClean, check, granted, unsent>>

-----------------------------------------------------------------------------
(* The message thread.                                                     *)

\* HandleRegister: authentication only for devices that have credentials.
RegisterCode(m) ==
  IF Dev(m) = Nobody THEN 400
  ELSE IF ~device[Dev(m)].creds THEN 200
  ELSE CASE m.auth = "none" -> 401
         [] m.auth = "malformed" -> 400
         [] m.auth = "bad" -> 403
         [] m.auth = "good" -> 200

\* HandleMessageRequest: whatever a MESSAGE says, it is a heartbeat.
MessageCode(m) == IF Dev(m) = Nobody THEN 400 ELSE 200

\* HandleInvite: nobody sets the invite callback.
InviteCodes == <<100, 488>>

AnswerCodes(m) ==
  CASE Method(m) = "REGISTER" -> <<RegisterCode(m)>>
    [] Method(m) = "MESSAGE" -> <<MessageCode(m)>>
    [] Method(m) = "INVITE" -> InviteCodes
    [] OTHER -> <<405>>

\* Mutant: the first answer that went out is the one that is kept.
StoredFirst(codes, sent) ==
  [kept |-> TRUE, age |-> 0, code |-> codes[CHOOSE i \in sent : \A j \in sent : i <= j]]

\* SendResponse stores every answer it has sent over the one before.
Stored(codes, sent) ==
  [kept |-> TRUE, age |-> 0, code |-> codes[CHOOSE i \in sent : \A j \in sent : j <= i]]

\* Only a request with a Call-ID and a CSeq makes a transaction.
Traceable(m) == m.key[3] > 0

\* Mutant: a clean-up drops every transaction.
KeptNothing(t) == NoTransaction

KeptTransaction(t) == IF t.age > Retain THEN NoTransaction ELSE t

\* CleanupExpiredTransactions, after a message and once in a while.
CleanedUp(ts) ==
  IF sinceClean > CleanEvery
  THEN /\ transaction' = [k \in Keys |-> KeptTransaction(ts[k])]
       /\ sinceClean' = 0
  ELSE transaction' = ts /\ UNCHANGED sinceClean

Retransmission(m) == Traceable(m) /\ transaction[m.key].kept

\* The stored answer is sent again, and that is all.
HandleRetransmission ==
  /\ queue # <<>> /\ handling = Silent
  /\ Retransmission(Head(queue))
  /\ queue' = Tail(queue)
  /\ CleanedUp(transaction)
  /\ UNCHANGED <<device, handling, check, granted, unsent>>

\* Each answer is a sendto that may fail on its own.  A REGISTER or MESSAGE whose 200
\* went out is then reported to the gateway.
HandleMessage ==
  /\ queue # <<>> /\ handling = Silent
  /\ ~Retransmission(Head(queue))
  /\ LET m == Head(queue)
         codes == AnswerCodes(m)
     IN \E sent \in SUBSET (1..Len(codes)) :
        LET stores == Traceable(m) /\ sent # {}
            ts == IF stores THEN [transaction EXCEPT ![m.key] = Stored(codes, sent)]
                  ELSE transaction
        IN /\ handling' = IF Method(m) \in Callbacks /\ codes = <<200>> /\ sent # {}
                          THEN m ELSE Silent
           /\ unsent' = IF ~stores THEN unsent
                        ELSE IF Len(codes) \in sent THEN unsent \ {m.key}
                        ELSE unsent \cup {m.key}
           /\ IF handling' = Silent
              THEN CleanedUp(ts) /\ UNCHANGED granted
              ELSE /\ transaction' = ts /\ UNCHANGED sinceClean
                   /\ granted' = IF Traceable(m) THEN [granted EXCEPT ![m.key] = 0]
                                 ELSE granted
  /\ queue' = Tail(queue)
  /\ UNCHANGED <<device, check>>

\* OnDeviceRegister: an Expires of 0 counts as an hour.
RegisteredDevice(d) == [known |-> TRUE, online |-> TRUE, creds |-> d.creds, age |-> 0]

\* Mutant: a device nobody knows is noted as online.
HeardAnyone(d) == [d EXCEPT !.online = TRUE, !.age = 0]

\* Mutant: a heartbeat makes a device online but does not count as a sign of life.
HeardUnseen(d) == IF d.known THEN [d EXCEPT !.online = TRUE] ELSE d

\* OnDeviceHeartbeat: of devices in the table only.
HeardDevice(d) == IF d.known THEN [d EXCEPT !.online = TRUE, !.age = 0] ELSE d

CallBack ==
  /\ handling # Silent /\ handling' = Silent
  /\ LET d == Dev(handling)
         register == Method(handling) = "REGISTER"
     IN /\ device' = [device EXCEPT ![d] =
                        IF register THEN RegisteredDevice(@) ELSE HeardDevice(@)]
  /\ CleanedUp(transaction)
  /\ UNCHANGED <<queue, check, granted, unsent>>

-----------------------------------------------------------------------------
(* The heartbeat thread.                                                   *)

Overdue(d) == d.known /\ d.online /\ d.age > Timeout

CheckDeviceHeartbeat ==
  /\ check.slept = Interval /\ check.remove = {}
  /\ LET offline == {d \in Devices : Overdue(device[d])}
     IN /\ device' = [d \in Devices |-> IF d \in offline
                        THEN [device[d] EXCEPT !.online = FALSE] ELSE device[d]]
        /\ check' = IF AutoRemove /\ offline # {}
                    THEN [check EXCEPT !.remove = offline]
                    ELSE [slept |-> 0, remove |-> {}]
  /\ UNCHANGED <<queue, handling, transaction, sinceClean, granted, unsent>>

\* By id, whatever the devices have done since.
RemoveOffline ==
  /\ check.remove # {}
  /\ device' = [d \in Devices |-> IF d \in check.remove THEN Unknown ELSE device[d]]
  /\ check' = [slept |-> 0, remove |-> {}]
  /\ UNCHANGED <<queue, handling, transaction, sinceClean, granted, unsent>>

-----------------------------------------------------------------------------
(* The handlers.                                                           *)

\* Over a device that is offline, or unknown, a fresh one; credentials are lost.
AddedDevice(d) ==
  IF d.online THEN [d EXCEPT !.creds = FALSE]
  ELSE [known |-> TRUE, online |-> FALSE, creds |-> FALSE, age |-> 0]

AddDevice(d) ==
  /\ device' = [device EXCEPT ![d] = AddedDevice(@)]
  /\ UNCHANGED <<queue, handling, transaction, sinceClean, check, granted, unsent>>

RemoveDevice(d) ==
  /\ device[d].known
  /\ device' = [device EXCEPT ![d] = Unknown]
  /\ UNCHANGED <<queue, handling, transaction, sinceClean, check, granted, unsent>>

UpdateDeviceCredentials(d) ==
  /\ device[d].known
  /\ device' = [device EXCEPT ![d].creds = TRUE]
  /\ UNCHANGED <<queue, handling, transaction, sinceClean, check, granted, unsent>>

-----------------------------------------------------------------------------
\* Time passes, but not beyond the moment the heartbeat thread wakes up.
Tick ==
  /\ check.slept < Interval
  /\ check' = [check EXCEPT !.slept = @ + 1]
  /\ device' = [d \in Devices |-> IF device[d].known
                  THEN [device[d] EXCEPT !.age = Capped(@, MaxAge)] ELSE device[d]]
  /\ transaction' = [k \in Keys |-> IF transaction[k].kept
                       THEN [transaction[k] EXCEPT !.age = Capped(@, Retain + 1)]
                       ELSE transaction[k]]
  /\ sinceClean' = Capped(sinceClean, CleanEvery + 1)
  /\ granted' = [k \in Keys |-> Capped(granted[k], Retain + 1)]
  /\ UNCHANGED <<queue, handling, unsent>>

SipNext ==
  \/ \E m \in Requests : Receive(m)
  \/ HandleRetransmission \/ HandleMessage \/ CallBack
  \/ CheckDeviceHeartbeat \/ RemoveOffline
  \/ \E d \in Devices : AddDevice(d) \/ RemoveDevice(d) \/ UpdateDeviceCredentials(d)
  \/ Tick

SipInit ==
  /\ device = [d \in Devices |-> Unknown]
  /\ queue = <<>> /\ handling = Silent
  /\ transaction = [k \in Keys |-> NoTransaction]
  /\ sinceClean = 0
  /\ check = [slept |-> 0, remove |-> {}]
  /\ granted = [k \in Keys |-> Retain + 1] /\ unsent = {}

SipSpec == SipInit /\ [][SipNext]_sipVars

-----------------------------------------------------------------------------
(* Properties.                                                             *)

\* Well typed; what is not kept is not remembered, and a device to remove is one that
\* was marked offline before.
SipTypeOK ==
  /\ device \in [Devices -> [known : BOOLEAN, online : BOOLEAN, creds : BOOLEAN,
                              age : 0..MaxAge]]
  /\ \A d \in Devices : ~device[d].known => device[d] = Unknown
  /\ queue \in Seq(Requests) /\ Len(queue) <= MaxQueue
  /\ handling \in Requests \cup {Silent}
  /\ handling # Silent /\ Traceable(handling) => transaction[handling.key].code = 200
  /\ transaction \in [Keys -> [kept : BOOLEAN, age : 0..Retain + 1, code : Codes]]
  /\ sinceClean \in 0..CleanEvery + 1
  /\ check \in [slept : 0..Interval, remove : SUBSET Devices]
  /\ check.remove # {} => AutoRemove /\ check.slept = Interval
  /\ granted \in [Keys -> 0..Retain + 1] /\ unsent \subseteq Keys

\* A device in the table is online only as long as it is heard of: whatever adds,
\* removes or changes devices meanwhile, an online device was heard of within the
\* timeout and one interval of the check.
OnlineFresh ==
  \A d \in Devices : device[d].online =>
    device[d].known /\ device[d].age <= Timeout + Interval

\* While a transaction is kept, a REGISTER or MESSAGE that is retransmitted is answered
\* and not granted upon again, whatever clean-ups come in between, if the device said
\* which request it is.
AtMostOnce ==
  [][handling' # handling /\ handling' # Silent /\ Traceable(handling')
       => granted[handling'.key] > Retain]_sipVars

\* What a retransmitted INVITE gets is the final answer and not 100 Trying, unless the
\* final answer was the one that could not be sent: then it gets 100 Trying.
FinalAnswersKept ==
  \A k \in Keys \ unsent : transaction[k].kept => transaction[k].code >= 200
=============================================================================
