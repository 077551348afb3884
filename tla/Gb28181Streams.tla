--------------------------- MODULE Gb28181Streams ---------------------------
(***************************************************************************)
(* One stream of the GB28181 gateway (gateway/gb28181/gb28181_gateway.cpp):*)
(* its entry in streams_, the RTP servers opened for it in ZLMediaKit and  *)
(* the SIP sessions with the device.  Four kinds of threads work on it:    *)
(*                                                                         *)
(*   - starts: idle > device > check > open > invite > store > done;       *)
(*   - stops:  idle > find > teardown > erase > done, with "absent" where  *)
(*     the entry was not found;                                            *)
(*   - the SIP server's message thread, which matches a response or a BYE  *)
(*     by Call-ID and applies it later: idle > respond, or                 *)
(*     idle > teardown > erase;                                            *)
(*   - the status thread: idle > look > back > clean.                      *)
(*                                                                         *)
(* streams_mutex_ is held for one step here and released between two.      *)
(* Every attempt makes an RTP stream id and a Call-ID of its own from the  *)
(* time; both are represented by the attempt.  SIP runs over UDP: messages *)
(* of an attempt the device was invited to may come late, twice, in any    *)
(* order, or not at all.  So may the BYE a teardown sends, which therefore *)
(* takes nothing from what the device may do.  Time is left out: whatever  *)
(* happens after a while may happen at any time.                           *)
(*                                                                         *)
(* IsRunning and GetStatus, which would write the entry's status too, are  *)
(* called by no part of the program for this gateway.                      *)
(***************************************************************************)
EXTENDS RegistryView

CONSTANTS
  Starts,   (* attempts to start the stream                                 *)
  Stops,    (* requests to stop it                                          *)
  Answers,  (* kinds of responses: "ok" is 200, "trying" any 1xx, "refused" *)
  None      (* no id                                                        *)

ASSUME Gb28181StreamsAssumption ==
  None \notin Starts /\ {"ok"} \subseteq Answers /\ Answers \subseteq {"ok", "trying", "refused"}

VARIABLES
  start,     (* the place of every start                                    *)
  stop,      (* the place of every stop, and the ids it has copied          *)
  sip,       (* the message thread: place, Call-ID, kind of response        *)
  poll,      (* the status thread: place, copy, whether the copy failed     *)
  entry,     (* the stream's StreamInfo in streams_                         *)
  open,      (* RTP servers open in ZLMediaKit                              *)
  heard,     (* those of them that have received data                       *)
  kept,      (* history: those of them a failed closeRtpServer left open    *)
  invited,   (* the attempts the device was invited to                      *)
  reg,       (* the registry's status of the stream                         *)
  up,        (* the gateway has not been destroyed                          *)
  excused,   (* history: see Excusing                                       *)
  disturbed  (* history: stops during or after which a start was under way, *)
             (* until excused                                               *)

threads == <<start, stop, sip, poll>>
servers == <<open, heard, kept>>
history == <<excused, disturbed>>
vars == <<threads, entry, servers, invited, reg, up, history>>

-----------------------------------------------------------------------------
StartPlaces == {"idle", "device", "check", "open", "invite", "store", "done"}
StopPlaces  == {"idle", "find", "absent", "teardown", "erase", "done"}
SipPlaces   == {"idle", "respond", "teardown", "erase"}
PollPlaces  == {"idle", "look", "back", "clean"}
States      == {"Starting", "Running", "Stopped", "Error"}

Id == Starts \cup {None}
Infos == [here : BOOLEAN, rtp : Id, call : Id, status : States, answered : BOOLEAN]

NoInfo == [here |-> FALSE, rtp |-> None, call |-> None, status |-> "Stopped",
           answered |-> FALSE]

Info(rtp, call, s) ==
  [here |-> TRUE, rtp |-> rtp, call |-> call, status |-> s, answered |-> FALSE]

Idle(thread) == thread.pc = "idle"
SipIdle  == [pc |-> "idle", call |-> None, answer |-> "ok"]
PollIdle == [pc |-> "idle", copy |-> NoInfo, failed |-> FALSE]

At(t, place)     == up /\ start[t] = place
Move(t, place)   == start' = [start EXCEPT ![t] = place]
StopAt(s, place) == up /\ stop[s].pc = place
StopMove(s, place) == stop' = [stop EXCEPT ![s].pc = place]
SipAt(place)     == up /\ sip.pc = place
PollAt(place)    == up /\ poll.pc = place

\* Between the check of streams_ and the new entry.
Opening(t) == start[t] \in {"open", "invite", "store"}

\* A thread works with a copy of the entry or of its key.
Busy ==
  \/ ~Idle(sip) \/ ~Idle(poll)
  \/ \E s \in Stops : stop[s].pc \in {"teardown", "erase"}

\* zlm_client_->CloseRtpServer, whose answer nobody looks at: the request may be
\* refused, or time out before ZLMediaKit has seen it.
Close(rtp) ==
  \/ open' = open \ {rtp} /\ heard' = heard \ {rtp} /\ kept' = kept \ {rtp}
  \/ kept' = kept \cup ({rtp} \cap open) /\ UNCHANGED <<open, heard>>

-----------------------------------------------------------------------------
(* Start.                                                                  *)

Start(t) ==
  /\ At(t, "idle") /\ Move(t, "device")
  /\ reg' = Requested(reg)
  /\ UNCHANGED <<stop, sip, poll, entry, servers, invited>>

\* No SIP server, a bad URL or an unknown device; a device that is offline will do.
FindDevice(t) ==
  /\ At(t, "device")
  /\ \/ Move(t, "check") /\ UNCHANGED reg
     \/ Move(t, "done") /\ reg' = Resulting(reg, FALSE)
  /\ UNCHANGED <<stop, sip, poll, entry, servers, invited>>

\* GatewayBase::CheckStreamExists with the gateway's way to tear a stream down.
CheckStreamExists(t) ==
  /\ At(t, "check")
  /\ \/ /\ ~entry.here
        /\ Move(t, "open")
        /\ UNCHANGED <<entry, servers, reg>>
     \/ /\ entry.here /\ entry.status = "Running"
        /\ Move(t, "done")
        /\ reg' = Resulting(reg, TRUE)
        /\ UNCHANGED <<entry, servers>>
     \/ /\ entry.here /\ entry.status # "Running"
        /\ Move(t, "open")
        /\ Close(entry.rtp)
        /\ entry' = [entry EXCEPT !.status = "Stopped"]
        /\ UNCHANGED reg
  /\ UNCHANGED <<stop, sip, poll, invited>>

\* Servers whose name holds the app's are closed first, some of them in vain.
Swept == SUBSET open

\* A request opens the server, is refused, or opens it and its answer is lost.
\* Other tries, with the server closed in between or not, end no other way.
Tries(rest, t) ==
  {[opened |-> TRUE, servers |-> rest \cup {t}]}
    \cup [opened : {FALSE}, servers : {rest, rest \cup {t}}]

OpenRtpServer(t) ==
  /\ At(t, "open")
  /\ \E rest \in Swept : \E try \in Tries(rest, t) :
       /\ open' = try.servers
       /\ heard' = heard \cap rest /\ kept' = kept \cap rest
       /\ \/ try.opened /\ Move(t, "invite") /\ UNCHANGED <<entry, reg>>
          \/ /\ ~try.opened /\ Move(t, "done")
             /\ entry' = Info(None, None, "Error")
             /\ reg' = Resulting(reg, FALSE)
  /\ UNCHANGED <<stop, sip, poll, invited>>

\* From here the device may answer.
SendInvite(t) ==
  /\ At(t, "invite") /\ Move(t, "store")
  /\ invited' = invited \cup {t}
  /\ UNCHANGED <<stop, sip, poll, entry, servers, reg>>

\* No address, no SDP, or the socket refuses.
InviteFails(t) ==
  /\ At(t, "invite") /\ Move(t, "done")
  /\ Close(t)
  /\ entry' = Info(t, None, "Error")
  /\ reg' = Resulting(reg, FALSE)
  /\ UNCHANGED <<stop, sip, poll, invited>>

StoreStarting(t) ==
  /\ At(t, "store") /\ Move(t, "done")
  /\ entry' = Info(t, t, "Starting")
  /\ reg' = Reregistered(reg, "Starting")
  /\ UNCHANGED <<stop, sip, poll, servers, invited>>

-----------------------------------------------------------------------------
(* Stop.                                                                   *)

\* The handler unregisters the stream and answers; the rest runs on a thread of
\* its own.
HandleStopStream(s) ==
  /\ StopAt(s, "idle") /\ StopMove(s, "find")
  /\ reg' = "none"
  /\ UNCHANGED <<start, sip, poll, entry, servers, invited>>

\* The device's streams are stopped by their names.
StopStreamByDevice(s) ==
  /\ StopAt(s, "idle") /\ StopMove(s, "find")
  /\ entry.here
  /\ UNCHANGED <<start, sip, poll, entry, servers, invited, reg>>

\* Mutant: only a stream that runs is stopped.
StopFindsRunning(e) == e.here /\ e.status = "Running"

StopFinds(e) == e.here

\* By key, by RTP stream id or by its base name.
FindEntry(s) ==
  /\ StopAt(s, "find")
  /\ stop' = [stop EXCEPT ![s] =
                IF StopFinds(entry)
                THEN [pc |-> "teardown", rtp |-> entry.rtp, call |-> entry.call]
                ELSE [pc |-> "absent", rtp |-> None, call |-> None]]
  /\ UNCHANGED <<start, sip, poll, entry, servers, invited, reg>>

GetRtpStreamId(e) == IF e.here THEN e.rtp ELSE None

\* Looked up again; what has come since is closed, its entry is kept.
StopAbsent(s) ==
  /\ StopAt(s, "absent") /\ StopMove(s, "done")
  /\ IF GetRtpStreamId(entry) # None
     THEN Close(GetRtpStreamId(entry)) /\ reg' = "none"
     ELSE UNCHANGED <<servers, reg>>
  /\ UNCHANGED <<start, sip, poll, entry, invited>>

StopTeardown(s) ==
  /\ StopAt(s, "teardown") /\ StopMove(s, "erase")
  /\ Close(stop[s].rtp)
  /\ reg' = "none"
  /\ UNCHANGED <<start, sip, poll, entry, invited>>

StopErase(s) ==
  /\ StopAt(s, "erase")
  /\ stop' = [stop EXCEPT ![s] = [pc |-> "done", rtp |-> None, call |-> None]]
  /\ entry' = NoInfo
  /\ UNCHANGED <<start, sip, poll, servers, invited, reg>>

-----------------------------------------------------------------------------
(* The message thread.  It looks at the Call-ID only, so the answer to a   *)
(* BYE counts as one to the INVITE.                                        *)

MatchResponse(c, a) ==
  /\ SipAt("idle") /\ c \in invited
  /\ entry.here /\ entry.call = c
  /\ sip' = [pc |-> "respond", call |-> c, answer |-> a]
  /\ UNCHANGED <<start, stop, poll, entry, servers, invited, reg>>

ApplyResponse ==
  /\ SipAt("respond") /\ sip' = SipIdle
  /\ \/ /\ ~entry.here
        /\ UNCHANGED <<entry, servers, reg>>
     \/ /\ entry.here /\ sip.answer = "ok"
        /\ entry' = [entry EXCEPT !.answered = @ \/ entry.status = "Starting"]
        /\ UNCHANGED <<servers, reg>>
     \/ /\ entry.here /\ sip.answer # "ok"
        /\ entry' = [entry EXCEPT !.status = "Error"]
        /\ Close(entry.rtp)
        /\ reg' = Resulting(reg, FALSE)
  /\ UNCHANGED <<start, stop, poll, invited>>

MatchBye(c) ==
  /\ SipAt("idle") /\ c \in invited
  /\ entry.here /\ entry.call = c
  /\ sip' = [pc |-> "teardown", call |-> c, answer |-> "ok"]
  /\ UNCHANGED <<start, stop, poll, entry, servers, invited, reg>>

ByeTeardown ==
  /\ SipAt("teardown") /\ sip' = [sip EXCEPT !.pc = "erase"]
  /\ Close(sip.call) /\ reg' = "none"
  /\ UNCHANGED <<start, stop, poll, entry, invited>>

ByeErase ==
  /\ SipAt("erase") /\ sip' = SipIdle
  /\ entry' = NoInfo
  /\ UNCHANGED <<start, stop, poll, servers, invited, reg>>

-----------------------------------------------------------------------------
(* The status thread.                                                      *)

\* Mutant: every stream is polled.
PolledAll(e) == e.here

\* Mutant: only streams that run are polled.
PolledRunning(e) == e.here /\ e.status = "Running"

Polled(e) == e.here /\ e.status \in {"Starting", "Running"}

PollCopy ==
  /\ PollAt("idle") /\ Polled(entry)
  /\ poll' = [pc |-> "look", copy |-> entry, failed |-> FALSE]
  /\ UNCHANGED <<start, stop, sip, entry, servers, invited, reg>>

Looked(s) == poll' = [poll EXCEPT !.pc = "back", !.copy.status = s,
                                  !.failed = s = "Error"]

\* ZLMediaKit may list the media of this attempt.
MayBeActive(copy) == copy.rtp \in heard

LookActive ==
  /\ PollAt("look") /\ MayBeActive(poll.copy)
  /\ Looked("Running")
  /\ IF poll.copy.status = "Starting"
     THEN reg' = Reregistered(reg, "Running") ELSE UNCHANGED reg
  /\ UNCHANGED <<start, stop, sip, entry, servers, invited>>

\* Mutant: a start that timed out is not reported to the registry.
TimeoutUnreported(r) == r

TimeoutReport(r) == Resulting(r, FALSE)

\* No answer within stream_start_timeout; or an answer, and for 60 s neither data
\* nor media, as far as the queries of this pass tell.
LookLate ==
  /\ PollAt("look") /\ poll.copy.status = "Starting"
  /\ Looked("Error")
  /\ reg' = TimeoutReport(reg)
  /\ UNCHANGED <<start, stop, sip, entry, servers, invited>>

\* Still waiting, with RTP arriving perhaps; or a stream that ran has ended.
LookInactive ==
  /\ PollAt("look")
  /\ Looked(IF poll.copy.status = "Starting" THEN "Starting" ELSE "Stopped")
  /\ UNCHANGED <<start, stop, sip, entry, servers, invited, reg>>

LookThrows ==
  /\ PollAt("look") /\ poll' = PollIdle
  /\ UNCHANGED <<start, stop, sip, entry, servers, invited, reg>>

\* Mutant: streams_[stream_id] = info.
WrittenBackAlways(e, copy) == copy

WrittenBack(e, copy) == IF e.here THEN copy ELSE e

PollWriteBack ==
  /\ PollAt("back")
  /\ poll' = IF poll.failed THEN [poll EXCEPT !.pc = "clean"] ELSE PollIdle
  /\ entry' = WrittenBack(entry, poll.copy)
  /\ UNCHANGED <<start, stop, sip, servers, invited, reg>>

\* Mutant: a failed stream is erased and its server forgotten.
CleanedNothing(e) == UNCHANGED servers

\* Whatever the entry has become meanwhile.
Cleaned(e) == IF e.here THEN Close(e.rtp) ELSE UNCHANGED servers

PollClean ==
  /\ PollAt("clean") /\ poll' = PollIdle
  /\ Cleaned(entry)
  /\ entry' = NoInfo
  /\ UNCHANGED <<start, stop, sip, invited, reg>>

-----------------------------------------------------------------------------
\* ~GB28181Gateway joins the status thread and stops the SIP server, whose socket
\* is closed by then.  No request is served any more.
Destroy ==
  /\ up /\ up' = FALSE
  /\ Idle(poll) /\ Idle(sip)
  /\ \A t \in Starts : start[t] \in {"idle", "done"}
  /\ \A s \in Stops : stop[s].pc \in {"idle", "done"}
  /\ entry' = NoInfo
  /\ Close(entry.rtp)
  /\ reg' = IF entry.here THEN "none" ELSE reg
  /\ UNCHANGED <<threads, invited, history>>

\* The hooks and the status pass of the registry.
RegistryMoves ==
  /\ up /\ reg' \in HookStatuses \ {reg}
  /\ UNCHANGED <<threads, entry, servers, invited>>

\* ZLMediaKit closes an RTP server that gets no data.
ServerTimesOut ==
  /\ up /\ \E r \in open :
       open' = open \ {r} /\ heard' = heard \ {r} /\ kept' = kept \ {r}
  /\ UNCHANGED <<threads, entry, invited, reg>>

\* A device that was invited sends.
DataComes ==
  /\ up /\ \E r \in (open \cap invited) \ heard : heard' = heard \cup {r}
  /\ UNCHANGED <<threads, entry, open, kept, invited, reg>>

StartStep(t) ==
  \/ Start(t) \/ FindDevice(t) \/ CheckStreamExists(t)
  \/ OpenRtpServer(t) \/ SendInvite(t) \/ InviteFails(t)
  \/ StoreStarting(t)

StopStep(s) ==
  \/ HandleStopStream(s) \/ StopStreamByDevice(s) \/ FindEntry(s) \/ StopAbsent(s)
  \/ StopTeardown(s) \/ StopErase(s)

SipStep ==
  \/ \E c \in Starts : MatchBye(c) \/ \E a \in Answers : MatchResponse(c, a)
  \/ ApplyResponse \/ ByeTeardown \/ ByeErase

PollStep == PollCopy \/ LookActive \/ LookLate \/ LookInactive \/ LookThrows
              \/ PollWriteBack \/ PollClean

\* While a device has answered and its server has data, the status thread waits
\* without a limit; every other start has a time by which it is late.
Waiting(e)  == e.answered /\ e.rtp \in heard
PollSettles == ~Waiting(poll.copy) /\ (LookActive \/ LookLate)

Threads == (\E t \in Starts : StartStep(t)) \/ (\E s \in Stops : StopStep(s))
             \/ SipStep \/ PollStep \/ RegistryMoves \/ ServerTimesOut \/ DataComes

\* What the gateway does not cope with, and the properties leave aside: two starts
\* that both passed the check, a new entry stored while another thread works with
\* a copy of the old one, and an RTP server whose opening was not answered.
Excusing ==
  \/ \E t, u \in Starts : t # u /\ Opening(t)' /\ Opening(u)'
  \/ \E t \in Starts : start[t] # "done" /\ Opening(t) /\ start'[t] = "done" /\ Busy
  \/ \E t \in Starts : start[t] = "open" /\ start'[t] = "done" /\ t \in open'

UnderWay == \E t \in Starts : start'[t] \notin {"idle", "done"}

Watch ==
  /\ excused' = (excused \/ Excusing)
  /\ disturbed' = IF excused' THEN {}
                  ELSE disturbed \cup {s \in Stops : UnderWay /\ stop'[s].pc # "idle"}

Next == (Threads /\ UNCHANGED up /\ Watch) \/ Destroy

Init ==
  /\ start = [t \in Starts |-> "idle"]
  /\ stop = [s \in Stops |-> [pc |-> "idle", rtp |-> None, call |-> None]]
  /\ sip = SipIdle /\ poll = PollIdle
  /\ entry = NoInfo
  /\ open = {} /\ heard = {} /\ kept = {}
  /\ invited = {}
  /\ reg = "none" /\ up = TRUE
  /\ excused = FALSE /\ disturbed = {}

Spec == Init /\ [][Next]_vars

\* The status thread never stops, and time passes: a start that is polled again and
\* again is found active or past its limit in the end, as long as ZLMediaKit's client
\* does not throw every time and the device does not answer for ever anew.
FairSpec ==
  /\ Spec
  /\ WF_vars(PollStep /\ UNCHANGED up /\ Watch)
  /\ SF_vars(PollSettles /\ UNCHANGED up /\ Watch)

-----------------------------------------------------------------------------
(* Properties.                                                             *)

\* Every thread is somewhere, an entry has both ids of one attempt or lacks the
\* Call-ID, and the status thread looks at entries only that a start or a running
\* stream left behind.
TypeOK ==
  /\ start \in [Starts -> StartPlaces]
  /\ stop \in [Stops -> [pc : StopPlaces, rtp : Id, call : Id]]
  /\ sip \in [pc : SipPlaces, call : Id, answer : Answers]
  /\ poll \in [pc : PollPlaces, copy : Infos, failed : BOOLEAN]
  /\ entry \in Infos
  /\ open \subseteq Starts /\ heard \subseteq open /\ kept \subseteq open
  /\ invited \subseteq Starts
  /\ reg \in Statuses /\ up \in BOOLEAN
  /\ excused \in BOOLEAN /\ disturbed \subseteq Stops
  /\ entry.call \in {None, entry.rtp} /\ (~entry.here => entry = NoInfo)
  /\ ~Idle(poll) => poll.copy.here /\ (poll.failed <=> poll.copy.status = "Error")
  /\ poll.pc = "look" => poll.copy.status \in {"Starting", "Running"}

\* No RTP server is forgotten without an attempt to close it: as long as a start is
\* not overtaken, every server open in ZLMediaKit is the one of the entry, or of a
\* start that is about to store it, or ZLMediaKit was asked to close it and did not.
ServersKnown ==
  ~excused =>
    \A r \in open :
      \/ entry.here /\ entry.rtp = r
      \/ Opening(r)
      \/ r \in kept

\* The end of a stop is the end of the stream: unless a start came in meanwhile, there
\* is no entry, and no RTP server but what ZLMediaKit did not close when asked,
\* whatever the status thread and the message thread had copied before.
StopIsFinal ==
  ~excused => \A s \in Stops :
    stop[s].pc = "done" /\ s \notin disturbed => ~entry.here /\ open \subseteq kept

\* A stop leaves no RTP server open: so say the log lines after CloseRtpServer.
StopClosesServers ==
  ~excused => \A s \in Stops : stop[s].pc = "done" /\ s \notin disturbed => open = {}

\* The registry says Starting only while somebody will say how the start ended: a start
\* under way, or an entry in Starting that the status thread polls, or its copy.
NoLimbo ==
  ~excused /\ reg = "Starting" =>
    \/ \E t \in Starts : start[t] \notin {"idle", "done"}
    \/ entry.here /\ entry.status = "Starting"
    \/ ~Idle(poll) /\ poll.copy.status = "Starting"

\* A start the device never answers, or answers without sending, does not stay
\* Starting: the status thread reports it and erases the entry, if nobody else does.
StartsSettle ==
  (entry.here /\ entry.status = "Starting")
     ~> (~up \/ ~entry.here \/ entry.status # "Starting" \/ Waiting(entry))
=============================================================================
