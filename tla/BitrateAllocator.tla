-------------------------- MODULE BitrateAllocator --------------------------
(***************************************************************************)
(* The bit rates FFmpeg is told to encode with: utils/bitrate_allocator.   *)
(* cpp, gateway/utils/bitrate_allocation_helper.cpp, and the thread of the *)
(* local camera gateway that keeps them up to date.                        *)
(*                                                                         *)
(* The bandwidth is divided among all that ZLMediaKit lists, and every     *)
(* protocol a stream is published under is listed by itself.  Everything   *)
(* happens under mutex_, the request to ZLMediaKit included.  Both places  *)
(* that configure an allocator leave enable_adaptive on.  Factors are in   *)
(* percent, and what a double would round differently is not told apart.   *)
(* consecutive_errors is never counted up, so a score only depends on the  *)
(* status; network_quality compares a rate with itself.                    *)
(***************************************************************************)
EXTENDS Integers, FiniteSets, FiniteSetsExt, Functions

CONSTANTS
  StreamKeys,     (* app and name of the streams there may be               *)
  MinBitrate, MaxBitrate, DefaultBitrate,   (* BitrateAllocatorConfig, kbps *)
  Bandwidth,      (* total less reserved, kbps                              *)
  Interval,       (* update_interval_sec                                    *)
  Speeds,         (* rates ZLMediaKit measures, kbps; 0 is one of them      *)
  MaxSchemas,     (* bound: protocols a stream is published under           *)
  Resolutions,    (* pictures asked for: [width, height, fps], or NoPicture *)
  NoPicture       (* a resolution that is empty or no resolution            *)

ASSUME BitrateAllocatorAssumption ==
  /\ IsFiniteSet(StreamKeys)
  /\ {MinBitrate, MaxBitrate, DefaultBitrate} \subseteq Nat
  /\ Bandwidth \in Int /\ Bandwidth % 1000 = 0      \* configured in Mbps
  /\ 0 < MinBitrate /\ MinBitrate <= MaxBitrate
  /\ {Interval, MaxSchemas} \subseteq Nat \ {0}
  /\ 0 \in Speeds /\ Speeds \subseteq Nat
  /\ Resolutions \subseteq [width : Int, height : Int, fps : Int]

VARIABLES
  media,      (* what ZLMediaKit has of each stream                         *)
  infos,      (* stream_infos_                                              *)
  age,        (* seconds since last_update_time_, up to Interval            *)
  waited,     (* seconds BitrateUpdateLoop has slept                        *)
  running,    (* bitrate_update_running_                                    *)
  answer,     (* the last answer to a gateway                               *)
  gone        (* history: seconds since ZLMediaKit had each stream, up to   *)
              (* Interval                                                   *)

allocVars == <<media, infos, age, waited, running, answer, gone>>

-----------------------------------------------------------------------------
NoMedia  == [schemas |-> 0, speed |-> 0, active |-> FALSE]
NoInfo   == [known |-> FALSE]
NoAnswer == [known |-> FALSE, rate |-> DefaultBitrate, gone |-> 0]

AllocationStatuses == {"Starting", "Running", "Stopping", "Error"}   \* StreamAllocationStatus

\* IsStreamActive: what transfers data counts, and so does what says it is alive.
Media == {NoMedia} \cup
         {m \in [schemas : 1..MaxSchemas, speed : Speeds, active : BOOLEAN] :
            m.speed > 0 => m.active}

Clamp(rate) == Max({MinBitrate, Min({MaxBitrate, rate})})

Percent(rate, factor) == (rate * factor) \div 100

-----------------------------------------------------------------------------
(* Dividing the bandwidth.                                                 *)

AdjustTotalBandwidthByStreamCount(n) ==
  Percent(Bandwidth, CASE n = 0 -> 100 [] n \in 1..3 -> 90 [] n \in 4..10 -> 95 [] OTHER -> 98)

\* What a list has in all, by protocol, of the streams in a set.
Protocols(list, set) == SumFunctionOnSet([s \in StreamKeys |-> list[s].schemas], set)

ActiveIn(list) == {s \in StreamKeys : list[s].active}

\* Mutant: the share is one of the streams known before.
ShareOfKnown(list) ==
  Clamp(AdjustTotalBandwidthByStreamCount(Protocols(list, StreamKeys))
          \div Max({1, Cardinality({s \in StreamKeys : infos[s].known})}))

\* Every active entry of the list has an equal share, within the limits.
AllocateBitrates(list) ==
  Clamp(AdjustTotalBandwidthByStreamCount(Protocols(list, StreamKeys))
          \div Protocols(list, ActiveIn(list)))

\* Without bandwidth nothing is allocated; a measured rate stays.
Rate(list, s) == IF list[s].active /\ Bandwidth > 0 THEN AllocateBitrates(list) ELSE list[s].speed

-----------------------------------------------------------------------------
(* An update.                                                              *)

CalculateStabilityScore(status) ==
  CASE status = "Error" -> 50 [] status = "Starting" -> 70 [] OTHER -> 100

\* The registry's word on a stream; Running if it has none, or is not asked.
FromRegistry(word) == IF word \in AllocationStatuses THEN word ELSE "Running"

\* A stream that is new is taken to run.  One that is known keeps the status it
\* had if the word is Running.
Status(s, word) ==
  IF ~infos[s].known THEN "Running"
  ELSE IF FromRegistry(word) = "Running" THEN infos[s].status
  ELSE FromRegistry(word)

\* Mutant: the score of a known entry is kept, and not calculated again.
InfoWithOldScore(list, s, word) ==
  [known |-> TRUE, rate |-> Rate(list, s), active |-> list[s].active,
   status |-> Status(s, word),
   score |-> IF infos[s].known THEN infos[s].score ELSE 100]

Info(list, s, word) ==
  [known |-> TRUE, rate |-> Rate(list, s), active |-> list[s].active,
   status |-> Status(s, word), score |-> CalculateStabilityScore(Status(s, word))]

\* Mutant: streams that are not listed any more are kept.
KeepingGone(list, words) ==
  [s \in StreamKeys |-> IF list[s].schemas > 0 THEN Info(list, s, words[s]) ELSE infos[s]]

\* Streams that are not listed are dropped.
UpdateAllocationsUnlocked(list, words) ==
  [s \in StreamKeys |-> IF list[s].schemas > 0 THEN Info(list, s, words[s]) ELSE NoInfo]

\* A request that fails looks like an empty list.
FetchActiveStreams == {media, [s \in StreamKeys |-> NoMedia]}

-----------------------------------------------------------------------------
(* The rate of a stream that is not known.                                 *)

BitsPerPixel(height) ==   \* in hundredths
  CASE height >= 1080 -> 14 [] height \in 720..1079 -> 10 [] height \in 480..719 -> 6
    [] OTHER -> 4

CalculateBaseBitrate(r) ==
  IF r = NoPicture THEN DefaultBitrate
  ELSE Clamp((r.width * r.height * r.fps * BitsPerPixel(r.height)) \div 100000)

AdjustBitrateByPriority(rate, priority) ==
  Percent(rate, 70 + 8 * (Max({1, Min({10, priority})}) - 1))

AdjustBitrateByProtocol(rate, output) ==
  Percent(rate, CASE output = "webrtc" -> 80 [] output = "hls" -> 110 [] OTHER -> 100)

AdjustBitrateByStatus(rate, status) ==
  CASE status = "Starting" -> Percent(rate, 50) [] status = "Stopping" -> Percent(rate, 30)
    [] status = "Error" -> MinBitrate [] OTHER -> rate

AdjustBitrateByStability(rate, score) == Percent(rate, 70 + (score * 3) \div 10)

\* Every gateway asks with priority 5, for a stream it has just begun to start.
Newcomer(r, output) ==
  Clamp(AdjustBitrateByStability(
          AdjustBitrateByStatus(
            AdjustBitrateByProtocol(
              AdjustBitrateByPriority(CalculateBaseBitrate(r), 5), output), "Starting"), 50))

-----------------------------------------------------------------------------
(* Actions.                                                                *)

AllocInit ==
  /\ media = [s \in StreamKeys |-> NoMedia] /\ infos = [s \in StreamKeys |-> NoInfo]
  /\ age = Interval /\ waited = 0 /\ running = TRUE
  /\ answer = NoAnswer /\ gone = [s \in StreamKeys |-> Interval]

\* A gateway asks for the rate of a stream, and the helper prefers the source's
\* own.  What is known is brought up to date first when it is old, without a word
\* of the registry.
GetRecommendedBitrate(s, r, output, source) ==
  LET words == [t \in StreamKeys |-> "Running"] IN
  /\ IF age >= Interval
       THEN /\ \E list \in FetchActiveStreams : infos' = UpdateAllocationsUnlocked(list, words)
            /\ age' = 0
       ELSE UNCHANGED <<infos, age>>
  /\ answer' = [known |-> infos'[s].known,
                rate  |-> IF source > 0 THEN source
                          ELSE IF infos'[s].known THEN infos'[s].rate
                          ELSE Newcomer(r, output),
                gone  |-> gone[s]]
  /\ UNCHANGED <<media, waited, running, gone>>

\* The thread of the local camera gateway, which has the registry.
BitrateUpdateLoop(words) ==
  /\ running /\ waited = Interval
  /\ \E list \in FetchActiveStreams : infos' = UpdateAllocationsUnlocked(list, words)
  /\ age' = 0 /\ waited' = 0
  /\ UNCHANGED <<media, running, answer, gone>>

StopBitrateUpdates ==
  /\ running
  /\ running' = FALSE /\ waited' = 0
  /\ UNCHANGED <<media, infos, age, answer, gone>>

\* ZLMediaKit: a stream appears, goes, idles or transfers data.
Publish(s) ==
  /\ \E m \in Media \ {media[s]} : media' = [media EXCEPT ![s] = m]
  /\ gone' = [gone EXCEPT ![s] = 0]
  /\ UNCHANGED <<infos, age, waited, running, answer>>

\* Time passes.
Second ==
  LET Next1(n) == Min({n + 1, Interval}) IN
  /\ age' = Next1(age)
  /\ waited' = IF running THEN Next1(waited) ELSE waited
  /\ gone' = [s \in StreamKeys |-> IF media[s].schemas > 0 THEN 0 ELSE Next1(gone[s])]
  /\ UNCHANGED <<media, infos, running, answer>>

AllocNext ==
  \/ \E s \in StreamKeys, r \in Resolutions \cup {NoPicture}, output \in {"webrtc", "hls", "rtsp"},
        source \in Speeds : GetRecommendedBitrate(s, r, output, source)
  \/ \E words \in [StreamKeys -> AllocationStatuses \cup {"Stopped"}] : BitrateUpdateLoop(words)
  \/ StopBitrateUpdates
  \/ \E s \in StreamKeys : Publish(s)
  \/ Second

AllocSpec == AllocInit /\ [][AllocNext]_allocVars

-----------------------------------------------------------------------------
\* Entries, answers and clocks are well formed; the score is that of the status.
AllocTypeOK ==
  /\ media \in [StreamKeys -> Media]
  /\ \A s \in StreamKeys : infos[s] = NoInfo \/
       /\ infos[s].known /\ infos[s].rate \in Nat /\ infos[s].active \in BOOLEAN
       /\ infos[s].status \in AllocationStatuses
       /\ infos[s].score = CalculateStabilityScore(infos[s].status)
  /\ age \in 0..Interval /\ waited \in 0..Interval /\ running \in BOOLEAN
  /\ answer.known \in BOOLEAN /\ answer.rate \in Nat /\ answer.gone \in 0..Interval
  /\ gone \in [StreamKeys -> 0..Interval]

\* However streams come and go between two updates, by either of the two that
\* update, the rates of the active ones fit into the bandwidth, unless all of them
\* are down to the minimum (bitrate_allocator.cpp:326-365).
WithinBandwidth ==
  LET active == {s \in StreamKeys : infos[s].known /\ infos[s].active} IN
  Bandwidth > 0 =>
    \/ SumFunctionOnSet([s \in active |-> infos[s].rate], active) <= Bandwidth
    \/ \A s \in active : infos[s].rate = MinBitrate

\* A rate is taken from an entry only if ZLMediaKit has had the stream within the
\* last update_interval_sec: whoever updates, and whatever requests fail, nothing
\* is answered for a stream that has gone longer (bitrate_allocator.cpp:32-47, 185-201).
KnownIsRecent == answer.known => answer.gone < Interval
=============================================================================
