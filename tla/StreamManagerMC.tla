--------------------------- MODULE StreamManagerMC ---------------------------
(* Small instances of StreamManager for TLC. *)
EXTENDS StreamManager

\* No stream has a GB28181 time-stamped name.
PlainNames == [k \in Streams |-> k]

\* Two names of one GB28181 channel: "cam_ts" carries the time stamp.
CameraNames == [k \in Streams |-> "cam"]
=============================================================================
