----------------------------- MODULE HookRetryMC -----------------------------
(* Reports of one stream: it appears, it goes, nobody watches it, under its *)
(* own name or with a time stamp.                                           *)
EXTENDS HookRetry

Report(kind, name, on, readers) ==
  [kind |-> kind, name |-> name, regist |-> on, alive |-> on, readers |-> readers]

MCEvents == {Report("changed", "stamped", TRUE, 1),
             Report("none_reader", "plain", FALSE, 0),
             Report("publish", "plain", TRUE, 0)}
=============================================================================
