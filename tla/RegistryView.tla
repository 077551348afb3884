---------------------------- MODULE RegistryView ----------------------------
(***************************************************************************)
(* What a gateway sees of the registry (streaming/stream_manager.cpp): the *)
(* status of the one stream it starts, or "none".  Each operator is a call *)
(* of the gateway on StreamManager, which takes the registry's mutex for   *)
(* the whole call.  StreamManager models the registry itself, with its     *)
(* times, names and notifications; a gateway decides nothing by those.     *)
(***************************************************************************)

\* "Error" stands for Stopped as well, which none of the operators tells apart.
Statuses == {"none", "Starting", "Running", "Error"}

\* OnStreamCreateRequested: a new entry, or an old one taken over.
Requested(r) == IF r = "Running" THEN "Running" ELSE "Starting"

\* RegisterStream with status Starting or Running: Running is not taken back.
Reregistered(r, s) == IF r = "Running" THEN "Running" ELSE s

\* OnStreamCreateResult: nothing for an unknown stream; a failure does not end
\* a stream that runs.
Resulting(r, ok) ==
  IF r = "none" THEN r ELSE IF ok \/ r = "Running" THEN "Running" ELSE "Error"

\* Statuses the hooks and the passes of the registry's own thread give.
HookStatuses == Statuses \ {"Starting"}
=============================================================================
