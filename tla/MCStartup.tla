----------------------------- MODULE MCStartup -----------------------------
(***************************************************************************)
(* Values for Startup: the databases there have been, and rows of the log. *)
(***************************************************************************)
EXTENDS Startup

\* A hit that saves tokens and less than half a sixth decimal, and a request
\* that saves nothing.
MCKinds == {[hit |-> TRUE, tokens |-> 2, cost |-> 2],
            [hit |-> FALSE, tokens |-> 1, cost |-> 1]}

\* A new file, and the shapes before user scoping, before the CHECK knew ERROR
\* (also with entries from before user scoping), and of today.
MCOldShapes ==
  {[cache_entries |-> "none", request_log |-> "none"],
   [cache_entries |-> "v1", request_log |-> "v1"],
   [cache_entries |-> "v1", request_log |-> "scoped"],
   [cache_entries |-> "current", request_log |-> "scoped"],
   [cache_entries |-> "current", request_log |-> "current"]}

=============================================================================
