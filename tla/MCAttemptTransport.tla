------------------------- MODULE MCAttemptTransport -------------------------
(* A round of one second and a final window of one: A plays twice and B once,
   and both clear; or one run each, with either result. *)
EXTENDS AttemptTransport

MCReports ==
  {[percent |-> 100, cleared |-> TRUE], [percent |-> 60, cleared |-> FALSE]}
MCClear   == {[percent |-> 100, cleared |-> TRUE]}

MCMaxRuns == [s \in Side |-> IF s = "A" THEN 2 ELSE 1]
MCOneRun  == [s \in Side |-> 1]

MCBoth == Side
=============================================================================
