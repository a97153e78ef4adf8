--------------------------- MODULE MCRankedRound ---------------------------
(* A small round: the clock runs from 0 past the end of the final window. *)
EXTENDS RankedRound

(* A clear and a partial run that scores. *)
MCReports ==
  {[percent |-> 100, cleared |-> TRUE], [percent |-> 60, cleared |-> FALSE]}

=============================================================================
