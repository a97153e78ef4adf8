---------------------------- MODULE MCMatchPause ----------------------------
(* A small match in which A pauses twice, and B plays on. *)
EXTENDS MatchPause

MCOnlyTwo == [s \in Side |-> IF s = "A" THEN 2 ELSE 0]
=============================================================================
