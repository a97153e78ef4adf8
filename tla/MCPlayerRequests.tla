-------------------------- MODULE MCPlayerRequests --------------------------
(* What one player's devices ask of the server by themselves: admission to    *)
(* the queue and to a match, and the pauses of a match in which A pauses      *)
(* twice and B plays on.  The two share no state, so a behaviour exercises    *)
(* one of them, named by part, and the other keeps its initial state.         *)
EXTENDS MatchPause, RankedAdmission

VARIABLE part

MCOnlyTwo == [s \in Side |-> IF s = "A" THEN 2 ELSE 0]

PartsInit == part \in {"pause", "admission"} /\ Init /\ AdmissionInit

PartsNext ==
  /\ UNCHANGED part
  /\ \/ part = "pause" /\ Next /\ UNCHANGED admissionVars
     \/ part = "admission" /\ AdmissionNext /\ UNCHANGED vars

PartsSpec == PartsInit /\ [][PartsNext]_<<part, vars, admissionVars>>

-----------------------------------------------------------------------------
\* The pause state and the requests about it, and the session, the queue entry
\* and the matches with the device's view of them, keep their shape
\* (MatchPauseState, RankedRuntime, ranked_sessions, ranked_queue_entries).
TypesOK == TypeOK /\ AdmissionTypeOK
=============================================================================
