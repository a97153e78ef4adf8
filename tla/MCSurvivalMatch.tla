--------------------------- MODULE MCSurvivalMatch ---------------------------
(* Two humans and a bot: the final and, when it ties, a Death Match. *)
EXTENDS SurvivalMatch, TLC

MCTargets == <<>>

(* Safety only: the two humans are interchangeable. *)
MCSymmetry == Permutations(Humans)

=============================================================================
