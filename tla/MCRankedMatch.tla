--------------------------- MODULE MCRankedMatch ---------------------------
(* Every duration is one tick, silence is two. *)
EXTENDS RankedMatch

Policy(format, ban, action) ==
  [format |-> format, mapBan |-> ban,
   ready     |-> IF action = "FORFEIT" THEN "FORFEIT_UNREADY" ELSE "CANCEL_MATCH",
   reconnect |-> IF action = "FORFEIT" THEN "FORFEIT_DISCONNECTED" ELSE "CANCEL_MATCH",
   restart   |-> IF action = "FORFEIT" THEN "RESUME" ELSE "CANCEL_MATCH"]

MCTerms  == {Policy("BO3", FALSE, "FORFEIT"), Policy("SINGLE", TRUE, "CANCEL")}
MCStayer == {"A"}
=============================================================================
