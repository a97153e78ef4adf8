---------------------------- MODULE MatchSeries ----------------------------
(***************************************************************************)
(* What a ranked match promises about its result: rounds are played until   *)
(* one side has more wins than the other or the rounds are used up, play    *)
(* breaks a tie by a deathmatch and by nothing else, who gives up the match *)
(* gives up the scene that is played too, and what was decided is never     *)
(* decided again.                                                          *)
(***************************************************************************)
EXTENDS Naturals, Sequences, FiniteSets

VARIABLES
  format,   (* "BO3" or "SINGLE"                                            *)
  results,  (* the results of the rounds played: a side or "DRAW"           *)
  outcome,  (* "NONE", the winner of the match or "CANCELLED"               *)
  cause     (* what named the winner: play, a concession or a forfeit       *)

series == <<format, results, outcome, cause>>

Player == {"A", "B"}

Wins(rs, s) == Cardinality({i \in DOMAIN rs : rs[i] = s})
Leader(rs)  == {s \in Player : \A t \in Player \ {s} : Wins(rs, s) > Wins(rs, t)}

(* Rounds before anyone may lead the match, and rounds at most. *)
Needed == IF format = "SINGLE" THEN 1 ELSE 2
AtMost == IF format = "SINGLE" THEN 1 ELSE 3

Won(rs) == IF Len(rs) >= Needed THEN Leader(rs) ELSE {}

Open == outcome = "NONE"
Tied == Len(results) = AtMost /\ Leader(results) = {}

Decided(winner, reason) == outcome' = winner /\ cause' = reason

PlayRound(result) ==
  /\ Open /\ Len(results) < AtMost
  /\ results' = Append(results, result)
  /\ IF Won(results') = {} THEN UNCHANGED <<outcome, cause>>
     ELSE Decided(CHOOSE s \in Won(results') : TRUE, "PLAYED")
  /\ UNCHANGED format

(* The match is given up in the middle of a round, which is lost too. *)
ConcedeInRound(winner, reason) ==
  /\ Open /\ Len(results) < AtMost
  /\ results' = Append(results, winner)
  /\ Decided(winner, reason)
  /\ UNCHANGED format

(* A tie: the deathmatch is won or given up. *)
EndDeathmatch(winner, reason) ==
  /\ Open /\ Tied
  /\ Decided(winner, reason)
  /\ UNCHANGED <<format, results>>

(* A side that is not there, or not ready, loses what is not decided. *)
Forfeit(winner, reason) ==
  /\ Open
  /\ Decided(winner, reason)
  /\ UNCHANGED <<format, results>>

Cancel ==
  /\ Open
  /\ outcome' = "CANCELLED"
  /\ UNCHANGED <<format, results, cause>>

Concession == {"SURRENDER", "PAUSE"}
Absence    == {"READY", "RESOURCE", "ENTRY", "RECONNECT"}

SeriesInit ==
  /\ format \in {"BO3", "SINGLE"}
  /\ results = <<>>
  /\ outcome = "NONE"
  /\ cause = "NONE"

SeriesNext ==
  \/ Cancel
  \/ \E result \in Player \cup {"DRAW"} : PlayRound(result)
  \/ \E winner \in Player :
       \/ \E reason \in Concession : ConcedeInRound(winner, reason)
       \/ \E reason \in Concession \cup {"PLAYED"} : EndDeathmatch(winner, reason)
       \/ \E reason \in Absence : Forfeit(winner, reason)

SeriesSpec == SeriesInit /\ [][SeriesNext]_series
=============================================================================
