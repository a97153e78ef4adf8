----------------------------- MODULE RoundRules -----------------------------
(***************************************************************************)
(* The rules of one ranked round as pure functions on a round record:      *)
(* packages/rules/src/round.ts and scoring.ts.  The server applies them    *)
(* inside a transaction that holds the match row, so each is one step.     *)
(*                                                                         *)
(* Scores are kept in half points, because the 1.5 multiplier of           *)
(* scoreAttempt gives halves.  Times are seconds of the server clock.      *)
(* A client event id is named by the attempt it created or ended, so a     *)
(* repeated Start is the number of an existing attempt.                    *)
(***************************************************************************)
EXTENDS Integers, Sequences

CONSTANTS
  RoundSeconds,               (* rules.roundSeconds: normal play            *)
  FinalAttemptWindowSeconds,  (* starts are still taken after normal play   *)
  LastAttemptWindowSeconds,   (* the answer window of a reached target      *)
  ClearTarget,                (* rules.clearTarget                          *)
  QualifyingPercent           (* map.qualifyingPercent                      *)

(* config.ts pins 300, 10, 10 and 3; only these relations are used. *)
ASSUME RulesAssumption ==
  /\ RoundSeconds \in Nat \ {0}
  /\ FinalAttemptWindowSeconds \in Nat
  /\ LastAttemptWindowSeconds \in Nat
  /\ LastAttemptWindowSeconds <= FinalAttemptWindowSeconds
  /\ ClearTarget \in Nat /\ ClearTarget >= 2
  /\ QualifyingPercent \in 0..100

Side == {"A", "B"}
OtherSide(s) == IF s = "A" THEN "B" ELSE "A"

RoundPhase == {"ROUND_PLAYING", "FINAL_ATTEMPT_WINDOW", "LAST_ATTEMPT_WINDOW",
               "ROUND_SETTLING", "ROUND_RESULT"}
RoundReason == {"SURRENDER", "SCORE", "CLEAR_TARGET_LAST_ATTEMPT",
                "LAST_ATTEMPT_CLEAR", "LAST_ATTEMPT_EXPIRED"}

(* An attempt is ACTIVE while valid and not ended; ENDED once its End was
   scored; INVALID when it was cut short and may score nothing. *)
Attempt == [startedAt : Int, status : {"ACTIVE", "ENDED", "INVALID"},
            award : Nat, cleared : BOOLEAN]

NoWindow  == [trigger |-> "NONE", endsAt |-> 0]
NoOutcome == [result |-> "NONE", reason |-> "NONE", settledAt |-> 0,
              decisive |-> FALSE]

Window  == [trigger : Side \cup {"NONE"}, endsAt : Int]
Outcome == [result : Side \cup {"DRAW", "NONE"},
            reason : RoundReason \cup {"NONE"},
            settledAt : Int, decisive : BOOLEAN]

Round == [startedAt : Int, phase : RoundPhase, lastEvaluatedAt : Int,
          attempts : [Side -> Seq(Attempt)],
          scores : [Side -> Nat], clears : [Side -> Nat],
          window : Window, outcome : Outcome]

CreateRound(startedAt) ==
  [startedAt |-> startedAt, phase |-> "ROUND_PLAYING",
   lastEvaluatedAt |-> startedAt,
   attempts |-> [s \in Side |-> <<>>],
   scores |-> [s \in Side |-> 0], clears |-> [s \in Side |-> 0],
   window |-> NoWindow, outcome |-> NoOutcome]

NormalEnd(r)      == r.startedAt + RoundSeconds
FinalWindowEnd(r) == NormalEnd(r) + FinalAttemptWindowSeconds
HasWindow(r)      == r.window.trigger # "NONE"
Target(r)         == OtherSide(r.window.trigger)
Finished(r)       == r.phase = "ROUND_RESULT"

(* The instant from which no attempt may start any more. *)
StartDeadline(r) == IF HasWindow(r) THEN r.window.endsAt ELSE FinalWindowEnd(r)

Active(r, s) ==
  {i \in DOMAIN r.attempts[s] : r.attempts[s][i].status = "ACTIVE"}

-----------------------------------------------------------------------------
(* scoring.ts *)

ClearScore  == 500   (* 250 points *)
DecisiveGap == 500   (* 250 points *)

(* Bug: the award is counted from the bound of the best band. *)
BugAwardAboveBand(percent, cleared) ==
  IF cleared THEN ClearScore ELSE (percent - 75) * 4

(* Callers report a clear only with 100 percent: scoreAttempt throws otherwise. *)
ScoreAttempt(percent, cleared) ==
  IF cleared THEN ClearScore
  ELSE IF percent < QualifyingPercent THEN 0
  ELSE percent * (IF percent >= 75 THEN 4 ELSE IF percent >= 50 THEN 3 ELSE 2)

RoundLeader(r) ==
  CASE r.scores["A"] > r.scores["B"] -> "A"
    [] r.scores["B"] > r.scores["A"] -> "B"
    [] OTHER                         -> "DRAW"

-----------------------------------------------------------------------------
(* How a round ends *)

(* finishRound, with the mark that finishDecisiveRound adds to its outcome. *)
FinishRound(r, result, reason, decisive, at) ==
  [r EXCEPT !.phase = "ROUND_RESULT", !.lastEvaluatedAt = at,
            !.outcome = [result |-> result, reason |-> reason,
                         settledAt |-> at, decisive |-> decisive]]

FinishByScore(r, at) == FinishRound(r, RoundLeader(r), "SCORE", FALSE, at)

(* Cut every running attempt short; it keeps no clear and no score. *)
Stopped(attempts) ==
  [i \in DOMAIN attempts |->
     IF attempts[i].status = "ACTIVE"
     THEN [attempts[i] EXCEPT !.status = "INVALID"] ELSE attempts[i]]

StopRuns(r) ==
  [r EXCEPT !.attempts = [s \in Side |-> Stopped(r.attempts[s])]]

(* s has won by a margin that no running attempt is allowed to contest. *)
DecisiveFor(r, s, at) ==
  /\ r.outcome = NoOutcome
  /\ IF HasWindow(r)
     THEN /\ s = r.window.trigger
          /\ at >= r.window.endsAt
          /\ r.clears[s] >= ClearTarget
          /\ r.clears[OtherSide(s)] <= 1
     ELSE /\ at >= FinalWindowEnd(r)
          /\ r.scores[s] - r.scores[OtherSide(s)] >= DecisiveGap

Decided(r, at) == \E s \in Side : DecisiveFor(r, s, at)

FinishDecisiveRound(r, winner, at) ==
  FinishRound(StopRuns(r), winner,
    IF HasWindow(r) THEN "CLEAR_TARGET_LAST_ATTEMPT" ELSE "SCORE", TRUE, at)

SurrenderRound(r, side, at) ==
  IF r.outcome # NoOutcome THEN r
  ELSE FinishRound(StopRuns(r), OtherSide(side), "SURRENDER", FALSE, at)

DebugEndRoundByScore(r, at) ==
  IF r.outcome # NoOutcome THEN r ELSE FinishByScore(StopRuns(r), at)

-----------------------------------------------------------------------------
(* The clock: every operation first brings the round up to its own time. *)

(* assertServerTime: an earlier time throws, and nothing is changed. *)
TimeAccepted(r, at) == at >= r.lastEvaluatedAt

(* The sides whose running attempt the closed round still waits for. *)
Awaited(r) ==
  {s \in Side : Active(r, s) # {} /\ (HasWindow(r) => s = Target(r))}

(* The phase of an undecided round whose start deadline has not passed. *)
OpenPhase(r, at) ==
  IF HasWindow(r)           THEN "LAST_ATTEMPT_WINDOW"
  ELSE IF at < NormalEnd(r) THEN "ROUND_PLAYING"
                            ELSE "FINAL_ATTEMPT_WINDOW"

(* Bug: the answer window's expiry names the side that had to answer. *)
BugExpireForTarget(r, at) ==
  IF HasWindow(r)
  THEN FinishRound(r, Target(r), "LAST_ATTEMPT_EXPIRED", FALSE, at)
  ELSE FinishByScore(r, at)

Expire(r, at) ==
  IF HasWindow(r)
  THEN FinishRound(r, r.window.trigger, "LAST_ATTEMPT_EXPIRED", FALSE, at)
  ELSE FinishByScore(r, at)

AdvanceRoundClock(r, at) ==
  IF Finished(r) THEN r
  ELSE IF Decided(r, at)
  THEN FinishDecisiveRound(r, CHOOSE s \in Side : DecisiveFor(r, s, at), at)
  ELSE IF at < StartDeadline(r)
  THEN [r EXCEPT !.phase = OpenPhase(r, at), !.lastEvaluatedAt = at]
  ELSE IF Awaited(r) # {}
  THEN [r EXCEPT !.phase = "ROUND_SETTLING", !.lastEvaluatedAt = at]
  ELSE Expire(r, at)

-----------------------------------------------------------------------------
(* Starting an attempt *)

(* Bug: a Start at the very deadline is let in. *)
BugStartAtDeadline(r, side, at) ==
  ~Finished(r) /\ at >= r.startedAt /\ at <= StartDeadline(r)
    /\ Active(r, side) = {} /\ (HasWindow(r) => side = Target(r))

(* canStartAttempt, and the checks of startRoundAttemptFromIntent, which are
   the same with the client's observed time in the place of the server's. *)
CanStartAttempt(r, side, at) ==
  /\ ~Finished(r)
  /\ at >= r.startedAt
  /\ Active(r, side) = {}
  /\ HasWindow(r) => side = Target(r)
  /\ at < StartDeadline(r)

AddAttempt(r, side, startedAt) ==
  [r EXCEPT !.attempts[side] =
     Append(@, [startedAt |-> startedAt, status |-> "ACTIVE", award |-> 0,
                cleared |-> FALSE])]

(* event names an attempt: one that exists makes the Start a repetition. *)
KnownStart(r, side, event) == event \in DOMAIN r.attempts[side]

StartRoundAttempt(r, side, event, at) ==
  LET advanced == AdvanceRoundClock(r, at) IN
  IF KnownStart(r, side, event) THEN r
  ELSE IF CanStartAttempt(advanced, side, at) THEN AddAttempt(advanced, side, at)
  ELSE advanced

(* The Start was observed at observedAt, before its request got here; the
   clock moves only once the attempt is back in the round. *)
StartRoundAttemptFromIntent(r, side, event, observedAt, serverNow) ==
  IF ~KnownStart(r, side, event) /\ CanStartAttempt(r, side, observedAt)
  THEN AdvanceRoundClock(AddAttempt(r, side, observedAt),
         IF serverNow >= r.lastEvaluatedAt THEN serverNow ELSE r.lastEvaluatedAt)
  ELSE r

-----------------------------------------------------------------------------
(* Ending an attempt *)

(* Bug: a clear after normal play gets the whole answer window. *)
BugWholeWindow(r, side, at) ==
  [r EXCEPT !.phase = "LAST_ATTEMPT_WINDOW",
            !.window = [trigger |-> side, endsAt |-> at + LastAttemptWindowSeconds]]

EnterLastAttemptWindow(r, side, at) ==
  LET answered == at + LastAttemptWindowSeconds
      capped   == IF answered <= FinalWindowEnd(r) THEN answered
                                                   ELSE FinalWindowEnd(r)
  IN [r EXCEPT !.phase = "LAST_ATTEMPT_WINDOW",
               !.window = [trigger |-> side,
                           endsAt |-> IF at >= NormalEnd(r) THEN capped
                                                            ELSE answered]]

(* Bug: an attempt that already ended, or was cut short, may end again. *)
BugEndAgain(r, side, i) == ~Finished(r) /\ i \in DOMAIN r.attempts[side]

(* The attempt that an End may score, in a round brought up to date. *)
CanEndAttempt(r, side, i) ==
  /\ ~Finished(r)
  /\ i \in Active(r, side)

ScoreEnd(r, side, i, percent, cleared) ==
  LET award == ScoreAttempt(percent, cleared) IN
  [r EXCEPT !.attempts[side][i] = [@ EXCEPT !.status = "ENDED", !.award = award,
                                            !.cleared = cleared],
            !.scores[side] = @ + award,
            !.clears[side] = IF cleared THEN @ + 1 ELSE @]

(* The clear that answers the open window to the full: the round is a draw. *)
AnswersWindow(r, side) ==
  /\ HasWindow(r) /\ side = Target(r)
  /\ r.clears[side] >= r.clears[r.window.trigger]

ReachesTarget(r, side) ==
  /\ ~HasWindow(r)
  /\ r.clears[side] = ClearTarget
  /\ r.clears[OtherSide(side)] < ClearTarget

EndRoundAttempt(r, side, i, at, percent, cleared) ==
  LET advanced == AdvanceRoundClock(r, at)
      scored   == ScoreEnd(advanced, side, i, percent, cleared)
  IN IF ~CanEndAttempt(advanced, side, i) THEN advanced
     ELSE IF cleared /\ AnswersWindow(scored, side)
     THEN FinishRound(scored, "DRAW", "LAST_ATTEMPT_CLEAR", FALSE, at)
     ELSE IF cleared /\ ReachesTarget(scored, side)
     THEN AdvanceRoundClock(EnterLastAttemptWindow(scored, side, at), at)
     ELSE AdvanceRoundClock(scored, at)

InvalidateRoundAttempt(r, side, i, at) ==
  LET advanced == AdvanceRoundClock(r, at)
  IN AdvanceRoundClock(
       [advanced EXCEPT !.attempts[side][i].status = "INVALID"], at)

=============================================================================
