---------------------------- MODULE RankedRound ----------------------------
(***************************************************************************)
(* One ranked round as the rules package runs it: the operations of        *)
(* packages/rules/src/round.ts in any order the callers may choose, each    *)
(* at a server time of its own.  The server's match handlers decide which   *)
(* operation comes next and at what time; here any of them may.             *)
(*                                                                         *)
(* A call that throws (an earlier server time, an End before its Start, an  *)
(* invalidation of an attempt that is not running) changes nothing and is   *)
(* not an action.  Neither is the repetition of a recorded End, which       *)
(* returns the round as it is.                                              *)
(***************************************************************************)
EXTENDS RoundRules

CONSTANTS
  Reports,      (* what an End may report: records [percent, cleared]      *)
  MaxAttempts,  (* bound: attempts of one side                             *)
  MaxTime       (* bound: the last server time considered                  *)

(* scoreAttempt throws unless these hold. *)
ASSUME ReportsAssumption ==
  Reports \subseteq {p \in [percent : 0..100, cleared : BOOLEAN] :
                       p.cleared => p.percent = 100}
ASSUME BoundsAssumption == MaxAttempts \in Nat /\ MaxTime \in Nat

VARIABLE round

(* Server times at or after the last evaluation: the others throw. *)
Now == {at \in 0..MaxTime : TimeAccepted(round, at)}

Init == round = CreateRound(0)

(* The poll of a client, through the match's clock. *)
Advance(at) == round' = AdvanceRoundClock(round, at)

(* A Start, or its repetition: an event is at most the next attempt. *)
Start(side, event, at) ==
  /\ event \in 1..(Len(round.attempts[side]) + 1)
  /\ event <= MaxAttempts
  /\ round' = StartRoundAttempt(round, side, event, at)

StartFromIntent(side, event, observedAt, now) ==
  /\ event \in 1..(Len(round.attempts[side]) + 1)
  /\ event <= MaxAttempts
  /\ round' = StartRoundAttemptFromIntent(round, side, event, observedAt, now)

End(side, i, report, at) ==
  /\ i \in DOMAIN round.attempts[side]
  /\ CanEndAttempt(AdvanceRoundClock(round, at), side, i) =>
       at >= round.attempts[side][i].startedAt
  /\ round' = EndRoundAttempt(round, side, i, at, report.percent, report.cleared)

Surrender(side, at) == round' = SurrenderRound(round, side, at)

DebugEnd(at) == round' = DebugEndRoundByScore(round, at)

Invalidate(side, i, at) ==
  /\ i \in Active(AdvanceRoundClock(round, at), side)
  /\ round' = InvalidateRoundAttempt(round, side, i, at)

Operation(at) ==
  \/ Advance(at)
  \/ DebugEnd(at)
  \/ \E side \in Side :
       \/ Surrender(side, at)
       \/ \E event \in 1..MaxAttempts : Start(side, event, at)
       \/ \E event \in 1..MaxAttempts, observedAt \in 0..MaxTime :
            StartFromIntent(side, event, observedAt, at)
       \/ \E i \in 1..MaxAttempts : Invalidate(side, i, at)
       \/ \E i \in 1..MaxAttempts, report \in Reports : End(side, i, report, at)

Next == \E at \in Now : Operation(at)

Spec == Init /\ [][Next]_round

-----------------------------------------------------------------------------
(* Properties *)

(* The round record keeps its shape (round.ts RoundState). *)
TypeOK == round \in Round

RunningAttempts(s) == Active(round, s)

(* A player runs at most one attempt, whichever of the two Start paths let
   it in and however late the Start was (canStartAttempt). *)
OneRunPerSide ==
  \A s \in Side : \A i, j \in RunningAttempts(s) : i = j

(* A result is only published once no attempt can still change it: the
   natural ends wait for the runs that count, the others cut them short. *)
NoRunOutlivesResult ==
  Finished(round) => \A s \in Side : RunningAttempts(s) = {}

(* The window opens for exactly the side that first reached the target, and
   that side stands still while its opponent answers: its clears stay at
   the target and it runs nothing (enterLastAttemptWindow). *)
WindowHolderStandsStill ==
  HasWindow(round) =>
    /\ round.clears[round.window.trigger] = ClearTarget
    /\ RunningAttempts(round.window.trigger) = {}

(* Nobody passes the target, both reach it only in the draw that the target's
   answer makes, and a side cannot reach it without a window being open. *)
TargetReachedOnce ==
  /\ \A s \in Side : round.clears[s] <= ClearTarget
  /\ \A s \in Side : round.clears[s] = ClearTarget => HasWindow(round)
  /\ (\A s \in Side : round.clears[s] = ClearTarget) =>
       round.outcome.reason = "LAST_ATTEMPT_CLEAR"

(* The published winner is the one the evidence names: the clear target when
   the window decided, the higher committed score when the score did, and a
   draw only for equal evidence (finishByScore, finishDecisiveRound). *)
WinnerHasTheEvidence ==
  LET o == round.outcome IN
  /\ o.reason = "SCORE" =>
       /\ o.result = RoundLeader(round)
       /\ HasWindow(round) => ~o.decisive
  /\ o.reason \in {"LAST_ATTEMPT_EXPIRED", "CLEAR_TARGET_LAST_ATTEMPT"} =>
       /\ o.result = round.window.trigger
       /\ round.clears[o.result] = ClearTarget
       /\ round.clears[OtherSide(o.result)] < ClearTarget
  /\ o.reason = "LAST_ATTEMPT_CLEAR" =>
       /\ o.result = "DRAW"
       /\ \A s \in Side : round.clears[s] = ClearTarget

(* The sum of a finite sequence of numbers. *)
Total(w) ==
  LET sum[i \in 0..Len(w)] == IF i = 0 THEN 0 ELSE sum[i - 1] + w[i]
  IN sum[Len(w)]

Ended(attempt) == attempt.status = "ENDED"

(* What each attempt of one side adds to its totals. *)
Awards(attempts) ==
  [i \in 1..Len(attempts) |-> IF Ended(attempts[i]) THEN attempts[i].award ELSE 0]
Clears(attempts) ==
  [i \in 1..Len(attempts) |-> IF Ended(attempts[i]) /\ attempts[i].cleared THEN 1 ELSE 0]

(* The totals are those of the attempts that were ended as valid: no End is
   counted twice, and an attempt cut short leaves nothing behind. *)
LedgerMatchesAttempts ==
  \A s \in Side : /\ round.scores[s] = Total(Awards(round.attempts[s]))
                  /\ round.clears[s] = Total(Clears(round.attempts[s]))

(* What is published stays published: after the result no operation moves
   the outcome, a total or an attempt. *)
ResultIsFinal == [][Finished(round) => UNCHANGED round]_round

(* The comment of enterLastAttemptWindow: a late clear "must not add another
   ten seconds or revive closed starts".  No operation reopens the starts of
   a round that has been seen past its start deadline. *)
ClosedStartsStayClosed ==
  [][round.lastEvaluatedAt >= StartDeadline(round)
       => StartDeadline(round') <= round.lastEvaluatedAt]_round

(* No attempt that began at or after the start deadline in force is let in,
   and in the answer window only the target's. *)
LateStartNeverCounts ==
  [][\A s \in Side :
       Len(round'.attempts[s]) > Len(round.attempts[s]) =>
         /\ round'.attempts[s][Len(round'.attempts[s])].startedAt < StartDeadline(round)
         /\ HasWindow(round) => s = Target(round)]_round

=============================================================================
