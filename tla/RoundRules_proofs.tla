-------------------------- MODULE RoundRules_proofs --------------------------
(***************************************************************************)
(* What the operations of RoundRules keep and change, for every length of    *)
(* the windows, every clear target of at least two, and rounds of any       *)
(* number of attempts: facts for the modules that decide which operation    *)
(* comes next.                                                              *)
(***************************************************************************)
EXTENDS RoundRules, SequenceTheorems, TLAPS

(***************************************************************************)
(* Types: every operator of RoundRules keeps the round record's shape.      *)
(***************************************************************************)

LEMMA CreateRoundType ==
  ASSUME NEW t \in Int
  PROVE  CreateRound(t) \in Round
BY DEF CreateRound, Round, Side, RoundPhase, NoWindow, NoOutcome, Window, Outcome, Attempt

LEMMA FinishRoundType ==
  ASSUME NEW r \in Round, NEW at \in Int,
         NEW result \in Side \cup {"DRAW"}, NEW reason \in RoundReason,
         NEW decisive \in BOOLEAN
  PROVE  FinishRound(r, result, reason, decisive, at) \in Round
BY DEF FinishRound, Round, RoundPhase, Outcome, Side

LEMMA LeaderType ==
  ASSUME NEW r \in Round
  PROVE  RoundLeader(r) \in Side \cup {"DRAW"}
BY DEF RoundLeader, Round, Side

LEMMA FinishByScoreType ==
  ASSUME NEW r \in Round, NEW at \in Int
  PROVE  FinishByScore(r, at) \in Round
BY LeaderType, FinishRoundType DEF FinishByScore, RoundReason

LEMMA StoppedType ==
  ASSUME NEW q \in Seq(Attempt)
  PROVE  /\ Stopped(q) \in Seq(Attempt)
         /\ DOMAIN Stopped(q) = DOMAIN q
         /\ \A i \in DOMAIN q : Stopped(q)[i].status # "ACTIVE"
<1>1. ASSUME NEW i \in DOMAIN q
      PROVE  Stopped(q)[i] \in Attempt /\ Stopped(q)[i].status # "ACTIVE"
  <2>1. q[i] \in Attempt
    BY ElementOfSeq, LenProperties
  <2>2. QED
    BY <2>1 DEF Stopped, Attempt
<1>2. DOMAIN q = 1..Len(q) /\ Len(q) \in Nat
  BY LenProperties
<1>3. Stopped(q) \in [1..Len(q) -> Attempt]
  BY <1>1, <1>2 DEF Stopped
<1>4. QED
  BY <1>1, <1>2, <1>3, SeqDef DEF Stopped

LEMMA StopRunsType ==
  ASSUME NEW r \in Round
  PROVE  /\ StopRuns(r) \in Round
         /\ \A s \in Side : Active(StopRuns(r), s) = {}
<1>1. [s \in Side |-> Stopped(r.attempts[s])] \in [Side -> Seq(Attempt)]
  BY StoppedType DEF Round
<1>2. ASSUME NEW s \in Side PROVE Active(StopRuns(r), s) = {}
  BY StoppedType DEF StopRuns, Active, Round
<1>3. QED
  BY <1>1, <1>2 DEF StopRuns, Round

LEMMA FinishDecisiveType ==
  ASSUME NEW r \in Round, NEW s \in Side, NEW at \in Int
  PROVE  FinishDecisiveRound(r, s, at) \in Round
BY StopRunsType, FinishRoundType DEF FinishDecisiveRound, RoundReason

LEMMA DeadlineTypes ==
  ASSUME NEW r \in Round
  PROVE  /\ NormalEnd(r) \in Int
         /\ FinalWindowEnd(r) \in Int
         /\ StartDeadline(r) \in Int
         /\ HasWindow(r) => r.window.trigger \in Side /\ Target(r) \in Side
<1>1. r.startedAt \in Int /\ r.window \in Window
  BY DEF Round
<1>2. QED
  BY <1>1, RulesAssumption
     DEF StartDeadline, FinalWindowEnd, NormalEnd, Window, HasWindow, Target,
         OtherSide, Side

LEMMA AdvanceType ==
  ASSUME NEW r \in Round, NEW at \in Int
  PROVE  AdvanceRoundClock(r, at) \in Round
<1>1. ASSUME Decided(r, at)
      PROVE  (CHOOSE s \in Side : DecisiveFor(r, s, at)) \in Side
  BY <1>1 DEF Decided
<1>2. OpenPhase(r, at) \in RoundPhase
  BY DEF OpenPhase, RoundPhase
<1>3. /\ [r EXCEPT !.phase = OpenPhase(r, at), !.lastEvaluatedAt = at] \in Round
      /\ [r EXCEPT !.phase = "ROUND_SETTLING", !.lastEvaluatedAt = at] \in Round
  BY <1>2 DEF Round, RoundPhase
<1>4. Expire(r, at) \in Round
  BY DeadlineTypes, FinishRoundType, FinishByScoreType DEF Expire, RoundReason
<1>5. QED
  BY <1>1, <1>3, <1>4, FinishDecisiveType DEF AdvanceRoundClock

(***************************************************************************)
(* The inductive invariant, as a predicate of a round record.              *)
(***************************************************************************)

OneRun(r) == \A s \in Side : \A i, j \in Active(r, s) : i = j

NoRun(r) == \A s \in Side : Active(r, s) = {}

HolderStands(r) ==
  HasWindow(r) =>
    /\ r.clears[r.window.trigger] = ClearTarget
    /\ Active(r, r.window.trigger) = {}
    /\ r.window.endsAt <= FinalWindowEnd(r)

BothReached(r) == \A s \in Side : r.clears[s] = ClearTarget

(* What holds of the attempts, the clears and the window at every step of an
   operation, also between its parts. *)
Body(r) ==
  /\ r \in Round
  /\ OneRun(r)
  /\ HolderStands(r)
  /\ \A s \in Side : r.clears[s] <= ClearTarget

(* The evidence a result needs. *)
Justified(r, result, reason) ==
  /\ reason = "SCORE" => result = RoundLeader(r)
  /\ reason \in {"LAST_ATTEMPT_EXPIRED", "CLEAR_TARGET_LAST_ATTEMPT"} =>
       HasWindow(r) /\ result = r.window.trigger
  /\ reason = "LAST_ATTEMPT_CLEAR" => result = "DRAW" /\ BothReached(r)

Verdict(r) ==
  /\ Finished(r) <=> r.outcome # NoOutcome
  /\ Finished(r) => NoRun(r)
  /\ \A s \in Side : r.clears[s] = ClearTarget => HasWindow(r)
  /\ BothReached(r) => r.outcome.reason = "LAST_ATTEMPT_CLEAR"
  /\ Finished(r) => Justified(r, r.outcome.result, r.outcome.reason)
  /\ r.outcome.reason = "SCORE" /\ HasWindow(r) => ~r.outcome.decisive

Consistent(r) == Body(r) /\ Verdict(r)

(***************************************************************************)
(* The ways a round ends.                                                   *)
(***************************************************************************)

LEMMA FinishConsistent ==
  ASSUME NEW r, Body(r), NoRun(r), NEW at \in Int,
         NEW result \in Side \cup {"DRAW"}, NEW reason \in RoundReason,
         NEW decisive \in BOOLEAN,
         Justified(r, result, reason),
         reason = "SCORE" /\ HasWindow(r) => ~decisive,
         \A s \in Side : r.clears[s] = ClearTarget => HasWindow(r),
         BothReached(r) => reason = "LAST_ATTEMPT_CLEAR"
  PROVE  /\ Consistent(FinishRound(r, result, reason, decisive, at))
         /\ Finished(FinishRound(r, result, reason, decisive, at))
         /\ StartDeadline(FinishRound(r, result, reason, decisive, at)) = StartDeadline(r)
<1> DEFINE f == FinishRound(r, result, reason, decisive, at)
<1>1. r \in Round /\ f \in Round
  BY FinishRoundType DEF Body
<1>2. /\ f.attempts = r.attempts /\ f.scores = r.scores /\ f.clears = r.clears
      /\ f.window = r.window /\ f.startedAt = r.startedAt
      /\ f.phase = "ROUND_RESULT"
      /\ f.outcome = [result |-> result, reason |-> reason, settledAt |-> at,
                      decisive |-> decisive]
  BY <1>1 DEF FinishRound, Round
<1>3. Body(f) /\ NoRun(f)
  BY <1>1, <1>2 DEF Body, OneRun, NoRun, HolderStands, Active, HasWindow,
       FinalWindowEnd, NormalEnd
<1>4. f.outcome # NoOutcome
  BY <1>2 DEF NoOutcome, RoundReason
<1>5. Justified(f, f.outcome.result, f.outcome.reason)
  BY <1>2 DEF Justified, RoundLeader, HasWindow, BothReached
<1>6. Verdict(f)
  BY <1>2, <1>3, <1>4, <1>5 DEF Verdict, Finished, HasWindow, BothReached
<1>7. StartDeadline(f) = StartDeadline(r)
  BY <1>2 DEF StartDeadline, HasWindow, FinalWindowEnd, NormalEnd
<1>8. QED
  BY <1>2, <1>3, <1>6, <1>7 DEF Consistent, Finished

LEMMA StopRunsBody ==
  ASSUME NEW r, Body(r)
  PROVE  /\ Body(StopRuns(r)) /\ NoRun(StopRuns(r))
         /\ StopRuns(r).scores = r.scores /\ StopRuns(r).clears = r.clears
         /\ StopRuns(r).window = r.window /\ StopRuns(r).startedAt = r.startedAt
<1>1. r \in Round
  BY DEF Body
<1>2. /\ StopRuns(r).scores = r.scores /\ StopRuns(r).clears = r.clears
      /\ StopRuns(r).window = r.window /\ StopRuns(r).startedAt = r.startedAt
  BY <1>1 DEF StopRuns, Round
<1>3. StopRuns(r) \in Round /\ NoRun(StopRuns(r))
  BY <1>1, StopRunsType DEF NoRun
<1>4. HolderStands(StopRuns(r))
  BY <1>1, <1>2, <1>3, DeadlineTypes
     DEF Body, HolderStands, HasWindow, NoRun, FinalWindowEnd, NormalEnd
<1>5. QED
  BY <1>2, <1>3, <1>4 DEF Body, OneRun, NoRun

LEMMA DecisiveConsistent ==
  ASSUME NEW r, Consistent(r), ~Finished(r), NEW at \in Int,
         NEW s \in Side, DecisiveFor(r, s, at)
  PROVE  /\ Consistent(FinishDecisiveRound(r, s, at))
         /\ StartDeadline(FinishDecisiveRound(r, s, at)) = StartDeadline(r)
<1> DEFINE reason == IF HasWindow(r) THEN "CLEAR_TARGET_LAST_ATTEMPT" ELSE "SCORE"
           stopped == StopRuns(r)
           f == FinishRound(stopped, s, reason, TRUE, at)
<1>1. r \in Round /\ Body(r) /\ Verdict(r)
  BY DEF Consistent, Body
<1>2. /\ Body(stopped) /\ NoRun(stopped)
      /\ stopped.scores = r.scores /\ stopped.clears = r.clears
      /\ stopped.window = r.window /\ stopped.startedAt = r.startedAt
  BY <1>1, StopRunsBody
<1>3. ~BothReached(r)
  <2>1. r.outcome = NoOutcome
    BY <1>1 DEF Verdict
  <2>2. QED
    BY <1>1, <2>1 DEF Verdict, NoOutcome
<1>4. HasWindow(r) => s = r.window.trigger
  BY DEF DecisiveFor
<1>5. ~HasWindow(r) => s = RoundLeader(r)
  <2>1. r.scores["A"] \in Nat /\ r.scores["B"] \in Nat
    BY <1>1 DEF Round, Side
  <2>2. QED
    BY <2>1 DEF DecisiveFor, DecisiveGap, RoundLeader, OtherSide, Side
<1>6. Justified(stopped, s, reason)
  BY <1>2, <1>4, <1>5 DEF Justified, HasWindow, RoundLeader
<1>7. /\ \A x \in Side : stopped.clears[x] = ClearTarget => HasWindow(stopped)
      /\ ~BothReached(stopped)
  BY <1>1, <1>2, <1>3 DEF Verdict, HasWindow, BothReached
<1>8. reason \in RoundReason
  BY DEF RoundReason
<1>9. Consistent(f) /\ StartDeadline(f) = StartDeadline(stopped)
  BY <1>2, <1>6, <1>7, <1>8, FinishConsistent DEF HasWindow
<1>10. StartDeadline(stopped) = StartDeadline(r)
  BY <1>2 DEF StartDeadline, HasWindow, FinalWindowEnd, NormalEnd
<1>11. QED
  BY <1>9, <1>10 DEF FinishDecisiveRound

(***************************************************************************)
(* The clock.                                                               *)
(***************************************************************************)

LEMMA OpenConsistent ==
  ASSUME NEW r, Consistent(r), ~Finished(r), NEW at \in Int,
         NEW phase \in RoundPhase \ {"ROUND_RESULT"}
  PROVE  LET f == [r EXCEPT !.phase = phase, !.lastEvaluatedAt = at]
         IN Consistent(f) /\ StartDeadline(f) = StartDeadline(r)
<1> DEFINE f == [r EXCEPT !.phase = phase, !.lastEvaluatedAt = at]
<1>1. r \in Round /\ Body(r) /\ Verdict(r)
  BY DEF Consistent, Body
<1>2. f \in Round
  BY <1>1 DEF Round
<1>3. /\ f.attempts = r.attempts /\ f.scores = r.scores /\ f.clears = r.clears
      /\ f.window = r.window /\ f.startedAt = r.startedAt
      /\ f.outcome = r.outcome /\ f.phase = phase
  BY <1>1 DEF Round
<1>4. Body(f)
  BY <1>1, <1>2, <1>3 DEF Body, OneRun, HolderStands, Active, HasWindow,
       FinalWindowEnd, NormalEnd
<1>5. ~Finished(f)
  BY <1>3 DEF Finished
<1>6. Verdict(f)
  BY <1>1, <1>3, <1>5 DEF Verdict, HasWindow, BothReached
<1>7. StartDeadline(f) = StartDeadline(r)
  BY <1>3 DEF StartDeadline, HasWindow, FinalWindowEnd, NormalEnd
<1>8. QED
  BY <1>4, <1>6, <1>7 DEF Consistent

LEMMA ExpireConsistent ==
  ASSUME NEW r, Consistent(r), ~Finished(r), NEW at \in Int, Awaited(r) = {}
  PROVE  Consistent(Expire(r, at)) /\ StartDeadline(Expire(r, at)) = StartDeadline(r)
<1>1. r \in Round /\ Body(r) /\ Verdict(r)
  BY DEF Consistent, Body
<1>2. NoRun(r)
  <2>1. CASE HasWindow(r)
    <3>1. Active(r, r.window.trigger) = {}
      BY <1>1, <2>1 DEF Body, HolderStands
    <3>2. ASSUME NEW s \in Side PROVE s = r.window.trigger \/ s = Target(r)
      BY <1>1, <2>1, DeadlineTypes DEF Target, OtherSide, Side
    <3>3. QED
      BY <2>1, <3>1, <3>2 DEF NoRun, Awaited
  <2>2. CASE ~HasWindow(r)
    BY <2>2 DEF NoRun, Awaited
  <2>3. QED
    BY <2>1, <2>2
<1>3. ~BothReached(r)
  BY <1>1 DEF Verdict, NoOutcome
<1>4. CASE HasWindow(r)
  <2>1. Justified(r, r.window.trigger, "LAST_ATTEMPT_EXPIRED")
    BY <1>4 DEF Justified
  <2>2. QED
    BY <1>1, <1>2, <1>3, <1>4, <2>1, DeadlineTypes, FinishConsistent
       DEF Expire, RoundReason, Verdict
<1>5. CASE ~HasWindow(r)
  <2>1. Justified(r, RoundLeader(r), "SCORE")
    BY DEF Justified
  <2>2. QED
    BY <1>1, <1>2, <1>3, <1>5, <2>1, LeaderType, FinishConsistent
       DEF Expire, FinishByScore, RoundReason, Verdict
<1>6. QED
  BY <1>4, <1>5

LEMMA AdvanceConsistent ==
  ASSUME NEW r, Consistent(r), NEW at \in Int
  PROVE  /\ Consistent(AdvanceRoundClock(r, at))
         /\ StartDeadline(AdvanceRoundClock(r, at)) = StartDeadline(r)
<1>1. CASE Finished(r)
  BY <1>1 DEF AdvanceRoundClock
<1>2. CASE ~Finished(r) /\ Decided(r, at)
  <2> DEFINE s == CHOOSE x \in Side : DecisiveFor(r, x, at)
  <2>1. s \in Side /\ DecisiveFor(r, s, at)
    BY <1>2 DEF Decided
  <2>2. QED
    BY <1>2, <2>1, DecisiveConsistent DEF AdvanceRoundClock
<1>3. CASE ~Finished(r) /\ ~Decided(r, at)
  <2>1. OpenPhase(r, at) \in RoundPhase \ {"ROUND_RESULT"}
    BY DEF OpenPhase, RoundPhase
  <2>2. CASE at < StartDeadline(r)
    BY <1>3, <2>1, <2>2, OpenConsistent DEF AdvanceRoundClock
  <2>3. CASE ~(at < StartDeadline(r)) /\ Awaited(r) # {}
    BY <1>3, <2>3, OpenConsistent DEF AdvanceRoundClock, RoundPhase
  <2>4. CASE ~(at < StartDeadline(r)) /\ Awaited(r) = {}
    BY <1>3, <2>4, ExpireConsistent DEF AdvanceRoundClock
  <2>5. QED
    BY <2>2, <2>3, <2>4
<1>4. QED
  BY <1>1, <1>2, <1>3

(***************************************************************************)
(* Starting an attempt.                                                     *)
(***************************************************************************)

LEMMA AddAttemptConsistent ==
  ASSUME NEW r, Consistent(r), NEW side \in Side, NEW startedAt \in Int,
         NEW at, CanStartAttempt(r, side, at)
  PROVE  /\ Consistent(AddAttempt(r, side, startedAt))
         /\ StartDeadline(AddAttempt(r, side, startedAt)) = StartDeadline(r)
         /\ AddAttempt(r, side, startedAt).lastEvaluatedAt = r.lastEvaluatedAt
<1> DEFINE new == [startedAt |-> startedAt, status |-> "ACTIVE", award |-> 0,
                   cleared |-> FALSE]
           f == AddAttempt(r, side, startedAt)
<1>1. r \in Round /\ Body(r) /\ Verdict(r)
  BY DEF Consistent, Body
<1>2. /\ f.attempts = [r.attempts EXCEPT ![side] = Append(r.attempts[side], new)]
      /\ f.scores = r.scores /\ f.clears = r.clears
      /\ f.window = r.window /\ f.startedAt = r.startedAt
      /\ f.outcome = r.outcome /\ f.phase = r.phase
      /\ f.lastEvaluatedAt = r.lastEvaluatedAt
  BY <1>1 DEF AddAttempt, Round
<1>3. f \in Round
  <2>1. new \in Attempt
    BY DEF Attempt
  <2>2. r.attempts \in [Side -> Seq(Attempt)]
    BY <1>1 DEF Round
  <2>3. Append(r.attempts[side], new) \in Seq(Attempt)
    BY <2>1, <2>2
  <2>4. f.attempts \in [Side -> Seq(Attempt)]
    BY <1>2, <2>2, <2>3
  <2>5. QED
    BY <1>1, <1>2, <2>4 DEF AddAttempt, Round
<1>4. /\ Active(f, side) = {Len(r.attempts[side]) + 1}
      /\ \A s \in Side \ {side} : Active(f, s) = Active(r, s)
  <2>1. r.attempts \in [Side -> Seq(Attempt)]
    BY <1>1 DEF Round
  <2>2. Active(r, side) = {}
    BY DEF CanStartAttempt
  <2>3. f.attempts[side] = Append(r.attempts[side], new)
    BY <1>2, <2>1
  <2>4. DOMAIN f.attempts[side] = 1..(Len(r.attempts[side]) + 1)
    BY <2>1, <2>3
  <2>5. ASSUME NEW i \in 1..(Len(r.attempts[side]) + 1)
        PROVE  f.attempts[side][i].status = "ACTIVE" <=> i = Len(r.attempts[side]) + 1
    BY <2>1, <2>2, <2>3 DEF Active
  <2>6. Active(f, side) = {Len(r.attempts[side]) + 1}
    BY <2>1, <2>4, <2>5 DEF Active
  <2>7. \A s \in Side \ {side} : f.attempts[s] = r.attempts[s]
    BY <1>2, <2>1
  <2>8. QED
    BY <2>6, <2>7 DEF Active
<1>5. Body(f)
  <2>1. OneRun(f)
    BY <1>1, <1>4 DEF Body, OneRun
  <2>2. HasWindow(f) => Active(f, f.window.trigger) = Active(r, r.window.trigger)
    <3>1. HasWindow(r) => r.window.trigger # side /\ r.window.trigger \in Side
      BY <1>1, DeadlineTypes DEF CanStartAttempt, Target, OtherSide, Side
    <3>2. QED
      BY <1>2, <1>4, <3>1 DEF HasWindow
  <2>3. HolderStands(f)
    BY <1>1, <1>2, <2>2 DEF Body, HolderStands, HasWindow, FinalWindowEnd, NormalEnd
  <2>4. QED
    BY <1>1, <1>2, <1>3, <2>1, <2>3 DEF Body
<1>6. Verdict(f)
  BY <1>1, <1>2 DEF Verdict, CanStartAttempt, Finished, HasWindow, BothReached
<1>7. StartDeadline(f) = StartDeadline(r)
  BY <1>2 DEF StartDeadline, HasWindow, FinalWindowEnd, NormalEnd
<1>8. QED
  BY <1>2, <1>5, <1>6, <1>7 DEF Consistent

LEMMA StartConsistent ==
  ASSUME NEW r, Consistent(r), NEW side \in Side, NEW event, NEW at \in Int
  PROVE  /\ Consistent(StartRoundAttempt(r, side, event, at))
         /\ StartDeadline(StartRoundAttempt(r, side, event, at)) = StartDeadline(r)
<1>1. /\ Consistent(AdvanceRoundClock(r, at))
      /\ StartDeadline(AdvanceRoundClock(r, at)) = StartDeadline(r)
  BY AdvanceConsistent
<1>2. QED
  BY <1>1, AddAttemptConsistent DEF StartRoundAttempt

LEMMA StartFromIntentConsistent ==
  ASSUME NEW r, Consistent(r), NEW side \in Side, NEW event,
         NEW observedAt \in Int, NEW now \in Int
  PROVE  LET f == StartRoundAttemptFromIntent(r, side, event, observedAt, now)
         IN Consistent(f) /\ StartDeadline(f) = StartDeadline(r)
<1> DEFINE added == AddAttempt(r, side, observedAt)
           later == IF now >= r.lastEvaluatedAt THEN now ELSE r.lastEvaluatedAt
<1>1. CASE ~KnownStart(r, side, event) /\ CanStartAttempt(r, side, observedAt)
  <2>1. Consistent(added) /\ StartDeadline(added) = StartDeadline(r)
    BY <1>1, AddAttemptConsistent
  <2>2. later \in Int
    BY DEF Consistent, Body, Round
  <2>3. /\ Consistent(AdvanceRoundClock(added, later))
        /\ StartDeadline(AdvanceRoundClock(added, later)) = StartDeadline(added)
    BY <2>1, <2>2, AdvanceConsistent
  <2>4. QED
    BY <1>1, <2>1, <2>3 DEF StartRoundAttemptFromIntent
<1>2. CASE ~(~KnownStart(r, side, event) /\ CanStartAttempt(r, side, observedAt))
  BY <1>2 DEF StartRoundAttemptFromIntent
<1>3. QED
  BY <1>1, <1>2

(***************************************************************************)
(* Ending an attempt.                                                       *)
(***************************************************************************)

LEMMA ScoreType ==
  ASSUME NEW percent \in 0..100, NEW cleared \in BOOLEAN
  PROVE  ScoreAttempt(percent, cleared) \in Nat
BY DEF ScoreAttempt, ClearScore

(* What the scoring of an End does: it takes the running attempt of its own
   side away, and adds its clear. *)
EndedRun(r, f, side, cleared) ==
  /\ Body(f) /\ Active(f, side) = {}
  /\ HasWindow(f) => side = Target(f)
  /\ \A s \in Side \ {side} : f.clears[s] = r.clears[s]
  /\ cleared => f.clears[side] = r.clears[side] + 1
  /\ ~cleared => f.clears[side] = r.clears[side]
  /\ f.window = r.window /\ f.startedAt = r.startedAt
  /\ f.outcome = r.outcome /\ f.phase = r.phase

LEMMA ScoreEndBody ==
  ASSUME NEW r, Consistent(r), NEW side \in Side, NEW i, CanEndAttempt(r, side, i),
         NEW percent \in 0..100, NEW cleared \in BOOLEAN
  PROVE  EndedRun(r, ScoreEnd(r, side, i, percent, cleared), side, cleared)
<1> DEFINE f == ScoreEnd(r, side, i, percent, cleared)
           award == ScoreAttempt(percent, cleared)
           ended == [r.attempts[side][i] EXCEPT !.status = "ENDED", !.award = award,
                                                !.cleared = cleared]
           count == IF cleared THEN r.clears[side] + 1 ELSE r.clears[side]
<1>1. r \in Round /\ Body(r) /\ Verdict(r) /\ ~Finished(r)
  BY DEF Consistent, Body, CanEndAttempt
<1>2. /\ r.attempts \in [Side -> Seq(Attempt)]
      /\ r.scores \in [Side -> Nat] /\ r.clears \in [Side -> Nat]
  BY <1>1 DEF Round
<1>3. /\ i \in 1..Len(r.attempts[side])
      /\ r.attempts[side][i] \in Attempt
      /\ r.attempts[side][i].status = "ACTIVE"
      /\ Active(r, side) = {i}
  <2>1. i \in Active(r, side)
    BY DEF CanEndAttempt
  <2>2. r.attempts[side] \in Seq(Attempt)
    BY <1>2
  <2>3. i \in 1..Len(r.attempts[side]) /\ r.attempts[side][i].status = "ACTIVE"
    BY <2>1, <2>2, LenProperties DEF Active
  <2>4. r.attempts[side][i] \in Attempt
    BY <2>2, <2>3, ElementOfSeq
  <2>5. Active(r, side) = {i}
    BY <1>1, <2>1 DEF Body, OneRun
  <2>6. QED
    BY <2>3, <2>4, <2>5
<1>4. /\ f.attempts = [r.attempts EXCEPT ![side] = [r.attempts[side] EXCEPT ![i] = ended]]
      /\ f.scores = [r.scores EXCEPT ![side] = r.scores[side] + award]
      /\ f.clears = [r.clears EXCEPT ![side] = count]
      /\ f.window = r.window /\ f.startedAt = r.startedAt
      /\ f.outcome = r.outcome /\ f.phase = r.phase
  BY <1>1 DEF ScoreEnd, Round
<1>5. ended \in Attempt /\ award \in Nat /\ ended.status = "ENDED"
  BY <1>3, ScoreType DEF Attempt
<1>6. f \in Round
  <2>1. [r.attempts[side] EXCEPT ![i] = ended] \in Seq(Attempt)
    BY <1>2, <1>3, <1>5, ExceptSeq
  <2>2. f.attempts \in [Side -> Seq(Attempt)]
    BY <1>2, <1>4, <2>1
  <2>3. count \in Nat
    BY <1>2
  <2>4. f.scores \in [Side -> Nat] /\ f.clears \in [Side -> Nat]
    BY <1>2, <1>4, <1>5, <2>3
  <2>5. QED
    BY <1>1, <2>2, <2>4 DEF ScoreEnd, Round
<1>7. /\ Active(f, side) = {}
      /\ \A s \in Side \ {side} : Active(f, s) = Active(r, s)
  <2> DEFINE q == r.attempts[side]
  <2>1. q \in Seq(Attempt) /\ f.attempts[side] = [q EXCEPT ![i] = ended]
    BY <1>2, <1>4
  <2>2. /\ Len(f.attempts[side]) = Len(q)
        /\ DOMAIN f.attempts[side] = 1..Len(q)
        /\ \A j \in 1..Len(q) : f.attempts[side][j] = IF j = i THEN ended ELSE q[j]
    BY <1>3, <1>5, <2>1, ExceptSeq, LenProperties
  <2>3. ASSUME NEW j \in 1..Len(q) PROVE f.attempts[side][j].status # "ACTIVE"
    <3>1. CASE j = i
      BY <1>5, <2>2, <3>1
    <3>2. CASE j # i
      <4>1. DOMAIN q = 1..Len(q)
        BY <2>1, LenProperties
      <4>2. j \notin Active(r, side)
        BY <1>3, <3>2
      <4>3. q[j].status # "ACTIVE"
        BY <4>1, <4>2 DEF Active
      <4>4. QED
        BY <2>2, <3>2, <4>3
    <3>3. QED
      BY <3>1, <3>2
  <2>4. Active(f, side) = {}
    BY <2>2, <2>3 DEF Active
  <2>5. \A s \in Side \ {side} : f.attempts[s] = r.attempts[s]
    BY <1>2, <1>4
  <2>6. QED
    BY <2>4, <2>5 DEF Active
<1>8. /\ \A s \in Side \ {side} : f.clears[s] = r.clears[s]
      /\ f.clears[side] = count
  BY <1>2, <1>4
<1>9. HasWindow(r) => r.window.trigger # side /\ side = Target(r)
  BY <1>1, <1>3, DeadlineTypes DEF Body, HolderStands, Target, OtherSide, Side
<1>10. r.clears[side] < ClearTarget
  <2>1. ASSUME r.clears[side] = ClearTarget PROVE FALSE
    <3>1. HasWindow(r)
      BY <1>1, <2>1 DEF Verdict
    <3>2. BothReached(r)
      BY <1>1, <1>9, <2>1, <3>1, DeadlineTypes
         DEF Body, HolderStands, BothReached, Target, OtherSide, Side
    <3>3. QED
      BY <1>1, <3>2 DEF Verdict, NoOutcome
  <2>2. QED
    BY <1>1, <1>2, <2>1, RulesAssumption DEF Body
<1>11. Body(f)
  <2>1. OneRun(f)
    BY <1>1, <1>7 DEF Body, OneRun
  <2>2. HolderStands(f)
    <3>1. HasWindow(r) =>
            /\ r.window.trigger \in Side \ {side}
            /\ f.clears[r.window.trigger] = r.clears[r.window.trigger]
            /\ Active(f, r.window.trigger) = Active(r, r.window.trigger)
      BY <1>1, <1>7, <1>8, <1>9, DeadlineTypes
    <3>2. FinalWindowEnd(f) = FinalWindowEnd(r) /\ (HasWindow(f) <=> HasWindow(r))
      BY <1>4 DEF FinalWindowEnd, NormalEnd, HasWindow
    <3>3. HolderStands(r) /\ f.window = r.window
      BY <1>1, <1>4 DEF Body
    <3>4. QED
      BY <3>1, <3>2, <3>3 DEF HolderStands
  <2>3. ASSUME NEW s \in Side PROVE f.clears[s] <= ClearTarget
    <3>1. CASE s = side
      BY <1>2, <1>8, <1>10, <3>1, RulesAssumption
    <3>2. CASE s # side
      BY <1>1, <1>8, <3>2 DEF Body
    <3>3. QED
      BY <3>1, <3>2
  <2>4. QED
    BY <1>6, <2>1, <2>2, <2>3 DEF Body
<1>12. HasWindow(f) => side = Target(f)
  BY <1>4, <1>9 DEF HasWindow, Target
<1>13. QED
  BY <1>4, <1>7, <1>8, <1>11, <1>12 DEF EndedRun

LEMMA EnterWindowConsistent ==
  ASSUME NEW f, Body(f), ~Finished(f), f.outcome = NoOutcome,
         NEW side \in Side, Active(f, side) = {}, ReachesTarget(f, side),
         NEW at \in Int
  PROVE  LET e == EnterLastAttemptWindow(f, side, at) IN
         /\ Consistent(e)
         /\ StartDeadline(e) <= StartDeadline(f)
<1> DEFINE e == EnterLastAttemptWindow(f, side, at)
<1>1. f \in Round /\ FinalWindowEnd(f) \in Int /\ NormalEnd(f) \in Int
  BY DeadlineTypes DEF Body
<1>2. PICK endsAt \in Int :
        /\ endsAt <= FinalWindowEnd(f)
        /\ e = [f EXCEPT !.phase = "LAST_ATTEMPT_WINDOW",
                         !.window = [trigger |-> side, endsAt |-> endsAt]]
  <2> DEFINE answered == at + LastAttemptWindowSeconds
             capped == IF answered <= FinalWindowEnd(f) THEN answered
                                                        ELSE FinalWindowEnd(f)
             ends == IF at >= NormalEnd(f) THEN capped ELSE answered
  <2>1. FinalWindowEnd(f) = NormalEnd(f) + FinalAttemptWindowSeconds
    BY DEF FinalWindowEnd
  <2>2. ends \in Int /\ ends <= FinalWindowEnd(f)
    BY <1>1, <2>1, RulesAssumption
  <2>3. QED
    BY <2>2 DEF EnterLastAttemptWindow
<1>3. /\ e.attempts = f.attempts /\ e.scores = f.scores /\ e.clears = f.clears
      /\ e.startedAt = f.startedAt /\ e.outcome = f.outcome
      /\ e.phase = "LAST_ATTEMPT_WINDOW"
      /\ e.window = [trigger |-> side, endsAt |-> endsAt]
  BY <1>1, <1>2 DEF Round
<1>4. e \in Round
  <2>1. [trigger |-> side, endsAt |-> endsAt] \in Window
    BY DEF Window
  <2>2. QED
    BY <1>1, <1>2, <2>1 DEF Round, RoundPhase
<1>5. HasWindow(e) /\ e.window.trigger = side /\ e.window.endsAt = endsAt
  BY <1>3 DEF HasWindow, Side
<1>6. Body(e)
  <2>1. FinalWindowEnd(e) = FinalWindowEnd(f)
    BY <1>3 DEF FinalWindowEnd, NormalEnd
  <2>2. HolderStands(e)
    BY <1>2, <1>3, <1>5, <2>1 DEF HolderStands, ReachesTarget, Active
  <2>3. QED
    BY <1>3, <1>4, <2>2 DEF Body, OneRun, Active
<1>7. ~Finished(e) /\ e.outcome = NoOutcome
  BY <1>3 DEF Finished
<1>8. ~BothReached(e)
  <2>1. OtherSide(side) \in Side /\ e.clears[OtherSide(side)] \in Nat
    BY <1>4 DEF OtherSide, Side, Round
  <2>2. QED
    BY <1>3, <2>1, RulesAssumption DEF BothReached, ReachesTarget
<1>9. Verdict(e)
  BY <1>5, <1>7, <1>8 DEF Verdict, NoOutcome
<1>10. StartDeadline(e) <= StartDeadline(f)
  BY <1>2, <1>5 DEF StartDeadline, ReachesTarget
<1>11. QED
  BY <1>6, <1>9, <1>10 DEF Consistent

LEMMA EndConsistent ==
  ASSUME NEW r, Consistent(r), NEW side \in Side, NEW i, NEW at \in Int,
         NEW percent \in 0..100, NEW cleared \in BOOLEAN
  PROVE  LET f == EndRoundAttempt(r, side, i, at, percent, cleared) IN
         Consistent(f) /\ StartDeadline(f) <= StartDeadline(r)
<1> DEFINE a == AdvanceRoundClock(r, at)
           f == ScoreEnd(a, side, i, percent, cleared)
           new == EndRoundAttempt(r, side, i, at, percent, cleared)
<1>1. /\ Consistent(a) /\ Body(a) /\ Verdict(a)
      /\ StartDeadline(a) = StartDeadline(r) /\ StartDeadline(a) \in Int
  BY AdvanceConsistent, DeadlineTypes DEF Consistent, Body
<1>2. CASE ~CanEndAttempt(a, side, i)
  BY <1>1, <1>2 DEF EndRoundAttempt
<1>3. CASE CanEndAttempt(a, side, i)
  <2>1. /\ Body(f) /\ Active(f, side) = {}
        /\ HasWindow(f) => side = Target(f)
        /\ \A s \in Side \ {side} : f.clears[s] = a.clears[s]
        /\ cleared => f.clears[side] = a.clears[side] + 1
        /\ ~cleared => f.clears[side] = a.clears[side]
        /\ f.window = a.window /\ f.startedAt = a.startedAt
        /\ f.outcome = a.outcome /\ f.phase = a.phase
    <3>1. EndedRun(a, f, side, cleared)
      BY <1>1, <1>3, ScoreEndBody
    <3>2. QED
      BY <3>1 DEF EndedRun
  <2>2. /\ f \in Round /\ ~Finished(f) /\ f.outcome = NoOutcome
        /\ StartDeadline(f) = StartDeadline(r) /\ (HasWindow(f) <=> HasWindow(a))
    <3>1. f \in Round /\ ~Finished(a)
      BY <1>3, <2>1 DEF Body, CanEndAttempt
    <3>2. a.outcome = NoOutcome
      BY <1>1, <3>1 DEF Verdict
    <3>3. ~Finished(f) /\ f.outcome = NoOutcome
      BY <2>1, <3>1, <3>2 DEF Finished
    <3>4. StartDeadline(f) = StartDeadline(a) /\ (HasWindow(f) <=> HasWindow(a))
      BY <2>1 DEF StartDeadline, HasWindow, FinalWindowEnd, NormalEnd
    <3>5. QED
      BY <1>1, <3>1, <3>3, <3>4
  <2>3. /\ f.clears \in [Side -> Nat] /\ OtherSide(side) \in Side \ {side}
        /\ \A s \in Side : s = side \/ s = OtherSide(side)
    BY <2>2 DEF Round, OtherSide, Side
  <2>4. CASE cleared /\ AnswersWindow(f, side)
    <3>1. /\ HasWindow(f) /\ side = Target(f) /\ f.window.trigger \in Side
          /\ f.window.trigger = OtherSide(side)
      BY <2>2, <2>4, DeadlineTypes DEF AnswersWindow, Target, OtherSide, Side
    <3>2. NoRun(f)
      BY <2>1, <2>3, <3>1 DEF NoRun, Body, HolderStands
    <3>3. BothReached(f)
      <4>1. f.clears[f.window.trigger] = ClearTarget
        BY <2>1, <3>1 DEF Body, HolderStands
      <4>2. f.clears[side] >= ClearTarget /\ f.clears[side] <= ClearTarget
        BY <2>1, <2>4, <4>1 DEF AnswersWindow, Body
      <4>3. QED
        BY <2>3, <3>1, <4>1, <4>2, RulesAssumption DEF BothReached
    <3>4. Justified(f, "DRAW", "LAST_ATTEMPT_CLEAR")
      BY <3>3 DEF Justified
    <3>5. new = FinishRound(f, "DRAW", "LAST_ATTEMPT_CLEAR", FALSE, at)
      BY <1>3, <2>4 DEF EndRoundAttempt
    <3>6. Consistent(new) /\ StartDeadline(new) = StartDeadline(f)
      <4>1. \A s \in Side : f.clears[s] = ClearTarget => HasWindow(f)
        BY <3>1
      <4>2. /\ "DRAW" \in Side \cup {"DRAW"} /\ "LAST_ATTEMPT_CLEAR" \in RoundReason
            /\ "LAST_ATTEMPT_CLEAR" # "SCORE"
        BY DEF RoundReason
      <4>3. Body(f)
        BY <2>1
      <4> HIDE DEF f, new
      <4>4. QED
        BY <3>2, <3>3, <3>4, <3>5, <4>1, <4>2, <4>3, FinishConsistent
    <3>7. QED
      BY <1>1, <2>2, <3>6
  <2>5. CASE cleared /\ ~AnswersWindow(f, side) /\ ReachesTarget(f, side)
    <3> DEFINE e == EnterLastAttemptWindow(f, side, at)
    <3>1. Consistent(e) /\ StartDeadline(e) <= StartDeadline(f)
      BY <2>1, <2>2, <2>5, EnterWindowConsistent
    <3>2. new = AdvanceRoundClock(e, at)
      BY <1>3, <2>5 DEF EndRoundAttempt
    <3>3. QED
      BY <1>1, <2>2, <3>1, <3>2, AdvanceConsistent
  <2>6. CASE ~(cleared /\ AnswersWindow(f, side)) /\ ~(cleared /\ ReachesTarget(f, side))
    <3>1. ASSUME f.clears[side] = ClearTarget PROVE FALSE
      <4>1. CASE ~cleared
        <5>1. a.clears[side] = ClearTarget
          BY <2>1, <3>1, <4>1
        <5>2. HasWindow(a) /\ HasWindow(f)
          BY <1>1, <2>2, <5>1 DEF Verdict
        <5>3. a.clears[OtherSide(side)] = ClearTarget
          <6>1. side = Target(f) /\ f.window.trigger \in Side
            BY <2>1, <2>2, <5>2, DeadlineTypes
          <6>2. f.window.trigger = OtherSide(side)
            BY <6>1 DEF Target, OtherSide, Side
          <6>3. a.clears[a.window.trigger] = ClearTarget
            BY <1>1, <5>2 DEF Body, HolderStands
          <6>4. QED
            BY <2>1, <6>2, <6>3
        <5>4. BothReached(a)
          BY <2>3, <5>1, <5>3 DEF BothReached
        <5>5. QED
          BY <1>1, <2>1, <2>2, <5>4 DEF Verdict, NoOutcome
      <4>2. CASE cleared /\ HasWindow(f)
        <5>1. f.clears[f.window.trigger] = ClearTarget
          BY <2>1, <4>2 DEF Body, HolderStands
        <5>2. f.clears[side] >= f.clears[f.window.trigger]
          BY <3>1, <5>1, RulesAssumption
        <5>3. AnswersWindow(f, side)
          BY <2>1, <4>2, <5>2 DEF AnswersWindow
        <5>4. QED
          BY <2>6, <4>2, <5>3
      <4>3. CASE cleared /\ ~HasWindow(f)
        <5>1. a.clears[OtherSide(side)] # ClearTarget
          BY <1>1, <2>2, <2>3, <4>3 DEF Verdict
        <5>2. f.clears[OtherSide(side)] # ClearTarget
          BY <2>1, <2>3, <5>1
        <5>3. f.clears[OtherSide(side)] <= ClearTarget
          BY <2>1, <2>3 DEF Body
        <5>4. f.clears[OtherSide(side)] < ClearTarget
          BY <2>3, <5>2, <5>3, RulesAssumption
        <5>5. QED
          BY <2>6, <3>1, <4>3, <5>4 DEF ReachesTarget
      <4>4. QED
        BY <4>1, <4>2, <4>3
    <3>2. \A s \in Side : f.clears[s] = ClearTarget => HasWindow(f)
      BY <1>1, <2>1, <2>2, <2>3, <3>1 DEF Verdict
    <3>3. ~BothReached(f)
      BY <3>1 DEF BothReached
    <3>4. Consistent(f)
      BY <2>1, <2>2, <3>2, <3>3 DEF Consistent, Verdict, NoOutcome
    <3>5. new = AdvanceRoundClock(f, at)
      BY <1>3, <2>6 DEF EndRoundAttempt
    <3>6. QED
      BY <1>1, <2>2, <3>4, <3>5, AdvanceConsistent
  <2>7. QED
    BY <2>4, <2>5, <2>6
<1>4. QED
  BY <1>2, <1>3

(***************************************************************************)
(* Cutting a round or an attempt short.                                     *)
(***************************************************************************)

LEMMA SurrenderConsistent ==
  ASSUME NEW r, Consistent(r), NEW side \in Side, NEW at \in Int
  PROVE  /\ Consistent(SurrenderRound(r, side, at))
         /\ StartDeadline(SurrenderRound(r, side, at)) = StartDeadline(r)
<1> DEFINE stopped == StopRuns(r)
<1>1. CASE r.outcome # NoOutcome
  BY <1>1 DEF SurrenderRound
<1>2. CASE r.outcome = NoOutcome
  <2>1. r \in Round /\ Body(r) /\ Verdict(r)
    BY DEF Consistent, Body
  <2>2. /\ Body(stopped) /\ NoRun(stopped)
        /\ stopped.scores = r.scores /\ stopped.clears = r.clears
        /\ stopped.window = r.window /\ stopped.startedAt = r.startedAt
    BY <2>1, StopRunsBody
  <2>3. /\ \A s \in Side : stopped.clears[s] = ClearTarget => HasWindow(stopped)
        /\ ~BothReached(stopped)
    BY <1>2, <2>1, <2>2 DEF Verdict, HasWindow, BothReached, NoOutcome
  <2>4. Justified(stopped, OtherSide(side), "SURRENDER")
    BY DEF Justified
  <2>5. OtherSide(side) \in Side \cup {"DRAW"} /\ "SURRENDER" \in RoundReason
    BY DEF OtherSide, Side, RoundReason
  <2>6. StartDeadline(stopped) = StartDeadline(r)
    BY <2>2 DEF StartDeadline, HasWindow, FinalWindowEnd, NormalEnd
  <2>7. SurrenderRound(r, side, at)
          = FinishRound(stopped, OtherSide(side), "SURRENDER", FALSE, at)
    BY <1>2 DEF SurrenderRound
  <2> HIDE DEF stopped
  <2> DEFINE winner == OtherSide(side)
  <2> HIDE DEF winner
  <2>8. LET f == FinishRound(stopped, winner, "SURRENDER", FALSE, at)
        IN Consistent(f) /\ StartDeadline(f) = StartDeadline(stopped)
    BY <2>2, <2>3, <2>4, <2>5, FinishConsistent DEF winner
  <2>9. QED
    BY <2>6, <2>7, <2>8 DEF winner
<1>3. QED
  BY <1>1, <1>2

LEMMA DebugEndConsistent ==
  ASSUME NEW r, Consistent(r), NEW at \in Int
  PROVE  /\ Consistent(DebugEndRoundByScore(r, at))
         /\ StartDeadline(DebugEndRoundByScore(r, at)) = StartDeadline(r)
<1> DEFINE stopped == StopRuns(r)
<1>1. CASE r.outcome # NoOutcome
  BY <1>1 DEF DebugEndRoundByScore
<1>2. CASE r.outcome = NoOutcome
  <2>1. r \in Round /\ Body(r) /\ Verdict(r)
    BY DEF Consistent, Body
  <2>2. /\ Body(stopped) /\ NoRun(stopped) /\ stopped \in Round
        /\ stopped.scores = r.scores /\ stopped.clears = r.clears
        /\ stopped.window = r.window /\ stopped.startedAt = r.startedAt
    BY <2>1, StopRunsBody, StopRunsType
  <2>3. /\ \A s \in Side : stopped.clears[s] = ClearTarget => HasWindow(stopped)
        /\ ~BothReached(stopped)
    BY <1>2, <2>1, <2>2 DEF Verdict, HasWindow, BothReached, NoOutcome
  <2>4. Justified(stopped, RoundLeader(stopped), "SCORE")
    BY DEF Justified
  <2>5. RoundLeader(stopped) \in Side \cup {"DRAW"} /\ "SCORE" \in RoundReason
    BY <2>2, LeaderType DEF RoundReason
  <2>6. StartDeadline(stopped) = StartDeadline(r)
    BY <2>2 DEF StartDeadline, HasWindow, FinalWindowEnd, NormalEnd
  <2>7. DebugEndRoundByScore(r, at)
          = FinishRound(stopped, RoundLeader(stopped), "SCORE", FALSE, at)
    BY <1>2 DEF DebugEndRoundByScore, FinishByScore
  <2> HIDE DEF stopped
  <2>8. LET f == FinishRound(stopped, RoundLeader(stopped), "SCORE", FALSE, at)
        IN Consistent(f) /\ StartDeadline(f) = StartDeadline(stopped)
    BY <2>2, <2>3, <2>4, <2>5, FinishConsistent
  <2>9. QED
    BY <2>6, <2>7, <2>8
<1>3. QED
  BY <1>1, <1>2

LEMMA InvalidateConsistent ==
  ASSUME NEW r, Consistent(r), NEW side \in Side, NEW at \in Int,
         NEW i \in Active(AdvanceRoundClock(r, at), side)
  PROVE  /\ Consistent(InvalidateRoundAttempt(r, side, i, at))
         /\ StartDeadline(InvalidateRoundAttempt(r, side, i, at)) = StartDeadline(r)
<1> DEFINE a == AdvanceRoundClock(r, at)
           q == a.attempts[side]
           cut == [q[i] EXCEPT !.status = "INVALID"]
           f == [a EXCEPT !.attempts[side][i].status = "INVALID"]
<1>1. /\ Consistent(a) /\ Body(a) /\ Verdict(a) /\ a \in Round
      /\ StartDeadline(a) = StartDeadline(r)
  BY AdvanceConsistent DEF Consistent, Body
<1>2. a.attempts \in [Side -> Seq(Attempt)] /\ q \in Seq(Attempt)
  BY <1>1 DEF Round
<1>3. i \in 1..Len(q) /\ q[i] \in Attempt /\ cut \in Attempt /\ cut.status = "INVALID"
  <2>1. i \in 1..Len(q)
    BY <1>2, LenProperties DEF Active
  <2>2. q[i] \in Attempt
    BY <1>2, <2>1, ElementOfSeq
  <2>3. QED
    BY <2>1, <2>2 DEF Attempt
<1>4. f = [a EXCEPT !.attempts = [a.attempts EXCEPT ![side] = [q EXCEPT ![i] = cut]]]
  BY <1>1 DEF Round
<1>5. /\ f.attempts = [a.attempts EXCEPT ![side] = [q EXCEPT ![i] = cut]]
      /\ f.scores = a.scores /\ f.clears = a.clears
      /\ f.window = a.window /\ f.startedAt = a.startedAt
      /\ f.outcome = a.outcome /\ f.phase = a.phase
  BY <1>1, <1>4 DEF Round
<1>6. /\ [q EXCEPT ![i] = cut] \in Seq(Attempt)
      /\ DOMAIN [q EXCEPT ![i] = cut] = DOMAIN q
      /\ \A j \in DOMAIN q : [q EXCEPT ![i] = cut][j] = IF j = i THEN cut ELSE q[j]
  BY <1>2, <1>3, ExceptSeq
<1>7. f \in Round
  <2>1. f.attempts \in [Side -> Seq(Attempt)]
    BY <1>2, <1>5, <1>6
  <2>2. QED
    BY <1>1, <1>4, <1>5, <2>1 DEF Round
<1>8. \A s \in Side : Active(f, s) \subseteq Active(a, s)
  <2>1. Active(f, side) \subseteq Active(a, side)
    BY <1>2, <1>3, <1>5, <1>6 DEF Active
  <2>2. \A s \in Side \ {side} : Active(f, s) = Active(a, s)
    BY <1>2, <1>5 DEF Active
  <2>3. QED
    BY <2>1, <2>2
<1>9. ~Finished(a)
  BY <1>1 DEF Verdict, NoRun
<1>10. Consistent(f)
  <2>1. OneRun(f)
    BY <1>1, <1>8 DEF Body, OneRun
  <2>2. HolderStands(f)
    BY <1>1, <1>5, <1>8, DeadlineTypes
       DEF Body, HolderStands, HasWindow, FinalWindowEnd, NormalEnd
  <2>3. Body(f)
    BY <1>1, <1>5, <1>7, <2>1, <2>2 DEF Body
  <2>4. Verdict(f)
    BY <1>1, <1>5, <1>9 DEF Verdict, Finished, HasWindow, BothReached
  <2>5. QED
    BY <2>3, <2>4 DEF Consistent
<1>11. StartDeadline(f) = StartDeadline(a)
  BY <1>5 DEF StartDeadline, HasWindow, FinalWindowEnd, NormalEnd
<1>12. QED
  BY <1>1, <1>10, <1>11, AdvanceConsistent DEF InvalidateRoundAttempt

LEMMA CreateConsistent ==
  ASSUME NEW t \in Int
  PROVE  Consistent(CreateRound(t))
<1> DEFINE r == CreateRound(t)
<1>1. r \in Round
  BY CreateRoundType
<1>2. ~HasWindow(r) /\ ~Finished(r) /\ r.outcome = NoOutcome
  BY DEF CreateRound, HasWindow, NoWindow, Finished
<1>3. \A s \in Side : Active(r, s) = {} /\ r.clears[s] = 0
  BY DEF CreateRound, Active
<1>4. Body(r)
  BY <1>1, <1>2, <1>3, RulesAssumption DEF Body, OneRun, HolderStands
<1>5. Verdict(r)
  BY <1>2, <1>3, RulesAssumption DEF Verdict, NoOutcome, BothReached, Side
<1>6. QED
  BY <1>4, <1>5 DEF Consistent
(***************************************************************************)
(* What an operation does to the attempts.                                  *)
(***************************************************************************)

(* An attempt is left as it is, or it was running and is cut short. *)
Cut(a, b) == b = a \/ (a.status = "ACTIVE" /\ b = [a EXCEPT !.status = "INVALID"])

(* No attempt is started or scored. *)
SameRuns(r, f) ==
  /\ f.scores = r.scores /\ f.clears = r.clears
  /\ \A s \in Side :
       /\ Len(f.attempts[s]) = Len(r.attempts[s])
       /\ \A i \in 1..Len(r.attempts[s]) : Cut(r.attempts[s][i], f.attempts[s][i])

(* One attempt of side is started; it has no award. *)
OneMoreRun(r, f, side, startedAt) ==
  /\ f.scores = r.scores /\ f.clears = r.clears
  /\ \A s \in Side :
       /\ Len(f.attempts[s]) = Len(r.attempts[s]) + (IF s = side THEN 1 ELSE 0)
       /\ \A i \in 1..Len(r.attempts[s]) : Cut(r.attempts[s][i], f.attempts[s][i])
  /\ LET new == f.attempts[side][Len(r.attempts[side]) + 1]
     IN new.startedAt = startedAt /\ new.status # "ENDED"
  /\ startedAt < StartDeadline(r)
  /\ HasWindow(r) => side = Target(r)

(* Attempt i of side, which was running, is scored. *)
RunScored(r, f, side, i, award, cleared) ==
  /\ i \in 1..Len(r.attempts[side])
  /\ r.attempts[side][i].status = "ACTIVE"
  /\ f.attempts[side][i] = [r.attempts[side][i] EXCEPT !.status = "ENDED", !.award = award,
                                                       !.cleared = cleared]
  /\ \A s \in Side :
       /\ Len(f.attempts[s]) = Len(r.attempts[s])
       /\ \A j \in 1..Len(r.attempts[s]) :
            s # side \/ j # i => Cut(r.attempts[s][j], f.attempts[s][j])
  /\ f.scores = [r.scores EXCEPT ![side] = @ + award]
  /\ f.clears = [r.clears EXCEPT ![side] = @ + (IF cleared THEN 1 ELSE 0)]

LEMMA CutTwice ==
  ASSUME NEW a \in Attempt, NEW b, NEW c, Cut(a, b), Cut(b, c)
  PROVE  Cut(a, c)
<1>1. a.status # "INVALID" /\ b = [a EXCEPT !.status = "INVALID"] => b.status = "INVALID"
  BY DEF Attempt
<1>2. QED
  BY <1>1 DEF Cut, Attempt

LEMMA AttemptFacts ==
  ASSUME NEW r \in Round, NEW s \in Side
  PROVE  /\ r.attempts \in [Side -> Seq(Attempt)]
         /\ Len(r.attempts[s]) \in Nat /\ DOMAIN r.attempts[s] = 1..Len(r.attempts[s])
         /\ \A i \in 1..Len(r.attempts[s]) : r.attempts[s][i] \in Attempt
<1>1. r.attempts \in [Side -> Seq(Attempt)]
  BY DEF Round
<1>2. r.attempts[s] \in Seq(Attempt)
  BY <1>1
<1>3. QED
  BY <1>1, <1>2, LenProperties, ElementOfSeq

LEMMA SameRunsItself == ASSUME NEW r PROVE SameRuns(r, r)
  BY DEF SameRuns, Cut

LEMMA SameRunsTwice ==
  ASSUME NEW r \in Round, NEW f, NEW g, SameRuns(r, f), SameRuns(f, g)
  PROVE  SameRuns(r, g)
<1>1. ASSUME NEW s \in Side, NEW i \in 1..Len(r.attempts[s])
      PROVE  Cut(r.attempts[s][i], g.attempts[s][i])
  <2>1. r.attempts[s][i] \in Attempt
    BY AttemptFacts
  <2>2. QED
    BY <2>1, CutTwice DEF SameRuns
<1>2. QED
  BY <1>1 DEF SameRuns

(* Ending a round moves no attempt. *)
LEMMA SameLedger ==
  ASSUME NEW r, NEW f,
         f.attempts = r.attempts, f.scores = r.scores, f.clears = r.clears
  PROVE  SameRuns(r, f)
  BY DEF SameRuns, Cut

LEMMA StopRunsRuns ==
  ASSUME NEW r \in Round
  PROVE  /\ SameRuns(r, StopRuns(r)) /\ StopRuns(r) \in Round
         /\ StopRuns(r).window = r.window /\ StopRuns(r).startedAt = r.startedAt
<1> DEFINE f == StopRuns(r)
<1>1. /\ f.attempts = [s \in Side |-> Stopped(r.attempts[s])]
      /\ f.scores = r.scores /\ f.clears = r.clears
      /\ f.window = r.window /\ f.startedAt = r.startedAt
  BY DEF StopRuns, Round
<1>2. f \in Round
  BY StopRunsType
<1> HIDE DEF f
<1>3. ASSUME NEW s \in Side
      PROVE  /\ Len(f.attempts[s]) = Len(r.attempts[s])
             /\ \A i \in 1..Len(r.attempts[s]) : Cut(r.attempts[s][i], f.attempts[s][i])
  <2>1. f.attempts[s] = Stopped(r.attempts[s])
    BY <1>1
  <2>2. DOMAIN f.attempts[s] = 1..Len(r.attempts[s])
    BY <2>1, AttemptFacts DEF Stopped
  <2>3. Len(f.attempts[s]) = Len(r.attempts[s])
    <3>1. DOMAIN f.attempts[s] = 1..Len(f.attempts[s]) /\ Len(f.attempts[s]) \in Nat
      BY <1>2, AttemptFacts
    <3>2. QED
      BY <2>2, <3>1, AttemptFacts
  <2>4. \A i \in 1..Len(r.attempts[s]) : Cut(r.attempts[s][i], f.attempts[s][i])
    BY <2>1, AttemptFacts DEF Stopped, Cut
  <2>5. QED
    BY <2>3, <2>4
<1>4. QED
  BY <1>1, <1>2, <1>3 DEF SameRuns, f

LEMMA AdvanceRuns ==
  ASSUME NEW r \in Round, NEW at \in Int
  PROVE  LET f == AdvanceRoundClock(r, at) IN
         /\ SameRuns(r, f) /\ f \in Round
         /\ f.window = r.window /\ f.startedAt = r.startedAt
<1> DEFINE f == AdvanceRoundClock(r, at)
<1>1. f \in Round
  BY AdvanceType
<1>2. CASE Finished(r)
  BY <1>2, SameRunsItself DEF AdvanceRoundClock
<1>3. CASE ~Finished(r) /\ Decided(r, at)
  <2>1. f = FinishDecisiveRound(r, CHOOSE s \in Side : DecisiveFor(r, s, at), at)
    BY <1>3 DEF AdvanceRoundClock
  <2> DEFINE winner == CHOOSE s \in Side : DecisiveFor(r, s, at)
             reason == IF HasWindow(r) THEN "CLEAR_TARGET_LAST_ATTEMPT" ELSE "SCORE"
  <2>4. f = FinishRound(StopRuns(r), winner, reason, TRUE, at)
    BY <2>1 DEF FinishDecisiveRound
  <2> HIDE DEF f, winner, reason
  <2>5. /\ f.attempts = StopRuns(r).attempts /\ f.scores = StopRuns(r).scores
        /\ f.clears = StopRuns(r).clears /\ f.window = StopRuns(r).window
        /\ f.startedAt = StopRuns(r).startedAt
    BY <2>4, StopRunsRuns DEF FinishRound, Round
  <2>2. SameRuns(StopRuns(r), f) /\ f.window = StopRuns(r).window
        /\ f.startedAt = StopRuns(r).startedAt
    BY <2>5, SameLedger
  <2>3. QED
    BY <1>1, <2>2, StopRunsRuns, SameRunsTwice DEF f
<1>4. CASE ~Finished(r) /\ ~Decided(r, at) /\ (at < StartDeadline(r) \/ Awaited(r) # {})
  <2>1. PICK phase \in RoundPhase : f = [r EXCEPT !.phase = phase, !.lastEvaluatedAt = at]
    BY <1>4 DEF AdvanceRoundClock, OpenPhase, RoundPhase
  <2>2. /\ f.attempts = r.attempts /\ f.scores = r.scores /\ f.clears = r.clears
        /\ f.window = r.window /\ f.startedAt = r.startedAt
    BY <2>1 DEF Round
  <2>3. QED
    BY <1>1, <2>2 DEF SameRuns, Cut
<1>5. CASE ~Finished(r) /\ ~Decided(r, at) /\ ~(at < StartDeadline(r) \/ Awaited(r) # {})
  <2>1. f = Expire(r, at)
    BY <1>5 DEF AdvanceRoundClock
  <2>2. /\ f.attempts = r.attempts /\ f.scores = r.scores /\ f.clears = r.clears
        /\ f.window = r.window /\ f.startedAt = r.startedAt
    BY <2>1 DEF Expire, FinishByScore, FinishRound, Round
  <2>3. QED
    BY <1>1, <2>2, SameLedger
<1>6. QED
  BY <1>2, <1>3, <1>4, <1>5

LEMMA AddedRun ==
  ASSUME NEW r \in Round, NEW side \in Side, NEW startedAt \in Int,
         startedAt < StartDeadline(r), HasWindow(r) => side = Target(r)
  PROVE  LET f == AddAttempt(r, side, startedAt) IN
         f \in Round /\ OneMoreRun(r, f, side, startedAt)
<1> DEFINE new == [startedAt |-> startedAt, status |-> "ACTIVE", award |-> 0,
                   cleared |-> FALSE]
           q == Append(r.attempts[side], new)
           f == AddAttempt(r, side, startedAt)
<1>1. new \in Attempt /\ new.startedAt = startedAt /\ new.status = "ACTIVE"
  BY DEF Attempt
<1> HIDE DEF new
<1>2. /\ r.attempts \in [Side -> Seq(Attempt)] /\ Len(r.attempts[side]) \in Nat
  BY AttemptFacts
<1>3. /\ q \in Seq(Attempt) /\ Len(q) = Len(r.attempts[side]) + 1
      /\ q[Len(r.attempts[side]) + 1] = new
      /\ \A i \in 1..Len(r.attempts[side]) : q[i] = r.attempts[side][i]
  BY <1>1, <1>2
<1> DEFINE as == [r.attempts EXCEPT ![side] = q]
<1>4. f = [r EXCEPT !.attempts = as]
  BY DEF AddAttempt, new, Round
<1> HIDE DEF q
<1>5. as \in [Side -> Seq(Attempt)] /\ \A s \in Side : as[s] = IF s = side THEN q ELSE r.attempts[s]
  BY <1>2, <1>3
<1> HIDE DEF as, f
<1>6. /\ f \in Round /\ f.attempts = as /\ f.scores = r.scores /\ f.clears = r.clears
  BY <1>4, <1>5 DEF Round
<1>7. ASSUME NEW s \in Side
      PROVE  /\ Len(f.attempts[s]) = Len(r.attempts[s]) + (IF s = side THEN 1 ELSE 0)
             /\ \A i \in 1..Len(r.attempts[s]) : Cut(r.attempts[s][i], f.attempts[s][i])
  <2>1. Len(r.attempts[s]) \in Nat
    BY AttemptFacts
  <2>2. CASE s = side
    BY <1>3, <1>5, <1>6, <2>2 DEF Cut
  <2>3. CASE s # side
    <3>1. f.attempts[s] = r.attempts[s] /\ (IF s = side THEN 1 ELSE 0) = 0
      BY <1>5, <1>6, <2>3
    <3>2. QED
      BY <2>1, <2>3, <3>1 DEF Cut
  <2>4. QED
    BY <2>2, <2>3
<1>8. f.attempts[side][Len(r.attempts[side]) + 1] = new
  BY <1>3, <1>5, <1>6
<1>9. QED
  BY <1>1, <1>6, <1>7, <1>8 DEF OneMoreRun, f

LEMMA OneMoreThenSame ==
  ASSUME NEW r \in Round, NEW side \in Side, NEW startedAt, NEW f \in Round, NEW g \in Round,
         OneMoreRun(r, f, side, startedAt), SameRuns(f, g)
  PROVE  OneMoreRun(r, g, side, startedAt)
<1> DEFINE n == Len(r.attempts[side]) + 1
<1>1. ASSUME NEW s \in Side, NEW i \in 1..Len(r.attempts[s])
      PROVE  Cut(r.attempts[s][i], g.attempts[s][i])
  <2>1. r.attempts[s][i] \in Attempt /\ i \in 1..Len(f.attempts[s])
    <3>1. r.attempts[s][i] \in Attempt /\ Len(r.attempts[s]) \in Nat
      BY AttemptFacts
    <3>2. \/ Len(f.attempts[s]) = Len(r.attempts[s]) + 1
          \/ Len(f.attempts[s]) = Len(r.attempts[s]) + 0
      BY DEF OneMoreRun
    <3>3. QED
      BY <3>1, <3>2
  <2>2. QED
    BY <2>1, CutTwice DEF SameRuns, OneMoreRun
<1>2. /\ f.attempts[side][n] \in Attempt /\ Cut(f.attempts[side][n], g.attempts[side][n])
  <2>1. n = Len(f.attempts[side]) /\ n \in 1..Len(f.attempts[side])
    <3>1. Len(r.attempts[side]) \in Nat
      BY AttemptFacts
    <3>2. Len(f.attempts[side]) = Len(r.attempts[side]) + 1
      BY DEF OneMoreRun
    <3>3. QED
      BY <3>1, <3>2
  <2>2. QED
    BY <2>1, AttemptFacts DEF SameRuns
<1>3. /\ f.attempts[side][n].startedAt = startedAt /\ f.attempts[side][n].status # "ENDED"
  BY DEF OneMoreRun
<1>4. /\ g.attempts[side][n].startedAt = startedAt /\ g.attempts[side][n].status # "ENDED"
  <2>1. PICK a \in Attempt : a = f.attempts[side][n]
    BY <1>2
  <2> HIDE DEF n
  <2>2. QED
    BY <1>2, <1>3, <2>1 DEF Cut, Attempt
<1>5. QED
  BY <1>1, <1>4 DEF OneMoreRun, SameRuns

LEMMA SameThenOneMore ==
  ASSUME NEW r \in Round, NEW side \in Side, NEW startedAt, NEW f \in Round, NEW g \in Round,
         SameRuns(r, f), OneMoreRun(f, g, side, startedAt),
         StartDeadline(f) = StartDeadline(r), f.window = r.window
  PROVE  OneMoreRun(r, g, side, startedAt)
<1>1. ASSUME NEW s \in Side, NEW i \in 1..Len(r.attempts[s])
      PROVE  Cut(r.attempts[s][i], g.attempts[s][i])
  <2>1. r.attempts[s][i] \in Attempt
    BY AttemptFacts
  <2>2. QED
    BY <2>1, CutTwice DEF SameRuns, OneMoreRun
<1>2. \A s \in Side : Len(f.attempts[s]) = Len(r.attempts[s])
  BY DEF SameRuns
<1>3. /\ g.scores = r.scores /\ g.clears = r.clears
      /\ startedAt < StartDeadline(r) /\ (HasWindow(r) => side = Target(r))
  BY DEF SameRuns, OneMoreRun, HasWindow, Target
<1>4. \A s \in Side : Len(g.attempts[s]) = Len(r.attempts[s]) + (IF s = side THEN 1 ELSE 0)
  BY <1>2 DEF OneMoreRun
<1>5. LET new == g.attempts[side][Len(r.attempts[side]) + 1]
      IN new.startedAt = startedAt /\ new.status # "ENDED"
  BY <1>2 DEF OneMoreRun
<1>6. QED
  BY <1>1, <1>3, <1>4, <1>5 DEF OneMoreRun

(* A Start adds its run, in time, or none. *)
LEMMA StartRuns ==
  ASSUME NEW r \in Round, NEW side \in Side, NEW event, NEW at \in Int
  PROVE  LET f == StartRoundAttempt(r, side, event, at) IN
         SameRuns(r, f) \/ OneMoreRun(r, f, side, at)
<1> DEFINE a == AdvanceRoundClock(r, at)
           f == StartRoundAttempt(r, side, event, at)
<1>1. a \in Round /\ SameRuns(r, a) /\ a.window = r.window /\ a.startedAt = r.startedAt
  BY AdvanceRuns
<1>2. StartDeadline(a) = StartDeadline(r)
  BY <1>1 DEF StartDeadline, HasWindow, FinalWindowEnd, NormalEnd
<1>3. f \in {r, a} \/ (CanStartAttempt(a, side, at) /\ f = AddAttempt(a, side, at))
  BY DEF StartRoundAttempt
<1> HIDE DEF a, f
<1>4. CASE CanStartAttempt(a, side, at) /\ f = AddAttempt(a, side, at)
  <2>1. f \in Round /\ OneMoreRun(a, f, side, at)
    BY <1>1, <1>4, AddedRun DEF CanStartAttempt
  <2>2. OneMoreRun(r, f, side, at)
    BY <1>1, <1>2, <2>1, SameThenOneMore
  <2>3. QED
    BY <2>2 DEF f
<1>5. QED
  BY <1>1, <1>3, <1>4, SameRunsItself DEF f

LEMMA StartFromIntentRuns ==
  ASSUME NEW r \in Round, NEW side \in Side, NEW event, NEW observedAt \in Int, NEW now \in Int
  PROVE  LET f == StartRoundAttemptFromIntent(r, side, event, observedAt, now) IN
         f = r \/ OneMoreRun(r, f, side, observedAt)
<1> DEFINE added == AddAttempt(r, side, observedAt)
           later == IF now >= r.lastEvaluatedAt THEN now ELSE r.lastEvaluatedAt
           f == StartRoundAttemptFromIntent(r, side, event, observedAt, now)
<1>1. later \in Int
  BY DEF Round
<1>2. \/ f = r
      \/ CanStartAttempt(r, side, observedAt) /\ f = AdvanceRoundClock(added, later)
  BY DEF StartRoundAttemptFromIntent
<1>3. CASE CanStartAttempt(r, side, observedAt) /\ f = AdvanceRoundClock(added, later)
  <2>1. added \in Round /\ OneMoreRun(r, added, side, observedAt)
    BY <1>3, AddedRun DEF CanStartAttempt
  <2> HIDE DEF added, later, f
  <2>2. f \in Round /\ SameRuns(added, f)
    BY <1>1, <1>3, <2>1, AdvanceRuns
  <2>3. OneMoreRun(r, f, side, observedAt)
    BY <2>1, <2>2, OneMoreThenSame
  <2>4. QED
    BY <2>3 DEF f
<1>4. QED
  BY <1>2, <1>3

(* An End scores the attempt that it names, or none. *)
LEMMA ScoreEndRuns ==
  ASSUME NEW r \in Round, NEW side \in Side, NEW i \in Active(r, side),
         NEW percent \in 0..100, NEW cleared \in BOOLEAN
  PROVE  LET f == ScoreEnd(r, side, i, percent, cleared) IN
         /\ f \in Round /\ f.window = r.window /\ f.startedAt = r.startedAt
         /\ RunScored(r, f, side, i, ScoreAttempt(percent, cleared), cleared)
<1> DEFINE f == ScoreEnd(r, side, i, percent, cleared)
           award == ScoreAttempt(percent, cleared)
           ended == [r.attempts[side][i] EXCEPT !.status = "ENDED", !.award = award,
                                                !.cleared = cleared]
           count == IF cleared THEN 1 ELSE 0
           q == [r.attempts[side] EXCEPT ![i] = ended]
           as == [r.attempts EXCEPT ![side] = q]
           ss == [r.scores EXCEPT ![side] = @ + award]
           cs == [r.clears EXCEPT ![side] = @ + count]
<1>1. award \in Nat /\ count \in Nat
  BY ScoreType
<1>2. /\ r.attempts \in [Side -> Seq(Attempt)] /\ r.attempts[side] \in Seq(Attempt)
      /\ r.scores \in [Side -> Nat] /\ r.clears \in [Side -> Nat]
  BY AttemptFacts DEF Round
<1>3. /\ i \in 1..Len(r.attempts[side]) /\ r.attempts[side][i] \in Attempt
      /\ r.attempts[side][i].status = "ACTIVE"
  BY AttemptFacts DEF Active
<1>4. ended \in Attempt
  BY <1>1, <1>3 DEF Attempt
<1>5. f = [r EXCEPT !.attempts = as, !.scores = ss, !.clears = cs]
  <2>1. cs = [r.clears EXCEPT ![side] = IF cleared THEN @ + 1 ELSE @]
    <3>1. r.clears[side] + count
            = (IF cleared THEN r.clears[side] + 1 ELSE r.clears[side])
      BY <1>2
    <3> HIDE DEF count
    <3>2. QED
      BY <3>1
  <2>2. f = [r EXCEPT !.attempts = as, !.scores = ss,
                      !.clears = [r.clears EXCEPT ![side] = IF cleared THEN @ + 1 ELSE @]]
    BY DEF ScoreEnd, Round
  <2>3. QED
    BY <2>1, <2>2
<1> HIDE DEF award, ended, count
<1>6. /\ q \in Seq(Attempt) /\ Len(q) = Len(r.attempts[side]) /\ q[i] = ended
      /\ \A j \in 1..Len(r.attempts[side]) : j # i => q[j] = r.attempts[side][j]
  BY <1>2, <1>3, <1>4, ExceptSeq, LenProperties
<1> HIDE DEF q
<1>7. /\ as \in [Side -> Seq(Attempt)]
      /\ \A s \in Side : as[s] = IF s = side THEN q ELSE r.attempts[s]
      /\ ss \in [Side -> Nat] /\ cs \in [Side -> Nat]
  BY <1>1, <1>2, <1>6
<1> HIDE DEF f, as
<1>8. /\ f \in Round /\ f.attempts = as /\ f.window = r.window /\ f.startedAt = r.startedAt
      /\ f.scores = ss /\ f.clears = cs
  <2> HIDE DEF ss, cs
  <2>1. QED
    BY <1>5, <1>7 DEF Round
<1>9. ASSUME NEW s \in Side
      PROVE  /\ Len(f.attempts[s]) = Len(r.attempts[s])
             /\ \A j \in 1..Len(r.attempts[s]) :
                  s # side \/ j # i => Cut(r.attempts[s][j], f.attempts[s][j])
  <2>1. CASE s = side
    BY <1>6, <1>7, <1>8, <2>1 DEF Cut
  <2>2. CASE s # side
    BY <1>7, <1>8, <2>2 DEF Cut
  <2>3. QED
    BY <2>1, <2>2
<1>10. f.attempts[side][i] = ended
  BY <1>6, <1>7, <1>8
<1>11. QED
  BY <1>3, <1>8, <1>9, <1>10 DEF RunScored, f, award, ended, count

LEMMA ScoredThenSame ==
  ASSUME NEW r \in Round, NEW f \in Round, NEW g, NEW side \in Side, NEW i,
         NEW award, NEW cleared,
         RunScored(r, f, side, i, award, cleared), SameRuns(f, g)
  PROVE  RunScored(r, g, side, i, award, cleared)
<1>1. \A s \in Side : Len(f.attempts[s]) = Len(r.attempts[s])
  BY DEF RunScored
<1>2. /\ i \in 1..Len(r.attempts[side]) /\ r.attempts[side][i] \in Attempt
      /\ f.attempts[side][i] = [r.attempts[side][i] EXCEPT !.status = "ENDED",
                                    !.award = award, !.cleared = cleared]
  BY AttemptFacts DEF RunScored
<1>3. f.attempts[side][i].status = "ENDED"
  BY <1>2 DEF Attempt
<1>4. g.attempts[side][i] = f.attempts[side][i]
  <2>1. Cut(f.attempts[side][i], g.attempts[side][i])
    BY <1>1, <1>2 DEF SameRuns
  <2>2. QED
    BY <1>3, <2>1 DEF Cut
<1>5. ASSUME NEW s \in Side, NEW j \in 1..Len(r.attempts[s]), s # side \/ j # i
      PROVE  Cut(r.attempts[s][j], g.attempts[s][j])
  <2>1. r.attempts[s][j] \in Attempt
    BY AttemptFacts
  <2>2. Cut(r.attempts[s][j], f.attempts[s][j]) /\ Cut(f.attempts[s][j], g.attempts[s][j])
    BY <1>1, <1>5 DEF RunScored, SameRuns
  <2>3. QED
    BY <2>1, <2>2, CutTwice
<1>6. QED
  BY <1>1, <1>4, <1>5 DEF RunScored, SameRuns

LEMMA EndRuns ==
  ASSUME NEW r \in Round, NEW side \in Side, NEW i, NEW at \in Int,
         NEW percent \in 0..100, NEW cleared \in BOOLEAN
  PROVE  LET f == EndRoundAttempt(r, side, i, at, percent, cleared)
             a == AdvanceRoundClock(r, at)
         IN  \/ SameRuns(r, f)
             \/ /\ SameRuns(r, a)
                /\ RunScored(a, f, side, i, ScoreAttempt(percent, cleared), cleared)
<1> DEFINE a == AdvanceRoundClock(r, at)
           c == ScoreEnd(a, side, i, percent, cleared)
           e == EnterLastAttemptWindow(c, side, at)
           f == EndRoundAttempt(r, side, i, at, percent, cleared)
           award == ScoreAttempt(percent, cleared)
<1>1. a \in Round /\ SameRuns(r, a)
  BY AdvanceRuns
<1>2. CASE ~CanEndAttempt(a, side, i)
  BY <1>1, <1>2 DEF EndRoundAttempt
<1>3. CASE CanEndAttempt(a, side, i)
  <2>1. c \in Round /\ RunScored(a, c, side, i, award, cleared)
    <3> HIDE DEF a
    <3>1. QED
      BY <1>1, <1>3, ScoreEndRuns DEF CanEndAttempt
  <2>2. \/ f = FinishRound(c, "DRAW", "LAST_ATTEMPT_CLEAR", FALSE, at)
        \/ f = AdvanceRoundClock(e, at)
        \/ f = AdvanceRoundClock(c, at)
    BY <1>3 DEF EndRoundAttempt
  <2> HIDE DEF c, f
  <2>3. e \in Round /\ SameRuns(c, e)
    <3>1. StartDeadline(c) \in Int /\ FinalWindowEnd(c) \in Int
      BY <2>1, DeadlineTypes
    <3> DEFINE w == [trigger |-> side,
                     endsAt |-> IF at >= NormalEnd(c)
                                THEN IF at + LastAttemptWindowSeconds <= FinalWindowEnd(c)
                                     THEN at + LastAttemptWindowSeconds
                                     ELSE FinalWindowEnd(c)
                                ELSE at + LastAttemptWindowSeconds]
    <3>2. w \in Window
      BY <3>1, RulesAssumption DEF Window
    <3>3. e = [c EXCEPT !.phase = "LAST_ATTEMPT_WINDOW", !.window = w]
      BY DEF EnterLastAttemptWindow
    <3> HIDE DEF w, e
    <3>4. /\ e \in Round /\ e.attempts = c.attempts /\ e.scores = c.scores
          /\ e.clears = c.clears
      BY <2>1, <3>2, <3>3 DEF Round, RoundPhase
    <3>5. QED
      BY <3>4, SameLedger
  <2> HIDE DEF e
  <2>4. SameRuns(c, f)
    <3>1. CASE f = FinishRound(c, "DRAW", "LAST_ATTEMPT_CLEAR", FALSE, at)
      <4>1. f.attempts = c.attempts /\ f.scores = c.scores /\ f.clears = c.clears
        BY <2>1, <3>1 DEF FinishRound, Round
      <4>2. QED
        BY <4>1, SameLedger
    <3>2. CASE f = AdvanceRoundClock(c, at)
      BY <2>1, <3>2, AdvanceRuns
    <3>3. CASE f = AdvanceRoundClock(e, at)
      BY <2>1, <2>3, <3>3, AdvanceRuns, SameRunsTwice
    <3>4. QED
      BY <2>2, <3>1, <3>2, <3>3
  <2> HIDE DEF a, award
  <2>5. RunScored(a, f, side, i, award, cleared)
    BY <1>1, <2>1, <2>4, ScoredThenSame
  <2>6. QED
    BY <1>1, <2>5 DEF f, a, award
<1>4. QED
  BY <1>2, <1>3

LEMMA SurrenderRuns ==
  ASSUME NEW r \in Round, NEW side \in Side, NEW at \in Int
  PROVE  SameRuns(r, SurrenderRound(r, side, at))
<1> DEFINE f == SurrenderRound(r, side, at)
<1>1. CASE r.outcome # NoOutcome
  BY <1>1, SameRunsItself DEF SurrenderRound
<1>2. CASE r.outcome = NoOutcome
  <2>1. /\ f.attempts = StopRuns(r).attempts /\ f.scores = StopRuns(r).scores
        /\ f.clears = StopRuns(r).clears
    BY <1>2, StopRunsRuns DEF SurrenderRound, FinishRound, Round
  <2>2. QED
    BY <2>1, SameLedger, SameRunsTwice, StopRunsRuns
<1>3. QED
  BY <1>1, <1>2

LEMMA DebugEndRuns ==
  ASSUME NEW r \in Round, NEW at \in Int
  PROVE  SameRuns(r, DebugEndRoundByScore(r, at))
<1> DEFINE f == DebugEndRoundByScore(r, at)
<1>1. CASE r.outcome # NoOutcome
  BY <1>1, SameRunsItself DEF DebugEndRoundByScore
<1>2. CASE r.outcome = NoOutcome
  <2>1. /\ f.attempts = StopRuns(r).attempts /\ f.scores = StopRuns(r).scores
        /\ f.clears = StopRuns(r).clears
    BY <1>2, StopRunsRuns DEF DebugEndRoundByScore, FinishByScore, FinishRound, Round
  <2>2. QED
    BY <2>1, SameLedger, SameRunsTwice, StopRunsRuns
<1>3. QED
  BY <1>1, <1>2

LEMMA InvalidateRuns ==
  ASSUME NEW r \in Round, NEW side \in Side, NEW at \in Int,
         NEW i \in Active(AdvanceRoundClock(r, at), side)
  PROVE  SameRuns(r, InvalidateRoundAttempt(r, side, i, at))
<1> DEFINE a == AdvanceRoundClock(r, at)
           cut == [a.attempts[side][i] EXCEPT !.status = "INVALID"]
           q == [a.attempts[side] EXCEPT ![i] = cut]
           as == [a.attempts EXCEPT ![side] = q]
           c == [a EXCEPT !.attempts[side][i].status = "INVALID"]
<1>1. a \in Round /\ SameRuns(r, a)
  BY AdvanceRuns
<1>2. InvalidateRoundAttempt(r, side, i, at) = AdvanceRoundClock(c, at)
  BY DEF InvalidateRoundAttempt
<1>3. i \in Active(a, side)
  OBVIOUS
<1> HIDE DEF a
<1>4. /\ a.attempts \in [Side -> Seq(Attempt)] /\ a.attempts[side] \in Seq(Attempt)
      /\ i \in 1..Len(a.attempts[side]) /\ a.attempts[side][i] \in Attempt
      /\ a.attempts[side][i].status = "ACTIVE"
  BY <1>1, <1>3, AttemptFacts DEF Active
<1>5. c = [a EXCEPT !.attempts = as]
  BY <1>1 DEF Round
<1>6. cut \in Attempt /\ Cut(a.attempts[side][i], cut)
  BY <1>4 DEF Attempt, Cut
<1> HIDE DEF cut, c
<1>7. /\ q \in Seq(Attempt) /\ Len(q) = Len(a.attempts[side]) /\ q[i] = cut
      /\ \A j \in 1..Len(a.attempts[side]) : j # i => q[j] = a.attempts[side][j]
  BY <1>4, <1>6, ExceptSeq, LenProperties
<1> HIDE DEF q
<1>8. /\ as \in [Side -> Seq(Attempt)]
      /\ \A s \in Side : as[s] = IF s = side THEN q ELSE a.attempts[s]
  BY <1>4, <1>7
<1> HIDE DEF as
<1>9. c \in Round /\ c.attempts = as /\ c.scores = a.scores /\ c.clears = a.clears
  BY <1>1, <1>5, <1>8 DEF Round
<1>10. ASSUME NEW s \in Side
       PROVE  /\ Len(c.attempts[s]) = Len(a.attempts[s])
              /\ \A j \in 1..Len(a.attempts[s]) : Cut(a.attempts[s][j], c.attempts[s][j])
  <2>1. CASE s = side
    BY <1>6, <1>7, <1>8, <1>9, <2>1 DEF Cut
  <2>2. CASE s # side
    BY <1>8, <1>9, <2>2 DEF Cut
  <2>3. QED
    BY <2>1, <2>2
<1>11. SameRuns(a, c)
  BY <1>9, <1>10 DEF SameRuns
<1>12. QED
  BY <1>1, <1>2, <1>9, <1>11, AdvanceRuns, SameRunsTwice
==============================================================================
