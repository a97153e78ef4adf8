------------------------- MODULE RankedRound_proofs -------------------------
(***************************************************************************)
(* Theorems about RankedRound, for every length of the windows, every clear *)
(* target of at least two, and rounds of any number of attempts.            *)
(***************************************************************************)
EXTENDS RankedRound, RoundRules_proofs, WellFoundedInduction

(***************************************************************************)
(* The theorems.                                                            *)
(***************************************************************************)

IInv == Consistent(round)

(* A step of the round is one of the rules' operations, so it keeps the round
   consistent and never moves its start deadline to a later time. *)
LEMMA StepConsistent ==
  ASSUME IInv, Next
  PROVE  IInv' /\ StartDeadline(round') <= StartDeadline(round)
<1>1. round \in Round /\ StartDeadline(round) \in Int
  BY DeadlineTypes DEF IInv, Consistent, Body
<1>2. PICK at \in Now : Operation(at)
  BY DEF Next
<1>3. at \in Int
  BY BoundsAssumption DEF Now
<1>4. CASE Advance(at)
  BY <1>1, <1>3, <1>4, AdvanceConsistent DEF Advance, IInv
<1>5. CASE DebugEnd(at)
  BY <1>1, <1>3, <1>5, DebugEndConsistent DEF DebugEnd, IInv
<1>6. ASSUME NEW side \in Side, Surrender(side, at)
      PROVE  IInv' /\ StartDeadline(round') <= StartDeadline(round)
  BY <1>1, <1>3, <1>6, SurrenderConsistent DEF Surrender, IInv
<1>7. ASSUME NEW side \in Side, NEW event \in 1..MaxAttempts, Start(side, event, at)
      PROVE  IInv' /\ StartDeadline(round') <= StartDeadline(round)
  BY <1>1, <1>3, <1>7, StartConsistent DEF Start, IInv
<1>8. ASSUME NEW side \in Side, NEW event \in 1..MaxAttempts,
             NEW observedAt \in 0..MaxTime,
             StartFromIntent(side, event, observedAt, at)
      PROVE  IInv' /\ StartDeadline(round') <= StartDeadline(round)
  BY <1>1, <1>3, <1>8, StartFromIntentConsistent DEF StartFromIntent, IInv
<1>9. ASSUME NEW side \in Side, NEW i \in 1..MaxAttempts, Invalidate(side, i, at)
      PROVE  IInv' /\ StartDeadline(round') <= StartDeadline(round)
  BY <1>1, <1>3, <1>9, InvalidateConsistent DEF Invalidate, IInv
<1>10. ASSUME NEW side \in Side, NEW i \in 1..MaxAttempts, NEW report \in Reports,
              End(side, i, report, at)
       PROVE  IInv' /\ StartDeadline(round') <= StartDeadline(round)
  <2>1. report.percent \in 0..100 /\ report.cleared \in BOOLEAN
    BY ReportsAssumption
  <2>2. QED
    BY <1>3, <1>10, <2>1, EndConsistent DEF End, IInv
<1>11. QED
  BY <1>2, <1>4, <1>5, <1>6, <1>7, <1>8, <1>9, <1>10 DEF Operation

(* The inductive invariant holds of every reachable round. *)
THEOREM RoundInvariant == Spec => []IInv
<1>1. Init => IInv
  BY CreateConsistent DEF Init, IInv
<1>2. IInv /\ [Next]_round => IInv'
  BY StepConsistent DEF IInv
<1>3. QED
  BY <1>1, <1>2, PTL DEF Spec

(* The round record keeps its type, whatever the callers do. *)
THEOREM RoundTypes == Spec => []TypeOK
<1>1. IInv => TypeOK
  BY DEF IInv, Consistent, Body, TypeOK
<1>2. QED
  BY <1>1, RoundInvariant, PTL

(* At most one attempt of a player runs at a time. *)
THEOREM RoundOneRunPerSide == Spec => []OneRunPerSide
<1>1. IInv => OneRunPerSide
  BY DEF IInv, Consistent, Body, OneRun, OneRunPerSide, RunningAttempts
<1>2. QED
  BY <1>1, RoundInvariant, PTL

(* No attempt is still running in a round whose result is published. *)
THEOREM RoundNoRunOutlivesResult == Spec => []NoRunOutlivesResult
<1>1. IInv => NoRunOutlivesResult
  BY DEF IInv, Consistent, Verdict, NoRun, NoRunOutlivesResult, RunningAttempts
<1>2. QED
  BY <1>1, RoundInvariant, PTL

(* The side that opened the answer window stands still at its clear target. *)
THEOREM RoundWindowHolderStandsStill == Spec => []WindowHolderStandsStill
<1>1. IInv => WindowHolderStandsStill
  BY DEF IInv, Consistent, Body, HolderStands, WindowHolderStandsStill, RunningAttempts
<1>2. QED
  BY <1>1, RoundInvariant, PTL

(* Both sides reach the target only in the draw of the answer window. *)
THEOREM RoundTargetReachedOnce == Spec => []TargetReachedOnce
<1>1. IInv => TargetReachedOnce
  BY DEF IInv, Consistent, Body, Verdict, BothReached, TargetReachedOnce
<1>2. QED
  BY <1>1, RoundInvariant, PTL

(* The published winner has the evidence that its reason names. *)
THEOREM RoundWinnerHasTheEvidence == Spec => []WinnerHasTheEvidence
<1>1. ASSUME IInv PROVE WinnerHasTheEvidence
  <2>1. round \in Round /\ Body(round) /\ Verdict(round)
    BY <1>1 DEF IInv, Consistent, Body
  <2>2. CASE round.outcome = NoOutcome
    BY <2>2 DEF WinnerHasTheEvidence, NoOutcome
  <2>3. CASE round.outcome # NoOutcome
    <3>1. Justified(round, round.outcome.result, round.outcome.reason)
      BY <2>1, <2>3 DEF Verdict
    <3>2. ASSUME round.outcome.reason \in {"LAST_ATTEMPT_EXPIRED", "CLEAR_TARGET_LAST_ATTEMPT"}
          PROVE  /\ round.outcome.result = round.window.trigger
                 /\ round.clears[round.outcome.result] = ClearTarget
                 /\ round.clears[OtherSide(round.outcome.result)] < ClearTarget
      <4>1. HasWindow(round) /\ round.outcome.result = round.window.trigger
        BY <3>1, <3>2 DEF Justified
      <4>2. round.clears[round.window.trigger] = ClearTarget /\ round.window.trigger \in Side
        BY <2>1, <4>1, DeadlineTypes DEF Body, HolderStands
      <4>3. OtherSide(round.window.trigger) \in Side /\ ~BothReached(round)
        BY <2>1, <3>2 DEF OtherSide, Side, Verdict
      <4>4. round.clears[OtherSide(round.window.trigger)] # ClearTarget
        BY <4>2, <4>3 DEF BothReached, OtherSide, Side
      <4>5. /\ round.clears[OtherSide(round.window.trigger)] <= ClearTarget
            /\ round.clears[OtherSide(round.window.trigger)] \in Nat
        BY <2>1, <4>3 DEF Body, Round
      <4>6. QED
        BY <4>1, <4>2, <4>4, <4>5, RulesAssumption
    <3>3. QED
      BY <2>1, <3>1, <3>2 DEF WinnerHasTheEvidence, Justified, Verdict, BothReached
  <2>4. QED
    BY <2>2, <2>3
<1>2. QED
  BY <1>1, RoundInvariant, PTL

(* No operation changes a round whose result is published. *)
THEOREM RoundResultIsFinal == Spec => ResultIsFinal
<1>1. IInv /\ [Next]_round => [Finished(round) => UNCHANGED round]_round
  <2>1. SUFFICES ASSUME IInv, Next, Finished(round) PROVE round' = round
    OBVIOUS
  <2>2. PICK at \in Now : Operation(at)
    BY <2>1 DEF Next
  <2>3. round.outcome # NoOutcome /\ \A s \in Side : Active(round, s) = {}
    BY <2>1 DEF IInv, Consistent, Verdict, NoRun
  <2>4. AdvanceRoundClock(round, at) = round
    BY <2>1 DEF AdvanceRoundClock
  <2>5. CASE Advance(at) \/ DebugEnd(at)
    BY <2>3, <2>4, <2>5 DEF Advance, DebugEnd, DebugEndRoundByScore
  <2>6. ASSUME NEW side \in Side, Surrender(side, at) PROVE round' = round
    BY <2>3, <2>6 DEF Surrender, SurrenderRound
  <2>7. ASSUME NEW side \in Side, NEW event \in 1..MaxAttempts, Start(side, event, at)
        PROVE  round' = round
    BY <2>1, <2>4, <2>7 DEF Start, StartRoundAttempt, CanStartAttempt
  <2>8. ASSUME NEW side \in Side, NEW event \in 1..MaxAttempts,
               NEW observedAt \in 0..MaxTime,
               StartFromIntent(side, event, observedAt, at)
        PROVE  round' = round
    BY <2>1, <2>8 DEF StartFromIntent, StartRoundAttemptFromIntent, CanStartAttempt
  <2>9. ASSUME NEW side \in Side, NEW i \in 1..MaxAttempts, Invalidate(side, i, at)
        PROVE  round' = round
    BY <2>3, <2>4, <2>9 DEF Invalidate
  <2>10. ASSUME NEW side \in Side, NEW i \in 1..MaxAttempts, NEW report \in Reports,
                End(side, i, report, at)
         PROVE  round' = round
    BY <2>1, <2>4, <2>10 DEF End, EndRoundAttempt, CanEndAttempt
  <2>11. QED
    BY <2>2, <2>5, <2>6, <2>7, <2>8, <2>9, <2>10 DEF Operation
<1>2. QED
  BY <1>1, RoundInvariant, PTL DEF Spec, ResultIsFinal

(* No operation reopens the starts of a round seen past its start deadline. *)
THEOREM RoundClosedStartsStayClosed == Spec => ClosedStartsStayClosed
<1>1. IInv /\ [Next]_round =>
        [round.lastEvaluatedAt >= StartDeadline(round)
           => StartDeadline(round') <= round.lastEvaluatedAt]_round
  <2>1. SUFFICES ASSUME IInv, Next, round.lastEvaluatedAt >= StartDeadline(round)
                 PROVE  StartDeadline(round') <= round.lastEvaluatedAt
    OBVIOUS
  <2>2. StartDeadline(round') <= StartDeadline(round) /\ IInv'
    BY <2>1, StepConsistent
  <2>3. /\ StartDeadline(round) \in Int /\ round.lastEvaluatedAt \in Int
        /\ StartDeadline(round') \in Int
    BY <2>1, <2>2, DeadlineTypes DEF IInv, Consistent, Body, Round
  <2>4. QED
    BY <2>1, <2>2, <2>3
<1>2. QED
  BY <1>1, RoundInvariant, PTL DEF Spec, ClosedStartsStayClosed

(* An operation starts no attempt, one that the deadline and the window allow,
   or scores one. *)
LEMMA StepRuns ==
  ASSUME IInv, Next
  PROVE  \/ SameRuns(round, round')
         \/ \E side \in Side, at \in Int : OneMoreRun(round, round', side, at)
         \/ \E side \in Side, i, at \in Int, award \in Nat, cleared \in BOOLEAN :
              LET a == AdvanceRoundClock(round, at) IN
              SameRuns(round, a) /\ RunScored(a, round', side, i, award, cleared)
<1>1. round \in Round
  BY DEF IInv, Consistent, Body
<1>2. PICK at \in Now : Operation(at)
  BY DEF Next
<1>3. at \in Int
  BY BoundsAssumption DEF Now
<1>4. CASE Advance(at) \/ DebugEnd(at)
  BY <1>1, <1>3, <1>4, AdvanceRuns, DebugEndRuns DEF Advance, DebugEnd
<1>5. ASSUME NEW side \in Side, Surrender(side, at)
      PROVE  SameRuns(round, round')
  BY <1>1, <1>3, <1>5, SurrenderRuns DEF Surrender
<1>6. ASSUME NEW side \in Side, NEW event \in 1..MaxAttempts, Start(side, event, at)
      PROVE  SameRuns(round, round') \/ OneMoreRun(round, round', side, at)
  BY <1>1, <1>3, <1>6, StartRuns DEF Start
<1>7. ASSUME NEW side \in Side, NEW event \in 1..MaxAttempts,
             NEW observedAt \in 0..MaxTime,
             StartFromIntent(side, event, observedAt, at)
      PROVE  SameRuns(round, round') \/ OneMoreRun(round, round', side, observedAt)
  BY <1>1, <1>3, <1>7, BoundsAssumption, StartFromIntentRuns, SameRunsItself
     DEF StartFromIntent
<1>8. ASSUME NEW side \in Side, NEW i \in 1..MaxAttempts, Invalidate(side, i, at)
      PROVE  SameRuns(round, round')
  BY <1>1, <1>3, <1>8, InvalidateRuns DEF Invalidate
<1>9. ASSUME NEW side \in Side, NEW i \in 1..MaxAttempts, NEW report \in Reports,
             End(side, i, report, at)
      PROVE  \/ SameRuns(round, round')
             \/ \E award \in Nat, cleared \in BOOLEAN :
                  LET a == AdvanceRoundClock(round, at) IN
                  SameRuns(round, a) /\ RunScored(a, round', side, i, award, cleared)
  <2>1. report.percent \in 0..100 /\ report.cleared \in BOOLEAN
    BY ReportsAssumption
  <2>2. ScoreAttempt(report.percent, report.cleared) \in Nat
    BY <2>1, ScoreType
  <2>3. round' = EndRoundAttempt(round, side, i, at, report.percent, report.cleared)
    BY <1>9 DEF End
  <2>4. PICK percent \in 0..100, cleared \in BOOLEAN, award \in Nat :
          /\ award = ScoreAttempt(percent, cleared)
          /\ round' = EndRoundAttempt(round, side, i, at, percent, cleared)
    BY <2>1, <2>2, <2>3
  <2>5. QED
    BY <1>1, <1>3, <2>4, EndRuns
<1>10. 0..MaxTime \subseteq Int
  BY BoundsAssumption
<1>11. QED
  BY <1>2, <1>3, <1>4, <1>5, <1>6, <1>7, <1>8, <1>9, <1>10 DEF Operation

(* The run that an operation lets in began before the start deadline in force
   and belongs to the side that may play (canStartAttempt, on both paths). *)
THEOREM RoundLateStartNeverCounts == Spec => LateStartNeverCounts
<1> DEFINE Timely ==
      \A s \in Side :
        Len(round'.attempts[s]) > Len(round.attempts[s]) =>
          /\ round'.attempts[s][Len(round'.attempts[s])].startedAt < StartDeadline(round)
          /\ HasWindow(round) => s = Target(round)
<1>1. ASSUME IInv, Next PROVE Timely
  <2>1. /\ round \in Round
        /\ \A s \in Side : Len(round.attempts[s]) \in Nat
    BY <1>1, AttemptFacts DEF IInv, Consistent, Body
  <2>2. CASE SameRuns(round, round')
    BY <2>1, <2>2 DEF SameRuns
  <2>3. ASSUME NEW side \in Side, NEW at \in Int, OneMoreRun(round, round', side, at)
        PROVE  Timely
    <3>1. Len(round'.attempts[side]) = Len(round.attempts[side]) + 1
      BY <2>3 DEF OneMoreRun
    <3>2. \A s \in Side \ {side} : Len(round'.attempts[s]) = Len(round.attempts[s]) + 0
      BY <2>3 DEF OneMoreRun
    <3>3. /\ round'.attempts[side][Len(round.attempts[side]) + 1].startedAt = at
          /\ at < StartDeadline(round) /\ (HasWindow(round) => side = Target(round))
      BY <2>3 DEF OneMoreRun
    <3>4. QED
      BY <2>1, <3>1, <3>2, <3>3
  <2>4. ASSUME NEW side \in Side, NEW i, NEW at \in Int, NEW award \in Nat,
               NEW cleared \in BOOLEAN,
               SameRuns(round, AdvanceRoundClock(round, at)),
               RunScored(AdvanceRoundClock(round, at), round', side, i, award, cleared)
        PROVE  Timely
    BY <2>1, <2>4 DEF SameRuns, RunScored
  <2>5. QED
    BY <1>1, <2>2, <2>3, <2>4, StepRuns
<1>2. IInv /\ [Next]_round => [Timely]_round
  BY <1>1
<1>3. LateStartNeverCounts <=> [][Timely]_round
  BY DEF LateStartNeverCounts
<1> HIDE DEF Timely
<1>4. QED
  BY <1>2, <1>3, RoundInvariant, PTL DEF Spec

(***************************************************************************)
(* The totals of a round.                                                   *)
(***************************************************************************)

(* A set of natural numbers that is not empty has a least element. *)
LEMMA LeastNatural ==
  ASSUME NEW T \in SUBSET Nat, T # {}
  PROVE  \E n \in T : \A k \in T : n <= k
<1> DEFINE Less == {e \in Nat \X Nat : e[1] < e[2]}
<1>1. Less = OpToRel(<, Nat)
  BY Zenon DEF OpToRel
<1>2. IsWellFoundedOn(Less, Nat)
  <2> HIDE DEF Less
  <2>1. QED
    BY <1>1, NatLessThanWellFounded, Zenon
<1>3. \A k, n \in Nat : k < n => <<k, n>> \in Less
  OBVIOUS
<1>4. PICK n \in T : \A k \in T : ~(<<k, n>> \in Less)
  <2> HIDE DEF Less
  <2>1. QED
    BY <1>2, WFMin
<1>5. ASSUME NEW k \in T PROVE n <= k
  <2> HIDE DEF Less
  <2>1. ~(k < n)
    BY <1>3, <1>4
  <2>2. QED
    BY <2>1
<1>6. QED
  BY <1>5

(* sum is the sequence of the partial sums of w up to n. *)
Sums(sum, w, n) == sum = [i \in 0..n |-> IF i = 0 THEN 0 ELSE sum[i - 1] + w[i]]

(* Every sequence of numbers has partial sums: the least n up to which it had
   none would not be 0, and the sums up to n - 1 could be continued. *)
LEMMA SumsExist ==
  ASSUME NEW n \in Nat, NEW w
  PROVE  \E sum : Sums(sum, w, n)
<1> DEFINE T == {k \in Nat : ~ \E sum : Sums(sum, w, k)}
<1>1. SUFFICES ASSUME T # {} PROVE FALSE
  OBVIOUS
<1>2. PICK k \in T : \A j \in T : k <= j
  <2>1. T \in SUBSET Nat
    OBVIOUS
  <2> HIDE DEF T
  <2>2. QED
    BY <1>1, <2>1, LeastNatural
<1>3. k \in Nat /\ ~ \E sum : Sums(sum, w, k)
  OBVIOUS
<1>4. k # 0
  <2>1. SUFFICES ASSUME k = 0 PROVE FALSE
    OBVIOUS
  <2> DEFINE zero == [i \in 0..0 |-> 0]
  <2>2. zero = [i \in 0..0 |-> IF i = 0 THEN 0 ELSE zero[i - 1] + w[i]]
    OBVIOUS
  <2>3. Sums(zero, w, k)
    BY <2>1, <2>2 DEF Sums
  <2>4. QED
    BY <1>3, <2>3
<1>5. k - 1 \in Nat /\ k - 1 \notin T
  <2>1. k - 1 \in Nat /\ ~(k <= k - 1)
    BY <1>3, <1>4
  <2> HIDE DEF T
  <2>2. QED
    BY <1>2, <2>1
<1>6. PICK f : Sums(f, w, k - 1)
  BY <1>5
<1> DEFINE g == [i \in 0..k |-> IF i = k THEN f[k - 1] + w[k] ELSE f[i]]
<1>7. g = [i \in 0..k |-> IF i = 0 THEN 0 ELSE g[i - 1] + w[i]]
  <2>1. ASSUME NEW i \in 0..k
        PROVE  g[i] = IF i = 0 THEN 0 ELSE g[i - 1] + w[i]
    <3>1. CASE i = k
      BY <1>3, <1>4, <3>1
    <3>2. CASE i # k
      <4>1. i \in 0..(k - 1) /\ (i # 0 => i - 1 \in 0..k /\ i - 1 # k)
        BY <1>3, <3>2
      <4>2. f[i] = IF i = 0 THEN 0 ELSE f[i - 1] + w[i]
        BY <1>6, <4>1 DEF Sums
      <4>3. g[i] = f[i] /\ (i # 0 => g[i - 1] = f[i - 1])
        BY <3>2, <4>1
      <4> HIDE DEF g
      <4>4. QED
        BY <4>2, <4>3
    <3>3. QED
      BY <3>1, <3>2
  <2>2. g = [i \in 0..k |-> g[i]]
    OBVIOUS
  <2> HIDE DEF g
  <2>3. QED
    BY <2>1, <2>2
<1>8. Sums(g, w, k)
  BY <1>7 DEF Sums
<1>9. QED
  BY <1>3, <1>8

(* The total is the last partial sum. *)
LEMMA TotalIsLastSum ==
  ASSUME NEW w, Len(w) \in Nat
  PROVE  \E sum : Sums(sum, w, Len(w)) /\ Total(w) = sum[Len(w)]
<1> DEFINE sum == CHOOSE f : f = [i \in 0..Len(w) |-> IF i = 0 THEN 0 ELSE f[i - 1] + w[i]]
<1>1. \E f : f = [i \in 0..Len(w) |-> IF i = 0 THEN 0 ELSE f[i - 1] + w[i]]
  BY SumsExist DEF Sums
<1>2. sum = [i \in 0..Len(w) |-> IF i = 0 THEN 0 ELSE sum[i - 1] + w[i]]
  BY <1>1, Zenon
<1>3. Total(w) = sum[Len(w)]
  BY DEF Total
<1>4. QED
  <2> HIDE DEF sum
  <2>1. QED
    BY <1>2, <1>3 DEF Sums

(* Up to n, w is v with d added at place p. *)
Shifted(v, w, n, p, d) ==
  \A j \in 1..n : v[j] \in Int /\ w[j] = v[j] + (IF j = p THEN d ELSE 0)

(* Then d is in every partial sum from p on. *)
LEMMA SumsDiffer ==
  ASSUME NEW n \in Nat, NEW v, NEW w, NEW f, NEW g, Sums(f, v, n), Sums(g, w, n),
         NEW p \in Nat \ {0}, NEW d \in Int, Shifted(v, w, n, p, d)
  PROVE  f[n] \in Int /\ g[n] = f[n] + (IF p <= n THEN d ELSE 0)
<1> DEFINE Same(k) == f[k] \in Int /\ g[k] = f[k] + (IF p <= k THEN d ELSE 0)
           T == {k \in 0..n : ~Same(k)}
<1>1. SUFFICES ASSUME T # {} PROVE FALSE
  <2>1. n \notin T => Same(n)
    OBVIOUS
  <2>2. QED
    BY <2>1
<1>2. PICK k \in T : \A j \in T : k <= j
  <2>1. T \in SUBSET Nat
    OBVIOUS
  <2> HIDE DEF T
  <2>2. QED
    BY <1>1, <2>1, LeastNatural
<1>3. k \in 0..n /\ ~Same(k)
  OBVIOUS
<1>4. f[0] = 0 /\ g[0] = 0
  BY DEF Sums
<1>5. k \in 1..n
  <2>1. Same(0)
    BY <1>4
  <2> HIDE DEF Same
  <2>2. k # 0
    BY <1>3, <2>1
  <2>3. QED
    BY <1>3, <2>2
<1>6. Same(k - 1)
  <2>1. k - 1 \in 0..n /\ ~(k <= k - 1)
    BY <1>5
  <2>2. k - 1 \notin T
    <3> HIDE DEF T
    <3>1. QED
      BY <1>2, <2>1
  <2> HIDE DEF Same
  <2>3. QED
    BY <2>1, <2>2
<1>7. f[k] = f[k - 1] + v[k] /\ g[k] = g[k - 1] + w[k]
  BY <1>5 DEF Sums
<1>8. Same(k)
  <2>1. v[k] \in Int /\ w[k] = v[k] + (IF k = p THEN d ELSE 0)
    BY <1>5 DEF Shifted
  <2>2. QED
    BY <1>5, <1>6, <1>7, <2>1
<1>9. QED
  BY <1>3, <1>8

(* One number changed by d changes the total by d. *)
LEMMA TotalsDiffer ==
  ASSUME NEW v, NEW w, Len(v) \in Nat, Len(w) = Len(v),
         NEW p \in 1..Len(v), NEW d \in Int, Shifted(v, w, Len(v), p, d)
  PROVE  Total(w) = Total(v) + d
<1>1. PICK f : Sums(f, v, Len(v)) /\ Total(v) = f[Len(v)]
  BY TotalIsLastSum
<1>2. PICK g : Sums(g, w, Len(v)) /\ Total(w) = g[Len(v)]
  BY TotalIsLastSum
<1>3. p \in Nat \ {0} /\ p <= Len(v)
  OBVIOUS
<1>4. g[Len(v)] = f[Len(v)] + (IF p <= Len(v) THEN d ELSE 0)
  BY <1>1, <1>2, <1>3, SumsDiffer
<1>5. QED
  BY <1>1, <1>2, <1>3, <1>4

(* Numbers that stay, and one more that is zero, leave the total alone. *)
LEMMA TotalStays ==
  ASSUME NEW v, NEW w, Len(v) \in Nat, Len(w) \in {Len(v), Len(v) + 1},
         \A j \in 1..Len(v) : v[j] \in Int /\ w[j] = v[j],
         Len(w) = Len(v) + 1 => w[Len(w)] = 0
  PROVE  Total(w) = Total(v)
<1> DEFINE n == Len(v)
<1>1. PICK f : Sums(f, v, n) /\ Total(v) = f[n]
  BY TotalIsLastSum
<1>2. PICK g : Sums(g, w, Len(w)) /\ Total(w) = g[Len(w)]
  BY TotalIsLastSum
<1> DEFINE h == [i \in 0..n |-> g[i]]
<1>3. h = [i \in 0..n |-> IF i = 0 THEN 0 ELSE h[i - 1] + w[i]]
  <2>1. ASSUME NEW i \in 0..n
        PROVE  h[i] = IF i = 0 THEN 0 ELSE h[i - 1] + w[i]
    <3>1. i \in 0..Len(w) /\ (i # 0 => i - 1 \in 0..n)
      OBVIOUS
    <3>2. g[i] = IF i = 0 THEN 0 ELSE g[i - 1] + w[i]
      BY <1>2, <3>1 DEF Sums
    <3>3. h[i] = g[i] /\ (i # 0 => h[i - 1] = g[i - 1])
      BY <3>1
    <3> HIDE DEF h
    <3>4. QED
      BY <3>2, <3>3
  <2>2. h = [i \in 0..n |-> h[i]]
    OBVIOUS
  <2> HIDE DEF h
  <2>3. QED
    BY <2>1, <2>2
<1>4. Sums(h, w, n) /\ h[n] = g[n]
  BY <1>3 DEF Sums
<1> HIDE DEF h
<1>5. f[n] \in Int /\ h[n] = f[n] + (IF 1 <= n THEN 0 ELSE 0)
  <2>1. Shifted(v, w, n, 1, 0)
    BY DEF Shifted
  <2>2. 1 \in Nat \ {0} /\ 0 \in Int /\ n \in Nat
    OBVIOUS
  <2> HIDE DEF n
  <2>3. QED
    BY <1>1, <1>4, <2>1, <2>2, SumsDiffer
<1>6. g[n] = f[n]
  BY <1>4, <1>5
<1>7. CASE Len(w) = n
  BY <1>1, <1>2, <1>6, <1>7
<1>8. CASE Len(w) = n + 1
  <2>1. g[n + 1] = g[n] + w[n + 1]
    <3>1. n + 1 \in 0..Len(w) /\ n + 1 # 0 /\ (n + 1) - 1 = n
      BY <1>8
    <3> HIDE DEF n
    <3>2. QED
      BY <1>2, <3>1 DEF Sums
  <2>2. w[n + 1] = 0
    BY <1>8
  <2>3. QED
    BY <1>1, <1>2, <1>5, <1>6, <1>8, <2>1, <2>2
<1>9. QED
  BY <1>7, <1>8

Runs(q) == Len(q) \in Nat /\ \A i \in 1..Len(q) : q[i] \in Attempt

(* The attempts of f are those of q, left alone or cut short, and perhaps a
   new one, which has not ended. *)
CutOrNew(q, f) ==
  /\ Len(f) \in {Len(q), Len(q) + 1}
  /\ \A i \in 1..Len(q) : Cut(q[i], f[i])
  /\ Len(f) = Len(q) + 1 => ~Ended(f[Len(f)])

(* Attempt p of q is scored in f. *)
Scored(q, f, p, award, cleared) ==
  /\ Len(f) = Len(q)
  /\ p \in 1..Len(q)
  /\ q[p].status = "ACTIVE"
  /\ f[p] = [q[p] EXCEPT !.status = "ENDED", !.award = award, !.cleared = cleared]
  /\ \A i \in 1..Len(q) : i # p => Cut(q[i], f[i])

LEMMA RunsOfRound ==
  ASSUME NEW r \in Round, NEW s \in Side
  PROVE  Runs(r.attempts[s])
  BY AttemptFacts DEF Runs

(* There is one number for each attempt, and it is a natural one. *)
LEMMA LedgerTypes ==
  ASSUME NEW q, Runs(q)
  PROVE  /\ Len(Awards(q)) = Len(q) /\ Len(Clears(q)) = Len(q)
         /\ \A i \in 1..Len(q) : Awards(q)[i] \in Nat /\ Clears(q)[i] \in Nat
<1>1. ASSUME NEW i \in 1..Len(q)
      PROVE  Awards(q)[i] \in Nat /\ Clears(q)[i] \in Nat
  BY DEF Awards, Clears, Attempt, Runs
<1>2. Awards(q) \in [1..Len(q) -> Nat] /\ Clears(q) \in [1..Len(q) -> Nat]
  BY <1>1 DEF Awards, Clears
<1>3. Awards(q) \in Seq(Nat) /\ Clears(q) \in Seq(Nat)
  BY <1>2, SeqDef DEF Runs
<1>4. Len(Awards(q)) = Len(q) /\ Len(Clears(q)) = Len(q)
  BY <1>2, <1>3, LenProperties DEF Runs
<1>5. QED
  BY <1>1, <1>4

(* Attempts that are left alone or cut short, and a new one, which has not
   ended, leave the totals of the ended ones alone. *)
LEMMA CutKeepsTotals ==
  ASSUME NEW q, Runs(q), NEW f, Runs(f), CutOrNew(q, f)
  PROVE  Total(Awards(f)) = Total(Awards(q)) /\ Total(Clears(f)) = Total(Clears(q))
<1>1. /\ Len(f) \in Nat /\ Len(q) \in Nat /\ 1..Len(q) \subseteq 1..Len(f)
      /\ Len(f) \in {Len(q), Len(q) + 1}
  BY DEF CutOrNew, Runs
<1>2. /\ Len(Awards(q)) = Len(q) /\ Len(Clears(q)) = Len(q)
      /\ Len(Awards(f)) = Len(f) /\ Len(Clears(f)) = Len(f)
      /\ \A i \in 1..Len(q) : Awards(q)[i] \in Int /\ Clears(q)[i] \in Int
  BY LedgerTypes
<1>3. ASSUME NEW i \in 1..Len(q)
      PROVE  Awards(f)[i] = Awards(q)[i] /\ Clears(f)[i] = Clears(q)[i]
  <2>1. i \in 1..Len(f) /\ Cut(q[i], f[i]) /\ q[i] \in Attempt
    BY <1>1 DEF CutOrNew, Runs
  <2>2. /\ Ended(f[i]) <=> Ended(q[i])
        /\ f[i].award = q[i].award /\ f[i].cleared = q[i].cleared
    BY <2>1 DEF Cut, Ended, Attempt
  <2>3. QED
    BY <2>1, <2>2 DEF Awards, Clears
<1>4. Len(f) = Len(q) + 1 => Awards(f)[Len(f)] = 0 /\ Clears(f)[Len(f)] = 0
  <2>1. ASSUME Len(f) = Len(q) + 1 PROVE Len(f) \in 1..Len(f)
    BY <1>1, <2>1
  <2>2. QED
    BY <2>1 DEF Awards, Clears, CutOrNew
<1>5. Total(Awards(f)) = Total(Awards(q))
  BY <1>1, <1>2, <1>3, <1>4, TotalStays
<1>6. Total(Clears(f)) = Total(Clears(q))
  BY <1>1, <1>2, <1>3, <1>4, TotalStays
<1>7. QED
  BY <1>5, <1>6

(* A running attempt that is scored adds its award and its clear. *)
LEMMA ScoreAddsToTotals ==
  ASSUME NEW q, Runs(q), NEW f, Runs(f), NEW p,
         NEW award \in Nat, NEW cleared \in BOOLEAN, Scored(q, f, p, award, cleared)
  PROVE  /\ Total(Awards(f)) = Total(Awards(q)) + award
         /\ Total(Clears(f)) = Total(Clears(q)) + (IF cleared THEN 1 ELSE 0)
<1> DEFINE count == IF cleared THEN 1 ELSE 0
<1>1. /\ Len(Awards(q)) = Len(q) /\ Len(Clears(q)) = Len(q)
      /\ Len(Awards(f)) = Len(q) /\ Len(Clears(f)) = Len(q)
      /\ \A i \in 1..Len(q) : Awards(q)[i] \in Int /\ Clears(q)[i] \in Int
  BY LedgerTypes DEF Scored
<1>2. ASSUME NEW i \in 1..Len(q), i # p
      PROVE  Awards(f)[i] = Awards(q)[i] /\ Clears(f)[i] = Clears(q)[i]
  <2>1. i \in 1..Len(f) /\ Cut(q[i], f[i]) /\ q[i] \in Attempt
    BY <1>2 DEF Scored, Runs
  <2>2. /\ Ended(f[i]) <=> Ended(q[i])
        /\ f[i].award = q[i].award /\ f[i].cleared = q[i].cleared
    BY <2>1 DEF Cut, Ended, Attempt
  <2>3. QED
    BY <2>1, <2>2 DEF Awards, Clears
<1>3. /\ Awards(q)[p] = 0 /\ Awards(f)[p] = award
      /\ Clears(q)[p] = 0 /\ Clears(f)[p] = count
  <2>1. q[p] \in Attempt /\ p \in 1..Len(q) /\ p \in 1..Len(f)
    BY DEF Scored, Runs
  <2>2. Ended(f[p]) /\ f[p].award = award /\ f[p].cleared = cleared /\ ~Ended(q[p])
    BY <2>1 DEF Scored, Ended, Attempt
  <2>3. QED
    BY <2>1, <2>2 DEF Awards, Clears
<1> HIDE DEF count
<1>4. count \in Int /\ award \in Int /\ p \in 1..Len(q) /\ Len(q) \in Nat
  BY DEF count, Scored, Runs
<1>5. Shifted(Awards(q), Awards(f), Len(q), p, award)
  BY <1>1, <1>2, <1>3, <1>4 DEF Shifted
<1>6. Shifted(Clears(q), Clears(f), Len(q), p, count)
  BY <1>1, <1>2, <1>3, <1>4 DEF Shifted
<1>7. Total(Awards(f)) = Total(Awards(q)) + award
  BY <1>1, <1>4, <1>5, TotalsDiffer
<1>8. Total(Clears(f)) = Total(Clears(q)) + count
  BY <1>1, <1>4, <1>6, TotalsDiffer
<1>9. QED
  BY <1>7, <1>8 DEF count

(* No attempts have no total. *)
LEMMA NoTotal ==
  ASSUME NEW w, Len(w) = 0
  PROVE  Total(w) = 0
<1>1. PICK sum : Sums(sum, w, Len(w)) /\ Total(w) = sum[Len(w)]
  BY TotalIsLastSum
<1>2. QED
  BY <1>1 DEF Sums

Ledger(r) ==
  \A s \in Side : /\ r.scores[s] = Total(Awards(r.attempts[s]))
                  /\ r.clears[s] = Total(Clears(r.attempts[s]))

LEMMA SameRunsKeepLedger ==
  ASSUME NEW r \in Round, NEW f \in Round, SameRuns(r, f), Ledger(r)
  PROVE  Ledger(f)
<1>1. ASSUME NEW s \in Side
      PROVE  /\ Total(Awards(f.attempts[s])) = Total(Awards(r.attempts[s]))
             /\ Total(Clears(f.attempts[s])) = Total(Clears(r.attempts[s]))
  <2>1. Runs(r.attempts[s]) /\ Runs(f.attempts[s])
    BY RunsOfRound
  <2>2. CutOrNew(r.attempts[s], f.attempts[s])
    BY <2>1 DEF SameRuns, CutOrNew, Runs
  <2>3. QED
    BY <2>1, <2>2, CutKeepsTotals
<1>2. QED
  BY <1>1 DEF SameRuns, Ledger

LEMMA OneMoreRunKeepsLedger ==
  ASSUME NEW r \in Round, NEW f \in Round, NEW side \in Side, NEW at \in Int,
         OneMoreRun(r, f, side, at), Ledger(r)
  PROVE  Ledger(f)
<1>1. ASSUME NEW s \in Side
      PROVE  /\ Total(Awards(f.attempts[s])) = Total(Awards(r.attempts[s]))
             /\ Total(Clears(f.attempts[s])) = Total(Clears(r.attempts[s]))
  <2>1. Runs(r.attempts[s]) /\ Runs(f.attempts[s])
    BY RunsOfRound
  <2>2. CutOrNew(r.attempts[s], f.attempts[s])
    <3>1. CASE s = side
      <4>1. Len(f.attempts[s]) = Len(r.attempts[s]) + 1
        BY <3>1 DEF OneMoreRun
      <4>2. ~Ended(f.attempts[s][Len(f.attempts[s])])
        BY <3>1, <4>1 DEF OneMoreRun, Ended
      <4>3. \A i \in 1..Len(r.attempts[s]) : Cut(r.attempts[s][i], f.attempts[s][i])
        BY DEF OneMoreRun
      <4>4. Len(f.attempts[s]) \in {Len(r.attempts[s]), Len(r.attempts[s]) + 1}
        BY <4>1
      <4>5. QED
        BY <4>2, <4>3, <4>4, Zenon DEF CutOrNew
    <3>2. CASE s # side
      <4>1. Len(f.attempts[s]) = Len(r.attempts[s]) + 0
        BY <3>2 DEF OneMoreRun
      <4>2. /\ Len(f.attempts[s]) = Len(r.attempts[s])
            /\ Len(f.attempts[s]) # Len(r.attempts[s]) + 1
        BY <2>1, <4>1 DEF Runs
      <4>3. \A i \in 1..Len(r.attempts[s]) : Cut(r.attempts[s][i], f.attempts[s][i])
        BY DEF OneMoreRun
      <4>4. QED
        BY <4>2, <4>3 DEF CutOrNew
    <3>3. QED
      BY <3>1, <3>2
  <2>3. QED
    BY <2>1, <2>2, CutKeepsTotals
<1>2. QED
  BY <1>1 DEF OneMoreRun, Ledger

LEMMA RunScoredKeepsLedger ==
  ASSUME NEW r \in Round, NEW f \in Round, NEW side \in Side, NEW i, NEW award \in Nat,
         NEW cleared \in BOOLEAN, RunScored(r, f, side, i, award, cleared), Ledger(r)
  PROVE  Ledger(f)
<1>1. \A s \in Side : Runs(r.attempts[s]) /\ Runs(f.attempts[s])
  BY RunsOfRound
<1>2. /\ Total(Awards(f.attempts[side])) = Total(Awards(r.attempts[side])) + award
      /\ Total(Clears(f.attempts[side]))
           = Total(Clears(r.attempts[side])) + (IF cleared THEN 1 ELSE 0)
  <2>1. Scored(r.attempts[side], f.attempts[side], i, award, cleared)
    BY DEF RunScored, Scored
  <2>2. QED
    BY <1>1, <2>1, ScoreAddsToTotals
<1>3. ASSUME NEW s \in Side, s # side
      PROVE  /\ Total(Awards(f.attempts[s])) = Total(Awards(r.attempts[s]))
             /\ Total(Clears(f.attempts[s])) = Total(Clears(r.attempts[s]))
  <2>1. CutOrNew(r.attempts[s], f.attempts[s])
    BY <1>1, <1>3 DEF RunScored, CutOrNew, Runs
  <2>2. QED
    BY <1>1, <2>1, CutKeepsTotals
<1>4. /\ r.scores \in [Side -> Nat] /\ r.clears \in [Side -> Nat]
      /\ f.scores = [r.scores EXCEPT ![side] = @ + award]
      /\ f.clears = [r.clears EXCEPT ![side] = @ + (IF cleared THEN 1 ELSE 0)]
  BY DEF RunScored, Round
<1>5. QED
  BY <1>2, <1>3, <1>4 DEF Ledger

(* The committed scores and clears are the sums over the attempts that ended:
   no operation counts an End twice or leaves a trace of one cut short. *)
THEOREM RoundLedgerMatchesAttempts == Spec => []LedgerMatchesAttempts
<1>1. Init => Ledger(round)
  <2>1. SUFFICES ASSUME Init, NEW s \in Side
                 PROVE  /\ round.scores[s] = Total(Awards(round.attempts[s]))
                        /\ round.clears[s] = Total(Clears(round.attempts[s]))
    BY DEF Ledger
  <2>2. round.attempts[s] = <<>> /\ round.scores[s] = 0 /\ round.clears[s] = 0
    BY <2>1 DEF Init, CreateRound
  <2>3. Len(Awards(<<>>)) = 0 /\ Len(Clears(<<>>)) = 0
    <3>1. Runs(<<>>) /\ Len(<<>>) = 0
      BY DEF Runs
    <3>2. QED
      BY <3>1, LedgerTypes
  <2>4. QED
    BY <2>2, <2>3, NoTotal
<1>2. ASSUME IInv, Ledger(round), Next PROVE Ledger(round')
  <2>1. round \in Round /\ round' \in Round
    BY <1>2, StepConsistent DEF IInv, Consistent, Body
  <2>2. CASE SameRuns(round, round')
    BY <1>2, <2>1, <2>2, SameRunsKeepLedger
  <2>3. CASE \E side \in Side, at \in Int : OneMoreRun(round, round', side, at)
    BY <1>2, <2>1, <2>3, OneMoreRunKeepsLedger
  <2>4. ASSUME NEW side \in Side, NEW i, NEW at \in Int, NEW award \in Nat,
               NEW cleared \in BOOLEAN,
               SameRuns(round, AdvanceRoundClock(round, at)),
               RunScored(AdvanceRoundClock(round, at), round', side, i, award, cleared)
        PROVE  Ledger(round')
    <3>1. AdvanceRoundClock(round, at) \in Round
      BY <2>1, AdvanceType
    <3>2. Ledger(AdvanceRoundClock(round, at))
      BY <1>2, <2>1, <2>4, <3>1, SameRunsKeepLedger
    <3>3. QED
      BY <2>1, <2>4, <3>1, <3>2, RunScoredKeepsLedger
  <2>5. QED
    BY <1>2, <2>2, <2>3, <2>4, StepRuns
<1>3. Init => LedgerMatchesAttempts
  BY <1>1 DEF Ledger, LedgerMatchesAttempts
<1>4. IInv /\ LedgerMatchesAttempts /\ [Next]_round => LedgerMatchesAttempts'
  BY <1>2 DEF Ledger, LedgerMatchesAttempts
<1>5. QED
  BY <1>3, <1>4, RoundInvariant, PTL DEF Spec

=============================================================================
