---------------------------- MODULE SurvivalRules ----------------------------
(***************************************************************************)
(* The reducer of an online Survival match as pure functions on the match  *)
(* snapshot: packages/rules/src/survival-match.ts.  The server applies     *)
(* them inside a transaction that holds the match row.                     *)
(*                                                                         *)
(* Time is kept as the number of deadlines of the present state that have  *)
(* passed, m.age:                                                          *)
(*   intro           1 the vote opens, 2 the plain intro is over (6 s),    *)
(*                   3 the vote closes, 4 its outro is over                *)
(*   PREPARING       1 the deadline (15 s), 2 the grace of those who all   *)
(*                   wait (60 s)                                           *)
(*   ENTERING        1 entry opens, 2 the entry deadline                   *)
(*   COUNTDOWN, PLAYING   1 startsAt, 2 endsAt                             *)
(*   ROUND_RESULT    1 the result has been shown (SURVIVAL_RESULT_MS)      *)
(*                                                                         *)
(* Progress is counted in half percents, enough to tell a raw percentage   *)
(* (normal rounds) from the exact score of a Death Match.                  *)
(***************************************************************************)
EXTENDS Integers, Sequences, FiniteSets

CONSTANTS
  Humans, Bots,      (* the entrants                                        *)
  Targets,           (* survivalOnlineTargets: the cutoffs of the rounds    *)
  TiebreakAttempts,  (* config.tiebreakAttempts                             *)
  MaxRerolls,        (* rerolls of a round's map before the match ends: 3   *)
  NoOne              (* no winner, no map                                   *)

Players == Humans \cup Bots

ASSUME EntrantsAssumption ==
  /\ Humans \cap Bots = {} /\ NoOne \notin Players
  /\ IsFiniteSet(Players) /\ Cardinality(Players) >= 2 /\ Humans # {}
ASSUME FormatAssumption ==
  /\ Targets \in Seq(Nat \ {0})
  /\ \A i, j \in DOMAIN Targets : i < j => Targets[i] > Targets[j]
  /\ TiebreakAttempts \in Nat \ {0} /\ MaxRerolls \in Nat

Final    == Len(Targets) + 1
Tiebreak == Len(Targets) + 2
Phases   == 1..Tiebreak
States   == {"MAP_SELECTION", "PREPARING", "ENTERING", "COUNTDOWN", "PLAYING",
             "ROUND_RESULT", "FINAL_RESULT", "CANCELLED"}

TargetOf(phase) == IF phase < Final THEN Targets[phase] ELSE 1

(* The first phase from i on that can eliminate one of count players. *)
PhaseFrom(i, count) ==
  CHOOSE p \in i..Final :
    /\ p = Final \/ Targets[p] < count
    /\ \A q \in i..(p - 1) : Targets[q] >= count

NextPhase(phase, count) ==
  IF phase >= Final THEN Tiebreak ELSE PhaseFrom(phase + 1, count)

-----------------------------------------------------------------------------
(* Reading a match *)

Terminal(m)     == m.state \in {"FINAL_RESULT", "CANCELLED"}
InMatch(m)      == {p \in Players : m.stage[p] = 0}
Active(m)       == m.players \ m.forfeited
EntryPlayers(m) == Active(m) \ (m.absent \cup m.deferred)
Qualified(m)    == (m.qualified \ m.forfeited) \cap InMatch(m)

RoundScore(m, p) ==
  IF m.phase = Tiebreak THEN m.best[p] ELSE m.best[p] \div 2

(* All of p's attempts of a Death Match are used and over. *)
Spent(m, p) == m.used[p] >= TiebreakAttempts /\ p \notin m.open

(* survivalIntroEndsAt has passed.  A vote that everyone cast early leaves
   nothing to wait for but the plain intro and the outro: the clock then goes
   straight to 4, see Moments. *)
IntroOver(m) == m.age = 4

(* The deadlines that may be the next to pass in this state. *)
Moments(m) ==
  CASE m.gate = "INTRO" /\ m.age = 1 /\ m.resolved -> {2, 4}
    [] m.gate = "INTRO" /\ m.age = 2 /\ m.resolved -> {4}
    [] m.gate = "INTRO" /\ m.age < 4               -> {m.age + 1}
    [] m.state \in {"PREPARING", "ENTERING", "COUNTDOWN", "PLAYING"}
         /\ m.age < 2                              -> {m.age + 1}
    [] m.state = "ROUND_RESULT" /\ m.age < 1       -> {1}
    [] OTHER                                       -> {}

(* What a chosen map is for: survivalMapSelectionTarget. *)
MapTarget(m) ==
  IF m.state = "MAP_SELECTION" /\ m.resolved /\ m.map = NoOne
  THEN [ordinal |-> m.ordinal, gen |-> m.gen, phase |-> m.phase]
  ELSE IF m.state = "ROUND_RESULT" /\ m.nextMap = NoOne
  THEN [ordinal |-> m.ordinal + 1, gen |-> 1,
        phase |-> NextPhase(m.phase, Cardinality(Qualified(m)))]
  ELSE NoOne

-----------------------------------------------------------------------------
(* Rounds and results *)

Enter(m, state) == [m EXCEPT !.state = state, !.age = 0]

(* addRound: a map that was prefetched for exactly this round is adopted. *)
StartRound(m, ordinal, phase, players) ==
  LET r == [m EXCEPT
        !.state = "MAP_SELECTION", !.age = 0, !.gate = "NONE",
        !.ordinal = ordinal, !.phase = phase, !.gen = 1, !.rerolls = 0,
        !.players = players, !.forfeited = {}, !.ready = {}, !.failed = {},
        !.absent = {}, !.deferred = {}, !.entered = {}, !.firstEntered = FALSE,
        !.open = {}, !.used = [p \in Players |-> 0],
        !.best = [p \in Players |-> 0], !.qualified = {}, !.finished = FALSE,
        !.map = NoOne, !.nextMap = NoOne]
  IN IF m.nextMap = [ordinal |-> ordinal, gen |-> 1, phase |-> phase]
     THEN [Enter(r, "PREPARING") EXCEPT !.map = m.nextMap]
     ELSE r

(* createSurvivalMatch, with the presentation gate and the difficulty vote that
   createWithin adds to an online match. *)
NewMatch ==
  [state |-> "MAP_SELECTION", age |-> 0, gate |-> "INTRO",
   votes |-> {}, resolved |-> FALSE,
   ordinal |-> 1, phase |-> PhaseFrom(1, Cardinality(Players)), gen |-> 1,
   rerolls |-> 0, players |-> Players, forfeited |-> {}, ready |-> {},
   failed |-> {}, absent |-> {}, deferred |-> {}, entered |-> {},
   firstEntered |-> FALSE, open |-> {}, used |-> [p \in Players |-> 0],
   best |-> [p \in Players |-> 0], qualified |-> {}, finished |-> FALSE,
   map |-> NoOne, nextMap |-> NoOne,
   stage |-> [p \in Players |-> 0], score |-> [p \in Players |-> 0],
   fixed |-> [p \in Players |-> 0], rank |-> [p \in Players |-> 0],
   winner |-> NoOne]

(* The order of survivalStabilizeOnlineRanks: the later stage first, in a stage
   those who surrendered last, then the better score. *)
Ahead(m, q, p) ==
  \/ m.stage[q] > m.stage[p]
  \/ /\ m.stage[q] = m.stage[p]
     /\ \/ m.fixed[q] = 0 /\ m.fixed[p] # 0
        \/ (m.fixed[q] = 0) = (m.fixed[p] = 0) /\ m.score[q] > m.score[p]

RankOf(m, p) ==
  1 + Cardinality(InMatch(m))
    + Cardinality({q \in Players \ InMatch(m) : Ahead(m, q, p)})

(* Bug: the floor of a surrender is forgotten when its round closes. *)
BugStabilizeForgetsFloor(m) ==
  [m EXCEPT !.rank = [p \in Players |->
     IF m.stage[p] # 0 /\ (m.stage[p] < m.ordinal \/ m.finished)
     THEN RankOf(m, p) ELSE m.rank[p]]]

Stabilize(m) ==
  [m EXCEPT !.rank = [p \in Players |->
     IF m.stage[p] = 0     THEN m.rank[p]
     ELSE IF m.fixed[p] # 0 THEN m.fixed[p]
     ELSE IF m.stage[p] < m.ordinal \/ m.finished \/ m.state = "FINAL_RESULT"
     THEN RankOf(m, p) ELSE m.rank[p]]]

FinishMatch(m, winner) ==
  IF winner = NoOne
  THEN [Enter(m, "CANCELLED") EXCEPT !.gate = "NONE"]
  ELSE LET over == [Enter(m, "FINAL_RESULT") EXCEPT !.gate = "NONE",
                                                    !.winner = winner]
       IN [Stabilize(over) EXCEPT !.rank[winner] = 1]

Eliminate(m, out) ==
  [m EXCEPT
     !.stage = [p \in Players |-> IF p \in out /\ @[p] = 0 THEN m.ordinal ELSE @[p]],
     !.score = [p \in Players |->
                  IF p \in out /\ m.stage[p] = 0 THEN RoundScore(m, p) ELSE @[p]],
     !.qualified = @ \ out]

(* The score of the last place that goes on, of the active players' scores. *)
Cutoff(m) ==
  LET places == IF TargetOf(m.phase) < Cardinality(Active(m))
                THEN TargetOf(m.phase) ELSE Cardinality(Active(m))
  IN CHOOSE s \in {RoundScore(m, p) : p \in Active(m)} :
       /\ Cardinality({p \in Active(m) : RoundScore(m, p) > s}) < places
       /\ Cardinality({p \in Active(m) : RoundScore(m, p) >= s}) >= places

(* The players at the cutoff go on with those above it. *)
Passing(m) == {p \in Active(m) : RoundScore(m, p) >= Cutoff(m)}

FinishRound(m) ==
  LET closed == [m EXCEPT !.open = {}, !.finished = TRUE, !.qualified = Passing(m)]
      out    == Eliminate(closed, Active(m) \ Passing(m))
  IN IF Cardinality(Passing(m)) = 1
     THEN FinishMatch(out, CHOOSE p \in Passing(m) : TRUE)
     ELSE [Enter(Stabilize(out), "ROUND_RESULT") EXCEPT !.gate = "ROUND_RESULT"]

Reroll(m) ==
  IF m.rerolls >= MaxRerolls THEN FinishMatch([m EXCEPT !.rerolls = @ + 1], NoOne)
  ELSE [Enter(m, "MAP_SELECTION") EXCEPT
          !.rerolls = @ + 1, !.gen = @ + 1, !.map = NoOne, !.ready = {},
          !.failed = {}, !.entered = {}, !.deferred = {}, !.firstEntered = FALSE]

(* survivorsOrEnd: the last one who did not give up wins. *)
LastOneWins(m) ==
  FinishMatch([m EXCEPT !.finished = TRUE, !.qualified = Active(m)],
              IF Active(m) = {} THEN NoOne ELSE CHOOSE p \in Active(m) : TRUE)

-----------------------------------------------------------------------------
(* advanceTimers: evaluated before every command *)

ResolveVote(m) == IF m.gate = "INTRO" /\ m.age >= 3 THEN [m EXCEPT !.resolved = TRUE] ELSE m

LiftGate(m) ==
  IF \/ m.gate = "INTRO" /\ IntroOver(m)
     \/ m.gate = "ROUND_RESULT" /\ m.finished /\ m.age >= 1
  THEN [m EXCEPT !.gate = "NONE", !.age = IF m.gate = "INTRO" THEN 0 ELSE @]
  ELSE m

OpenPreparation(m) ==
  IF m.state = "MAP_SELECTION" /\ m.map # NoOne /\ m.gate # "INTRO"
  THEN Enter(m, "PREPARING") ELSE m

AllPresent(m, done) == EntryPlayers(m) # {} /\ EntryPlayers(m) \subseteq done

PresentBarriers(m) ==
  LET prepared == IF m.state = "PREPARING" /\ AllPresent(m, m.ready)
                  THEN Enter(m, "ENTERING") ELSE m
  IN IF prepared.state = "ENTERING" /\ AllPresent(prepared, prepared.entered)
     THEN Enter(prepared, "COUNTDOWN") ELSE prepared

(* Bug: whoever missed the deadline is not marked as late. *)
BugDeferNobody(m, done) == m

(* forfeitUnready, online: a late download is not a surrender. *)
DeferExcept(m, done) == [m EXCEPT !.deferred = @ \cup (Active(m) \ done)]

PreparationDeadline(m) ==
  IF ~(m.state = "PREPARING" /\ m.age >= 1) THEN m
  ELSE IF Active(m) \cap m.ready = {} /\ EntryPlayers(m) # {}
  THEN IF m.age < 2 /\ ~(Active(m) \subseteq m.failed) THEN m ELSE Reroll(m)
  ELSE Enter(DeferExcept(m, m.ready), "ENTERING")

(* Bug: the deadline counts from the first entry only. *)
BugEntryDeadline(m) ==
  IF m.state # "ENTERING" THEN m
  ELSE IF EntryPlayers(m) = {} THEN Enter(m, "COUNTDOWN")
  ELSE IF m.age < 2 \/ ~m.firstEntered THEN m
  ELSE Enter(DeferExcept(m, m.entered), "COUNTDOWN")

EntryDeadline(m) ==
  IF m.state # "ENTERING" THEN m
  ELSE IF EntryPlayers(m) = {} THEN Enter(m, "COUNTDOWN")
  ELSE IF m.age < 2 THEN m
  ELSE IF ~m.firstEntered THEN Reroll(m)
  ELSE Enter(DeferExcept(m, m.entered), "COUNTDOWN")

PlayClock(m) ==
  LET playing == IF m.state = "COUNTDOWN" /\ m.age >= 1
                 THEN [m EXCEPT !.state = "PLAYING"] ELSE m
  IN IF playing.state = "PLAYING" /\ playing.age >= 2
     THEN FinishRound(playing) ELSE playing

AdvanceTimers(m) ==
  PlayClock(EntryDeadline(PreparationDeadline(
    PresentBarriers(OpenPreparation(LiftGate(ResolveVote(m)))))))

-----------------------------------------------------------------------------
(* reduceSurvivalMatch *)

(* TICK: a finished round stays visible until a later tick. *)
ReduceTick(m) ==
  LET t == AdvanceTimers(m) IN
  IF Terminal(m) THEN m
  ELSE IF m.state = "ROUND_RESULT" /\ t.gate # "ROUND_RESULT"
  THEN StartRound(t, t.ordinal + 1,
         NextPhase(t.phase, Cardinality(Qualified(t))), Qualified(t))
  ELSE t

(* A timer that moves the match makes the packet read-only. *)
Concerns(m, t) ==
  /\ ~Terminal(t)
  /\ t.state = m.state \/ (m.state = "COUNTDOWN" /\ t.state = "PLAYING")

(* What the reducer does not refuse; m is the match the timers left. *)
Taken(m, c) ==
  LET p == c.who
      late == p \in m.absent \cup m.deferred
  IN CASE c.type = "DIFFICULTY_VOTE" ->
            /\ ~m.resolved /\ m.gate = "INTRO" /\ m.age \in {1, 2}
            /\ p \in Humans \ m.votes
       [] c.type = "PRESENTATION_COMPLETE" -> m.gate = "NONE"
       [] c.type = "FORFEIT" ->
            p \in Active(m) \ m.qualified /\ m.state # "ROUND_RESULT"
       [] c.type = "ASSETS_READY" ->
            /\ m.map # NoOne /\ p \in Active(m) \ m.ready
            /\ \/ m.state = "PREPARING"
               \/ late /\ m.state \in {"ENTERING", "COUNTDOWN", "PLAYING"}
       [] c.type = "PREPARATION_FAILED" ->
            /\ m.map # NoOne /\ p \in Active(m) \ m.ready
            /\ m.state \in {"PREPARING", "ENTERING"}
       [] c.type = "ENTERED" ->
            /\ m.map # NoOne /\ p \in (Active(m) \cap m.ready) \ m.entered
            /\ \/ m.state = "ENTERING" /\ m.age >= 1
               \/ late /\ m.state \in {"COUNTDOWN", "PLAYING"}
       [] c.type = "ATTEMPT_START" ->
            /\ m.state = "PLAYING" /\ ~late
            /\ p \in (Active(m) \cap m.ready \cap m.entered) \ m.open
            /\ m.phase = Tiebreak => m.used[p] < TiebreakAttempts
       [] c.type \in {"PROGRESS", "ATTEMPT_END"} ->
            m.state = "PLAYING" /\ p \in Active(m) \cap m.open

(* Bug: an attempt that still runs counts as used. *)
BugCloseWhenStarted(m) ==
  IF m.phase = Tiebreak /\ \A p \in Active(m) : m.used[p] >= TiebreakAttempts
  THEN FinishRound(m) ELSE m

(* A Death Match closes early once every active player used its attempts. *)
CloseWhenSpent(m) ==
  IF m.phase = Tiebreak /\ \A p \in Active(m) : Spent(m, p)
  THEN FinishRound(m) ELSE m

BeginAttempt(m, p) ==
  [m EXCEPT !.open = @ \cup {p},
            !.used[p] = IF m.phase = Tiebreak THEN @ + 1 ELSE @]

RecordAttempt(m, p, progress, ended) ==
  CloseWhenSpent(
    [m EXCEPT !.best[p] = IF progress > @ THEN progress ELSE @,
              !.open = IF ended THEN @ \ {p} ELSE @])

(* Bug: the last place among those who are still in the round. *)
BugSurrender(m, p) ==
  LET floor == Cardinality(Active(m))
      gone  == Eliminate([m EXCEPT !.forfeited = @ \cup {p}, !.open = @ \ {p}], {p})
      out   == [gone EXCEPT !.fixed[p] = floor, !.rank[p] = floor]
  IN IF Cardinality(Active(out)) <= 1 THEN LastOneWins(out) ELSE out

(* A surrender takes the last place of its round, at once and for good. *)
Surrender(m, p) ==
  LET floor == Cardinality(m.players)
      gone  == Eliminate([m EXCEPT !.forfeited = @ \cup {p}, !.open = @ \ {p}], {p})
      out   == [gone EXCEPT !.fixed[p] = floor, !.rank[p] = floor]
  IN IF Cardinality(Active(out)) <= 1 THEN LastOneWins(out)
     ELSE IF out.state = "PREPARING" /\ Active(out) \subseteq out.ready
     THEN Enter(out, "ENTERING")
     ELSE IF out.state = "ENTERING" /\ Active(out) \subseteq out.entered
     THEN Enter(out, "COUNTDOWN")
     ELSE IF out.state = "PLAYING" THEN CloseWhenSpent(out) ELSE out

EnterScene(m, p) ==
  LET in == [m EXCEPT !.entered = @ \cup {p}, !.absent = @ \ {p},
                      !.deferred = @ \ {p}, !.firstEntered = TRUE]
  IN IF in.state = "ENTERING" /\ EntryPlayers(in) \subseteq in.entered
     THEN Enter(in, "COUNTDOWN") ELSE in

MakeReady(m, p) ==
  LET in == [m EXCEPT !.ready = @ \cup {p}, !.failed = @ \ {p}]
  IN IF in.state = "PREPARING" /\ EntryPlayers(in) \subseteq in.ready
     THEN Enter(in, "ENTERING") ELSE in

ReportFailure(m, p) ==
  LET in == [m EXCEPT !.failed = @ \cup {p}]
  IN IF Active(in) \subseteq in.failed THEN Reroll(in) ELSE in

CastVote(m, p) ==
  LET in == [m EXCEPT !.votes = @ \cup {p}]
  IN [in EXCEPT !.resolved = Humans \subseteq in.votes]

Effect(m, c) ==
  CASE c.type = "DIFFICULTY_VOTE"       -> CastVote(m, c.who)
    [] c.type = "PRESENTATION_COMPLETE" -> m
    [] c.type = "FORFEIT"               -> Surrender(m, c.who)
    [] c.type = "ASSETS_READY"          -> MakeReady(m, c.who)
    [] c.type = "PREPARATION_FAILED"    -> ReportFailure(m, c.who)
    [] c.type = "ENTERED"               -> EnterScene(m, c.who)
    [] c.type = "ATTEMPT_START"         -> BeginAttempt(m, c.who)
    [] c.type = "PROGRESS"              -> RecordAttempt(m, c.who, c.progress, FALSE)
    [] c.type = "ATTEMPT_END"           -> RecordAttempt(m, c.who, c.progress, TRUE)

Refused(m, c) == LET t == AdvanceTimers(m) IN Concerns(m, t) /\ ~Taken(t, c)

Reduce(m, c) ==
  LET t == AdvanceTimers(m) IN
  IF Terminal(m) THEN m ELSE IF Concerns(m, t) THEN Effect(t, c) ELSE t

(* MAP_SELECTED and NEXT_MAP_SELECTED; target is the one of this very match. *)
InstallMap(m, target) ==
  LET t == AdvanceTimers(m) IN
  IF ~Concerns(m, t) THEN t
  ELSE IF t.state = "ROUND_RESULT" THEN [t EXCEPT !.nextMap = target]
  ELSE IF t.gate = "INTRO" THEN [t EXCEPT !.map = target]
  ELSE [Enter(t, "PREPARING") EXCEPT !.map = target]

(* MAP_SUPPLY_FAILED *)
GiveUpOnMaps(m) ==
  LET t == AdvanceTimers(m) IN
  IF Concerns(m, t) THEN FinishMatch(t, NoOne) ELSE t

(* MAP_INVALIDATED *)
InvalidateMap(m) ==
  LET t == AdvanceTimers(m) IN
  IF Concerns(m, t) THEN Reroll(t) ELSE t

=============================================================================
