---------------------------- MODULE SurvivalMatch ----------------------------
(***************************************************************************)
(* One online Survival match in the server: the transactions of            *)
(* survival-engine.service.ts and survival-online.service.ts around the    *)
(* reducer of SurvivalRules, the online adapter (drive) that runs before   *)
(* and after it, the bot driver, the choice of maps, the players' presence *)
(* and their payment.                                                      *)
(*                                                                         *)
(* Every transaction locks the match row, so each is one step.  A handler  *)
(* that runs several transactions (event, then view; view: presence, tick, *)
(* payment) may be cut off between them and other handlers run in between: *)
(* each of its transactions is an action.  A refused command or a failed   *)
(* tick rolls its transaction back and is no step of the match.            *)
(***************************************************************************)
EXTENDS SurvivalRules

CONSTANTS
  Reports,           (* progress that an attempt may report                 *)
  MapFailureLimit,   (* failed selections before the match is given up: 6   *)
  MaxRounds          (* bound: rounds of a match                            *)

ASSUME ServiceAssumption ==
  /\ Reports \subseteq Nat /\ MapFailureLimit \in Nat \ {0}
  /\ MaxRounds \in Nat \ {0}

VARIABLES
  match,       (* sur_matches.snapshot                                      *)
  audio,       (* players who reported the audio of this map as unavailable *)
  job,         (* the map that the selection holding the token looks for    *)
  stray,       (* that of a selection whose token was overtaken             *)
  failures     (* map_failure_count                                         *)

vars == <<match, audio, job, stray, failures>>

Init ==
  /\ match = NewMatch
  /\ audio = {}
  /\ job = NoOne /\ stray = NoOne /\ failures = 0

-----------------------------------------------------------------------------
(* The online adapter: SurvivalOnlineService.drive *)

(* The server lifts the presentation barrier in the name of some human, at the
   time of the plain intro; the reducer refuses while the intro lasts. *)
BarrierDue(m) ==
  /\ Humans \cap InMatch(m) # {}
  /\ \/ m.gate = "INTRO" /\ m.age >= 2
     \/ m.gate = "ROUND_RESULT" /\ m.age >= 1

BarrierRefused(m) ==
  BarrierDue(m) /\ Refused(m, [type |-> "PRESENTATION_COMPLETE"])

LiftBarrier(m) ==
  IF BarrierDue(m) THEN Reduce(m, [type |-> "PRESENTATION_COMPLETE"]) ELSE m

(* A player who is not there is no longer waited for.  gone are those whose
   presence row says so: the session was taken over (recovering), the last poll
   is more than ten seconds old, or, at the deadline, the client has not yet
   confirmed the present round and map. *)
Missing(m, gone) ==
  {p \in (gone \cap Active(m)) \ m.absent :
     \/ m.state = "PREPARING" /\ p \notin m.ready
     \/ m.state = "ENTERING" /\ p \notin m.entered}

MarkAbsent(m, gone) == [m EXCEPT !.absent = @ \cup Missing(m, gone)]

(* Those whose presence the adapter looks at; that of the others is of no
   effect until a later tick. *)
Expected(m) ==
  IF m.state \in {"PREPARING", "ENTERING"}
  THEN (Humans \cap Active(m)) \ (m.absent \cup m.entered) ELSE {}

Waited(m)     == (Humans \cap Active(m)) \ m.absent
ActiveBots(m) == Bots \cap Active(m)
AllFailed(m)  == Waited(m) # {} /\ Waited(m) \subseteq m.failed \ m.ready

(* A command of the bot driver is dated before the deadline that is due. *)
AtLatest(m, age) == [m EXCEPT !.age = IF @ > age THEN age ELSE @]
Redated(m, after) == IF after.state = m.state THEN [after EXCEPT !.age = m.age] ELSE after

(* The bots' own resources are certified before a deadline is applied; with
   every human's preparation failed the bots report the same. *)
BotsRefused(m) ==
  m.state = "PREPARING" /\ AllFailed(m) /\ ActiveBots(m) \cap m.ready # {}

BotsPrepare(m) ==
  LET t == AdvanceTimers(AtLatest(m, 0)) IN
  IF m.state # "PREPARING" \/ ActiveBots(m) = {} THEN m
  ELSE IF t.state # "PREPARING" THEN t
  ELSE IF AllFailed(m)
  THEN LET f == [t EXCEPT !.failed = @ \cup ActiveBots(m)]
       IN IF Active(f) \subseteq f.failed THEN Reroll(f) ELSE Redated(m, f)
  ELSE LET r == [t EXCEPT !.ready = @ \cup ActiveBots(m)]
       IN IF EntryPlayers(r) \subseteq r.ready THEN Enter(r, "ENTERING")
          ELSE Redated(m, r)

(* Bots enter once some human has, or when no human is waited for. *)
BotsEnter(m) ==
  LET t == AdvanceTimers(AtLatest(m, 1)) IN
  IF \/ m.state # "ENTERING" \/ m.age < 1 \/ ActiveBots(m) = {}
     \/ Waited(m) # {} /\ Waited(m) \cap m.entered = {} THEN m
  ELSE IF t.state # "ENTERING" THEN t
  ELSE LET e == [t EXCEPT !.entered = @ \cup ActiveBots(m), !.firstEntered = TRUE,
                          !.deferred = @ \ ActiveBots(m)]
       IN IF EntryPlayers(e) \subseteq e.entered THEN Enter(e, "COUNTDOWN")
          ELSE Redated(m, e)

BotsStart(m) ==
  IF m.state = "COUNTDOWN" /\ m.age >= 1 THEN [m EXCEPT !.state = "PLAYING"] ELSE m

Drive(m, gone) ==
  IF Terminal(m) THEN m
  ELSE BotsStart(BotsEnter(BotsPrepare(MarkAbsent(LiftBarrier(m), gone))))

DriveRefused(m, gone) ==
  /\ ~Terminal(m)
  /\ BarrierRefused(m) \/ BotsRefused(MarkAbsent(LiftBarrier(m), gone))

-----------------------------------------------------------------------------
(* SurvivalEngineService *)

Context(m) == <<m.ordinal, m.gen>>
Bounded(m) == m.ordinal <= MaxRounds

(* A transaction leaves m; what was reported about another map, or about one
   that is already played, is void. *)
Commit(m, reporters) ==
  /\ Bounded(m)
  /\ match' = m
  /\ audio' = IF /\ Context(m) = Context(match)
                 /\ m.state \in {"PREPARING", "ENTERING"} THEN reporters ELSE {}

Ticked(gone) == Drive(ReduceTick(Drive(match, gone)), gone)

TickTaken(gone) ==
  /\ ~Terminal(match)
  /\ ~DriveRefused(match, gone) /\ ~DriveRefused(ReduceTick(Drive(match, gone)), gone)

Tick(gone) ==
  /\ TickTaken(gone)
  /\ Commit(Ticked(gone), audio)
  /\ UNCHANGED <<job, stray, failures>>

(* reportSurvivalAudioFailure: two accounts invalidate the map. *)
Reporters(c) ==
  IF c.type = "PREPARATION_FAILED" /\ c.audio THEN audio \cup {c.who} ELSE audio

AudioChecked(m, c) ==
  IF /\ c.type = "PREPARATION_FAILED" /\ c.audio
     /\ Context(m) = Context(match) /\ m.state \in {"PREPARING", "ENTERING"}
     /\ c.who \in Active(m) \ m.ready
     /\ Cardinality(Reporters(c) \cap InMatch(m)) >= 2
  THEN InvalidateMap(m) ELSE m

Reduced(c, gone) == AudioChecked(Reduce(Drive(match, gone), c), c)

(* dispatch commits the command of an active participant. *)
Accepted(c, gone) ==
  /\ ~Terminal(match) /\ c.who \in InMatch(match)
  /\ ~DriveRefused(match, gone) /\ ~Refused(Drive(match, gone), c)
  /\ ~DriveRefused(Reduced(c, gone), gone)

Dispatch(c, gone) ==
  /\ Accepted(c, gone)
  /\ Commit(Drive(Reduced(c, gone), gone), Reporters(c))
  /\ UNCHANGED <<job, stray, failures>>

Command(p) ==
  [who : {p}, type : {"DIFFICULTY_VOTE", "PRESENTATION_COMPLETE", "FORFEIT",
                      "ASSETS_READY", "ENTERED", "ATTEMPT_START"}]
  \cup [who : {p}, type : {"PREPARATION_FAILED"}, audio : BOOLEAN]
  \cup [who : {p}, type : {"PROGRESS", "ATTEMPT_END"}, progress : Reports]

(* applySurvivalBotFrames: what the simulation has a bot do next. *)
BotFrame(b) ==
  /\ match.state = "PLAYING" /\ match.age < 2 /\ b \in ActiveBots(match)
  /\ \E c \in {x \in Command(b) : x.type \in {"ATTEMPT_START", "PROGRESS", "ATTEMPT_END"}} :
       Taken(match, c) /\ Commit(Effect(match, c), audio)
  /\ UNCHANGED <<job, stray, failures>>

-----------------------------------------------------------------------------
(* selectMap *)

BeginSelection ==
  /\ job = NoOne /\ MapTarget(match) # NoOne
  /\ job' = MapTarget(match)
  /\ UNCHANGED <<match, audio, stray, failures>>

(* The deadline of a selection passes while it is still at work, or its process
   is gone: another may begin. *)
OvertakeSelection ==
  /\ job # NoOne /\ stray = NoOne
  /\ stray' = job /\ job' = NoOne
  /\ UNCHANGED <<match, audio, failures>>

(* Bug: the map is installed although it was looked for before a reroll. *)
BugConfirms(found, holdsToken) == MapTarget(match) # NoOne

(* The lock is taken again: the search took minutes. *)
Confirms(found, holdsToken) == holdsToken /\ MapTarget(match) = found

Install(found, holdsToken) ==
  IF Confirms(found, holdsToken)
  THEN Commit(InstallMap(match, found), audio) /\ failures' = 0
  ELSE UNCHANGED <<match, audio, failures>>

FailSelection(holdsToken) ==
  LET count == IF holdsToken THEN failures + 1 ELSE failures IN
  /\ failures' = IF count > MapFailureLimit THEN MapFailureLimit ELSE count
  /\ IF count >= MapFailureLimit /\ match.state = "MAP_SELECTION"
     THEN Commit(GiveUpOnMaps(match), audio) ELSE UNCHANGED <<match, audio>>

EndSelection ==
  /\ job # NoOne
  /\ Install(job, TRUE) \/ FailSelection(TRUE)
  /\ job' = NoOne
  /\ UNCHANGED stray

EndStray ==
  /\ stray # NoOne
  /\ Install(stray, FALSE) \/ FailSelection(FALSE)
  /\ stray' = NoOne
  /\ UNCHANGED job

-----------------------------------------------------------------------------
(* The clock *)

Elapse ==
  /\ \E age \in Moments(match) : match' = [match EXCEPT !.age = age]
  /\ UNCHANGED <<audio, job, stray, failures>>

-----------------------------------------------------------------------------
(* settle: what survivalSettlementInputs has for a player, who is paid at any
   time from then on and once *)

HasPrize(m, p) ==
  /\ m.rank[p] # 0
  /\ m.state = "CANCELLED" => m.fixed[p] # 0

(* Those who tie for a place are paid as the last of them. *)
LastPlace(m, p) ==
  IF m.fixed[p] # 0 THEN m.fixed[p]
  ELSE LET tied == Cardinality({q \in Players : m.rank[q] = m.rank[p]})
           last == m.rank[p] + tied - 1
       IN IF last < Cardinality(Players) THEN last ELSE Cardinality(Players)

Prize(m, p) == [rank |-> m.rank[p], last |-> LastPlace(m, p)]

-----------------------------------------------------------------------------
Next ==
  \/ \E gone \in SUBSET Expected(match) :
       Tick(gone) \/ \E p \in Humans : \E c \in Command(p) : Dispatch(c, gone)
  \/ Elapse
  \/ BeginSelection \/ OvertakeSelection \/ EndSelection \/ EndStray
  \/ \E b \in Bots : BotFrame(b)

Spec == Init /\ [][Next]_vars

(* The workers tick every running match, time passes, and a selection that is
   begun again and again ends some time.  Nobody is obliged to be away: a tick is
   due when it changes the match whoever is.  WF of Tick and SF of EndSelection
   have their ENABLED written out as TickDue and as job # NoOne. *)
TickDue ==
  \A gone \in SUBSET Expected(match) :
    TickTaken(gone) /\ Bounded(Ticked(gone)) /\ Ticked(gone) # match

Fairness ==
  /\ []<>(~TickDue) \/ []<><<\E gone \in SUBSET Expected(match) : Tick(gone)>>_vars
  /\ WF_vars(Elapse) /\ WF_vars(BeginSelection)
  /\ <>[](job = NoOne) \/ []<><<EndSelection>>_vars

FairSpec == Spec /\ Fairness

-----------------------------------------------------------------------------
Opening == {"MAP_SELECTION", "PREPARING", "ENTERING"}

\* The match and what is reported about its map keep their shape (SurvivalMatch).
SurvivalTypeOK ==
  /\ match.state \in States /\ match.age \in 0..4
  /\ match.gate \in {"NONE", "INTRO", "ROUND_RESULT"}
  /\ match.ordinal \in 1..MaxRounds /\ match.phase \in Phases
  /\ match.gen \in 1..(MaxRerolls + 1) /\ match.rerolls \in 0..(MaxRerolls + 1)
  /\ {match.players, match.forfeited, match.ready, match.failed, match.absent,
      match.deferred, match.entered, match.open, match.qualified} \subseteq SUBSET Players
  /\ \A p \in Players : /\ match.stage[p] \in 0..MaxRounds
                        /\ match.rank[p] \in 0..Cardinality(Players)
                        /\ match.used[p] \in 0..TiebreakAttempts
  /\ audio \subseteq Humans /\ failures \in 0..MapFailureLimit

(* Until the end at least two are in the match, the very ones who still play
   the round or who passed it. *)
EveryoneIsAccountedFor ==
  /\ ~Terminal(match) =>
       /\ InMatch(match) = IF match.finished THEN Qualified(match) ELSE Active(match)
       /\ Cardinality(InMatch(match)) >= 2
  /\ match.state = "FINAL_RESULT" => InMatch(match) = {match.winner}

SurrenderedTogether(p, q) ==
  match.stage[p] = match.stage[q] /\ match.fixed[p] # 0 /\ match.fixed[q] # 0

RanksFollowPlay ==
  \A p, q \in Players \ {match.winner} :
    IF SurrenderedTogether(p, q) THEN match.rank[p] = match.rank[q]
    ELSE Ahead(match, p, q) => match.rank[p] < match.rank[q]

\* The standings follow what was played: nobody drops out of a match but by the
\* cut or a surrender, and in the end a later round beats an earlier one, a cut
\* beats a surrender of the same round, and those who surrendered in one round
\* share its last place (finishRound, survivalStabilizeOnlineRanks, FORFEIT).
StandingsFollowPlay ==
  /\ EveryoneIsAccountedFor
  /\ match.state = "FINAL_RESULT" => RanksFollowPlay /\ match.rank[match.winner] = 1

\* A player who is out is paid at once, while the others play on: whatever they
\* do, the place and the tie that the payment was for never change
\* (survivalSettlementInputs, survivalStabilizeOnlineRanks).
PrizeStands ==
  [][\A p \in Humans : HasPrize(match, p) /\ HasPrize(match', p)
                       => Prize(match', p) = Prize(match, p)]_vars

\* Whoever is not waited for may still come in: no barrier or deadline leaves an
\* active player behind unmarked, whom the reducer would then refuse for the
\* rest of the round (forfeitUnready, survivalMarkAbsent, the late entries).
NobodyLockedOut ==
  LET late == match.absent \cup match.deferred IN
  /\ match.state = "ENTERING" => Active(match) \subseteq match.ready \cup late
  /\ match.state \in {"COUNTDOWN", "PLAYING"} => Active(match) \subseteq match.entered \cup late

\* The map that is played was looked for for this round, phase and generation,
\* through rerolls, prefetched maps and searches whose token was overtaken
\* (selectMap, addRound).
MapIsForItsRound ==
  match.map # NoOne =>
    match.map = [ordinal |-> match.ordinal, gen |-> match.gen, phase |-> match.phase]

\* A round ends before its time only when all but one surrendered, or in a Death
\* Match in which nobody but the actor had anything left to play.
PlayedOut ==
  [][match.state = "PLAYING" /\ match'.state # "PLAYING" =>
       \/ match.age = 2
       \/ Cardinality(Active(match')) <= 1
       \/ /\ match.phase = Tiebreak
          /\ Cardinality({p \in Active(match) : ~Spent(match, p)}) <= 1]_vars

\* No round is held up for ever by players who are away, are late or failed, nor
\* by lost searches for a map: it is played or the match ends
\* (advanceTimers, drive, ensureMapSelection).
RoundOpens == match.state \in Opening ~> match.state \notin Opening

\* While the vote is open, an entrant's first ballot is taken
\* (survivalIntroEndsAt, survival-vote.ts).
BallotIsTaken ==
  match.gate = "INTRO" /\ ~match.resolved /\ match.age \in {1, 2} =>
    \A p \in (Humans \cap InMatch(match)) \ match.votes : Accepted([type |-> "DIFFICULTY_VOTE", who |-> p], {})

\* The deadline of the preparation is applied whoever is away by then
\* (docs/survival-m3.md:47-51).
DeadlineIsApplied ==
  match.state = "PREPARING" /\ match.age >= 1 =>
    \A gone \in SUBSET Expected(match) : ~DriveRefused(match, gone)

=============================================================================
