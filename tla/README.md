# Corum Ranked: TLA+ models, checks and proofs

Corum Ranked is a ranked mode for a rhythm platformer. Two game clients
(`corum-ranked-mod`, C++) play the same level in rounds; a server
(`ranked/apps/server`, NestJS over PostgreSQL) pairs them, holds the clocks and
decides. A second mode, Survival, eliminates many players over several rounds. The
rules of both are pure functions in `ranked/packages/rules`.

A handler of the server locks the row of the match, lets the time that has passed
take effect, and then does its own work, all in one transaction. So a handler is
one atomic step, but *which* handler runs next, how late, how often, and with which
clock is up to the clients, the workers and the network. That is what these models
are about.

## 1. Inventory

| Component | State | Operations | Talks to |
|---|---|---|---|
| round rules (`packages/rules/src/round.ts`, `scoring.ts`) | the round record: phase, attempts, scores, clears, answer window, outcome | start, start from an intent, end, advance the clock, surrender, invalidate, debug end | called by the match service only |
| attempt transport, server (`match.service.ts`, `attempt-timing.ts`) | attempts and start leases | `startAttemptIntent`, `startAttempt`, `endAttempt`, poll | round rules, client journal |
| attempt transport, client (`RankedRuntime.cpp`) | FIFO journal of Starts and Ends, one request in flight, intents beside it | report a start or end, flush, retry, drop | server handlers |
| match lifecycle (`match.service.ts`, `match.ts`, `deathmatch.ts`, `ban.ts`) | match row: state, deadlines, ready, ban and entry marks, series, heartbeats, surrenders | ready, ban, entered, map failure, surrender, poll, deathmatch; deadlines | round rules, pause, outbox, rating |
| match pause (`match-pause.policy.ts`, client pause layer) | budget used, open lease, retired leases; the client's own countdown | begin, end, expire, concede | match lifecycle |
| match recovery (`match-recovery.service.ts`) | none of its own | on boot: resume or cancel each open match | match row |
| queue and sessions (`queue.service.ts`, `session.service.ts`, `session.guard.ts`; `RankedRuntime.cpp`) | session, queue entry, match token; the device's stage and three request channels | create, take over, heartbeat, close; join, leave, status, pair; dismiss | match creation |
| client round preparation (`RankedRoundPreparation.cpp`, `RankedLevelPreparation.cpp`) | attested metadata, one download, audio tickets, the native scene | pump, retry, launch, return | callbacks of the game without request identity |
| background work, outbox (`database-work.ts`, `outbox.service.ts`, `discord-relay.worker.ts`) | wake-up generation, timer, outbox rows with leases | commit, signal, claim, deliver, retry | Discord |
| spectator relay (`spectator-live.service.ts`, `spectator-relay.ts`, `SpectatorLiveRuntime.cpp`) | publish queue and generation, stream, the viewer's cursor | capture, publish, terminal, subscribe, apply, fall back | attempts in progress |
| survival (`survival-match.ts`, `survival-engine.service.ts`, `survival-online.service.ts`, `survival-bot-driver.ts`) | the match snapshot, presence, map searches, audio reports, payments | vote, prepare, enter, attempt, forfeit, tick, drive, select a map, settle | map search, simulation of bots |
| placement, rating, achievements, history, leaderboard, admin | profiles and records | applied once per finished match; queries | `finalizeMatch` |
| replay, UI, integration mod, installer, apps script | display, files | | feed nothing back into a match |

`PROJECT.json` lists all of them with their files and what is left out.

**What is hard, and what makes each part correct**

- *Rounds.* Starts close at one time, running attempts may finish later, the third
  clear opens an answer window for the other side, a decisive margin or a surrender
  ends everything at once. Correct: one run a side, starts that closed stay
  closed, a result that the recorded evidence supports and that never changes.
- *Transport.* A Start may be lost, repeated, overtaken by its intent, or handled
  after the deadline it began before. Correct: each visual run counts at most
  once, with its own report, if and only if it began in time; journals run empty.
- *Pauses.* Budgets span rounds; requests fail and come back late; the client counts
  by itself. Correct: open time is charged once, and only a spent budget loses.
- *Matches.* Some ten paths end a match, and both players may be late, absent, silent
  or repeat themselves in each phase. Correct: one result, which the series of rounds
  allows; play against nobody's empty screen; no phase that waits for ever.
- *Admission.* A device may be replaced between the guard and the transaction of its
  join; a cancelled request is served all the same; leases are counted on both sides.
  Correct: place and match belong to the live session; one unfinished match a player.
- *Preparation.* One delegate slot serves every download of the game, contexts change
  while requests are out. Correct: an answer is the answer to its request; a round
  that stays gets its level and song or shows why not.
- *Outbox.* A commit, its signal, the end of a pass and a crash meet in any order.
  Correct: no committed event is forgotten.
- *Spectator.* Publisher, relay and viewer start over independently. Correct: pictures
  of one stream in their order, and in the end the newest one.
- *Survival.* Absent, late and failed players, bots, a vote, rerolls and searches that
  take minutes; a player is paid while the others play on. Correct: standings that
  follow what was played, a payment that stays right, a map that was looked for for
  its round, nobody locked out, no round held up.

## 2. Plan

Done, in this order: the rules of a round; the transport; the pause; the match lifecycle;
admission; preparation; the outbox with its worker; the live picture; the survival rules and
match. Then the proofs, in the order of section 6.

Left, in this order:

1. Placement, ban resolution and the rating arithmetic as pure operators.
2. The survival runtime of the client, which is an environment now.

## 3. Modules

**RoundRules** is `round.ts` and `scoring.ts` as operators on a round record, with no
state of its own, so that both machines below apply the same rules. An attempt is
known by its number in its side's sequence: an event id that is repeated names
an existing attempt. Scores are in half points, because `scoreAttempt`
multiplies by 1.5. Durations are constants; only the order of the windows is assumed.

**RankedRound** applies the operations in any order and at any time that
`TimeAccepted` lets through. Calls that throw are not actions. It is more general than
the server's use, so what holds here holds for every caller.

**AttemptTransport** has the clock, the database's view (`server`), the visual
runs of both players and the position of each journal. `HandleIntent`,
`HandleStart`, `HandleEnd` and `AdvanceLockedMatch` are the handlers as functions of
the server's record; the `Receive...` actions deliver a request any number of
times, in any order, with or without an answer that reaches the journal.
`HandlerLag` is the time a handler may wait for the lock after reading the clock.

**MatchPause** pairs `changeMatchPause` with the client that drives it, over one
serialized request that may fail and still be handled later. A scene ends in a handler
that has advanced the match and so found no exhausted pause (`EndScene`); a round, which the scenes up
to `RoundScenes` are, also ends in a Start that has a lease (`LeasedStartEndsRound`): such a Start is not
preceded by an advance (`match.service.ts:1228-1230`), and when it comes after a decided margin,
`persistRoundState` settles the round without a look at the pauses. `history` is
auxiliary: it records what the properties ask about and no action reads it.

**MatchSeries** states what a match promises: rounds until somebody leads
after the minimum number of rounds or the rounds are used up, a deathmatch
for a tie and for nothing else, a winner by play in no other way, one
concession or forfeit, and no outcome after an outcome.

**RankedMatch** is the match row. `Advance(m)` is `advanceLockedMatch` as the set of
rows it may produce; each handler picks one and then does its own part, in the
order of the code. Inside play, the clock of the round and of the pause belong to the
modules above: there, `Advance` may settle the round with any result or find an
exhausted pause. `Series` maps its row to `MatchSeries` (`results` and the
winner or the cancellation, with its cause). Requests without a context (Ready, the ban)
may arrive in any phase; entries and surrenders name theirs and may arrive in any later
one. What a client does on its own is external and small: it installs the
scene it is told to enter, reports a map that it cannot load before it is ready
for it, asks for a surrender in play, or leaves.

**RankedAdmission** is one player's way into a match. On the server: `Create`,
`Heartbeat`, `Close`, `Join`, `Leave`, `QueueStatus`, `MatchCall` are the transactions of
`session.service.ts` and `queue.service.ts`; for a join the guard and the transaction are
two steps (`Serve`), because the token is checked before the lock. On the device:
`control`, `poll` and `beat` are the three requests `RankedRuntime` holds at a time, one
action per callback. Cancelling a request only drops its answer; the request moves to
`unserved` and may be served at any time. A session ends in three ways: it is revoked, its lease
runs out without a heartbeat (`SessionLease`), or its token reaches the absolute end that was set
when it was created and that no heartbeat moves (`SessionSeconds`, `TokenOver`). The device counts the
lease only. A match token is made with its session or after it and lives as long, so it never ends
first (for one value of the setting) and has no end of its own. The player's other device and the other
players are small environments.

**RoundPreparation** has both preparation singletons in `app`, and in `app.gd` what
the game's managers do: one delegate slot, one download, one request per sound key. `Pumped` is
`pump()` part by part in its order. Callbacks come at the latest one pump before a request
counts as over, which is what the counts of quiet pumps are for.

**RankedOutbox** has the rows, the commits whose listeners have not run yet, and the
`DemandWorker` with the pass it is in; a step ends where the code awaits. A crash
forgets everything but the rows.

**SpectatorLive** has one side's picture on its way: `pub` (queue, batch in flight,
deferred or pending terminal picture), `relay` (the stream the server holds), `view` and its request.
`Read` is `readSpectatorStream`; `Applied` is `applyViewerResponse`, fallbacks and refusals
included. The attempts come from the acknowledgements of `AttemptTransport`'s journal,
of which only the order is kept here.

**SurvivalRules** is the reducer `survival-match.ts` on a match record. Time is the number
of deadlines of the present state that have passed (`age`): nothing else of
it is ever compared. **SurvivalMatch** puts the transactions around it: `Drive` is
`SurvivalOnlineService.drive`, which runs before and after every reduction; a tick, a command, a frame of a bot, the
two ends of a search for a map, and the time. A command that is refused, or whose drive is
refused, rolls back and is no step. `gone` is the set of players whose presence row says that
they are away at that moment; any set is possible at any step.

**MCPlayerRequests** and **MCConvergence** put parts that share no state into one
specification: `part` names the one a behaviour exercises. They only join the checks; each
temporal property assumes the fairness of its own part and of no other. The survival match is
instantiated together with its theorems (`SurvivalMatch_proofs`), which then hold of the instance, for
`SurvivalBounds` states its assumptions.
The other `MC...` modules give constants their values.

## 4. Runs

| Run | Question | Bounds |
|---|---|---|
| `ranked_round` | Is every published result justified and final, in any order of operations? | 3 attempts a side, clear target 3, one second for normal play, the final and the answer window; times 0..2 |
| `attempt_transport` | Does a run count once, only if timely and with its own report, whatever the network does? | A 2 runs, B 1, clears, target 2; clock 0..3, a handler one second late |
| `ranked_match` | Is every end of a match one that the series allows, and does every waiting phase end? | a best of three without bans that forfeits and resumes, and a single round with bans that cancels; every deadline one tick, silence two; one surrender, deathmatches of one attempt, two in a row |
| `player_requests` | Is pause time charged once, and does only a spent budget lose? Do place and match belong to the live session? | pauses: 2 of A, budget 2, clock 0..4, a round and a Death Match, one failed request, one restart; admission: 3 sessions, 2 matches, times 0..2, a lease and a token of two, one lost answer, 3 acts of the player |
| `convergence` | Do the five parts that must come to rest come to rest? | transport: one run each, A's client may go; preparation: 2 rounds, 2 changes, 2 tries, 2 quiet pumps, one mishap; outbox: 2 events, 2 attempts, batches of one, 2 crashes; picture: 2 attempts of 2 and 3 pictures, a queue of one, pages of one, one fault; survival: 2 humans, one round, one reroll |
| `survival` | Are standings, payments and maps what was played? | 2 humans and a bot, no cut before the final, one attempt in a Death Match, one reroll, 2 rounds, one report |
| `lease_lost`, `pause_reopened`, `pause_refused`, `dismissed`, `survival_vote`, `survival_deadline` | findings, section 7 | as small as they show |

*Why these bounds are enough.* Time is compared with a few deadlines
only, so one tick on either side of each (before, at, after) reaches every order.
Three attempts are what the clear target of three needs. Two runs
are the least where a late Start of one meets the lease of the next. Two scenes and two
pauses let a pause, or its answer, outlive its round. A surrender and an
entry need a second scene to arrive in, which the best of three has; a repeated
deathmatch is the longest loop of the match. `DeathmatchAttempts` is 3 in the code:
the settlement waits for all attempts of both sides whatever the number.
In the deathmatch that `MaxDeathmatches` allows last, attempts do not tie.
Three sessions are a device, the one that replaces it, and the first that comes back and
takes over; two matches let an answer about the first meet the second; three acts are enter,
join and dismiss, after which another device may join. A lease and a token of two ticks in times 0..2
let a heartbeat at one make the lease outlive its token. Two
contexts let a download of the first end in the second. Two events of one batch each make the worker run two passes
with a signal between; two crashes hit a claim and its repetition. Three pictures and a page of one make a
gap, a history of two pages and a full queue. Two humans and a bot are the least where
somebody is out while others play on and where bots matter; a final that ties
gives the Death Match as its second round. The humans are symmetric, which `survival` uses:
it checks no liveness.
`MaxClock`, `MaxTime`, `MaxRuns`, `MaxAttempts` (of a round), `MaxPauses`, `MaxScenes`,
`MaxFailures`, `MaxRestarts`, `MaxSurrenders`, `MaxDeathmatches`, `MaxSessions`, `MaxMatches`,
`MaxFaults`, `MaxActs`, `MaxChanges`, `MaxMishaps`, `MaxCrashes`, `MaxPlays`, `MaxPoses` and
`MaxRounds` are bounds of the models; everything else in a cfg stands for a value of the
configuration or of the code.

Deadlock is not checked: a decided round, a finished match and a clock at its
bound really stop.

## 5. Fairness

Safety needs none. The liveness properties assume:

- *transport:* time passes (`WF` of `Tick`); a client that is present polls, for
  `RankedRuntime` polls its match from the frame update as long as the game runs; it ends the run
  it is playing and repeats the request at the head of its journal until it is answered: that
  is the retry loop of `flushAttemptEvents`. An infinite loss of the same request is excluded.
- *match:* time passes and one client polls. Neither is assumed to answer
  anything, so `NoBarrierHoldsForever` rests on deadlines and one poll alone, and
  `LeaverNeverHoldsMatch` on the reconnect rule, which requires that both sides
  were heard once.
- *preparation:* the heartbeat pumps, and the game answers each of its requests.
- *outbox:* the process is started again after a crash, queries return and do not fail for ever
  (`SF` of `Claim` and `Ask`: failing is an alternative of each), leases end.
- *picture:* both clients run their frames, requests and journals are answered. Faults are
  bounded by `MaxFaults`.
- *survival:* the workers tick every running match, time passes, and a search that is begun again and
  again ends some time (`SF` of `EndSelection`). A tick is owed only when it
  changes the match *whoever* is away: nobody is obliged to be away, so no round may
  open only because somebody is. `ENABLED` of these two is written out (`TickDue`,
  `job # NoOne`).

Nothing is assumed of a client that goes away: it may stop between any two steps. The code
deliberately gives attempts of a round no maximum duration and relies on the reconnect rule
for those whose client is gone, so `RoundsAreDecided` names that exception.

## 6. What is proved

Each theorem is of the module's specification, for every value of the constants that the
named assumptions allow. The bounds of section 4 occur in no argument, except to say that
something is a number. TLC checks the same properties on the small
instances of section 4, but for those named below that are in no run.

| Module | States | Properties that follow |
|---|---|---|
| `RankedRound_proofs` (on `RoundRules_proofs`) | `RoundInvariant` | `RoundTypes`, `RoundOneRunPerSide`, `RoundNoRunOutlivesResult`, `RoundWindowHolderStandsStill`, `RoundTargetReachedOnce`, `RoundWinnerHasTheEvidence`, `RoundLedgerMatchesAttempts`; of a step: `RoundResultIsFinal`, `RoundClosedStartsStayClosed`, `RoundLateStartNeverCounts` |
| `AttemptTransport_proofs` (on `RoundRules_proofs`) | `TransportInvariant` | `TransportTypes`, `TransportRunsCountOnce`, `TransportScoredAsPlayed`, `TransportLeaseSpentForItsRun`; of a step: `TransportOnlyTimelyRunsCount`, `TransportPollNeverLosesALease` |
| `RankedMatch_proofs` | `MatchInvariant` | `MatchTypes`, `MatchGoNeedsBothScenes`, `MatchNoAwardBeforePlay`, `MatchConcessionCostsItsScene`; the refinement `MatchImplementsSeries` |
| `PlayerRequests_proofs` (pause and admission) | `PauseInvariant` | `PauseTypes`, `OpenTimeCharged`, `ForfeitSpent`, `OpenedOnce`; of a step: `SpentPauseHeld` |
| | `AdmissionInvariant` | `AdmissionTypes`, `AssignmentFollows`, `OneMatch`; of a step: `AdmittedAfterLease`, `ShownNeverGoesBack`; of both parts: `RequestTypes` |
| `SurvivalMatch_proofs` | `SurvivalInvariant` | `SurvivalTypes`, `SurvivalMapIsForItsRound`, `SurvivalNobodyLockedOut`, `SurvivalStandingsFollowPlay`; of a step: `SurvivalPrizeStands`, `SurvivalPlayedOut` |
| `RoundPreparation_proofs` | `PreparationInvariant` | `PreparationTypes`, `PreparationAnswerIsItsOwn` |
| `Convergence_proofs` (outbox and live picture) | `OutboxInvariant` | `OutboxTypes`, `OutboxForgetsNothing`; of a step: `OutboxEventsEndOnce` |
| | `LiveInvariant` | `LiveTypes`, `LiveInOrder`; of all five parts: `PartsTypes` |

**The round.** None of the properties is inductive alone. That a result has its
evidence needs the score and clear counters to be bounded and the window to be of
the side that reached the target; that needs this side to run nothing, which
needs one run a side. `Consistent(r)` is the conjunction of two parts that keep each other: `Body` (the types, clocks, counters and the
window of a round that goes on), and `Verdict` (a result if and only if finished,
with nothing running, and the reason that `Justified` names). There is one lemma per operation,
`Consistent(r) => Consistent(Op(r))`, split along the calls the code makes
(`finishRound`, `openLastAttempt`, expiry, scoring), so that the composite operations,
which advance the clock first, cite `AdvanceConsistent` once. Each also
shows that `StartDeadline` never grows, which gives `RoundClosedStartsStayClosed`.
A second set of lemmas says what an operation does to the attempts: it leaves them or cuts
them short (`SameRuns`, `Cut`), lets one more in (`OneMoreRun`, in time and of the side that may
play), or scores one that runs (`RunScored`). `RoundLateStartNeverCounts` is the second case.
`RoundLedgerMatchesAttempts` says that the totals are sums over a sequence: each of the three
cases changes the sum by what it changes in the totals. `RoundRules_proofs` holds
what needs no state machine, for the transport uses it as well.

*Sums and least elements.* The induction theorems of the library take an operator, which
the provers cannot instantiate. `LeastNatural` (a set of naturals that is not empty has a least
element, from `WFMin`) serves in their place: the set of counterexamples is a set, its
least element is not 0, and the one before it is no counterexample. `SumsExist` shows in this way
that the recursive function of `Total` exists, `SumsDiffer` that a change by `d` at one place
changes every later partial sum by `d`. The survival proofs use it for the ladder of
cutoffs and for places.

**Transport.** `Good` relates the server's record to the runs that were really played: its
attempts are runs that were started, each once; a lease says when its run began; an
attempt that was scored has the report of its run. Every handler keeps `Good` whatever
request it is given, so lost, repeated and reordered requests need no argument of their own.
`Journals` adds that a run which was told its attempt was told the right one. `LetIn` says that a
handler adds at most the one run it is asked about and in time; `PollKeepsLeases` that the poll
settles no round over a lease that is pending, which the other handlers do (`lease_lost`).

**Pause.** `Honest` relates the policy's record of a side to `history`, what really happened:
a lease that was opened is the present one or retired, and the time charged is the time
it was open, both cut at the budget. Cutting is why equality of used and open time would
not be inductive: after the budget is spent a pause may go on being open until the clock is looked at.
The clients' half (`ClientInv`) says only that whatever is asked is about a lease of one's own; the server
trusts it with nothing else. That every record keeps its bounds needs one fact more (`Names`): a lease
that the server has seen, or that is asked about, is one its client began.
`SpentPauseHeld` says what is true of "a late End cannot erase an exhausted Pause"
(`gameplay-controls.md:50-53`). In play every request about pauses, and every poll, settles the exhausted one
first; the step that does not is the leased Start, which keeps the pause as it is and
ends a round, never a Death Match. What may happen to the pause after that is in section 7.

**The match.** Every handler starts from a row that `advanceLockedMatch` has moved, so
the lemma everything rests on is `AdvanceGood`: every row of `Advance(m)` is `Good` if
`m` is. `Good` has two parts. `Core` holds in every phase: a winner only in a finished
match and only with a played round or a configured forfeit, entry marks of the
present scene whenever the barrier was raised, and every applied surrender with its
effect. `Phase` ties the phase to the number of rounds, results and
deathmatches and to the entry barrier. That a started scene was entered by
both needs the entry marks to be of the present context, which needs every preparation to
drop them; that a surrender still has its effect later needs results only to
grow and a winner never to change, which needs a row with a winner to be
finished. Ending a match needs `Core` alone (`FinalizedGood`, `CancelledGood`), so these two
serve all paths that end one.

*The refinement.* `MatchImplementsSeries` adds `Fits`: a match that goes on has a round to
play, or is tied with none left and in a deathmatch. `Moves(m, n)` lists what the series lets
become of a row, and every handler `Moves` its row in one step of the series or in none. A
handler acts on a row that its advance has just moved, so the argument has to show that the series
sees one of the two only; changes it does not see are `Quiet`.

**Admission.** `Rows` is the server's half: an unfinished match, its entry and its token
are of the live session, and there is one at most. `Screens` is the devices' half, with the
requests that are sent, served or given up but still `unserved`. The lease argument is in `Covers`: the
server counts a lease from the moment it serves, the device from the moment it *sent*, so a device
that was let in last never counts on a longer lease than the server has granted; and a Close
that is under way is about an earlier session. Therefore, when the other device is let in while that one counts
itself connected, its session was not silent, and what is left is the end of its token (`AdmittedAfterLease`). The property this gives had been stated without `NewestIsOwn`. It held
on its run only because two sessions were too few: a device that was taken over counts itself as connected
until its next heartbeat, and meanwhile the other one may close its session and enter once more, without a
take-over. It is now stated of the device that was let in last, and the run has a session more. The
types need besides that the queue entry names a session that was issued and a match that was made.

**Survival.** `Sound(m)` is kept by every function of the reducer, in the middle of a
transaction too: the clock and the gate, the map of the present round, who may be missing
at each barrier, and the standings (`Ranked`: a place is one more than the number of those ahead, and a place that was
fixed is the number of those still in when it was; `Accounted`; `Decided`). It does not
carry a tick by itself: a deadline in PREPARING may only be applied when the bots are ready, or
none is and nobody waits for them. That is what `drive` certifies before it
lets a deadline pass, so `Prepared` holds between transactions and `Sound` within. `Grown(m, f)` says that
the standings only grow: who is out stays where he is, and whoever follows comes from the
round that is played or a later one. A payment stays right because of these two
(`PlaceStands`): everybody counted as ahead when it was made is still ahead. `PlayedBy` lists how a round may end before all attempts are
used, for `SurvivalPlayedOut`.

That the counters of a match keep their bounds is an argument of its own. `Paced(m)` is kept by every function of the
reducer: until the match is cancelled there are at most `MaxRerolls` rerolls, and no more
generations of the search than rerolls and the first; no Death Match grants more than its
attempts. That a rank is at most the number of entrants follows from `Ranked`: fewer than all are ahead of anybody.

**Preparation.** The callbacks of the game name no request, so that an answer is one's own is
a matter of the one slot the game has. `Slot` says that whatever the game has under way is
ours or another screen's and nothing is asked again before its callback; `Own` that no
answer of an earlier download is on its way. It rests on one assumption about the game, which the model makes visible in
the guard of `Pump` (`Late`): a request is over after `Quiet` pumps without a sign, and its callback, if there is one, comes
before. Without it the property is false and the code could not know.

**Outbox.** The worker sleeps until a commit signals it, so the argument is about what it owes to the
table (`Watched`): while it runs, either every row that it may take is of a commit whose signal is still
under way, or it will look before it sleeps, because its timer is on and, at the end of a
pass, there is more to do or the generation has moved on. This needs the timer to stay on during
a pass. A crash may leave rows that nobody is looking at; the worker that starts afterwards looks
first. That an event ends once needs the rows of a batch to be still
waiting when they are delivered: an instance holds one batch at a time, and the models have one instance.

**Picture.** The publisher may begin a stream anew at any time, and what it sent before may still arrive. So the
invariant gives every generation an *origin*: the attempt it is of, and how far its pictures are
numbered ahead of its packets. `Along(o)` says that everything of a generation that is queued, under
way, kept by the relay or shown to the viewer is of that origin (`Fits`), and so is
the publisher's next picture; origins of later generations can be chosen when they begin, for nothing refers to
them yet. What the viewer shows of one stream are then pictures of one attempt in their order. The viewer folds the
packets of an answer, the relay selects and appends them (`Taken`, `After`): what these do to a sequence of any length is
shown by the least counterexample, as above (`Loop` and `Newer` follow them step by step).

*Assumed of the constants.* Round (`RulesAssumption`, `ReportsAssumption`,
`BoundsAssumption`): durations are naturals, the answer window is no longer than the final window, the
clear target is at least 2, reports are percentages of 0..100 where a clear is 100.
Transport (`TransportAssumption`): the same reports, natural times, a lease that lasts. Pause
(`BudgetAssumption`, `PauseBounds`): a budget, at least one scene, any number of them rounds. Match (`TermsAssumption`, `DurationsAssumption`):
positive durations, terms of known policies. Admission (`AdmissionBounds`): natural times of lease, token and queue. Preparation (`PreparationAssumption`): at least one
quiet pump. Survival (`EntrantsAssumption`, `FormatAssumption`, `ServiceAssumption`): two
players or more of whom one is human, a strictly falling ladder of cutoffs (it may be empty), a
positive number of attempts in a Death Match. Outbox (`OutboxBounds`): natural
numbers. Picture (`LiveBounds`): a page and a window of late packets that are not empty.
`config.ts` and the shipped formats satisfy all of them; the bounds are naturals.

*Proved and in no run:* `OneRunPerSide`, `NoRunOutlivesResult`, `WindowHolderStandsStill`,
`TargetReachedOnce`, `ResultIsFinal` of a round, `NoAwardBeforePlay` of a match, `NothingForgotten` and
`EventsEndOnce` of the outbox. The proof is
for every value of the constants, so a run would add nothing.

*Only model-checked:* liveness, for the proof system does not handle fairness or ENABLED:
`RoundsAreDecided`, `AllJournalsDrain`, `PreparationsConverge`, `ScenesComeBack`, `AllEventsAreTried`, `PicturesConverge`,
`SurvivalRoundsOpen`, `NoBarrierHoldsForever`, `LeaverNeverHoldsMatch`. Every invariant and every property of
a step that a passing run checks is proved. That `RankedRound` is what the transport and the
match do with a round is by construction for the transport, which
uses the same operators, and an abstraction in `RankedMatch`, which lets a round end in any way.

## 7. Findings

- **`lease_lost`.** `match.service.ts:92-94` promises that a valid start intent
  does not expire while its Start is catching up. Only the poll looks at leases. The
  Start or End of the *opponent* moves the clock of the round, and can settle it, over a
  pending lease; the run is lost. `PollNeverLosesALease` shows the part that holds.
- **`pause_reopened`.** `docs/gameplay-controls.md:42-44` says that a delayed Start
  cannot reopen a closed pause. The Resume of a lease that the server does not know
  is ignored without retiring the id (`match-pause.policy.ts:19`); a Start of that lease
  that failed at the client and is handled afterwards opens it.
- **`pause_refused`.** A pause that begins as the server ends the round is refused,
  and the client takes the refusal for a spent budget (`RankedRuntime.cpp:2503`): the next
  pause, in a later round, concedes the match.
- **`dismissed`.** `dismissMatch` cancels the poll so that an old response cannot
  resurrect the match (`RankedRuntime.cpp:2644-2647`), but not a Ready that is still
  unanswered; its callback compares neither generation nor match and fills the view again.
- **`survival_vote`.** The server lifts the presentation barrier by itself from the sixth
  second of the intro; the reducer refuses until the vote is over, and the refusal rolls back
  every transaction of the match meanwhile, ballots included (`survival-online.service.ts:66`).
- **`survival_deadline`.** When the only human who is not away has reported a failure, the
  bot driver reports one for bots that are ready. The reducer refuses it, and with it the deadline that was due
  (`survival-bot-driver.ts:20`). The round stays closed as long as
  the others are away; `SurvivalRoundsOpen` is therefore checked without bots.

*Seen while modelling, and in no run:*

- `gameplay-controls.md:50-53` says that an open pause with nothing left forfeits the entire match
  and that a late End cannot erase it. A Start with a lease that is handled before the server has noticed the
  exhausted pause skips the check (`match.service.ts:1228-1230`) and, when the margin is decided
  (`round.ts:140-149`, 224-225), settles the round (1315). A Resume that arrives in ROUND_RESULT then closes the
  pause and nobody forfeits; without it the pause costs the match when the next round starts.
- The end of a token is not told to the device (`RankedRuntime.cpp:1035`, 1110): from `expires_at` on
  (`session.guard.ts:58`, `session.service.ts:140`) another device is admitted, while the first one goes on counting
  itself connected until its next heartbeat is refused, for less than one lease.
- A round whose song was waived counts as ready (`RankedRoundPreparation.cpp:90-101`)
  while `launch` (419-515) still asks for the file; `changelog.md:10` says that such a round is playable.
- A row of the outbox whose last attempt ends in a crash, or whose mark the database refuses, stays
  leased and is neither delivered nor abandoned (`discord-relay.worker.ts:43`, 76-83;
  `operations.md:68` promises one of the two).
- A terminal picture that was deferred because its attempt had no id yet goes out under the id
  of the next attempt (`SpectatorLiveRuntime.cpp:331`; `live-spectator-protocol-v2.md:137`).
- Pairing happens only inside a join (`queue.service.ts:509`): two players who wait for
  their ranges to meet wait for a third.
- Both sides paused with both budgets spent: the order of expiry decides
  (`match-pause.policy.ts:39`).
- Survival: an eliminated player who is not paid yet when the match is cancelled never is, unless
  he surrendered; the design document ends a match when its last human is out, the rules have no
  such case; a match that everybody has left ties at zero into one Death Match after the other;
  the client never resets `m_recoveredEndAttempt` (`SurvivalRuntime.cpp:622-628`, read in 72-92).

## 8. Not modelled, and why

*Inside the modelled parts.* Clock skew between client and server, timestamps ahead of the
server, the check of level ids and of the environment, authorization and views; which maps
are drawn or banned (no property of a match depends on it); the in-memory display
state; the debug bot, and results that an operator forces. A handler that throws after its advance rolls everything back and
is no step; the next poll settles the same deadline later. A late Start of
an earlier deathmatch is not delivered to a later one. Admission leaves out ratings and
the widening of ranges (who may be paired is a free choice). Preparation leaves out the content
address of library songs, effects and rounds with several songs. The picture leaves out
poses, cosmetics, pauses and the suspension after twelve failures. Survival leaves
out its queue and admission, debug matches and `forceDeathMatch`, the achievements checkpoint, the
simulation that decides what a bot does, points and rating changes, the two minutes
after which an audio report is void, the delays and the number of searches at a time; commands of
an earlier round and repeated event ids change nothing and are no step. The cuts of a large lobby
(`Targets`) are modelled and empty in the runs: with two humans and a bot every round is the final.

*Whole parts.* Placement is solo and shares nothing with a match. Ratings are arithmetic applied once,
which the refinement covers by deciding once. The client of the survival mode is an
environment: its commands enter `SurvivalMatch` in any order. Replay, UI, the integration
mod, the installer, the apps script, history, leaderboard and administration feed nothing back into a match.
