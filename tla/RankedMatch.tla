---------------------------- MODULE RankedMatch ----------------------------
(***************************************************************************)
(* One match of match.service.ts: the row that every handler locks, first   *)
(* advances by the clock and then changes, from the first Ready to the      *)
(* result.  The play inside a round is RankedRound's, the pause budget is   *)
(* MatchPause's: here a round that is played may end with any result, and   *)
(* an open pause may run out, whenever a handler looks.                     *)
(*                                                                         *)
(* A handler that throws rolls its transaction back, with what its advance  *)
(* had settled: it changes nothing and is not an action.                    *)
(***************************************************************************)
EXTENDS Naturals, Sequences, FiniteSets

CONSTANTS
  Terms,               (* the snapshots considered: records, see Term       *)
  ReadyTicks, BanTicks, EntryTicks, CountdownTicks, ResultTicks,
  ReconnectGrace,      (* durations, in ticks                               *)
  DeathmatchAttempts,  (* attempts of a side in a deathmatch; the code's 3  *)
  MaxDeathmatches,     (* bound: a repeated deathmatch ends with a winner   *)
  MaxSurrenders,       (* bound: surrenders that players ask for            *)
  Stayers              (* the sides whose client never goes away            *)

Side == {"A", "B"}
Other(s) == IF s = "A" THEN "B" ELSE "A"

Term == [format : {"BO3", "SINGLE"}, mapBan : BOOLEAN,
         ready : {"CANCEL_MATCH", "FORFEIT_UNREADY"},
         reconnect : {"CANCEL_MATCH", "FORFEIT_DISCONNECTED"},
         restart : {"CANCEL_MATCH", "RESUME"}]

ASSUME TermsAssumption == Terms \subseteq Term /\ Terms # {}
ASSUME DurationsAssumption ==
  {ReadyTicks, BanTicks, EntryTicks, CountdownTicks, ResultTicks, ReconnectGrace,
   DeathmatchAttempts, MaxDeathmatches} \subseteq Nat \ {0}
ASSUME SurrendersAssumption == MaxSurrenders \in Nat /\ Stayers \subseteq Side

VARIABLES
  terms,   (* the configuration snapshot of the match                       *)
  match,   (* the row of ranked_matches with its rounds and deathmatches    *)
  scenes,  (* the contexts whose scene a client has installed               *)
  asked,   (* the surrenders players asked for, each with its own event id  *)
  left     (* the sides whose client has gone for good                      *)

vars == <<terms, match, scenes, asked, left>>

-----------------------------------------------------------------------------
(* The match row *)

Terminal(m) == m.state \in {"MATCH_RESULT", "CANCELLED"}
Playing(m)  == m.state \in {"ROUND_PLAYING", "DEATHMATCH_PLAYING"}
Entering(m) == m.state \in {"ROUND_ENTERING", "DEATHMATCH_ENTERING"}

(* roundNumber and deathmatchSequence, as entry and surrender name them. *)
Context(m) == IF m.dm > 0 THEN <<0, m.dm>> ELSE <<m.round, 0>>

State == {"MATCHED", "BAN_PHASE", "ROUND_PREPARE", "ROUND_ENTERING", "ROUND_PLAYING",
          "ROUND_RESULT", "DEATHMATCH_PREPARE", "DEATHMATCH_ENTERING",
          "DEATHMATCH_PLAYING", "DEATHMATCH_RESULT", "MATCH_RESULT", "CANCELLED"}
Cause == {"NONE", "PLAYED", "SURRENDER", "PAUSE", "READY", "RESOURCE", "ENTRY", "RECONNECT"}
Contexts == (0..3) \X Nat
Request  == [side : Side, scope : {"ROUND", "MATCH"}, context : Contexts]

(* timer counts down to the deadline of the phase, quiet up from the last sign
   of life of a side, to the grace it has. *)
Match ==
  [state : State, round : 0..3, dm : Nat, results : Seq(Side \cup {"DRAW"}),
   ready : SUBSET Side, banned : SUBSET Side, entry : BOOLEAN, entered : SUBSET Side,
   timer : Nat, heard : SUBSET Side, quiet : [Side -> 0..ReconnectGrace],
   attempts : [Side -> 0..DeathmatchAttempts], running : SUBSET Side,
   best : [Side -> 0..1], winner : Side \cup {"NONE"}, cause : Cause,
   events : SUBSET Request]

NewMatch ==
  [state |-> "MATCHED", round |-> 0, dm |-> 0, results |-> <<>>,
   ready |-> {}, banned |-> {}, entry |-> FALSE, entered |-> {},
   timer |-> ReadyTicks, heard |-> {}, quiet |-> [s \in Side |-> 0],
   attempts |-> [s \in Side |-> 0], running |-> {}, best |-> [s \in Side |-> 0],
   winner |-> "NONE", cause |-> "NONE", events |-> {}]

(* cancelMatch *)
Cancelled(m) == [m EXCEPT !.state = "CANCELLED", !.timer = 0]

(* finalizeMatch: a result that was applied is not applied again. *)
Finalized(m, winner, cause) ==
  IF m.winner # "NONE" THEN m
  ELSE [m EXCEPT !.state = "MATCH_RESULT", !.winner = winner, !.cause = cause,
                 !.timer = 0]

-----------------------------------------------------------------------------
(* Preparing, entering and starting a scene *)

RoundPrepared(m, n) ==
  [m EXCEPT !.state = "ROUND_PREPARE", !.round = n, !.ready = {},
            !.entry = FALSE, !.entered = {}, !.timer = ReadyTicks]

(* finalizeBans *)
BansFinalized(m) == RoundPrepared([m EXCEPT !.banned = Side], 1)

(* Bug: a drawn round is not counted. *)
BugDrawNotCounted(m) ==
  RoundPrepared(m, Cardinality({i \in DOMAIN m.results : m.results[i] # "DRAW"}) + 1)

(* prepareNextRound *)
NextRoundPrepared(m) == RoundPrepared(m, Len(m.results) + 1)

(* prepareDeathmatch *)
DeathmatchPrepared(m) ==
  [m EXCEPT !.state = "DEATHMATCH_PREPARE", !.dm = @ + 1, !.ready = {},
            !.entry = FALSE, !.entered = {}, !.timer = ReadyTicks,
            !.attempts = [s \in Side |-> 0], !.running = {},
            !.best = [s \in Side |-> 0]]

(* beginNativeEntry *)
EntryBegun(m) ==
  [m EXCEPT !.state = IF m.dm > 0 THEN "DEATHMATCH_ENTERING" ELSE "ROUND_ENTERING",
            !.entry = TRUE, !.entered = {}, !.timer = EntryTicks]

(* startPreparedRound, or the start of the deathmatch. *)
Started(m) ==
  [m EXCEPT !.state = IF m.dm > 0 THEN "DEATHMATCH_PLAYING" ELSE "ROUND_PLAYING",
            !.timer = 0]

-----------------------------------------------------------------------------
(* Results *)

WinsOf(rs, s) == Cardinality({i \in DOMAIN rs : rs[i] = s})

(* Bug: two wins are asked for before the third round. *)
BugTwoWins(rs) ==
  LET last   == rs[Len(rs)]
      winner == {s \in Side : WinsOf(rs, s) = 2}
  IN IF terms.format = "BO3" /\ Len(rs) < 3
     THEN IF winner = {} THEN "ROUND" ELSE CHOOSE s \in winner : TRUE
     ELSE IF last = "DRAW" THEN "DEATHMATCH" ELSE last

(* applyRoundResult: whether the rounds so far decide the match. *)
Decision(rs) ==
  LET last == rs[Len(rs)] IN
  IF terms.format = "SINGLE"
  THEN IF last = "DRAW" THEN "DEATHMATCH" ELSE last
  ELSE CASE Len(rs) = 1 -> "ROUND"
         [] Len(rs) = 2 -> IF WinsOf(rs, "A") > WinsOf(rs, "B") THEN "A"
                           ELSE IF WinsOf(rs, "B") > WinsOf(rs, "A") THEN "B"
                           ELSE "ROUND"
         [] OTHER       -> IF last = "DRAW" THEN "DEATHMATCH" ELSE last

(* settleRound *)
RoundSettled(m, result) ==
  LET played == [m EXCEPT !.results = Append(@, result)]
      next   == Decision(played.results)
  IN CASE next \in Side        -> Finalized(played, next, "PLAYED")
       [] next = "DEATHMATCH"  -> DeathmatchPrepared(played)
       [] OTHER                -> [played EXCEPT !.state = "ROUND_RESULT",
                                                 !.timer = ResultTicks]

(* applyGameplaySurrender, for a request that names the scene being played.
   A deathmatch that is conceded is a match that is conceded. *)
Conceded(m, s, scope, cause) ==
  IF m.state = "DEATHMATCH_PLAYING"
  THEN Finalized([m EXCEPT !.running = {}], Other(s), cause)
  ELSE IF scope = "MATCH"
  THEN Finalized([m EXCEPT !.results = Append(@, Other(s))], Other(s), cause)
  ELSE RoundSettled(m, Other(s))

(* settleDeathmatchIfComplete: the better best attempt wins, equal ones
   repeat the deathmatch. *)
Complete(m) == \A s \in Side : m.attempts[s] = DeathmatchAttempts /\ s \notin m.running

DeathmatchSettled(m) ==
  IF ~Complete(m) THEN m
  ELSE IF m.best["A"] = m.best["B"]
  THEN [m EXCEPT !.state = "DEATHMATCH_RESULT", !.timer = ResultTicks]
  ELSE Finalized(m, IF m.best["A"] > m.best["B"] THEN "A" ELSE "B", "PLAYED")

-----------------------------------------------------------------------------
(* Deadlines *)

(* resolveReadyTimeout *)
ReadyTimedOut(m) ==
  IF terms.ready = "FORFEIT_UNREADY" /\ Cardinality(m.ready) = 1
  THEN {Finalized(m, s, "READY") : s \in m.ready} ELSE {Cancelled(m)}

(* resolveRoundReadyTimeout, resolveDeathmatchReadyTimeout: a side that could
   not load the map loses, but never before the first round was played. *)
PrepareTimedOut(m) ==
  IF Cardinality(m.ready) = 1 /\ ~(m.dm = 0 /\ m.round = 1)
  THEN {Finalized(m, s, "RESOURCE") : s \in m.ready} ELSE {Cancelled(m)}

(* Bug: an entry barrier that nobody completes has no end. *)
BugEntryNeverEnds(m) == IF m.entered = Side THEN {Started(m)} ELSE {m}

(* The entry barrier: the countdown that both scenes started has run out, or
   a scene did not come in time. *)
EntryTimedOut(m) ==
  IF m.entered = Side THEN {Started(m)}
  ELSE IF Cardinality(m.entered) = 1 /\ ~(m.dm = 0 /\ m.round = 1)
  THEN {Finalized(m, s, "ENTRY") : s \in m.entered} ELSE {Cancelled(m)}

(* A deadline that is set and has passed; play has none of its own here. *)
Due(m) == m.timer = 0 /\ ~Terminal(m) /\ ~Playing(m)

TimedOut(m) ==
  CASE m.state = "MATCHED"            -> ReadyTimedOut(m)
    [] m.state = "BAN_PHASE"          -> {BansFinalized(m)}
    [] m.state \in {"ROUND_PREPARE", "DEATHMATCH_PREPARE"} -> PrepareTimedOut(m)
    [] Entering(m)                    -> EntryTimedOut(m)
    [] m.state = "ROUND_RESULT"       -> {NextRoundPrepared(m)}
    [] m.state = "DEATHMATCH_RESULT"  -> {DeathmatchPrepared(m)}

-----------------------------------------------------------------------------
(* advanceLockedMatch, which begins every handler *)

(* Bug: nobody has to be heard, so nobody is ever missed. *)
BugSilent(m) == {}

(* Silence counts once both clients have been heard. *)
Silent(m) ==
  IF m.heard = Side /\ ~Terminal(m)
  THEN {s \in Side : m.quiet[s] >= ReconnectGrace} ELSE {}

Disconnected(m) ==
  IF terms.reconnect = "FORFEIT_DISCONNECTED" /\ Cardinality(Silent(m)) = 1
  THEN {Finalized(m, Other(s), "RECONNECT") : s \in Silent(m)} ELSE {Cancelled(m)}

(* In play an open pause may have run out, and the clock of the round may
   have settled it. *)
Advance(m) ==
  (IF Playing(m) THEN {Conceded(m, s, "MATCH", "PAUSE") : s \in Side} ELSE {})
  \cup
  (IF Silent(m) # {} THEN Disconnected(m)
   ELSE IF Due(m) THEN TimedOut(m)
   ELSE {m} \cup (IF m.state = "ROUND_PLAYING"
                  THEN {RoundSettled(m, r) : r \in Side \cup {"DRAW"}} ELSE {}))

-----------------------------------------------------------------------------
(* The handlers *)

(* state and heartbeat: the advance comes before the sign of life. *)
Poll(s) ==
  /\ s \notin left
  /\ \E m \in Advance(match) :
       match' = IF Terminal(m) THEN m
                ELSE [m EXCEPT !.heard = @ \cup {s}, !.quiet[s] = 0]
  /\ UNCHANGED <<terms, scenes, asked, left>>

(* settleActiveMatchesForPlayer, when either player wants to queue again. *)
QueueAgain ==
  /\ match' \in Advance(match)
  /\ UNCHANGED <<terms, scenes, asked, left>>

(* ready: the body names no context, so a late one counts for what is being
   prepared now.  Like a ban and a map failure it ends with a state request, a
   transaction of its own: Poll. *)
ReadyFor(m, s) ==
  LET both == m.ready \cup {s} = Side
      r    == [m EXCEPT !.ready = @ \cup {s}]
  IN IF Entering(m) THEN m
     ELSE IF ~both THEN r
     ELSE IF m.state = "MATCHED"
     THEN LET banning == [r EXCEPT !.state = "BAN_PHASE", !.timer = BanTicks]
          IN IF terms.mapBan THEN banning ELSE BansFinalized(banning)
     ELSE EntryBegun(r)

Ready(s) ==
  /\ \E m \in Advance(match) :
       /\ Entering(m) \/ m.state \in {"MATCHED", "ROUND_PREPARE", "DEATHMATCH_PREPARE"}
       /\ match' = ReadyFor(m, s)
  /\ UNCHANGED <<terms, scenes, asked, left>>

SubmitBan(s) ==
  /\ \E m \in Advance(match) :
       /\ m.state = "BAN_PHASE"
       /\ match' = IF m.banned \cup {s} = Side /\ s \notin m.banned
                   THEN BansFinalized(m) ELSE [m EXCEPT !.banned = @ \cup {s}]
  /\ UNCHANGED <<terms, scenes, asked, left>>

(* The client installs the scene of the context that it has to enter. *)
InstallScene(s) ==
  /\ s \notin left /\ Entering(match)
  /\ scenes' = [scenes EXCEPT ![s] = @ \cup {Context(match)}]
  /\ UNCHANGED <<terms, match, asked, left>>

(* Bug: any entry counts while the barrier is up. *)
BugEntryOfAnyContext(m, context) == m.entry

EntryMatches(m, context) == m.entry /\ context = Context(m)

(* entered: both scenes start the common countdown. *)
EnteredBy(m, s) ==
  IF Terminal(m) \/ s \in m.entered THEN m
  ELSE [m EXCEPT !.entered = @ \cup {s},
                 !.timer = IF m.entered \cup {s} = Side THEN CountdownTicks ELSE @]

Entered(s, context) ==
  /\ context \in scenes[s]
  /\ \E m \in Advance(match) :
       /\ EntryMatches(m, context)
       /\ Terminal(m) \/ s \in m.entered \/ Entering(m)
       /\ match' = EnteredBy(m, s)
  /\ UNCHANGED <<terms, scenes, asked, left>>

(* reportResourceFailure *)
ResourceFailed(m, s) ==
  IF Terminal(m) THEN m
  ELSE IF m.state = "ROUND_PREPARE" /\ m.round = 1 THEN Cancelled(m)
  ELSE Finalized(m, Other(s), "RESOURCE")

(* The client reports a map that it cannot load, so not one it is ready for. *)
ResourceFailure(s) ==
  /\ \/ Terminal(match)
     \/ /\ match.state \in {"ROUND_PREPARE", "DEATHMATCH_PREPARE"}
        /\ s \notin match.ready
  /\ \E m \in Advance(match) :
       /\ Terminal(m) \/ m.state \in {"ROUND_PREPARE", "DEATHMATCH_PREPARE"}
       /\ match' = ResourceFailed(m, s)
  /\ UNCHANGED <<terms, scenes, asked, left>>

(* A player asks for a surrender in the scene that is played, or that the
   countdown opens; the request may arrive at once, later, or more than once. *)
AskSurrender(s, scope) ==
  /\ s \notin left /\ Cardinality(asked) < MaxSurrenders
  /\ Playing(match) \/ (Entering(match) /\ match.entered = Side)
  /\ asked' = asked \cup {[side |-> s, scope |-> scope, context |-> Context(match)]}
  /\ UNCHANGED <<terms, match, scenes, left>>

(* Bug: a surrender counts for whatever is being played. *)
BugSurrenderOfAnyContext(m, r) == Playing(m)

SurrenderMatches(m, r) == Playing(m) /\ r.context = Context(m)

(* A pause that ran out is recorded as a surrender of the match. *)
MatchConceded(m) ==
  /\ m.state = "MATCH_RESULT"
  /\ m.cause = "PAUSE" \/ \E e \in m.events : e.scope = "MATCH"

(* surrender: an event that was applied, and one that finds the match already
   conceded, change nothing more. *)
Surrender(r) ==
  /\ r \notin match.events
  /\ \E m \in Advance(match) :
       \/ MatchConceded(m) /\ match' = m
       \/ /\ SurrenderMatches(m, r)
          /\ match' = [Conceded(m, r.side, r.scope, "SURRENDER")
                         EXCEPT !.events = @ \cup {r}]
  /\ UNCHANGED <<terms, scenes, asked, left>>

DeathmatchStart(s) ==
  /\ \E m \in Advance(match) :
       /\ m.state = "DEATHMATCH_PLAYING"
       /\ match' = IF s \in m.running \/ m.attempts[s] >= DeathmatchAttempts THEN m
                   ELSE [m EXCEPT !.running = @ \cup {s}, !.attempts[s] = @ + 1]
  /\ UNCHANGED <<terms, scenes, asked, left>>

(* Results of a deathmatch attempt: bad or good. *)
DeathmatchEnd(s, percent) ==
  /\ \E m \in Advance(match) :
       /\ m.state = "DEATHMATCH_PLAYING" /\ s \in m.running
       /\ LET ended == [m EXCEPT !.running = @ \ {s},
                                 !.best[s] = IF percent > @ THEN percent ELSE @]
          IN /\ m.dm < MaxDeathmatches \/ ~Complete(ended)
                  \/ ended.best["A"] # ended.best["B"]
             /\ match' = DeathmatchSettled(ended)
  /\ UNCHANGED <<terms, scenes, asked, left>>

(* recover, after a restart of the server: a match is resumed as it was, or
   cancelled. *)
Restart ==
  /\ ~Terminal(match) /\ terms.restart # "RESUME"
  /\ match' = Cancelled(match)
  /\ UNCHANGED <<terms, scenes, asked, left>>

Leave(s) ==
  /\ s \notin left \cup Stayers
  /\ left' = left \cup {s}
  /\ UNCHANGED <<terms, match, scenes, asked>>

AtMost(n, m) == IF n < m THEN n ELSE m

Tick ==
  /\ ~Terminal(match)
  /\ match' = [match EXCEPT
       !.timer = IF @ > 0 THEN @ - 1 ELSE 0,
       !.quiet = [s \in Side |-> IF s \in match.heard
                                 THEN AtMost(@[s] + 1, ReconnectGrace) ELSE 0]]
  /\ UNCHANGED <<terms, scenes, asked, left>>

Init ==
  /\ terms \in Terms
  /\ match = NewMatch
  /\ scenes = [s \in Side |-> {}]
  /\ asked = {}
  /\ left = {}

Next ==
  \/ Tick \/ Restart \/ QueueAgain
  \/ \E r \in asked : Surrender(r)
  \/ \E s \in Side :
       \/ Poll(s) \/ Ready(s) \/ SubmitBan(s) \/ InstallScene(s) \/ ResourceFailure(s)
       \/ DeathmatchStart(s) \/ Leave(s)
       \/ \E percent \in 0..1 : DeathmatchEnd(s, percent)
       \/ \E context \in scenes[s] : Entered(s, context)
       \/ \E scope \in {"ROUND", "MATCH"} : AskSurrender(s, scope)

(* Time passes, and a client that is there polls. *)
Fairness == WF_vars(Tick) /\ \A s \in Stayers : WF_vars(Poll(s))

Spec == Init /\ [][Next]_vars
FairSpec == Spec /\ Fairness

-----------------------------------------------------------------------------
(* Properties *)

Barrier == State \ {"ROUND_PLAYING", "DEATHMATCH_PLAYING", "MATCH_RESULT", "CANCELLED"}

(* The row keeps its shape: at most three rounds, whose number runs with the
   results, and a deathmatch with no more attempts than it grants. *)
TypeOK ==
  /\ terms \in Terms
  /\ match \in Match
  /\ match.round = 0 \/ Len(match.results) \in {match.round - 1, match.round}
  /\ match.events \subseteq asked
  /\ asked \subseteq Request
  /\ scenes \in [Side -> SUBSET Contexts]
  /\ left \subseteq Side \ Stayers

(* Nobody plays against an empty screen: when a round or deathmatch runs,
   both clients have installed its own scene, whatever entry of an earlier
   one arrived late (entered, beginNativeEntry). *)
GoNeedsBothScenes ==
  Playing(match) => \A s \in Side : Context(match) \in scenes[s]

(* A surrender costs the round or deathmatch that the player gave up, however
   late it arrives, and a surrender of the match costs the match. *)
ConcessionCostsItsScene ==
  \A r \in match.events :
    /\ IF r.context[2] > 0
       THEN match.winner = Other(r.side)
       ELSE /\ r.context[1] <= Len(match.results)
            /\ match.results[r.context[1]] = Other(r.side)
    /\ r.scope = "MATCH" => match.winner = Other(r.side)

(* "Round 1 cannot award a result before either side has played": without a
   played round only the two configured forfeits may rate the match. *)
NoAwardBeforePlay ==
  match.winner # "NONE" /\ match.results = <<>> => match.cause \in {"READY", "RECONNECT"}

(* The handlers implement the series: see MatchSeries. *)
Series == INSTANCE MatchSeries WITH
  format  <- terms.format,
  results <- match.results,
  cause   <- match.cause,
  outcome <- IF match.state = "CANCELLED" THEN "CANCELLED" ELSE match.winner
ImplementsSeries == Series!SeriesSpec

(* Every phase that waits for the players is left, though nobody may answer:
   time and one client that polls are enough. *)
NoBarrierHoldsForever ==
  \A p \in Barrier : []<>(match.state # p)

(* A player who goes away for good does not hold the opponent: once both were
   heard, the match ends. *)
LeaverNeverHoldsMatch ==
  \A s \in Side : (s \in left /\ match.heard = Side) ~> Terminal(match)
=============================================================================
