------------------------- MODULE RankedMatch_proofs -------------------------
(***************************************************************************)
(* What holds of the match row for every configuration, every duration and  *)
(* any number of deathmatches and surrenders.  Core is what a row keeps in   *)
(* every phase, Phase what it keeps while the match goes on; an operation    *)
(* that ends the match needs the Core only.  Then what the steps mean to    *)
(* the series of rounds, and that they implement MatchSeries.               *)
(***************************************************************************)
EXTENDS RankedMatch, FiniteSetTheorems, TLAPS

Results == Seq(Side \cup {"DRAW"})

(* A surrender that was applied has its effect; while there is no winner it
   was of a round. *)
Conceding(m, r) ==
  /\ IF r.context[2] > 0
     THEN m.winner = Other(r.side)
     ELSE /\ r.context[1] \in 1..Len(m.results)
          /\ m.results[r.context[1]] = Other(r.side)
  /\ r.scope = "MATCH" => m.winner = Other(r.side)

Core(m) ==
  /\ m \in Match
  /\ m.round = 0 \/ Len(m.results) \in {m.round - 1, m.round}
  /\ m.dm > 0 => m.results # <<>>
  /\ m.winner # "NONE" => /\ m.state = "MATCH_RESULT"
                          /\ m.results = <<>> => m.cause \in {"READY", "RECONNECT"}
  /\ m.entry => \A s \in m.entered : Context(m) \in scenes[s]
  /\ \A r \in m.events : Conceding(m, r)

Phase(m) ==
  /\ m.state \in {"MATCHED", "BAN_PHASE"} => m.round = 0 /\ m.dm = 0 /\ m.results = <<>>
  /\ m.state \in {"ROUND_PREPARE", "ROUND_ENTERING", "ROUND_PLAYING"} =>
       m.round >= 1 /\ m.dm = 0 /\ Len(m.results) = m.round - 1
  /\ m.state = "ROUND_RESULT" => m.round \in 1..2 /\ m.dm = 0 /\ Len(m.results) = m.round
  /\ m.state \in {"DEATHMATCH_PREPARE", "DEATHMATCH_ENTERING", "DEATHMATCH_PLAYING",
                  "DEATHMATCH_RESULT"} =>
       m.round >= 1 /\ m.dm > 0 /\ Len(m.results) = m.round
  /\ Entering(m) => m.entry
  /\ Playing(m)  => m.entry /\ m.entered = Side

Good(m) == Core(m) /\ Phase(m)

Asked == /\ asked \subseteq Request
         /\ scenes \in [Side -> SUBSET Contexts]
         /\ left \subseteq Side \ Stayers
         /\ terms \in Terms

IInv == Good(match) /\ Asked /\ match.events \subseteq asked

-----------------------------------------------------------------------------
(* The ways to end a match *)

LEMMA OtherIsASide == \A s \in Side : Other(s) \in Side /\ Other(s) # "NONE"
  BY DEF Side, Other

LEMMA CancelledGood ==
  ASSUME NEW m, Core(m), m.winner = "NONE"
  PROVE  Good(Cancelled(m)) /\ Cancelled(m).events = m.events
  BY DEF Cancelled, Good, Core, Phase, Match, State, Playing, Entering, Context, Conceding

LEMMA FinalizedGood ==
  ASSUME NEW m, Core(m), NEW w \in Side, NEW c \in Cause,
         m.winner = "NONE",
         m.results # <<>> \/ c \in {"READY", "RECONNECT"}
  PROVE  /\ Good(Finalized(m, w, c)) /\ Finalized(m, w, c).events = m.events
         /\ Finalized(m, w, c).winner = w
         /\ Finalized(m, w, c).results = m.results
<1> DEFINE f == Finalized(m, w, c)
<1>1. f = [m EXCEPT !.state = "MATCH_RESULT", !.winner = w, !.cause = c, !.timer = 0]
  BY DEF Finalized, f
<1> HIDE DEF f
<1>m. m \in Match
  BY DEF Core
<1>t. f \in Match
  BY <1>1, <1>m DEF Match, State
<1>2. /\ f \in Match /\ f.state = "MATCH_RESULT" /\ f.winner = w /\ f.cause = c
      /\ f.round = m.round /\ f.dm = m.dm /\ f.results = m.results /\ f.entry = m.entry
      /\ f.entered = m.entered /\ f.events = m.events
  BY <1>1, <1>m, <1>t DEF Match
<1>3. \A r \in f.events : Conceding(f, r)
  <2>1. SUFFICES ASSUME NEW r \in m.events PROVE Conceding(f, r)
    BY <1>2
  <2>2. Conceding(m, r) /\ r \in Request
    BY DEF Core, Match
  <2>3. Other(r.side) # "NONE"
    BY <2>2, OtherIsASide DEF Request
  <2>4. QED
    BY <1>2, <2>2, <2>3 DEF Conceding
<1>4. Core(f)
  <2>1. f.entry => \A s \in f.entered : Context(f) \in scenes[s]
    BY <1>2 DEF Core, Context
  <2>2. f.winner # "NONE" => /\ f.state = "MATCH_RESULT"
                             /\ f.results = <<>> => f.cause \in {"READY", "RECONNECT"}
    BY <1>2
  <2>3. f.round = 0 \/ Len(f.results) \in {f.round - 1, f.round}
    BY <1>2 DEF Core
  <2>4. f.dm > 0 => f.results # <<>>
    BY <1>2 DEF Core
  <2>5. QED
    BY <1>2, <1>3, <2>1, <2>2, <2>3, <2>4 DEF Core
<1>5. Phase(f)
  BY <1>2 DEF Phase, Playing, Entering
<1>6. QED
  BY <1>2, <1>4, <1>5 DEF Good, f

LEMMA OpenHasNoWinner ==
  ASSUME NEW m, Good(m), ~Terminal(m)
  PROVE  m.winner = "NONE"
  BY DEF Good, Core, Terminal

-----------------------------------------------------------------------------
(* Preparing, entering and starting a scene *)

LEMMA RoundPreparedGood ==
  ASSUME NEW m, Core(m), m.winner = "NONE", m.dm = 0,
         NEW n \in 1..3, Len(m.results) = n - 1
  PROVE  Good(RoundPrepared(m, n)) /\ RoundPrepared(m, n).events = m.events
<1> DEFINE f == RoundPrepared(m, n)
<1>m. m \in Match
  BY DEF Core
<1>t. f \in Match
  <2>1. n \in 0..3 /\ ReadyTicks \in Nat /\ {} \in SUBSET Side
    BY DurationsAssumption
  <2>2. QED
    BY <1>m, <2>1 DEF f, RoundPrepared, Match, State
<1>1. /\ f.state = "ROUND_PREPARE" /\ f.round = n /\ f.dm = m.dm /\ f.results = m.results
      /\ f.entry = FALSE /\ f.winner = m.winner /\ f.events = m.events
  BY <1>m DEF f, RoundPrepared, Match
<1> HIDE DEF f
<1>2. \A r \in f.events : Conceding(f, r)
  BY <1>1 DEF Core, Conceding
<1>3. Core(f)
  BY <1>t, <1>1, <1>2 DEF Core
<1>4. Phase(f)
  BY <1>1 DEF Phase, Playing, Entering
<1>5. QED
  BY <1>1, <1>3, <1>4 DEF Good, f

LEMMA BansFinalizedGood ==
  ASSUME NEW m, Good(m), m.state \in {"MATCHED", "BAN_PHASE"}
  PROVE  Good(BansFinalized(m)) /\ BansFinalized(m).events = m.events
<1> DEFINE f == [m EXCEPT !.banned = Side]
<1>m. m \in Match /\ m.winner = "NONE" /\ m.dm = 0 /\ m.round = 0 /\ m.results = <<>>
  BY DEF Good, Core, Phase
<1>t. f \in Match
  BY <1>m DEF f, Match
<1>1. /\ f.state = m.state /\ f.round = m.round /\ f.dm = m.dm /\ f.results = m.results
      /\ f.entry = m.entry /\ f.entered = m.entered /\ f.winner = m.winner
      /\ f.events = m.events
  BY <1>m DEF f, Match
<1> HIDE DEF f
<1>2. \A r \in f.events : Conceding(f, r)
  BY <1>1 DEF Good, Core, Conceding
<1>3. Core(f)
  BY <1>m, <1>t, <1>1, <1>2 DEF Good, Core, Context
<1>4. 1 \in 1..3 /\ Len(f.results) = 1 - 1
  BY <1>m, <1>1
<1>5. Good(RoundPrepared(f, 1)) /\ RoundPrepared(f, 1).events = f.events
  BY <1>m, <1>1, <1>3, <1>4, RoundPreparedGood
<1>6. QED
  BY <1>1, <1>5 DEF BansFinalized, f

LEMMA NextRoundPreparedGood ==
  ASSUME NEW m, Good(m), m.state = "ROUND_RESULT"
  PROVE  Good(NextRoundPrepared(m)) /\ NextRoundPrepared(m).events = m.events
<1>1. /\ Core(m) /\ m.winner = "NONE" /\ m.dm = 0
      /\ m.round \in 1..2 /\ Len(m.results) = m.round
  BY DEF Good, Core, Phase
<1>2. Len(m.results) + 1 \in 1..3 /\ Len(m.results) = (Len(m.results) + 1) - 1
  <2>1. \A n \in 1..2 : n + 1 \in 1..3 /\ n = (n + 1) - 1
    OBVIOUS
  <2>2. QED
    BY <1>1, <2>1
<1>3. QED
  BY <1>1, <1>2, RoundPreparedGood DEF NextRoundPrepared

LEMMA DeathmatchPreparedGood ==
  ASSUME NEW m, Core(m), m.winner = "NONE", m.results # <<>>,
         m.round >= 1, Len(m.results) = m.round
  PROVE  Good(DeathmatchPrepared(m)) /\ DeathmatchPrepared(m).events = m.events
<1> DEFINE f == DeathmatchPrepared(m)
<1>m. m \in Match
  BY DEF Core
<1>t. f \in Match
  <2>1. /\ m.dm + 1 \in Nat /\ [s \in Side |-> 0] \in [Side -> 0..DeathmatchAttempts]
        /\ [s \in Side |-> 0] \in [Side -> 0..1]
    BY <1>m, DurationsAssumption DEF Match
  <2>2. QED
    BY <1>m, <2>1, DurationsAssumption DEF f, DeathmatchPrepared, Match, State
<1>1. /\ f.state = "DEATHMATCH_PREPARE" /\ f.round = m.round /\ f.dm = m.dm + 1
      /\ f.results = m.results /\ f.entry = FALSE /\ f.winner = m.winner
      /\ f.events = m.events
  BY <1>m DEF f, DeathmatchPrepared, Match
<1> HIDE DEF f
<1>2. \A r \in f.events : Conceding(f, r)
  BY <1>1 DEF Core, Conceding
<1>3. Core(f)
  BY <1>t, <1>1, <1>2 DEF Core
<1>4. f.dm > 0
  BY <1>m, <1>1 DEF Match
<1>5. Phase(f)
  BY <1>1, <1>4 DEF Phase, Playing, Entering
<1>6. QED
  BY <1>1, <1>3, <1>5 DEF Good, f

LEMMA EntryBegunGood ==
  ASSUME NEW m, Good(m), m.state \in {"ROUND_PREPARE", "DEATHMATCH_PREPARE"}
  PROVE  Good(EntryBegun(m)) /\ EntryBegun(m).events = m.events
<1> DEFINE f == EntryBegun(m)
<1>m. m \in Match /\ (m.state = "DEATHMATCH_PREPARE" <=> m.dm > 0)
  BY DEF Good, Core, Phase
<1>t. f \in Match
  BY <1>m, DurationsAssumption DEF f, EntryBegun, Match, State
<1>1. /\ f.state = IF m.dm > 0 THEN "DEATHMATCH_ENTERING" ELSE "ROUND_ENTERING"
      /\ f.round = m.round /\ f.dm = m.dm /\ f.results = m.results /\ f.entry = TRUE
      /\ f.entered = {} /\ f.winner = m.winner /\ f.events = m.events
  BY <1>m DEF f, EntryBegun, Match
<1> HIDE DEF f
<1>2. \A r \in f.events : Conceding(f, r)
  BY <1>1 DEF Good, Core, Conceding
<1>3. Core(f)
  BY <1>t, <1>1, <1>2 DEF Good, Core
<1>4. Phase(f)
  BY <1>m, <1>1 DEF Good, Phase, Playing, Entering
<1>5. QED
  BY <1>1, <1>3, <1>4 DEF Good, f

LEMMA StartedGood ==
  ASSUME NEW m, Good(m), Entering(m), m.entered = Side
  PROVE  Good(Started(m)) /\ Started(m).events = m.events
<1> DEFINE f == Started(m)
<1>m. m \in Match /\ (m.state = "DEATHMATCH_ENTERING" <=> m.dm > 0) /\ m.entry
      /\ m.winner = "NONE"
  BY DEF Good, Core, Phase, Entering
<1>t. f \in Match
  BY <1>m DEF f, Started, Match, State
<1>1. /\ f.state = IF m.dm > 0 THEN "DEATHMATCH_PLAYING" ELSE "ROUND_PLAYING"
      /\ f.round = m.round /\ f.dm = m.dm /\ f.results = m.results /\ f.entry = m.entry
      /\ f.entered = m.entered /\ f.winner = m.winner /\ f.events = m.events
  BY <1>m DEF f, Started, Match
<1> HIDE DEF f
<1>2. \A r \in f.events : Conceding(f, r)
  BY <1>1 DEF Good, Core, Conceding
<1>3. Core(f)
  BY <1>m, <1>t, <1>1, <1>2 DEF Good, Core, Context
<1>4. Phase(f)
  BY <1>m, <1>1 DEF Good, Phase, Playing, Entering
<1>5. QED
  BY <1>1, <1>3, <1>4 DEF Good, f

-----------------------------------------------------------------------------
(* Results *)

Played(m, result) == [m EXCEPT !.results = Append(@, result)]

LEMMA PlayedCore ==
  ASSUME NEW m, Good(m), m.state = "ROUND_PLAYING", NEW result \in Side \cup {"DRAW"}
  PROVE  LET p == Played(m, result) IN
         /\ Core(p) /\ p.winner = "NONE" /\ p.events = m.events
         /\ p.round = m.round /\ p.round >= 1 /\ p.dm = 0
         /\ p.results # <<>> /\ Len(p.results) = p.round
         /\ p.results[p.round] = result
<1> DEFINE p == Played(m, result)
<1>m. /\ m \in Match /\ m.winner = "NONE" /\ m.dm = 0
      /\ m.round >= 1 /\ Len(m.results) = m.round - 1
  BY DEF Good, Core, Phase
<1>r. m.results \in Results /\ m.round \in Nat
  BY <1>m DEF Match, Results
<1>a. /\ Append(m.results, result) \in Results
      /\ Len(Append(m.results, result)) = Len(m.results) + 1
      /\ Append(m.results, result)[Len(m.results) + 1] = result
      /\ \A i \in 1..Len(m.results) : Append(m.results, result)[i] = m.results[i]
  BY <1>r DEF Results
<1>t. p \in Match
  BY <1>m, <1>a DEF p, Played, Match, Results
<1>1. /\ p.state = m.state /\ p.round = m.round /\ p.dm = m.dm
      /\ p.results = Append(m.results, result)
      /\ p.entry = m.entry /\ p.entered = m.entered /\ p.winner = m.winner
      /\ p.events = m.events
  BY <1>m DEF p, Played, Match
<1> HIDE DEF p
<1>2. Len(p.results) = p.round /\ p.results # <<>> /\ p.results[p.round] = result
  BY <1>m, <1>r, <1>a, <1>1
<1>3. \A r \in p.events : Conceding(p, r)
  <2>1. SUFFICES ASSUME NEW r \in m.events PROVE Conceding(p, r)
    BY <1>1
  <2>2. Conceding(m, r) /\ m.winner = p.winner
    BY <1>1 DEF Good, Core
  <2>3. ASSUME r.context[1] \in 1..Len(m.results)
        PROVE  /\ r.context[1] \in 1..Len(p.results)
               /\ p.results[r.context[1]] = m.results[r.context[1]]
    BY <1>m, <1>r, <1>a, <1>1, <2>3
  <2>4. QED
    BY <2>2, <2>3 DEF Conceding
<1>4. Core(p)
  <2>1. p.entry => \A s \in p.entered : Context(p) \in scenes[s]
    BY <1>1 DEF Good, Core, Context
  <2>2. QED
    BY <1>m, <1>t, <1>1, <1>2, <1>3, <2>1 DEF Core
<1>5. QED
  BY <1>m, <1>1, <1>2, <1>4 DEF p

LEMMA RoundSettledGood ==
  ASSUME NEW m, Good(m), m.state = "ROUND_PLAYING", NEW result \in Side \cup {"DRAW"}
  PROVE  LET f == RoundSettled(m, result) IN
         /\ Good(f) /\ f.events = m.events
         /\ f.results = Append(m.results, result)
<1> DEFINE p == Played(m, result)
           next == Decision(p.results)
<1>m. m \in Match
  BY DEF Good, Core
<1>1. /\ Core(p) /\ p.winner = "NONE" /\ p.events = m.events /\ p \in Match
      /\ p.round = m.round /\ p.round >= 1 /\ p.dm = 0
      /\ p.results # <<>> /\ Len(p.results) = p.round
  BY PlayedCore DEF Core
<1>a. p.results = Append(m.results, result)
  BY <1>m DEF Played, Match
<1>2. RoundSettled(m, result) =
        CASE next \in Side       -> Finalized(p, next, "PLAYED")
          [] next = "DEATHMATCH" -> DeathmatchPrepared(p)
          [] OTHER               -> [p EXCEPT !.state = "ROUND_RESULT",
                                              !.timer = ResultTicks]
  BY DEF RoundSettled, Played
<1> HIDE DEF p
<1>3. CASE next \in Side
  <2>1. "PLAYED" \in Cause
    BY DEF Cause
  <2>2. RoundSettled(m, result) = Finalized(p, next, "PLAYED")
    <3>1. next # "DEATHMATCH"
      BY <1>3 DEF Side
    <3> HIDE DEF next
    <3>2. QED
      BY <1>2, <1>3, <3>1
  <2> HIDE DEF next
  <2>3. QED
    BY <1>1, <1>3, <1>a, <2>1, <2>2, FinalizedGood
<1>4. CASE next \notin Side /\ next = "DEATHMATCH"
  <2>1. RoundSettled(m, result) = DeathmatchPrepared(p)
    BY <1>2, <1>4
  <2>2. DeathmatchPrepared(p).results = p.results
    BY <1>1 DEF DeathmatchPrepared, Match
  <2> HIDE DEF next
  <2>3. QED
    BY <1>1, <1>a, <2>1, <2>2, DeathmatchPreparedGood
<1>5. CASE next \notin Side /\ next # "DEATHMATCH"
  <2> DEFINE f == [p EXCEPT !.state = "ROUND_RESULT", !.timer = ResultTicks]
  <2>1. RoundSettled(m, result) = f
    BY <1>2, <1>5
  <2>2. p.round \in 1..2
    <3>1. p.results[Len(p.results)] = result
      BY <1>1, PlayedCore DEF p
    <3>2. Len(p.results) = 1 \/ Len(p.results) = 2
      BY <1>5, <3>1 DEF Decision
    <3>3. QED
      BY <1>1, <3>2
  <2> HIDE DEF next
  <2>t. f \in Match
    BY <1>1, DurationsAssumption DEF Match, State
  <2>3. /\ f.state = "ROUND_RESULT" /\ f.round = p.round /\ f.dm = p.dm
        /\ f.results = p.results /\ f.entry = p.entry /\ f.entered = p.entered
        /\ f.winner = p.winner /\ f.events = p.events
    BY <1>1 DEF Match
  <2> HIDE DEF f
  <2>4. \A r \in f.events : Conceding(f, r)
    BY <1>1, <2>3 DEF Core, Conceding
  <2>5. Core(f)
    BY <1>1, <2>t, <2>3, <2>4 DEF Core, Context
  <2>6. Phase(f)
    BY <1>1, <2>2, <2>3 DEF Phase, Playing, Entering
  <2>7. QED
    BY <1>1, <1>a, <2>1, <2>3, <2>5, <2>6 DEF Good
<1>6. QED
  BY <1>3, <1>4, <1>5

LEMMA ConcededGood ==
  ASSUME NEW m, Good(m), Playing(m), NEW s \in Side,
         NEW scope \in {"ROUND", "MATCH"}, NEW cause \in Cause
  PROVE  LET f == Conceded(m, s, scope, cause) IN
         /\ Good(f) /\ f.events = m.events
         /\ \A r : r.side = s /\ r.scope = scope /\ r.context = Context(m)
                   => Conceding(f, r)
<1> DEFINE f == Conceded(m, s, scope, cause)
           w == Other(s)
<1>m. m \in Match /\ Core(m) /\ m.winner = "NONE" /\ w \in Side
  BY OtherIsASide DEF Good, Core, Playing
<1>1. CASE m.state = "DEATHMATCH_PLAYING"
  <2> DEFINE q == [m EXCEPT !.running = {}]
  <2>1. q \in Match
    BY <1>m DEF Match
  <2>2. /\ q.state = m.state /\ q.round = m.round /\ q.dm = m.dm
        /\ q.results = m.results /\ q.entry = m.entry /\ q.entered = m.entered
        /\ q.winner = m.winner /\ q.events = m.events
    BY <1>m DEF Match
  <2>3. m.dm > 0 /\ m.results # <<>>
    BY <1>1 DEF Good, Core, Phase
  <2>4. f = Finalized(q, w, cause)
    BY <1>1 DEF Conceded
  <2> HIDE DEF q, f, w
  <2>5. \A r \in q.events : Conceding(q, r)
    BY <2>2 DEF Good, Core, Conceding
  <2>6. Core(q)
    BY <1>m, <2>1, <2>2, <2>5 DEF Core, Context
  <2>7. Good(f) /\ f.events = m.events /\ f.winner = w
    BY <1>m, <2>2, <2>3, <2>4, <2>6, FinalizedGood
  <2>8. Context(m)[2] > 0
    BY <2>3 DEF Context
  <2>9. QED
    BY <2>7, <2>8 DEF Conceding, f, w
<1>2. CASE m.state # "DEATHMATCH_PLAYING"
  <2>1. /\ m.state = "ROUND_PLAYING" /\ m.dm = 0 /\ m.round >= 1
        /\ Len(m.results) = m.round - 1 /\ m.results \in Results /\ m.round \in Nat
    BY <1>m, <1>2 DEF Good, Phase, Playing, Match, Results
  <2>2. w \in Side \cup {"DRAW"}
    BY <1>m
  <2> HIDE DEF w
  <2>3. /\ m.round \in 1..Len(Append(m.results, w))
        /\ Append(m.results, w)[m.round] = w
    BY <2>1, <2>2 DEF Results
  <2>4. Context(m) = <<m.round, 0>>
    BY <2>1 DEF Context
  <2>5. CASE scope = "MATCH"
    <3> DEFINE p == Played(m, w)
    <3>1. Core(p) /\ p.winner = "NONE" /\ p.events = m.events /\ p.results # <<>>
      BY <2>1, <2>2, PlayedCore
    <3>2. f = Finalized(p, w, cause) /\ p.results = Append(m.results, w)
      BY <1>m, <1>2, <2>5 DEF Conceded, Played, Match, w
    <3> HIDE DEF p, f
    <3>3. Good(f) /\ f.events = m.events /\ f.winner = w /\ f.results = Append(m.results, w)
      BY <1>m, <3>1, <3>2, FinalizedGood
    <3>4. QED
      BY <2>3, <2>4, <3>3 DEF Conceding, f, w
  <2>6. CASE scope # "MATCH"
    <3>1. f = RoundSettled(m, w)
      BY <1>2, <2>6 DEF Conceded, w
    <3> HIDE DEF f
    <3>2. Good(f) /\ f.events = m.events /\ f.results = Append(m.results, w)
      BY <2>1, <2>2, <3>1, RoundSettledGood
    <3>3. QED
      BY <2>3, <2>4, <2>6, <3>2 DEF Conceding, f, w
  <2>7. QED
    BY <2>5, <2>6
<1>3. QED
  BY <1>1, <1>2

LEMMA DeathmatchSettledGood ==
  ASSUME NEW m, Good(m), m.state = "DEATHMATCH_PLAYING"
  PROVE  Good(DeathmatchSettled(m)) /\ DeathmatchSettled(m).events = m.events
<1>m. m \in Match /\ Core(m) /\ m.winner = "NONE" /\ m.results # <<>>
  BY DEF Good, Core, Phase
<1>1. CASE ~Complete(m)
  BY <1>1 DEF DeathmatchSettled
<1>2. CASE Complete(m) /\ m.best["A"] = m.best["B"]
  <2> DEFINE f == [m EXCEPT !.state = "DEATHMATCH_RESULT", !.timer = ResultTicks]
  <2>1. DeathmatchSettled(m) = f
    BY <1>2 DEF DeathmatchSettled
  <2>2. f \in Match
    BY <1>m, DurationsAssumption DEF Match, State
  <2>3. /\ f.state = "DEATHMATCH_RESULT" /\ f.round = m.round /\ f.dm = m.dm
        /\ f.results = m.results /\ f.entry = m.entry /\ f.entered = m.entered
        /\ f.winner = m.winner /\ f.events = m.events
    BY <1>m DEF Match
  <2> HIDE DEF f
  <2>4. \A r \in f.events : Conceding(f, r)
    BY <2>3 DEF Good, Core, Conceding
  <2>5. Core(f)
    BY <1>m, <2>2, <2>3, <2>4 DEF Core, Context
  <2>6. Phase(f)
    BY <2>3 DEF Good, Phase, Playing, Entering
  <2>7. QED
    BY <2>1, <2>3, <2>5, <2>6 DEF Good
<1>3. CASE Complete(m) /\ m.best["A"] # m.best["B"]
  <2>1. PICK w \in Side : DeathmatchSettled(m) = Finalized(m, w, "PLAYED")
    BY <1>3 DEF DeathmatchSettled, Side
  <2>2. "PLAYED" \in Cause
    BY DEF Cause
  <2>3. QED
    BY <1>m, <2>1, <2>2, FinalizedGood
<1>4. QED
  BY <1>1, <1>2, <1>3

-----------------------------------------------------------------------------
(* Deadlines and the advance *)

LEMMA ForfeitGood ==
  ASSUME NEW m, Core(m), m.winner = "NONE", NEW S \in SUBSET Side, NEW cause \in Cause,
         m.results # <<>> \/ cause \in {"READY", "RECONNECT"},
         NEW f \in {Finalized(m, s, cause) : s \in S}
  PROVE  Good(f) /\ f.events = m.events
<1>1. PICK s \in S : f = Finalized(m, s, cause)
  OBVIOUS
<1>2. QED
  BY <1>1, FinalizedGood

LEMMA LaterSceneHasResults ==
  ASSUME NEW m, Good(m),
         m.state \in {"ROUND_PREPARE", "DEATHMATCH_PREPARE"} \/ Entering(m),
         ~(m.dm = 0 /\ m.round = 1)
  PROVE  m.results # <<>>
<1>1. m \in Match /\ m.dm \in Nat /\ m.round \in Nat /\ m.results \in Results
  BY DEF Good, Core, Match, Results
<1>2. CASE m.dm > 0
  BY <1>2 DEF Good, Core
<1>3. CASE m.dm = 0
  <2>1. m.round >= 1 /\ Len(m.results) = m.round - 1
    BY <1>3 DEF Good, Phase, Entering
  <2>2. Len(m.results) # 0
    BY <1>1, <1>3, <2>1
  <2>3. QED
    BY <2>2
<1>4. QED
  BY <1>1, <1>2, <1>3

LEMMA TimedOutGood ==
  ASSUME NEW m, Good(m), Due(m), NEW f \in TimedOut(m)
  PROVE  Good(f) /\ f.events = m.events
<1>m. /\ m \in Match /\ Core(m) /\ m.winner = "NONE" /\ m.ready \in SUBSET Side
      /\ m.entered \in SUBSET Side
  BY OpenHasNoWinner DEF Due, Good, Core, Match
<1>c. {"READY", "RESOURCE", "ENTRY"} \subseteq Cause
  BY DEF Cause
<1>1. CASE m.state = "MATCHED"
  <2>1. TimedOut(m) = ReadyTimedOut(m)
    BY <1>1 DEF TimedOut, Entering
  <2>2. f = Cancelled(m) \/ f \in {Finalized(m, s, "READY") : s \in m.ready}
    BY <2>1 DEF ReadyTimedOut
  <2>3. CASE f = Cancelled(m)
    BY <1>m, <2>3, CancelledGood
  <2>4. CASE f \in {Finalized(m, s, "READY") : s \in m.ready}
    <3>1. "READY" \in Cause /\ "READY" \in {"READY", "RECONNECT"}
      BY <1>c
    <3>2. QED
      BY <1>m, <2>4, <3>1, ForfeitGood
  <2>5. QED
    BY <2>2, <2>3, <2>4
<1>2. CASE m.state = "BAN_PHASE"
  <2>1. TimedOut(m) = {BansFinalized(m)}
    BY <1>2 DEF TimedOut, Entering
  <2>2. QED
    BY <1>2, <2>1, BansFinalizedGood
<1>3. CASE m.state \in {"ROUND_PREPARE", "DEATHMATCH_PREPARE"}
  <2>1. TimedOut(m) = PrepareTimedOut(m)
    BY <1>3 DEF TimedOut, Entering
  <2>2. \/ f = Cancelled(m)
        \/ m.results # <<>> /\ f \in {Finalized(m, s, "RESOURCE") : s \in m.ready}
    BY <1>3, <2>1, LaterSceneHasResults DEF PrepareTimedOut
  <2>3. QED
    BY <1>m, <1>c, <2>2, CancelledGood, ForfeitGood
<1>4. CASE Entering(m)
  <2>1. f \in EntryTimedOut(m)
    BY <1>4 DEF TimedOut, Entering
  <2>2. \/ m.entered = Side /\ f = Started(m)
        \/ f = Cancelled(m)
        \/ m.results # <<>> /\ f \in {Finalized(m, s, "ENTRY") : s \in m.entered}
    BY <1>4, <2>1, LaterSceneHasResults DEF EntryTimedOut
  <2>3. QED
    BY <1>4, <1>m, <1>c, <2>2, CancelledGood, ForfeitGood, StartedGood
<1>5. CASE m.state = "ROUND_RESULT"
  BY <1>5, NextRoundPreparedGood DEF TimedOut, Entering
<1>6. CASE m.state = "DEATHMATCH_RESULT"
  <2>1. f = DeathmatchPrepared(m)
    BY <1>6 DEF TimedOut, Entering
  <2>2. m.results # <<>> /\ m.round >= 1 /\ Len(m.results) = m.round
    BY <1>6 DEF Good, Core, Phase
  <2>3. QED
    BY <1>m, <2>1, <2>2, DeathmatchPreparedGood
<1>7. QED
  BY <1>m, <1>1, <1>2, <1>3, <1>4, <1>5, <1>6
     DEF Due, Terminal, Playing, Entering, Match, State

LEMMA DisconnectedGood ==
  ASSUME NEW m, Good(m), ~Terminal(m), NEW f \in Disconnected(m)
  PROVE  Good(f) /\ f.events = m.events
<1>m. Core(m) /\ m.winner = "NONE"
  BY OpenHasNoWinner DEF Good
<1>1. CASE f = Cancelled(m)
  BY <1>m, <1>1, CancelledGood
<1>2. CASE f # Cancelled(m)
  <2>1. PICK s \in Silent(m) : f = Finalized(m, Other(s), "RECONNECT")
    BY <1>2 DEF Disconnected
  <2>2. Other(s) \in Side /\ "RECONNECT" \in Cause
    BY OtherIsASide DEF Silent, Cause
  <2>3. QED
    BY <1>m, <2>1, <2>2, FinalizedGood
<1>3. QED
  BY <1>1, <1>2

LEMMA AdvanceGood ==
  ASSUME NEW m, Good(m), NEW f \in Advance(m)
  PROVE  Good(f) /\ f.events = m.events
<1>1. CASE Playing(m) /\ f \in {Conceded(m, s, "MATCH", "PAUSE") : s \in Side}
  <2>1. PICK s \in Side : f = Conceded(m, s, "MATCH", "PAUSE")
    BY <1>1
  <2>2. "MATCH" \in {"ROUND", "MATCH"} /\ "PAUSE" \in Cause
    BY DEF Cause
  <2>3. QED
    BY <1>1, <2>1, <2>2, ConcededGood
<1>2. CASE Silent(m) # {} /\ f \in Disconnected(m)
  <2>1. ~Terminal(m)
    BY <1>2 DEF Silent
  <2>2. QED
    BY <1>2, <2>1, DisconnectedGood
<1>3. CASE Due(m) /\ f \in TimedOut(m)
  BY <1>3, TimedOutGood
<1>4. CASE f = m
  BY <1>4
<1>5. CASE m.state = "ROUND_PLAYING" /\ f \in {RoundSettled(m, r) : r \in Side \cup {"DRAW"}}
  <2>1. PICK r \in Side \cup {"DRAW"} : f = RoundSettled(m, r)
    BY <1>5
  <2>2. QED
    BY <1>5, <2>1, RoundSettledGood
<1>6. QED
  BY <1>1, <1>2, <1>3, <1>4, <1>5 DEF Advance

-----------------------------------------------------------------------------
(* The handlers *)

(* What an operation leaves Good when it changes nothing that Good reads. *)
LEMMA OtherFieldsGood ==
  ASSUME NEW m, Good(m), NEW f, f \in Match,
         f.state = m.state, f.round = m.round, f.dm = m.dm, f.results = m.results,
         f.entry = m.entry, f.entered = m.entered, f.winner = m.winner,
         f.cause = m.cause, f.events = m.events
  PROVE  Good(f)
<1>1. \A r \in f.events : Conceding(f, r)
  BY DEF Good, Core, Conceding
<1>2. Core(f)
  BY <1>1 DEF Good, Core, Context
<1>3. Phase(f)
  BY DEF Good, Phase, Playing, Entering
<1>4. QED
  BY <1>2, <1>3 DEF Good

LEMMA HeardGood ==
  ASSUME NEW m, Good(m), NEW s \in Side
  PROVE  LET f == [m EXCEPT !.heard = @ \cup {s}, !.quiet[s] = 0] IN
         Good(f) /\ f.events = m.events
<1> DEFINE f == [m EXCEPT !.heard = @ \cup {s}, !.quiet[s] = 0]
<1>m. /\ m \in Match /\ m.heard \cup {s} \in SUBSET Side
      /\ [m.quiet EXCEPT ![s] = 0] \in [Side -> 0..ReconnectGrace]
  BY DurationsAssumption DEF Good, Core, Match
<1>1. f \in Match
  BY <1>m DEF Match
<1>2. /\ f.state = m.state /\ f.round = m.round /\ f.dm = m.dm /\ f.results = m.results
      /\ f.entry = m.entry /\ f.entered = m.entered /\ f.winner = m.winner
      /\ f.cause = m.cause /\ f.events = m.events
  BY <1>m DEF Match
<1> HIDE DEF f
<1>3. QED
  BY <1>1, <1>2, OtherFieldsGood DEF f

LEMMA ReadyForGood ==
  ASSUME NEW m, Good(m), NEW s \in Side,
         Entering(m) \/ m.state \in {"MATCHED", "ROUND_PREPARE", "DEATHMATCH_PREPARE"}
  PROVE  Good(ReadyFor(m, s)) /\ ReadyFor(m, s).events = m.events
<1> DEFINE r == [m EXCEPT !.ready = @ \cup {s}]
           b == [r EXCEPT !.state = "BAN_PHASE", !.timer = BanTicks]
<1>m. m \in Match /\ m.ready \cup {s} \in SUBSET Side
  BY DEF Good, Core, Match
<1>1. r \in Match
  BY <1>m DEF Match
<1>2. /\ r.state = m.state /\ r.round = m.round /\ r.dm = m.dm /\ r.results = m.results
      /\ r.entry = m.entry /\ r.entered = m.entered /\ r.winner = m.winner
      /\ r.cause = m.cause /\ r.events = m.events
  BY <1>m DEF Match
<1>3. b \in Match
  BY <1>1, DurationsAssumption DEF Match, State
<1>4. /\ b.state = "BAN_PHASE" /\ b.round = r.round /\ b.dm = r.dm
      /\ b.results = r.results /\ b.entry = r.entry /\ b.entered = r.entered
      /\ b.winner = r.winner /\ b.events = r.events
  BY <1>1 DEF Match
<1>5. \/ ReadyFor(m, s) = m
      \/ ReadyFor(m, s) = r
      \/ m.state = "MATCHED" /\ ReadyFor(m, s) \in {b, BansFinalized(b)}
      \/ /\ m.state \in {"ROUND_PREPARE", "DEATHMATCH_PREPARE"}
         /\ ReadyFor(m, s) = EntryBegun(r)
  BY DEF ReadyFor
<1> HIDE DEF b, r
<1>6. Good(r)
  BY <1>1, <1>2, OtherFieldsGood
<1>7. ASSUME m.state = "MATCHED"
      PROVE  Good(b)
  <2>1. \A e \in b.events : Conceding(b, e)
    BY <1>4, <1>6 DEF Good, Core, Conceding
  <2>2. r.winner = "NONE"
    BY <1>2, <1>6, <1>7 DEF Good, Core
  <2>3. Core(b)
    BY <1>3, <1>4, <1>6, <2>1, <2>2 DEF Good, Core, Context
  <2>4. Phase(b)
    BY <1>2, <1>4, <1>6, <1>7 DEF Good, Phase, Playing, Entering
  <2>5. QED
    BY <2>3, <2>4 DEF Good
<1>8. ASSUME m.state = "MATCHED"
      PROVE  Good(BansFinalized(b)) /\ BansFinalized(b).events = m.events
  BY <1>2, <1>4, <1>7, <1>8, BansFinalizedGood
<1>9. ASSUME m.state \in {"ROUND_PREPARE", "DEATHMATCH_PREPARE"}
      PROVE  Good(EntryBegun(r)) /\ EntryBegun(r).events = m.events
  BY <1>2, <1>6, <1>9, EntryBegunGood
<1>10. QED
  BY <1>2, <1>4, <1>5, <1>6, <1>7, <1>8, <1>9

LEMMA BannedGood ==
  ASSUME NEW m, Good(m), NEW s \in Side
  PROVE  LET f == [m EXCEPT !.banned = @ \cup {s}] IN
         Good(f) /\ f.events = m.events
<1> DEFINE f == [m EXCEPT !.banned = @ \cup {s}]
<1>m. m \in Match /\ m.banned \cup {s} \in SUBSET Side
  BY DEF Good, Core, Match
<1>1. f \in Match
  BY <1>m DEF Match
<1>2. /\ f.state = m.state /\ f.round = m.round /\ f.dm = m.dm /\ f.results = m.results
      /\ f.entry = m.entry /\ f.entered = m.entered /\ f.winner = m.winner
      /\ f.cause = m.cause /\ f.events = m.events
  BY <1>m DEF Match
<1> HIDE DEF f
<1>3. QED
  BY <1>1, <1>2, OtherFieldsGood DEF f

LEMMA EnteredByGood ==
  ASSUME NEW m, Good(m), NEW s \in Side, m.entry, Context(m) \in scenes[s],
         Terminal(m) \/ s \in m.entered \/ Entering(m)
  PROVE  Good(EnteredBy(m, s)) /\ EnteredBy(m, s).events = m.events
<1>1. CASE Terminal(m) \/ s \in m.entered
  BY <1>1 DEF EnteredBy
<1>2. CASE Entering(m) /\ ~(Terminal(m) \/ s \in m.entered)
  <2> DEFINE f == EnteredBy(m, s)
  <2>m. m \in Match /\ m.entered \cup {s} \in SUBSET Side /\ CountdownTicks \in Nat
    BY DurationsAssumption DEF Good, Core, Match
  <2>1. f = [m EXCEPT !.entered = @ \cup {s},
                      !.timer = IF m.entered \cup {s} = Side THEN CountdownTicks ELSE @]
    BY <1>2 DEF EnteredBy
  <2> HIDE DEF f
  <2>2. f \in Match
    BY <2>m, <2>1 DEF Match
  <2>3. /\ f.state = m.state /\ f.round = m.round /\ f.dm = m.dm
        /\ f.results = m.results /\ f.entry = m.entry
        /\ f.entered = m.entered \cup {s} /\ f.winner = m.winner
        /\ f.cause = m.cause /\ f.events = m.events
    BY <2>m, <2>1 DEF Match
  <2>4. \A r \in f.events : Conceding(f, r)
    BY <2>3 DEF Good, Core, Conceding
  <2>5. \A t \in f.entered : Context(f) \in scenes[t]
    BY <2>3 DEF Good, Core, Context
  <2>6. Core(f)
    BY <2>2, <2>3, <2>4, <2>5 DEF Good, Core
  <2>7. Phase(f)
    BY <1>2, <2>3 DEF Good, Phase, Playing, Entering
  <2>8. QED
    BY <2>3, <2>6, <2>7 DEF Good, f
<1>3. QED
  BY <1>1, <1>2

LEMMA ResourceFailedGood ==
  ASSUME NEW m, Good(m), NEW s \in Side,
         Terminal(m) \/ m.state \in {"ROUND_PREPARE", "DEATHMATCH_PREPARE"}
  PROVE  Good(ResourceFailed(m, s)) /\ ResourceFailed(m, s).events = m.events
<1>1. CASE Terminal(m)
  BY <1>1 DEF ResourceFailed
<1>2. CASE ~Terminal(m)
  <2>1. Core(m) /\ m.winner = "NONE"
    BY <1>2, OpenHasNoWinner DEF Good
  <2>2. CASE m.state = "ROUND_PREPARE" /\ m.round = 1
    BY <1>2, <2>1, <2>2, CancelledGood DEF ResourceFailed
  <2>3. CASE ~(m.state = "ROUND_PREPARE" /\ m.round = 1)
    <3>1. m.results # <<>>
      <4>1. m.state = "DEATHMATCH_PREPARE" => m.dm > 0
        BY DEF Good, Phase
      <4>2. CASE m.state = "DEATHMATCH_PREPARE"
        BY <4>1, <4>2 DEF Good, Core
      <4>3. CASE m.state = "ROUND_PREPARE"
        BY <2>3, <4>3, LaterSceneHasResults
      <4>4. QED
        BY <1>2, <4>2, <4>3
    <3>2. ResourceFailed(m, s) = Finalized(m, Other(s), "RESOURCE")
      BY <1>2, <2>3 DEF ResourceFailed
    <3>3. Other(s) \in Side /\ "RESOURCE" \in Cause
      BY OtherIsASide DEF Cause
    <3>4. QED
      BY <2>1, <3>1, <3>2, <3>3, FinalizedGood
  <2>4. QED
    BY <2>2, <2>3
<1>3. QED
  BY <1>1, <1>2

LEMMA AttemptStartedGood ==
  ASSUME NEW m, Good(m), NEW s \in Side, ~(m.attempts[s] >= DeathmatchAttempts)
  PROVE  LET f == [m EXCEPT !.running = @ \cup {s}, !.attempts[s] = @ + 1] IN
         Good(f) /\ f.events = m.events
<1> DEFINE f == [m EXCEPT !.running = @ \cup {s}, !.attempts[s] = @ + 1]
<1>m. /\ m \in Match /\ m.running \cup {s} \in SUBSET Side
      /\ m.attempts \in [Side -> 0..DeathmatchAttempts]
  BY DEF Good, Core, Match
<1>a. [m.attempts EXCEPT ![s] = @ + 1] \in [Side -> 0..DeathmatchAttempts]
  <2>1. m.attempts[s] \in 0..DeathmatchAttempts /\ DeathmatchAttempts \in Nat
    BY <1>m, DurationsAssumption
  <2>2. m.attempts[s] + 1 \in 0..DeathmatchAttempts
    BY <2>1
  <2>3. QED
    BY <1>m, <2>2
<1>1. f \in Match
  BY <1>m, <1>a DEF Match
<1>2. /\ f.state = m.state /\ f.round = m.round /\ f.dm = m.dm /\ f.results = m.results
      /\ f.entry = m.entry /\ f.entered = m.entered /\ f.winner = m.winner
      /\ f.cause = m.cause /\ f.events = m.events
  BY <1>m DEF Match
<1> HIDE DEF f
<1>3. QED
  BY <1>1, <1>2, OtherFieldsGood DEF f

LEMMA AttemptEndedGood ==
  ASSUME NEW m, Good(m), m.state = "DEATHMATCH_PLAYING", NEW s \in Side,
         NEW percent \in 0..1
  PROVE  LET f == [m EXCEPT !.running = @ \ {s},
                            !.best[s] = IF percent > @ THEN percent ELSE @]
         IN  Good(DeathmatchSettled(f)) /\ DeathmatchSettled(f).events = m.events
<1> DEFINE f == [m EXCEPT !.running = @ \ {s},
                          !.best[s] = IF percent > @ THEN percent ELSE @]
<1>m. m \in Match /\ m.running \ {s} \in SUBSET Side /\ m.best \in [Side -> 0..1]
  BY DEF Good, Core, Match
<1>a. [m.best EXCEPT ![s] = IF percent > @ THEN percent ELSE @] \in [Side -> 0..1]
  BY <1>m
<1>1. f \in Match
  BY <1>m, <1>a DEF Match
<1>2. /\ f.state = m.state /\ f.round = m.round /\ f.dm = m.dm /\ f.results = m.results
      /\ f.entry = m.entry /\ f.entered = m.entered /\ f.winner = m.winner
      /\ f.cause = m.cause /\ f.events = m.events
  BY <1>m DEF Match
<1> HIDE DEF f
<1>3. Good(f)
  BY <1>1, <1>2, OtherFieldsGood
<1>4. Good(DeathmatchSettled(f)) /\ DeathmatchSettled(f).events = m.events
  BY <1>2, <1>3, DeathmatchSettledGood
<1>5. QED
  BY <1>4 DEF f

LEMMA RecordedGood ==
  ASSUME NEW f, Good(f), NEW r \in Request, Conceding(f, r)
  PROVE  LET g == [f EXCEPT !.events = @ \cup {r}] IN
         Good(g) /\ g.events = f.events \cup {r}
<1> DEFINE g == [f EXCEPT !.events = @ \cup {r}]
<1>m. f \in Match /\ f.events \cup {r} \in SUBSET Request
  BY DEF Good, Core, Match
<1>1. g \in Match
  BY <1>m DEF Match
<1>2. /\ g.state = f.state /\ g.round = f.round /\ g.dm = f.dm /\ g.results = f.results
      /\ g.entry = f.entry /\ g.entered = f.entered /\ g.winner = f.winner
      /\ g.cause = f.cause /\ g.events = f.events \cup {r}
  BY <1>m DEF Match
<1> HIDE DEF g
<1>3. \A e \in g.events : Conceding(g, e)
  BY <1>2 DEF Good, Core, Conceding
<1>4. Core(g)
  BY <1>1, <1>2, <1>3 DEF Good, Core, Context
<1>5. Phase(g)
  BY <1>2 DEF Good, Phase, Playing, Entering
<1>6. QED
  BY <1>2, <1>4, <1>5 DEF Good, g

LEMMA TickedGood ==
  ASSUME NEW m, Good(m)
  PROVE  LET f == [m EXCEPT
               !.timer = IF @ > 0 THEN @ - 1 ELSE 0,
               !.quiet = [s \in Side |-> IF s \in m.heard
                                         THEN AtMost(@[s] + 1, ReconnectGrace) ELSE 0]]
         IN  Good(f) /\ f.events = m.events
<1> DEFINE q == [s \in Side |-> IF s \in m.heard
                                THEN AtMost(m.quiet[s] + 1, ReconnectGrace) ELSE 0]
           f == [m EXCEPT !.timer = IF @ > 0 THEN @ - 1 ELSE 0,
                          !.quiet = [s \in Side |->
                             IF s \in m.heard
                             THEN AtMost(@[s] + 1, ReconnectGrace) ELSE 0]]
<1>m. m \in Match /\ m.timer \in Nat /\ m.quiet \in [Side -> 0..ReconnectGrace]
  BY DEF Good, Core, Match
<1>a. (IF m.timer > 0 THEN m.timer - 1 ELSE 0) \in Nat
  BY <1>m
<1>q. q \in [Side -> 0..ReconnectGrace]
  BY <1>m, DurationsAssumption DEF AtMost
<1>1. f = [m EXCEPT !.timer = IF m.timer > 0 THEN m.timer - 1 ELSE 0, !.quiet = q]
  BY <1>m DEF Match
<1> HIDE DEF f, q
<1>2. f \in Match
  BY <1>m, <1>a, <1>q, <1>1 DEF Match
<1>3. /\ f.state = m.state /\ f.round = m.round /\ f.dm = m.dm /\ f.results = m.results
      /\ f.entry = m.entry /\ f.entered = m.entered /\ f.winner = m.winner
      /\ f.cause = m.cause /\ f.events = m.events
  BY <1>m, <1>1 DEF Match
<1>4. Good(f)
  BY <1>2, <1>3, OtherFieldsGood
<1>5. QED
  BY <1>3, <1>4 DEF f

-----------------------------------------------------------------------------
(* The steps *)

LEMMA InitIInv == Init => IInv
<1> SUFFICES ASSUME Init PROVE IInv
  OBVIOUS
<1>1. NewMatch \in Match
  <2>1. /\ ReadyTicks \in Nat /\ [s \in Side |-> 0] \in [Side -> 0..ReconnectGrace]
        /\ [s \in Side |-> 0] \in [Side -> 0..DeathmatchAttempts]
        /\ [s \in Side |-> 0] \in [Side -> 0..1]
        /\ <<>> \in Seq(Side \cup {"DRAW"})
    BY DurationsAssumption
  <2>2. QED
    BY <2>1 DEF NewMatch, Match, State, Cause
<1>2. Good(NewMatch) /\ NewMatch.events = {}
  BY <1>1 DEF NewMatch, Good, Core, Phase, Playing, Entering
<1>3. QED
  BY <1>2 DEF Init, IInv, Asked

(* A handler that leaves the match with the surrenders it had. *)
LEMMA SameScenes ==
  ASSUME IInv, NEW f, Good(f), f.events \subseteq asked, match' = f,
         UNCHANGED <<terms, scenes, asked, left>>
  PROVE  IInv'
<1>1. Good(match)'
  BY DEF Good, Core, Phase, Playing, Entering, Context, Conceding
<1>2. QED
  BY <1>1 DEF IInv, Asked

LEMMA AdvanceFacts ==
  ASSUME IInv, NEW m \in Advance(match)
  PROVE  Good(m) /\ m.events = match.events /\ m.events \subseteq asked
  BY AdvanceGood DEF IInv

LEMMA StepIInv == IInv /\ [Next]_vars => IInv'
<1> SUFFICES ASSUME IInv, [Next]_vars PROVE IInv'
  OBVIOUS
<1>1. CASE UNCHANGED vars
  BY <1>1 DEF vars, IInv, Asked, Good, Core, Phase, Playing, Entering, Context, Conceding
<1>2. CASE Tick
  BY <1>2, TickedGood, SameScenes DEF Tick, IInv
<1>3. CASE Restart
  <2>1. Core(match) /\ match.winner = "NONE"
    BY <1>3, OpenHasNoWinner DEF Restart, IInv, Good
  <2>2. QED
    BY <1>3, <2>1, CancelledGood, SameScenes DEF Restart, IInv
<1>4. CASE QueueAgain
  BY <1>4, AdvanceFacts, SameScenes DEF QueueAgain
<1>5. ASSUME NEW r \in asked, Surrender(r) PROVE IInv'
  <2>1. PICK m \in Advance(match) :
          \/ MatchConceded(m) /\ match' = m
          \/ /\ SurrenderMatches(m, r)
             /\ match' = [Conceded(m, r.side, r.scope, "SURRENDER")
                            EXCEPT !.events = @ \cup {r}]
    BY <1>5 DEF Surrender
  <2>m. Good(m) /\ m.events \subseteq asked
    BY AdvanceFacts
  <2>u. UNCHANGED <<terms, scenes, asked, left>>
    BY <1>5 DEF Surrender
  <2>2. CASE match' = m
    BY <2>2, <2>m, <2>u, SameScenes
  <2>3. CASE /\ SurrenderMatches(m, r)
             /\ match' = [Conceded(m, r.side, r.scope, "SURRENDER")
                            EXCEPT !.events = @ \cup {r}]
    <3> DEFINE c == Conceded(m, r.side, r.scope, "SURRENDER")
    <3>1. r \in Request /\ r.side \in Side /\ r.scope \in {"ROUND", "MATCH"}
      BY DEF IInv, Asked, Request
    <3>2. Playing(m) /\ r.context = Context(m) /\ "SURRENDER" \in Cause
      BY <2>3 DEF SurrenderMatches, Cause
    <3>3. Good(c) /\ c.events = m.events /\ Conceding(c, r)
      BY <2>m, <3>1, <3>2, ConcededGood
    <3> HIDE DEF c
    <3>4. /\ Good([c EXCEPT !.events = @ \cup {r}])
          /\ [c EXCEPT !.events = @ \cup {r}].events = m.events \cup {r}
      BY <3>1, <3>3, RecordedGood
    <3>5. QED
      BY <2>m, <2>u, <2>3, <3>4, SameScenes DEF c
  <2>4. QED
    BY <2>1, <2>2, <2>3
<1>6. ASSUME NEW s \in Side, Poll(s) PROVE IInv'
  BY <1>6, AdvanceFacts, HeardGood, SameScenes DEF Poll
<1>7. ASSUME NEW s \in Side, Ready(s) PROVE IInv'
  BY <1>7, AdvanceFacts, ReadyForGood, SameScenes DEF Ready
<1>8. ASSUME NEW s \in Side, SubmitBan(s) PROVE IInv'
  BY <1>8, AdvanceFacts, BansFinalizedGood, BannedGood, SameScenes DEF SubmitBan
<1>9. ASSUME NEW s \in Side, InstallScene(s) PROVE IInv'
  <2>1. Context(match) \in Contexts
    BY DEF IInv, Good, Core, Match, Context, Contexts
  <2>2. /\ scenes' = [scenes EXCEPT ![s] = @ \cup {Context(match)}]
        /\ UNCHANGED <<terms, match, asked, left>>
    BY <1>9 DEF InstallScene
  <2>3. Asked'
    BY <2>1, <2>2 DEF IInv, Asked
  <2>4. \A t \in Side : scenes[t] \subseteq scenes'[t]
    BY <2>2 DEF IInv, Asked
  <2>5. Core(match)'
    <3>1. match.entered \subseteq Side
      BY DEF IInv, Good, Core, Match
    <3>2. match.entry => \A t \in match.entered : Context(match) \in scenes'[t]
      BY <2>4, <3>1 DEF IInv, Good, Core
    <3>3. QED
      BY <2>2, <3>2 DEF IInv, Good, Core, Context, Conceding
  <2>6. QED
    BY <2>2, <2>3, <2>5 DEF IInv, Good, Phase, Playing, Entering
<1>10. ASSUME NEW s \in Side, ResourceFailure(s) PROVE IInv'
  BY <1>10, AdvanceFacts, ResourceFailedGood, SameScenes DEF ResourceFailure
<1>11. ASSUME NEW s \in Side, DeathmatchStart(s) PROVE IInv'
  BY <1>11, AdvanceFacts, AttemptStartedGood, SameScenes DEF DeathmatchStart
<1>12. ASSUME NEW s \in Side, Leave(s) PROVE IInv'
  BY <1>12
     DEF Leave, IInv, Asked, Good, Core, Phase, Playing, Entering, Context, Conceding
<1>13. ASSUME NEW s \in Side, NEW percent \in 0..1, DeathmatchEnd(s, percent) PROVE IInv'
  BY <1>13, AdvanceFacts, AttemptEndedGood, SameScenes DEF DeathmatchEnd
<1>14. ASSUME NEW s \in Side, NEW context \in scenes[s], Entered(s, context) PROVE IInv'
  BY <1>14, AdvanceFacts, EnteredByGood, SameScenes DEF Entered, EntryMatches
<1>15. ASSUME NEW s \in Side, NEW scope \in {"ROUND", "MATCH"}, AskSurrender(s, scope)
       PROVE  IInv'
  <2>1. Context(match) \in Contexts
    BY DEF IInv, Good, Core, Match, Context, Contexts
  <2>2. /\ asked' = asked \cup {[side |-> s, scope |-> scope, context |-> Context(match)]}
        /\ UNCHANGED <<terms, match, scenes, left>>
    BY <1>15 DEF AskSurrender
  <2>3. asked' \subseteq Request
    BY <2>1, <2>2 DEF IInv, Asked, Request
  <2>4. QED
    BY <2>2, <2>3
       DEF IInv, Asked, Good, Core, Phase, Playing, Entering, Context, Conceding
<1>16. QED
  BY <1>1, <1>2, <1>3, <1>4, <1>5, <1>6, <1>7, <1>8, <1>9, <1>10, <1>11, <1>12, <1>13,
     <1>14, <1>15 DEF Next

-----------------------------------------------------------------------------
(* Theorems *)

(* Every handler, in whatever order they come and whatever the clock did in
   between, leaves the row of the match as IInv says (match.service.ts). *)
THEOREM MatchInvariant == Spec => []IInv
<1>1. Init => IInv
  BY InitIInv
<1>2. IInv /\ [Next]_vars => IInv'
  BY StepIInv
<1>3. QED
  BY <1>1, <1>2, PTL DEF Spec

(* The row keeps its shape: the number of the round runs with the results. *)
THEOREM MatchTypes == Spec => []TypeOK
<1>1. IInv => TypeOK
  BY DEF IInv, Asked, Good, Core, TypeOK
<1>2. QED
  BY <1>1, MatchInvariant, PTL

(* A round or deathmatch that runs has been entered by both clients, each in
   its own scene, however late an entry of an earlier scene arrives (entered,
   advanceLockedMatch). *)
THEOREM MatchGoNeedsBothScenes == Spec => []GoNeedsBothScenes
<1>1. IInv => GoNeedsBothScenes
  BY DEF IInv, Good, Core, Phase, GoNeedsBothScenes
<1>2. QED
  BY <1>1, MatchInvariant, PTL

(* A match without a played round is won by the two configured forfeits only
   (advanceLockedMatch, reportResourceFailure). *)
THEOREM MatchNoAwardBeforePlay == Spec => []NoAwardBeforePlay
<1>1. IInv => NoAwardBeforePlay
  BY DEF IInv, Good, Core, NoAwardBeforePlay
<1>2. QED
  BY <1>1, MatchInvariant, PTL

(* A surrender that was applied, at once or late, has cost its player the
   scene it names, and the match when it was of the match
   (applyGameplaySurrender). *)
THEOREM MatchConcessionCostsItsScene == Spec => []ConcessionCostsItsScene
<1>1. IInv => ConcessionCostsItsScene
  <2>1. SUFFICES ASSUME IInv, NEW r \in match.events
                 PROVE  /\ IF r.context[2] > 0
                           THEN match.winner = Other(r.side)
                           ELSE /\ r.context[1] <= Len(match.results)
                                /\ match.results[r.context[1]] = Other(r.side)
                        /\ r.scope = "MATCH" => match.winner = Other(r.side)
    BY DEF ConcessionCostsItsScene
  <2>2. Conceding(match, r)
    BY <2>1 DEF IInv, Good, Core
  <2>3. match.results \in Results
    BY <2>1 DEF IInv, Good, Core, Match, Results
  <2>4. QED
    BY <2>2, <2>3 DEF Conceding, Results
<1>2. QED
  BY <1>1, MatchInvariant, PTL
-----------------------------------------------------------------------------
(* The series of rounds: what decides it *)

Rounds == IF terms.format = "SINGLE" THEN 1 ELSE 3
Level(rs) == WinsOf(rs, "A") = WinsOf(rs, "B")

(* While a match goes on it has a round to play, or it is tied with none left. *)
Fits(m) ==
  ~Terminal(m) =>
    /\ m.dm = 0 => Len(m.results) < Rounds /\ (Len(m.results) = 2 => Level(m.results))
    /\ m.dm > 0 => Len(m.results) = Rounds /\ Level(m.results)

(* What the series sees of a row, and what may become of it. *)
Outcome(m) == IF m.state = "CANCELLED" THEN "CANCELLED" ELSE m.winner

Unmoved(m, n) ==
  n.results = m.results /\ Outcome(n) = Outcome(m) /\ n.cause = m.cause

Ends(m, n, w, c) ==
  n.results = m.results /\ Outcome(n) = w /\ n.cause = c

Plays(m, n, r) ==
  /\ Len(m.results) < Rounds /\ n.results = Append(m.results, r)
  /\ IF Series!Won(n.results) = {} THEN Outcome(n) = "NONE" /\ n.cause = m.cause
     ELSE Series!Won(n.results) = {Outcome(n)} /\ n.cause = "PLAYED"

Concedes(m, n, w, c) ==
  /\ Len(m.results) < Rounds /\ n.results = Append(m.results, w)
  /\ Outcome(n) = w /\ n.cause = c

Moves(m, n) ==
  \/ Unmoved(m, n)
  \/ /\ Outcome(m) = "NONE"
     /\ \/ Ends(m, n, "CANCELLED", m.cause)
        \/ \E r \in Side \cup {"DRAW"} : Plays(m, n, r)
        \/ \E w \in Side :
             \/ \E c \in {"SURRENDER", "PAUSE"} : Concedes(m, n, w, c)
             \/ \E c \in {"SURRENDER", "PAUSE", "PLAYED"} :
                  /\ Ends(m, n, w, c)
                  /\ Len(m.results) = Rounds /\ Level(m.results)
             \/ \E c \in {"READY", "RESOURCE", "ENTRY", "RECONNECT"} : Ends(m, n, w, c)

(* A round that is appended counts for its winner. *)
LEMMA WinsAppend ==
  ASSUME NEW rs \in Results, NEW r \in Side \cup {"DRAW"}, NEW s \in Side
  PROVE  /\ WinsOf(rs, s) \in Nat
         /\ WinsOf(Append(rs, r), s) = WinsOf(rs, s) + (IF r = s THEN 1 ELSE 0)
<1> DEFINE W == {i \in DOMAIN rs : rs[i] = s}
           n == Len(rs)
           V == {i \in DOMAIN Append(rs, r) : Append(rs, r)[i] = s}
<1>1. /\ n \in Nat /\ DOMAIN rs = 1..n /\ DOMAIN Append(rs, r) = 1..(n + 1)
      /\ \A i \in 1..n : Append(rs, r)[i] = rs[i]
      /\ Append(rs, r)[n + 1] = r
  BY DEF Results
<1>2. IsFiniteSet(W) /\ Cardinality(W) \in Nat
  <2>1. IsFiniteSet(1..n)
    BY <1>1, FS_Interval
  <2>2. W \subseteq 1..n
    BY <1>1
  <2>3. QED
    BY <2>1, <2>2, FS_Subset, FS_CardinalityType
<1>3. V = IF r = s THEN W \cup {n + 1} ELSE W
  BY <1>1
<1>4. (n + 1) \notin W
  BY <1>1
<1>5. Cardinality(W \cup {n + 1}) = Cardinality(W) + 1
  BY <1>2, <1>4, FS_AddElement
<1>6. WinsOf(rs, s) = Cardinality(W) /\ WinsOf(Append(rs, r), s) = Cardinality(V)
  BY DEF WinsOf
<1> HIDE DEF W, V, n
<1>7. QED
  BY <1>2, <1>3, <1>5, <1>6

LEMMA NoWins == ASSUME NEW s \in Side PROVE WinsOf(<<>>, s) = 0
<1>1. {i \in DOMAIN <<>> : <<>>[i] = s} = {}
  OBVIOUS
<1>2. QED
  BY <1>1, FS_EmptySet DEF WinsOf

(* Who has won the series, in the terms of the code. *)
LEMMA WonFacts ==
  ASSUME NEW rs \in Results
  PROVE  Series!Won(rs) =
           IF Len(rs) < (IF terms.format = "SINGLE" THEN 1 ELSE 2) \/ Level(rs) THEN {}
           ELSE IF WinsOf(rs, "A") > WinsOf(rs, "B") THEN {"A"} ELSE {"B"}
<1>1. WinsOf(rs, "A") \in Nat /\ WinsOf(rs, "B") \in Nat
  BY WinsAppend DEF Side
<1>2. /\ Series!Wins(rs, "A") = WinsOf(rs, "A") /\ Series!Wins(rs, "B") = WinsOf(rs, "B")
  BY DEF Series!Wins, WinsOf, Series!Cardinality, Cardinality
<1>3. Series!Leader(rs) = {s \in {"A", "B"} : \A t \in {"A", "B"} \ {s} :
                                                Series!Wins(rs, s) > Series!Wins(rs, t)}
  BY DEF Series!Leader, Series!Player
<1>4. Series!Leader(rs) = IF Level(rs) THEN {}
                          ELSE IF WinsOf(rs, "A") > WinsOf(rs, "B") THEN {"A"} ELSE {"B"}
  <2>1. "A" \in Series!Leader(rs) <=> WinsOf(rs, "A") > WinsOf(rs, "B")
    BY <1>2, <1>3
  <2>2. "B" \in Series!Leader(rs) <=> WinsOf(rs, "B") > WinsOf(rs, "A")
    BY <1>2, <1>3
  <2>3. Series!Leader(rs) \subseteq {"A", "B"}
    BY <1>3
  <2>4. QED
    BY <1>1, <2>1, <2>2, <2>3 DEF Level
<1>5. Len(rs) \in Nat
  BY DEF Results
<1>6. QED
  BY <1>4, <1>5 DEF Series!Won, Series!Needed

(* applyRoundResult decides what the series promises. *)
LEMMA DecisionFacts ==
  ASSUME terms \in Term, NEW rs \in Results, NEW r \in Side \cup {"DRAW"},
         Len(rs) < Rounds, Len(rs) = 2 => Level(rs)
  PROVE  LET q == Append(rs, r)
             d == Decision(q)
         IN  \/ /\ d = "ROUND" /\ Series!Won(q) = {}
                /\ Len(q) < Rounds /\ (Len(q) = 2 => Level(q))
             \/ /\ d = "DEATHMATCH" /\ Series!Won(q) = {}
                /\ Len(q) = Rounds /\ Level(q)
             \/ d \in Side /\ Series!Won(q) = {d}
<1> DEFINE q == Append(rs, r)
           a == WinsOf(rs, "A")
           b == WinsOf(rs, "B")
           single == terms.format = "SINGLE"
<1>1. /\ q \in Results /\ Len(rs) \in Nat /\ Len(q) = Len(rs) + 1 /\ q[Len(q)] = r
  BY DEF Results
<1>2. /\ a \in Nat /\ b \in Nat
      /\ WinsOf(q, "A") = a + (IF r = "A" THEN 1 ELSE 0)
      /\ WinsOf(q, "B") = b + (IF r = "B" THEN 1 ELSE 0)
  BY WinsAppend DEF Side
<1>3. Len(rs) \in 0..2 /\ (single => Len(rs) = 0) /\ (~single => terms.format = "BO3")
  <2>1. terms.format \in {"BO3", "SINGLE"}
    BY DEF Term
  <2>2. Len(rs) \in Nat /\ Len(rs) < Rounds
    BY <1>1
  <2>3. Rounds = IF single THEN 1 ELSE 3
    BY DEF Rounds
  <2>4. PICK n \in Nat : n = Len(rs)
    BY <2>2
  <2> HIDE DEF single
  <2>5. QED
    BY <2>1, <2>2, <2>3, <2>4 DEF single
<1>4. Len(rs) = 0 \/ Len(rs) = 2 => a = b
  <2>1. CASE Len(rs) = 0
    <3>1. rs = <<>>
      BY <2>1 DEF Results
    <3>2. QED
      BY <3>1, NoWins DEF Side
  <2>2. QED
    BY <2>1 DEF Level
<1>5. Series!Won(q) =
        IF Len(q) < (IF single THEN 1 ELSE 2) \/ Level(q) THEN {}
        ELSE IF WinsOf(q, "A") > WinsOf(q, "B") THEN {"A"} ELSE {"B"}
  BY <1>1, WonFacts
<1>6. Decision(q) =
        IF single THEN IF r = "DRAW" THEN "DEATHMATCH" ELSE r
        ELSE IF Len(q) = 1 THEN "ROUND"
        ELSE IF Len(q) = 2
        THEN IF WinsOf(q, "A") > WinsOf(q, "B") THEN "A"
             ELSE IF WinsOf(q, "B") > WinsOf(q, "A") THEN "B" ELSE "ROUND"
        ELSE IF r = "DRAW" THEN "DEATHMATCH" ELSE r
  BY <1>1 DEF Decision
<1>7. Level(q) <=> WinsOf(q, "A") = WinsOf(q, "B")
  BY DEF Level
<1>8. Rounds = IF single THEN 1 ELSE 3
  BY DEF Rounds
<1>9. r \in {"A", "B", "DRAW"}
  BY DEF Side
<1> DEFINE d == Decision(q)
           won == Series!Won(q)
<1>10. d = Decision(q) /\ won = Series!Won(q)
  OBVIOUS
<1> HIDE DEF q, a, b, single, d, won
<1>11. CASE single
  BY <1>1, <1>2, <1>3, <1>4, <1>5, <1>6, <1>7, <1>8, <1>9, <1>10, <1>11 DEF Side, q, d
<1>12. CASE ~single /\ Len(rs) = 0
  BY <1>1, <1>2, <1>3, <1>4, <1>5, <1>6, <1>7, <1>8, <1>9, <1>10, <1>12 DEF Side, q, d
<1>13. CASE ~single /\ Len(rs) = 1
  BY <1>1, <1>2, <1>3, <1>4, <1>5, <1>6, <1>7, <1>8, <1>9, <1>10, <1>13 DEF Side, q, d
<1>14. CASE ~single /\ Len(rs) = 2
  BY <1>1, <1>2, <1>3, <1>4, <1>5, <1>6, <1>7, <1>8, <1>9, <1>10, <1>14 DEF Side, q, d
<1>15. QED
  BY <1>3, <1>11, <1>12, <1>13, <1>14

-----------------------------------------------------------------------------
(* What each change of a row means to the series *)

LEMMA CancelledMoves ==
  ASSUME NEW m, Good(m), ~Terminal(m)
  PROVE  Moves(m, Cancelled(m)) /\ Fits(Cancelled(m)) /\ Terminal(Cancelled(m))
<1>1. m \in Match /\ m.winner = "NONE" /\ m.state # "CANCELLED"
  BY OpenHasNoWinner DEF Good, Core, Terminal
<1>2. /\ Cancelled(m).state = "CANCELLED" /\ Cancelled(m).results = m.results
      /\ Cancelled(m).cause = m.cause
  BY <1>1 DEF Cancelled, Match
<1>3. QED
  BY <1>1, <1>2 DEF Moves, Ends, Outcome, Fits, Terminal

LEMMA FinalizedEnds ==
  ASSUME NEW m \in Match, m.winner = "NONE", NEW w \in Side, NEW c \in Cause
  PROVE  LET f == Finalized(m, w, c) IN
         Ends(m, f, w, c) /\ Fits(f) /\ Terminal(f)
<1> DEFINE f == Finalized(m, w, c)
<1>1. f = [m EXCEPT !.state = "MATCH_RESULT", !.winner = w, !.cause = c, !.timer = 0]
  BY DEF Finalized
<1> HIDE DEF f
<1>2. f.state = "MATCH_RESULT" /\ f.results = m.results /\ f.winner = w /\ f.cause = c
  BY <1>1 DEF Match
<1>3. Ends(m, f, w, c) /\ Fits(f) /\ Terminal(f)
  BY <1>2 DEF Ends, Outcome, Fits, Terminal
<1>4. QED
  BY <1>3 DEF f

LEMMA AbsentMoves ==
  ASSUME NEW m, Good(m), ~Terminal(m), NEW w \in Side,
         NEW c \in {"READY", "RESOURCE", "ENTRY", "RECONNECT"}
  PROVE  LET f == Finalized(m, w, c) IN Moves(m, f) /\ Fits(f) /\ Terminal(f)
<1>1. m \in Match /\ m.winner = "NONE" /\ c \in Cause /\ Outcome(m) = "NONE"
  BY OpenHasNoWinner DEF Good, Core, Terminal, Outcome, Cause
<1>2. QED
  BY <1>1, FinalizedEnds DEF Moves

LEMMA RoundSettledMoves ==
  ASSUME terms \in Term, NEW m, Good(m), Fits(m), m.state = "ROUND_PLAYING",
         NEW r \in Side \cup {"DRAW"}
  PROVE  LET f == RoundSettled(m, r) IN
         /\ Moves(m, f) /\ Fits(f) /\ ~Playing(f)
<1> DEFINE p == Played(m, r)
           q == Append(m.results, r)
           d == Decision(q)
           f == RoundSettled(m, r)
<1>1. /\ m \in Match /\ m.winner = "NONE" /\ m.dm = 0 /\ m.results \in Results
      /\ Len(m.results) < Rounds /\ (Len(m.results) = 2 => Level(m.results))
  BY DEF Good, Core, Phase, Fits, Terminal, Match, Results
<1>2. /\ p \in Match /\ p.winner = "NONE" /\ p.dm = 0 /\ p.results = q /\ p.cause = m.cause
      /\ p.state = m.state
  BY <1>1, PlayedCore DEF Core, Played, Match
<1>3. Outcome(m) = "NONE"
  BY <1>1 DEF Outcome
<1>4. \/ /\ d = "ROUND" /\ Series!Won(q) = {}
         /\ Len(q) < Rounds /\ (Len(q) = 2 => Level(q))
      \/ /\ d = "DEATHMATCH" /\ Series!Won(q) = {}
         /\ Len(q) = Rounds /\ Level(q)
      \/ d \in Side /\ Series!Won(q) = {d}
  BY <1>1, DecisionFacts
<1>5. f = CASE d \in Side       -> Finalized(p, d, "PLAYED")
            [] d = "DEATHMATCH" -> DeathmatchPrepared(p)
            [] OTHER            -> [p EXCEPT !.state = "ROUND_RESULT", !.timer = ResultTicks]
  BY <1>2 DEF RoundSettled, Played
<1>6. "ROUND" \notin Side /\ "DEATHMATCH" \notin Side /\ "PLAYED" \in Cause
  BY DEF Side, Cause
<1> HIDE DEF p, q, d, f
<1>7. CASE d = "ROUND"
  <2>1. f = [p EXCEPT !.state = "ROUND_RESULT", !.timer = ResultTicks]
    BY <1>5, <1>6, <1>7
  <2>2. /\ f.state = "ROUND_RESULT" /\ f.results = q /\ f.winner = "NONE" /\ f.cause = m.cause
        /\ f.dm = 0
    BY <1>2, <2>1 DEF Match
  <2>3. Plays(m, f, r)
    BY <1>1, <1>4, <1>6, <1>7, <2>2 DEF Plays, Outcome, q
  <2>4. Fits(f) /\ ~Playing(f)
    BY <1>4, <1>6, <1>7, <2>2 DEF Fits, Playing
  <2>5. QED
    BY <1>3, <2>3, <2>4 DEF Moves, f
<1>8. CASE d = "DEATHMATCH"
  <2>1. f = DeathmatchPrepared(p)
    BY <1>5, <1>6, <1>8
  <2>2. /\ f.state = "DEATHMATCH_PREPARE" /\ f.results = q /\ f.winner = "NONE"
        /\ f.cause = m.cause /\ f.dm = 1
    BY <1>2, <2>1 DEF Match, DeathmatchPrepared
  <2>3. Plays(m, f, r)
    BY <1>1, <1>4, <1>6, <1>8, <2>2 DEF Plays, Outcome, q
  <2>4. Fits(f) /\ ~Playing(f)
    BY <1>4, <1>6, <1>8, <2>2 DEF Fits, Playing
  <2>5. QED
    BY <1>3, <2>3, <2>4 DEF Moves, f
<1>9. CASE d \in Side
  <2>1. f = Finalized(p, d, "PLAYED")
    BY <1>5, <1>6, <1>9
  <2>2. Ends(p, f, d, "PLAYED") /\ Fits(f) /\ Terminal(f)
    BY <1>2, <1>6, <1>9, <2>1, FinalizedEnds
  <2>3. Plays(m, f, r)
    BY <1>1, <1>2, <1>4, <1>6, <1>9, <2>2 DEF Plays, Ends, q
  <2>4. ~Playing(f)
    BY <2>2 DEF Playing, Terminal
  <2>5. QED
    BY <1>3, <2>2, <2>3, <2>4 DEF Moves, f
<1>10. QED
  BY <1>4, <1>7, <1>8, <1>9

LEMMA ConcededMoves ==
  ASSUME terms \in Term, NEW m, Good(m), Fits(m), Playing(m), NEW s \in Side,
         NEW scope \in {"ROUND", "MATCH"}, NEW c \in {"SURRENDER", "PAUSE"}
  PROVE  LET f == Conceded(m, s, scope, c) IN
         Moves(m, f) /\ Fits(f) /\ ~Playing(f)
<1> DEFINE f == Conceded(m, s, scope, c)
<1>1. /\ m \in Match /\ m.winner = "NONE" /\ Outcome(m) = "NONE" /\ ~Terminal(m)
      /\ c \in Cause /\ Other(s) \in Side
  BY OpenHasNoWinner, OtherIsASide DEF Good, Core, Playing, Terminal, Outcome, Cause
<1>2. CASE m.state = "DEATHMATCH_PLAYING"
  <2> DEFINE g == [m EXCEPT !.running = {}]
  <2>1. /\ g \in Match /\ g.winner = "NONE" /\ g.results = m.results
    BY <1>1 DEF Match
  <2>2. f = Finalized(g, Other(s), c)
    BY <1>2 DEF Conceded
  <2> HIDE DEF g, f
  <2>3. Ends(g, f, Other(s), c) /\ Fits(f) /\ Terminal(f)
    BY <1>1, <2>1, <2>2, FinalizedEnds
  <2>4. m.dm > 0
    BY <1>2 DEF Good, Phase
  <2>5. Len(m.results) = Rounds /\ Level(m.results)
    BY <1>1, <2>4 DEF Fits
  <2>6. Ends(m, f, Other(s), c)
    BY <2>1, <2>3 DEF Ends
  <2>7. Moves(m, f)
    BY <1>1, <2>5, <2>6 DEF Moves
  <2>8. QED
    BY <2>3, <2>7 DEF Playing, Terminal, f
<1>3. CASE m.state = "ROUND_PLAYING" /\ scope = "MATCH"
  <2> DEFINE g == Played(m, Other(s))
  <2>1. /\ g \in Match /\ g.winner = "NONE" /\ g.results = Append(m.results, Other(s))
    BY <1>1, <1>3, PlayedCore DEF Core, Played, Match
  <2>2. f = Finalized(g, Other(s), c)
    BY <1>3 DEF Conceded, Played
  <2> HIDE DEF g, f
  <2>3. Ends(g, f, Other(s), c) /\ Fits(f) /\ Terminal(f)
    BY <1>1, <2>1, <2>2, FinalizedEnds
  <2>4. Len(m.results) < Rounds
    BY <1>1, <1>3 DEF Good, Phase, Fits
  <2>5. Concedes(m, f, Other(s), c)
    BY <2>1, <2>3, <2>4 DEF Ends, Concedes
  <2>6. Moves(m, f)
    BY <1>1, <2>5 DEF Moves
  <2>7. QED
    BY <2>3, <2>6 DEF Playing, Terminal, f
<1>4. CASE m.state = "ROUND_PLAYING" /\ scope = "ROUND"
  <2>1. f = RoundSettled(m, Other(s))
    BY <1>4 DEF Conceded
  <2>2. QED
    BY <1>1, <1>4, <2>1, RoundSettledMoves
<1>5. QED
  BY <1>2, <1>3, <1>4 DEF Playing

(* A change that the series does not see. *)
Quiet(m, f) ==
  /\ f.results = m.results /\ f.winner = m.winner /\ f.cause = m.cause
  /\ f.state = "CANCELLED" <=> m.state = "CANCELLED"
  /\ Terminal(m) => Terminal(f)
  /\ f.dm = m.dm \/ (m.dm > 0 /\ f.dm > 0)

LEMMA QuietMoves ==
  ASSUME NEW m, Good(m), Fits(m), NEW f, Quiet(m, f)
  PROVE  Unmoved(m, f) /\ Fits(f)
<1>1. Unmoved(m, f)
  BY DEF Quiet, Unmoved, Outcome
<1>2. m.dm \in Nat /\ (f.dm > 0 <=> m.dm > 0) /\ (f.dm = 0 <=> m.dm = 0)
  BY DEF Quiet, Good, Core, Match
<1>3. Fits(f)
  BY <1>2 DEF Quiet, Fits
<1>4. QED
  BY <1>1, <1>3

LEMMA TimedOutMoves ==
  ASSUME NEW m, Good(m), Fits(m), Due(m), NEW f \in TimedOut(m)
  PROVE  Moves(m, f) /\ Fits(f) /\ (Unmoved(m, f) \/ Terminal(f))
<1>1. m \in Match /\ ~Terminal(m) /\ m.ready \in SUBSET Side /\ m.entered \in SUBSET Side
  BY DEF Due, Good, Core, Match
<1>2. CASE f = Cancelled(m)
  BY <1>1, <1>2, CancelledMoves
<1>3. CASE \E s \in Side, c \in {"READY", "RESOURCE", "ENTRY"} : f = Finalized(m, s, c)
  BY <1>1, <1>3, AbsentMoves
<1>4. ASSUME Quiet(m, f) PROVE Moves(m, f) /\ Fits(f) /\ Unmoved(m, f)
  BY <1>4, QuietMoves DEF Moves
<1>5. CASE m.state = "MATCHED"
  <2>1. f \in ReadyTimedOut(m)
    BY <1>5 DEF TimedOut, Entering
  <2>2. QED
    BY <1>1, <1>2, <1>3, <2>1 DEF ReadyTimedOut
<1>6. CASE m.state = "BAN_PHASE"
  <2>1. f = BansFinalized(m)
    BY <1>6 DEF TimedOut, Entering
  <2>2. Quiet(m, f)
    BY <1>1, <1>6, <2>1 DEF Quiet, BansFinalized, RoundPrepared, Terminal, Match
  <2>3. QED
    BY <1>4, <2>2
<1>7. CASE m.state \in {"ROUND_PREPARE", "DEATHMATCH_PREPARE"}
  <2>1. f \in PrepareTimedOut(m)
    BY <1>7 DEF TimedOut, Entering
  <2>2. QED
    BY <1>1, <1>2, <1>3, <2>1 DEF PrepareTimedOut
<1>8. CASE Entering(m)
  <2>1. f \in EntryTimedOut(m)
    BY <1>8 DEF TimedOut, Entering
  <2>2. CASE f = Started(m)
    <3>1. Quiet(m, f)
      BY <1>1, <1>8, <2>2 DEF Quiet, Started, Terminal, Entering, Match
    <3>2. QED
      BY <1>4, <3>1
  <2>3. QED
    BY <1>1, <1>2, <1>3, <2>1, <2>2 DEF EntryTimedOut
<1>9. CASE m.state = "ROUND_RESULT"
  <2>1. f = NextRoundPrepared(m)
    BY <1>9 DEF TimedOut, Entering
  <2>2. Quiet(m, f)
    BY <1>1, <1>9, <2>1 DEF Quiet, NextRoundPrepared, RoundPrepared, Terminal, Match
  <2>3. QED
    BY <1>4, <2>2
<1>10. CASE m.state = "DEATHMATCH_RESULT"
  <2>1. f = DeathmatchPrepared(m)
    BY <1>10 DEF TimedOut, Entering
  <2>2. m.dm > 0 /\ m.dm \in Nat
    BY <1>1, <1>10 DEF Good, Phase, Match
  <2>3. Quiet(m, f)
    BY <1>1, <1>10, <2>1, <2>2 DEF Quiet, DeathmatchPrepared, Terminal, Match
  <2>4. QED
    BY <1>4, <2>3
<1>11. m.state \in {"MATCHED", "BAN_PHASE", "ROUND_PREPARE", "DEATHMATCH_PREPARE",
                    "ROUND_RESULT", "DEATHMATCH_RESULT"} \/ Entering(m)
  BY <1>1 DEF Due, Playing, Terminal, Entering, Match, State
<1>12. QED
  BY <1>4, <1>5, <1>6, <1>7, <1>8, <1>9, <1>10, <1>11

(* The clock moves the series as it may move, and by a result only while a
   round or a deathmatch is played. *)
LEMMA AdvanceMoves ==
  ASSUME terms \in Term, NEW m, Good(m), Fits(m), NEW f \in Advance(m)
  PROVE  /\ Moves(m, f) /\ Fits(f)
         /\ Unmoved(m, f) \/ ~Playing(f)
         /\ Unmoved(m, f) \/ Terminal(f) \/ Playing(m)
<1>1. CASE Playing(m) /\ f \in {Conceded(m, s, "MATCH", "PAUSE") : s \in Side}
  <2>1. PICK s \in Side : f = Conceded(m, s, "MATCH", "PAUSE")
    BY <1>1
  <2>2. QED
    BY <1>1, <2>1, ConcededMoves
<1>2. CASE Silent(m) # {} /\ f \in Disconnected(m)
  <2>1. ~Terminal(m) /\ Silent(m) \subseteq Side
    BY <1>2 DEF Silent
  <2>2. f = Cancelled(m) \/ \E s \in Side : f = Finalized(m, Other(s), "RECONNECT")
    BY <1>2, <2>1 DEF Disconnected
  <2>3. QED
    BY <2>1, <2>2, CancelledMoves, AbsentMoves, OtherIsASide DEF Terminal, Playing
<1>3. CASE Due(m) /\ f \in TimedOut(m)
  <2>1. Moves(m, f) /\ Fits(f) /\ (Unmoved(m, f) \/ Terminal(f))
    BY <1>3, TimedOutMoves
  <2>2. QED
    BY <2>1 DEF Terminal, Playing
<1>4. CASE f = m
  BY <1>4 DEF Moves, Unmoved
<1>5. CASE m.state = "ROUND_PLAYING" /\ \E r \in Side \cup {"DRAW"} : f = RoundSettled(m, r)
  <2>1. Playing(m)
    BY <1>5 DEF Playing
  <2>2. QED
    BY <1>5, <2>1, RoundSettledMoves
<1>6. QED
  BY <1>1, <1>2, <1>3, <1>4, <1>5 DEF Advance

(* What a handler does to the row that it has advanced. *)
LEMMA QuietHandlers ==
  ASSUME NEW m, Good(m), NEW s \in Side
  PROVE  /\ Quiet(m, [m EXCEPT !.heard = @ \cup {s}, !.quiet[s] = 0])
         /\ Quiet(m, [m EXCEPT !.banned = @ \cup {s}])
         /\ m.state = "BAN_PHASE" => Quiet(m, BansFinalized(m))
         /\ Quiet(m, EnteredBy(m, s))
         /\ Quiet(m, [m EXCEPT !.running = @ \cup {s}, !.attempts[s] = @ + 1])
<1>1. m \in Match
  BY DEF Good, Core
<1>2. Quiet(m, m)
  BY DEF Quiet
<1>3. Quiet(m, [m EXCEPT !.banned = @ \cup {s}])
  BY <1>1 DEF Quiet, Match, Terminal
<1>4. m.state = "BAN_PHASE" => Quiet(m, BansFinalized(m))
  BY <1>1 DEF Quiet, BansFinalized, RoundPrepared, Terminal, Match
<1>5. Quiet(m, EnteredBy(m, s))
  <2> DEFINE n == IF m.entered \cup {s} = Side THEN CountdownTicks ELSE m.timer
             e == m.entered \cup {s}
             f == [m EXCEPT !.entered = e, !.timer = n]
  <2>1. EnteredBy(m, s) = m \/ EnteredBy(m, s) = f
    BY <1>1 DEF EnteredBy, Match
  <2> HIDE DEF n, e
  <2>2. Quiet(m, f)
    BY <1>1 DEF Quiet, Match, Terminal
  <2>3. QED
    BY <1>2, <2>1, <2>2
<1>6. Quiet(m, [m EXCEPT !.heard = @ \cup {s}, !.quiet[s] = 0])
  <2> DEFINE h == m.heard \cup {s}
             q == [m.quiet EXCEPT ![s] = 0]
  <2>1. [m EXCEPT !.heard = @ \cup {s}, !.quiet[s] = 0] = [m EXCEPT !.heard = h, !.quiet = q]
    BY <1>1 DEF Match
  <2> HIDE DEF h, q
  <2>2. Quiet(m, [m EXCEPT !.heard = h, !.quiet = q])
    BY <1>1 DEF Quiet, Match, Terminal
  <2>3. QED
    BY <2>1, <2>2
<1>7. Quiet(m, [m EXCEPT !.running = @ \cup {s}, !.attempts[s] = @ + 1])
  <2> DEFINE h == m.running \cup {s}
             q == [m.attempts EXCEPT ![s] = @ + 1]
  <2>1. [m EXCEPT !.running = @ \cup {s}, !.attempts[s] = @ + 1]
          = [m EXCEPT !.running = h, !.attempts = q]
    BY <1>1 DEF Match
  <2> HIDE DEF h, q
  <2>2. Quiet(m, [m EXCEPT !.running = h, !.attempts = q])
    BY <1>1 DEF Quiet, Match, Terminal
  <2>3. QED
    BY <2>1, <2>2
<1>8. QED
  BY <1>3, <1>4, <1>5, <1>6, <1>7

LEMMA QuietReady ==
  ASSUME NEW m, Good(m), NEW s \in Side,
         Entering(m) \/ m.state \in {"MATCHED", "ROUND_PREPARE", "DEATHMATCH_PREPARE"}
  PROVE  Quiet(m, ReadyFor(m, s))
<1> DEFINE r == [m EXCEPT !.ready = @ \cup {s}]
           b == [r EXCEPT !.state = "BAN_PHASE", !.timer = BanTicks]
<1>m. m \in Match /\ m.state \notin {"CANCELLED", "MATCH_RESULT"}
  BY DEF Good, Core, Entering
<1>1. /\ r \in Match /\ r.state = m.state /\ r.dm = m.dm /\ r.results = m.results
      /\ r.winner = m.winner /\ r.cause = m.cause
  BY <1>m DEF Match
<1>2. /\ b \in Match /\ b.state = "BAN_PHASE" /\ b.dm = r.dm /\ b.results = r.results
      /\ b.winner = r.winner /\ b.cause = r.cause
  BY <1>1, DurationsAssumption DEF Match, State
<1>3. \/ ReadyFor(m, s) = m
      \/ ReadyFor(m, s) = r
      \/ ReadyFor(m, s) \in {b, BansFinalized(b)}
      \/ ReadyFor(m, s) = EntryBegun(r)
  BY DEF ReadyFor
<1> HIDE DEF b, r
<1>4. Quiet(m, m) /\ Quiet(m, r) /\ Quiet(m, b)
  BY <1>m, <1>1, <1>2 DEF Quiet, Terminal
<1>5. Quiet(m, BansFinalized(b))
  <2>1. /\ BansFinalized(b).state = "ROUND_PREPARE" /\ BansFinalized(b).dm = b.dm
        /\ BansFinalized(b).results = b.results /\ BansFinalized(b).winner = b.winner
        /\ BansFinalized(b).cause = b.cause
    BY <1>2 DEF BansFinalized, RoundPrepared, Match
  <2>2. QED
    BY <1>m, <1>1, <1>2, <2>1 DEF Quiet, Terminal
<1>6. Quiet(m, EntryBegun(r))
  <2>1. /\ EntryBegun(r).state \in {"DEATHMATCH_ENTERING", "ROUND_ENTERING"}
        /\ EntryBegun(r).dm = r.dm /\ EntryBegun(r).results = r.results
        /\ EntryBegun(r).winner = r.winner /\ EntryBegun(r).cause = r.cause
    BY <1>1 DEF EntryBegun, Match
  <2>2. QED
    BY <1>m, <1>1, <2>1 DEF Quiet, Terminal
<1>7. QED
  BY <1>3, <1>4, <1>5, <1>6

(* What the tick does is not seen either. *)
LEMMA TickQuiet ==
  ASSUME NEW m, Good(m)
  PROVE  Quiet(m, [m EXCEPT
               !.timer = IF @ > 0 THEN @ - 1 ELSE 0,
               !.quiet = [s \in Side |-> IF s \in m.heard
                                         THEN AtMost(@[s] + 1, ReconnectGrace) ELSE 0]])
<1> DEFINE t == IF m.timer > 0 THEN m.timer - 1 ELSE 0
           q == [s \in Side |-> IF s \in m.heard
                                THEN AtMost(m.quiet[s] + 1, ReconnectGrace) ELSE 0]
<1>1. m \in Match
  BY DEF Good, Core
<1>2. [m EXCEPT !.timer = IF @ > 0 THEN @ - 1 ELSE 0,
                !.quiet = [s \in Side |-> IF s \in m.heard
                                         THEN AtMost(@[s] + 1, ReconnectGrace) ELSE 0]]
        = [m EXCEPT !.timer = t, !.quiet = q]
  BY <1>1 DEF Match
<1> HIDE DEF t, q
<1>3. Quiet(m, [m EXCEPT !.timer = t, !.quiet = q])
  BY <1>1 DEF Quiet, Match, Terminal
<1>4. QED
  BY <1>2, <1>3

LEMMA AttemptEndedMoves ==
  ASSUME NEW m, Good(m), Fits(m), m.state = "DEATHMATCH_PLAYING", NEW s \in Side,
         NEW percent \in 0..1
  PROVE  LET f == [m EXCEPT !.running = @ \ {s},
                            !.best[s] = IF percent > @ THEN percent ELSE @]
         IN  Moves(m, DeathmatchSettled(f)) /\ Fits(DeathmatchSettled(f))
<1> DEFINE k == m.running \ {s}
           q == [m.best EXCEPT ![s] = IF percent > @ THEN percent ELSE @]
           f == [m EXCEPT !.running = k, !.best = q]
           g == DeathmatchSettled(f)
<1>m. m \in Match /\ m.winner = "NONE" /\ m.dm > 0 /\ ~Terminal(m)
  BY DEF Good, Core, Phase, Terminal
<1>a. [m EXCEPT !.running = @ \ {s}, !.best[s] = IF percent > @ THEN percent ELSE @] = f
  BY <1>m DEF Match
<1>q. q \in [Side -> 0..1] /\ k \in SUBSET Side
  BY <1>m DEF Match
<1> HIDE DEF k, q
<1>1. /\ f \in Match /\ f.state = m.state /\ f.dm = m.dm /\ f.results = m.results
      /\ f.winner = m.winner /\ f.cause = m.cause
  BY <1>m, <1>q DEF Match
<1> HIDE DEF f
<1>2. CASE ~Complete(f)
  <2>1. g = f
    BY <1>2 DEF DeathmatchSettled
  <2>2. Quiet(m, g)
    BY <1>1, <2>1 DEF Quiet, Terminal
  <2>3. QED
    BY <1>a, <2>2, QuietMoves DEF Moves, g
<1>3. CASE Complete(f) /\ f.best["A"] = f.best["B"]
  <2>1. g = [f EXCEPT !.state = "DEATHMATCH_RESULT", !.timer = ResultTicks]
    BY <1>3 DEF DeathmatchSettled
  <2>2. Quiet(m, g)
    BY <1>m, <1>1, <2>1 DEF Quiet, Terminal, Match
  <2>3. QED
    BY <1>a, <2>2, QuietMoves DEF Moves, g
<1>4. CASE Complete(f) /\ f.best["A"] # f.best["B"]
  <2>1. PICK w \in Side : g = Finalized(f, w, "PLAYED")
    BY <1>4 DEF DeathmatchSettled, Side
  <2>2. Ends(f, g, w, "PLAYED") /\ Fits(g)
    BY <1>m, <1>1, <2>1, FinalizedEnds DEF Cause
  <2>3. Ends(m, g, w, "PLAYED") /\ Outcome(m) = "NONE"
    BY <1>m, <1>1, <2>2 DEF Ends, Outcome, Terminal
  <2>4. Len(m.results) = Rounds /\ Level(m.results)
    BY <1>m DEF Fits
  <2>5. QED
    BY <1>a, <2>2, <2>3, <2>4 DEF Moves, g
<1>5. QED
  BY <1>2, <1>3, <1>4

(* One that does not show after another move, or before it, adds nothing. *)
LEMMA MovesThenUnmoved ==
  ASSUME NEW m, NEW n, NEW f, Moves(m, n), Unmoved(n, f)
  PROVE  Moves(m, f)
  BY DEF Moves, Unmoved, Ends, Plays, Concedes

LEMMA UnmovedThenMoves ==
  ASSUME NEW m, NEW n, NEW f, Unmoved(m, n), Moves(n, f)
  PROVE  Moves(m, f)
  BY DEF Moves, Unmoved, Ends, Plays, Concedes

-----------------------------------------------------------------------------
(* Every step moves the series as it may move *)

SeriesInv == IInv /\ Fits(match)

(* A handler that changes an advanced row so that the series does not see it. *)
LEMMA QuietAfterAdvance ==
  ASSUME SeriesInv, NEW m \in Advance(match), NEW f, Quiet(m, f)
  PROVE  Moves(match, f) /\ Fits(f)
<1>1. Good(match) /\ Fits(match) /\ terms \in Term
  BY TermsAssumption DEF SeriesInv, IInv, Asked
<1>2. Good(m) /\ Moves(match, m) /\ Fits(m)
  BY <1>1, AdvanceGood, AdvanceMoves
<1>3. QED
  BY <1>2, QuietMoves, MovesThenUnmoved

(* A handler that changes it visibly while nothing was decided. *)
LEMMA MovesAfterAdvance ==
  ASSUME SeriesInv, NEW m \in Advance(match), Playing(m) \/ Unmoved(match, m),
         NEW f, Moves(m, f)
  PROVE  Moves(match, f)
<1>1. Good(match) /\ Fits(match) /\ terms \in Term
  BY TermsAssumption DEF SeriesInv, IInv, Asked
<1>2. Unmoved(match, m)
  BY <1>1, AdvanceMoves
<1>3. QED
  BY <1>2, UnmovedThenMoves

LEMMA ResourceFailureMoves ==
  ASSUME SeriesInv, NEW s \in Side, ResourceFailure(s)
  PROVE  Moves(match, match') /\ Fits(match')
<1>1. Good(match) /\ Fits(match) /\ terms \in Term
  BY TermsAssumption DEF SeriesInv, IInv, Asked
<1>2. PICK m \in Advance(match) : match' = ResourceFailed(m, s)
  BY DEF ResourceFailure
<1>3. ~Playing(match)
  BY DEF ResourceFailure, Terminal, Playing
<1>4. /\ Good(m) /\ Moves(match, m) /\ Fits(m) /\ (Unmoved(match, m) \/ Terminal(m))
  BY <1>1, <1>3, AdvanceGood, AdvanceMoves
<1>5. CASE Terminal(m)
  BY <1>2, <1>4, <1>5 DEF ResourceFailed
<1>6. CASE ~Terminal(m)
  <2>1. match' = Cancelled(m) \/ match' = Finalized(m, Other(s), "RESOURCE")
    BY <1>2, <1>6 DEF ResourceFailed
  <2>2. Moves(m, match') /\ Fits(match')
    BY <1>4, <1>6, <2>1, CancelledMoves, AbsentMoves, OtherIsASide
  <2>3. QED
    BY <1>4, <1>6, <2>2, UnmovedThenMoves
<1>7. QED
  BY <1>5, <1>6

LEMMA SurrenderMoves ==
  ASSUME SeriesInv, NEW r \in asked, Surrender(r)
  PROVE  Moves(match, match') /\ Fits(match')
<1>1. Good(match) /\ Fits(match) /\ terms \in Term
  BY TermsAssumption DEF SeriesInv, IInv, Asked
<1>2. PICK m \in Advance(match) :
        \/ match' = m
        \/ /\ Playing(m)
           /\ match' = [Conceded(m, r.side, r.scope, "SURRENDER")
                          EXCEPT !.events = @ \cup {r}]
  BY DEF Surrender, SurrenderMatches
<1>3. Good(m) /\ Moves(match, m) /\ Fits(m)
  BY <1>1, AdvanceGood, AdvanceMoves
<1>4. CASE Playing(m) /\ match' = [Conceded(m, r.side, r.scope, "SURRENDER")
                                     EXCEPT !.events = @ \cup {r}]
  <2> DEFINE c == Conceded(m, r.side, r.scope, "SURRENDER")
  <2>1. r.side \in Side /\ r.scope \in {"ROUND", "MATCH"} /\ "SURRENDER" \in Cause
    BY DEF SeriesInv, IInv, Asked, Request, Cause
  <2>2. Moves(m, c) /\ Fits(c)
    BY <1>1, <1>3, <1>4, <2>1, ConcededMoves
  <2>3. Good(c)
    BY <1>3, <1>4, <2>1, ConcededGood
  <2> HIDE DEF c
  <2>4. c \in Match
    BY <2>3 DEF Good, Core
  <2>5. Quiet(c, [c EXCEPT !.events = @ \cup {r}])
    BY <2>4 DEF Quiet, Terminal, Match
  <2>6. Unmoved(c, match') /\ Fits(match')
    BY <1>4, <2>2, <2>3, <2>5, QuietMoves DEF c
  <2>7. QED
    BY <1>4, <2>2, <2>6, MovesThenUnmoved, MovesAfterAdvance
<1>5. QED
  BY <1>2, <1>3, <1>4

LEMMA StepMoves ==
  ASSUME SeriesInv, [Next]_vars
  PROVE  Moves(match, match') /\ Fits(match') /\ terms' = terms
<1>1. Good(match) /\ Fits(match) /\ terms \in Term
  BY TermsAssumption DEF SeriesInv, IInv, Asked
<1>2. ASSUME match' = match PROVE Moves(match, match') /\ Fits(match')
  BY <1>1, <1>2 DEF Moves, Unmoved
<1>t. terms' = terms
  BY DEF Next, vars, Tick, Restart, QueueAgain, Surrender, Poll, Ready, SubmitBan,
         InstallScene, ResourceFailure, DeathmatchStart, Leave, DeathmatchEnd, Entered,
         AskSurrender
<1>g. \A m \in Advance(match) : Good(m)
  BY <1>1, AdvanceGood
<1>q. \A m : Quiet(m, m)
  BY DEF Quiet
<1>3. CASE UNCHANGED vars
  BY <1>2, <1>3 DEF vars
<1>4. CASE Tick
  BY <1>1, <1>4, TickQuiet, QuietMoves DEF Tick, Moves
<1>5. CASE Restart
  BY <1>1, <1>5, CancelledMoves DEF Restart
<1>6. CASE QueueAgain
  BY <1>6, <1>q, QuietAfterAdvance DEF QueueAgain
<1>7. ASSUME NEW r \in asked, Surrender(r) PROVE Moves(match, match') /\ Fits(match')
  BY <1>7, SurrenderMoves
<1>8. ASSUME NEW s \in Side, Poll(s) PROVE Moves(match, match') /\ Fits(match')
  BY <1>8, <1>g, <1>q, QuietHandlers, QuietAfterAdvance DEF Poll
<1>9. ASSUME NEW s \in Side, Ready(s) PROVE Moves(match, match') /\ Fits(match')
  BY <1>9, <1>g, QuietReady, QuietAfterAdvance DEF Ready
<1>10. ASSUME NEW s \in Side, SubmitBan(s) PROVE Moves(match, match') /\ Fits(match')
  BY <1>10, <1>g, QuietHandlers, QuietAfterAdvance DEF SubmitBan
<1>11. ASSUME NEW s \in Side, InstallScene(s) PROVE Moves(match, match') /\ Fits(match')
  BY <1>2, <1>11 DEF InstallScene
<1>12. ASSUME NEW s \in Side, ResourceFailure(s) PROVE Moves(match, match') /\ Fits(match')
  BY <1>12, ResourceFailureMoves
<1>13. ASSUME NEW s \in Side, DeathmatchStart(s) PROVE Moves(match, match') /\ Fits(match')
  BY <1>13, <1>g, <1>q, QuietHandlers, QuietAfterAdvance DEF DeathmatchStart
<1>14. ASSUME NEW s \in Side, Leave(s) PROVE Moves(match, match') /\ Fits(match')
  BY <1>2, <1>14 DEF Leave
<1>15. ASSUME NEW s \in Side, NEW percent \in 0..1, DeathmatchEnd(s, percent)
       PROVE  Moves(match, match') /\ Fits(match')
  <2> DEFINE ended(m) == [m EXCEPT !.running = @ \ {s},
                                   !.best[s] = IF percent > @ THEN percent ELSE @]
  <2>1. PICK m \in Advance(match) :
          m.state = "DEATHMATCH_PLAYING" /\ match' = DeathmatchSettled(ended(m))
    BY <1>15 DEF DeathmatchEnd
  <2>2. Good(m) /\ Fits(m) /\ Playing(m)
    BY <1>1, <2>1, AdvanceGood, AdvanceMoves DEF Playing
  <2>3. Moves(m, match') /\ Fits(match')
    BY <2>1, <2>2, AttemptEndedMoves
  <2>4. QED
    BY <2>2, <2>3, MovesAfterAdvance
<1>16. ASSUME NEW s \in Side, NEW context \in scenes[s], Entered(s, context)
       PROVE  Moves(match, match') /\ Fits(match')
  BY <1>16, <1>g, QuietHandlers, QuietAfterAdvance DEF Entered
<1>17. ASSUME NEW s \in Side, NEW scope \in {"ROUND", "MATCH"}, AskSurrender(s, scope)
       PROVE  Moves(match, match') /\ Fits(match')
  BY <1>2, <1>17 DEF AskSurrender
<1>18. QED
  BY <1>t, <1>3, <1>4, <1>5, <1>6, <1>7, <1>8, <1>9, <1>10, <1>11, <1>12, <1>13, <1>14,
     <1>15, <1>16, <1>17 DEF Next

LEMMA SeriesInvHolds == Spec => []SeriesInv
<1>1. Init => Fits(match)
  <2>1. SUFFICES ASSUME Init PROVE Fits(match)
    OBVIOUS
  <2>2. match.dm = 0 /\ match.results = <<>>
    BY <2>1 DEF Init, NewMatch
  <2>3. Len(match.results) < Rounds /\ Len(match.results) # 2
    BY <2>2 DEF Rounds
  <2>4. QED
    BY <2>2, <2>3 DEF Fits
<1>2. Init => SeriesInv
  BY <1>1, InitIInv DEF SeriesInv
<1>3. SeriesInv /\ [Next]_vars => SeriesInv'
  <2>1. SUFFICES ASSUME SeriesInv, [Next]_vars PROVE SeriesInv'
    OBVIOUS
  <2>2. IInv'
    BY <2>1, StepIInv DEF SeriesInv
  <2>3. Fits(match') /\ terms' = terms
    BY <2>1, StepMoves
  <2>4. Fits(match)'
    BY <2>3 DEF Fits, Rounds, Level, Terminal
  <2>5. QED
    BY <2>2, <2>4 DEF SeriesInv
<1>4. QED
  BY <1>2, <1>3, PTL DEF Spec

(* What may become of a row is a step of the series. *)
LEMMA MovesImplement ==
  ASSUME SeriesInv, Moves(match, match'), terms' = terms
  PROVE  [Series!SeriesNext]_Series!series
<1>1. Series!AtMost = Rounds
  BY DEF Series!AtMost, Rounds
<1>2. Series!Open <=> Outcome(match) = "NONE"
  BY DEF Series!Open, Outcome
<1>3. CASE Unmoved(match, match')
  BY <1>3 DEF Unmoved, Outcome, Series!series
<1>4. CASE Outcome(match) = "NONE" /\ Ends(match, match', "CANCELLED", match.cause)
  <2>1. Series!Cancel
    BY <1>2, <1>4 DEF Series!Cancel, Ends, Outcome
  <2>2. QED
    BY <2>1 DEF Series!SeriesNext
<1>5. ASSUME Outcome(match) = "NONE", NEW r \in Side \cup {"DRAW"}, Plays(match, match', r)
      PROVE  Series!SeriesNext
  <2>1. Series!PlayRound(r)
    <3>1. CASE Series!Won(match'.results) = {}
      BY <1>1, <1>2, <1>5, <3>1 DEF Series!PlayRound, Plays, Outcome
    <3>2. CASE Series!Won(match'.results) # {}
      <4>1. Series!Won(match'.results) = {Outcome(match')}
        BY <1>5, <3>2 DEF Plays
      <4>2. (CHOOSE s \in Series!Won(match'.results) : TRUE) = Outcome(match')
        BY <4>1
      <4>3. QED
        BY <1>1, <1>2, <1>5, <3>2, <4>2 DEF Series!PlayRound, Series!Decided, Plays, Outcome
    <3>3. QED
      BY <3>1, <3>2
  <2>2. QED
    BY <2>1 DEF Series!SeriesNext, Series!Player, Side
<1>6. ASSUME Outcome(match) = "NONE", NEW w \in Side, NEW c \in {"SURRENDER", "PAUSE"},
             Concedes(match, match', w, c)
      PROVE  Series!SeriesNext
  <2>1. Series!ConcedeInRound(w, c)
    BY <1>1, <1>2, <1>6 DEF Series!ConcedeInRound, Series!Decided, Concedes, Outcome
  <2>2. QED
    BY <2>1 DEF Series!SeriesNext, Series!Player, Series!Concession, Side
<1>7. ASSUME Outcome(match) = "NONE", NEW w \in Side,
             NEW c \in {"SURRENDER", "PAUSE", "PLAYED"}, Ends(match, match', w, c),
             Len(match.results) = Rounds, Level(match.results)
      PROVE  Series!SeriesNext
  <2>1. match.results \in Results
    BY DEF SeriesInv, IInv, Good, Core, Match, Results
  <2>2. Series!Leader(match.results) = {}
    <3>1. WinsOf(match.results, "A") \in Nat /\ WinsOf(match.results, "B") \in Nat
      BY <2>1, WinsAppend DEF Side
    <3>2. /\ Series!Wins(match.results, "A") = WinsOf(match.results, "A")
          /\ Series!Wins(match.results, "B") = WinsOf(match.results, "B")
      BY DEF Series!Wins, WinsOf, Series!Cardinality, Cardinality
    <3>3. QED
      BY <1>7, <3>1, <3>2 DEF Series!Leader, Series!Player, Level
  <2>3. Series!EndDeathmatch(w, c)
    BY <1>1, <1>2, <1>7, <2>2
       DEF Series!EndDeathmatch, Series!Decided, Series!Tied, Ends, Outcome
  <2>4. QED
    BY <2>3 DEF Series!SeriesNext, Series!Player, Series!Concession, Side
<1>8. ASSUME Outcome(match) = "NONE", NEW w \in Side,
             NEW c \in {"READY", "RESOURCE", "ENTRY", "RECONNECT"}, Ends(match, match', w, c)
      PROVE  Series!SeriesNext
  <2>1. Series!Forfeit(w, c)
    BY <1>2, <1>8 DEF Series!Forfeit, Series!Decided, Ends, Outcome
  <2>2. QED
    BY <2>1 DEF Series!SeriesNext, Series!Player, Series!Absence, Side
<1>9. QED
  BY <1>3, <1>4, <1>5, <1>6, <1>7, <1>8 DEF Moves

(* The handlers decide a match as the series promises: a leader after the
   rounds, a tie by a deathmatch, a concession, a forfeit or a cancellation,
   and never twice (applyRoundResult, finalizeMatch, applyGameplaySurrender,
   cancelMatch, in every order of the requests and the clock). *)
THEOREM MatchImplementsSeries == Spec => ImplementsSeries
<1>1. Init => Series!SeriesInit
  BY TermsAssumption DEF Init, NewMatch, Series!SeriesInit, Term
<1>2. SeriesInv /\ [Next]_vars => [Series!SeriesNext]_Series!series
  BY StepMoves, MovesImplement
<1>3. QED
  BY <1>1, <1>2, SeriesInvHolds, PTL DEF Spec, ImplementsSeries, Series!SeriesSpec
=============================================================================
