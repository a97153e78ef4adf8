------------------------- MODULE SurvivalMatch_proofs -------------------------
(***************************************************************************)
(* Theorems about SurvivalMatch, for any number of humans and bots, any    *)
(* ladder of cutoffs and any number of rounds, attempts and rerolls.       *)
(*                                                                         *)
(* Sound relates the fields of a match: its clock and its gate, the map,   *)
(* who may be missing at a barrier, and the standings.  It holds in the    *)
(* middle of every transaction.  Prepared, what Drive certifies of the     *)
(* bots before a deadline may be applied, holds between transactions.      *)
(* Every function of the reducer keeps Sound and lets the standings only   *)
(* grow; that a prize stands is a consequence of these two.                *)
(* Paced bounds the clock and the counters of a match; it needs nothing of *)
(* the other fields, so it is kept by every function on its own.           *)
(***************************************************************************)
EXTENDS SurvivalMatch, FiniteSetTheorems, WellFoundedInduction, TLAPS

(* The maps are for a round, a generation and a phase. *)
Maps == [ordinal : Nat, gen : Nat, phase : Nat]
Counts == [Players -> Nat]

Match ==
  [state : States, age : Nat, gate : {"NONE", "INTRO", "ROUND_RESULT"},
   votes : SUBSET Humans, resolved : BOOLEAN,
   ordinal : Nat \ {0}, phase : Phases, gen : Nat, rerolls : Nat,
   players : SUBSET Players, forfeited : SUBSET Players,
   ready : SUBSET Players, failed : SUBSET Players,
   absent : SUBSET Humans, deferred : SUBSET Players, entered : SUBSET Players,
   firstEntered : BOOLEAN, open : SUBSET Players, used : Counts, best : Counts,
   qualified : SUBSET Players, finished : BOOLEAN,
   map : Maps \cup {NoOne}, nextMap : Maps \cup {NoOne},
   stage : Counts, score : Counts, fixed : Counts, rank : Counts,
   winner : Players \cup {NoOne}]

(* The presentation gate and the clock belong to a state. *)
Clocked(m) ==
  /\ m.gate = "INTRO" => m.state = "MAP_SELECTION"
  /\ m.gate = "ROUND_RESULT" => m.state = "ROUND_RESULT"
  /\ m.state # "MAP_SELECTION" => m.age <= 2

Mapped(m) ==
  m.map # NoOne => m.map = [ordinal |-> m.ordinal, gen |-> m.gen, phase |-> m.phase]

Late(m) == m.absent \cup m.deferred

(* Who may be missing at each barrier. *)
Entry(m) ==
  /\ m.state \in {"MAP_SELECTION", "PREPARING"} => m.deferred = {}
  /\ m.state = "MAP_SELECTION" => m.ready = {}
  /\ m.state = "ENTERING" =>
       Active(m) \subseteq m.ready \cup Late(m) /\ ActiveBots(m) \subseteq m.ready
  /\ m.state \in {"COUNTDOWN", "PLAYING"} => Active(m) \subseteq m.entered \cup Late(m)

Prepared(m) ==
  m.state = "PREPARING" =>
    \/ ActiveBots(m) \subseteq m.ready
    \/ Waited(m) \cap m.ready = {} /\ ActiveBots(m) \cap m.ready = {}

In(m, k)     == {x \in Players : m.stage[x] = 0 \/ m.stage[x] >= k}
Better(m, p) == {x \in Players : m.stage[x] = 0 \/ Ahead(m, x, p)}
Live(m)      == IF m.finished THEN m.ordinal + 1 ELSE m.ordinal

Ranked(m) ==
  \A p \in Players :
    /\ m.stage[p] <= m.ordinal
    /\ m.stage[p] = 0 => m.fixed[p] = 0 /\ m.rank[p] = IF m.state = "FINAL_RESULT" THEN 1 ELSE 0
    /\ m.stage[p] # 0 /\ m.fixed[p] = 0 =>
         m.stage[p] < Live(m) /\ m.rank[p] = 1 + Cardinality(Better(m, p))
    /\ m.fixed[p] # 0 =>
         m.rank[p] = m.fixed[p] /\ m.fixed[p] = Cardinality(In(m, m.stage[p]))

Accounted(m) ==
  ~Terminal(m) =>
    /\ m.players = In(m, m.ordinal)
    /\ InMatch(m) = IF m.finished THEN Qualified(m) ELSE Active(m)
    /\ m.finished = (m.state = "ROUND_RESULT")

Decided(m) ==
  /\ ~Terminal(m) => Cardinality(InMatch(m)) >= 2
  /\ m.state = "FINAL_RESULT" => m.winner \in Players /\ InMatch(m) = {m.winner}

Standing(m) == Ranked(m) /\ Accounted(m) /\ Decided(m)

Sound(m) == m \in Match /\ Clocked(m) /\ Mapped(m) /\ Entry(m) /\ Standing(m)
Good(m)  == Sound(m) /\ Prepared(m)

(* The standings grow: who is out stays where it is, and whoever follows comes
   from the round that is played or a later one. *)
Grown(m, f) ==
  /\ Live(m) <= Live(f)
  /\ \A p \in Players :
       IF m.stage[p] = 0 THEN f.stage[p] = 0 \/ f.stage[p] >= Live(m)
       ELSE f.stage[p] = m.stage[p] /\ f.score[p] = m.score[p] /\ f.fixed[p] = m.fixed[p]

(* What a function that leaves the standings alone may do. *)
Same(m, f) ==
  /\ f.ordinal = m.ordinal /\ f.players = m.players /\ f.forfeited = m.forfeited
  /\ f.finished = m.finished /\ f.qualified = m.qualified
  /\ f.stage = m.stage /\ f.score = m.score /\ f.fixed = m.fixed /\ f.rank = m.rank
  /\ \/ f.state = "CANCELLED"
     \/ ~Terminal(f) /\ (f.state = "ROUND_RESULT" <=> m.state = "ROUND_RESULT")

-----------------------------------------------------------------------------
(* Sets of players and of numbers *)

\* A set of natural numbers that is not empty has a least element.
LEMMA LeastNatural ==
  ASSUME NEW T \in SUBSET Nat, T # {}
  PROVE  \E n \in T : \A k \in T : n <= k
<1> DEFINE Less == {e \in Nat \X Nat : e[1] < e[2]}
<1>1. Less = OpToRel(<, Nat)
  BY Zenon DEF OpToRel
<1>2. IsWellFoundedOn(Less, Nat)
  <2> HIDE DEF Less
  <2> QED BY <1>1, NatLessThanWellFounded, Zenon
<1>3. \E n \in T : \A k \in T : ~(<<k, n>> \in Less)
  <2> HIDE DEF Less
  <2> QED BY <1>2, WFMin
<1>4. \A k, n \in Nat : k < n => <<k, n>> \in Less
  OBVIOUS
<1>5. PICK n \in T : \A k \in T : ~(<<k, n>> \in Less)
  BY <1>3
<1>6. \A k \in T : n <= k
  <2> HIDE DEF Less
  <2> TAKE k \in T
  <2>1. ~(k < n)
    BY <1>4, <1>5
  <2> QED BY <2>1
<1>7. QED
  BY <1>6

\* Any set of players can be counted.
LEMMA CountedPlayers ==
  ASSUME NEW S \in SUBSET Players
  PROVE  /\ IsFiniteSet(S) /\ Cardinality(S) \in Nat
         /\ Cardinality(S) <= Cardinality(Players)
         /\ S # {} <=> Cardinality(S) >= 1
<1>1. IsFiniteSet(S) /\ Cardinality(S) <= Cardinality(Players)
  BY EntrantsAssumption, FS_Subset
<1>2. Cardinality(S) \in Nat
  BY <1>1, FS_CardinalityType
<1>3. S = {} <=> Cardinality(S) = 0
  BY <1>1, FS_EmptySet
<1>4. QED
  BY <1>1, <1>2, <1>3

\* A set of players with a member more counts for more.
LEMMA MorePlayers ==
  ASSUME NEW S \in SUBSET Players, NEW T \in SUBSET Players, S \subseteq T
  PROVE  /\ Cardinality(S) <= Cardinality(T)
         /\ \A x \in T \ S : Cardinality(S) < Cardinality(T)
<1>1. IsFiniteSet(T) /\ Cardinality(S) \in Nat /\ Cardinality(T) \in Nat
  BY CountedPlayers
<1>2. /\ Cardinality(S) <= Cardinality(T)
      /\ Cardinality(T) = Cardinality(S) => T = S
  BY <1>1, FS_Subset
<1>3. QED
  BY <1>1, <1>2

\* Two sets of players that have no member in common.
LEMMA ApartPlayers ==
  ASSUME NEW S \in SUBSET Players, NEW T \in SUBSET Players, S \cap T = {}
  PROVE  Cardinality(S \cup T) = Cardinality(S) + Cardinality(T)
<1>1. IsFiniteSet(S) /\ IsFiniteSet(T) /\ Cardinality(S) \in Nat /\ Cardinality(T) \in Nat
  BY CountedPlayers
<1>2. Cardinality(S \cup T) = Cardinality(S) + Cardinality(T) - Cardinality(S \cap T)
  BY <1>1, FS_Union
<1>3. Cardinality(S \cap T) = 0
  BY FS_EmptySet
<1>4. QED
  BY <1>1, <1>2, <1>3

\* One player less.
LEMMA FewerPlayers ==
  ASSUME NEW S \in SUBSET Players, NEW p \in S
  PROVE  Cardinality(S \ {p}) = Cardinality(S) - 1
<1>1. IsFiniteSet(S)
  BY CountedPlayers
<1>2. QED
  BY <1>1, FS_RemoveElement

\* A set of one player.
LEMMA OnlyPlayer ==
  ASSUME NEW S \in SUBSET Players, Cardinality(S) = 1, NEW p \in S
  PROVE  S = {p}
<1>1. Cardinality(S \ {p}) = 0
  BY FewerPlayers
<1>2. S \ {p} = {}
  BY <1>1, CountedPlayers
<1>3. QED
  BY <1>2

-----------------------------------------------------------------------------
(* The ladder of phases *)

\* Every phase has a target, and the ladder ends in the final (survivalOnlineTargets).
LEMMA Ladder ==
  /\ Final \in Nat /\ Tiebreak = Final + 1 /\ Final >= 1
  /\ \A phase \in Phases : TargetOf(phase) \in Nat \ {0}
<1>1. Len(Targets) \in Nat /\ \A i \in 1..Len(Targets) : Targets[i] \in Nat \ {0}
  BY FormatAssumption
<1>2. QED
  BY <1>1 DEF Final, Tiebreak, Phases, TargetOf

\* The first phase that can eliminate somebody exists.
LEMMA PhaseFromIsPhase ==
  ASSUME NEW i \in Nat \ {0}, i <= Final, NEW count \in Nat
  PROVE  PhaseFrom(i, count) \in Phases
<1> DEFINE Ends(p) == p = Final \/ Targets[p] < count
           T == {p \in i..Final : Ends(p)}
<1>1. T \in SUBSET Nat /\ Final \in T
  BY Ladder
<1>2. PICK n \in T : \A k \in T : n <= k
  BY <1>1, LeastNatural
<1>3. n \in i..Final /\ (n = Final \/ Targets[n] < count)
  OBVIOUS
<1>4. ASSUME NEW q \in i..(n - 1)
      PROVE  Targets[q] >= count
  <2>1. q \in i..Final /\ q \in 1..Len(Targets) /\ q # Final /\ q < n
    BY <1>3, Ladder, FormatAssumption DEF Final
  <2>2. ~(Targets[q] < count)
    BY <1>2, <2>1
  <2>3. Targets[q] \in Nat
    BY <2>1, FormatAssumption
  <2>4. QED
    BY <2>2, <2>3
<1>5. PhaseFrom(i, count) \in i..Final
  BY <1>3, <1>4 DEF PhaseFrom
<1>6. QED
  BY <1>5, Ladder DEF Phases

\* So the next round's phase is one of the ladder.
LEMMA NextPhaseIsPhase ==
  ASSUME NEW phase \in Phases, NEW count \in Nat
  PROVE  NextPhase(phase, count) \in Phases
<1>1. CASE phase >= Final
  BY <1>1, Ladder DEF NextPhase, Phases
<1>2. CASE phase < Final
  <2>1. phase + 1 \in Nat \ {0} /\ phase + 1 <= Final
    BY <1>2, Ladder DEF Phases
  <2>2. PhaseFrom(phase + 1, count) \in Phases
    BY <2>1, PhaseFromIsPhase
  <2>3. QED
    BY <1>2, <2>2, Ladder DEF NextPhase, Phases
<1>3. QED
  BY <1>1, <1>2, Ladder DEF Phases

-----------------------------------------------------------------------------
(* The standings *)

\* The sets the standings are counted from are sets of players.
LEMMA StandingSets ==
  ASSUME NEW m \in Match
  PROVE  /\ InMatch(m) \subseteq Players
         /\ \A k : In(m, k) \subseteq Players
         /\ \A p : Better(m, p) \subseteq Players
         /\ Active(m) \subseteq Players /\ Qualified(m) \subseteq Players
         /\ m.ordinal \in Nat \ {0} /\ Live(m) \in Nat /\ m.ordinal <= Live(m)
         /\ \A p \in Players : m.stage[p] \in Nat /\ m.score[p] \in Nat
                               /\ m.fixed[p] \in Nat /\ m.rank[p] \in Nat
                               /\ m.used[p] \in Nat /\ m.best[p] \in Nat
BY DEF Match, Counts, InMatch, In, Better, Active, Qualified, Live

LEMMA EnterIsMatch ==
  ASSUME NEW m \in Match, NEW state \in States
  PROVE  Enter(m, state) \in Match
BY DEF Enter, Match

LEMMA MappedIsMatch ==
  ASSUME NEW m \in Match, NEW target \in Maps \cup {NoOne}
  PROVE  [m EXCEPT !.map = target] \in Match
BY DEF Match

\* A function that leaves the standings alone keeps them sound.
LEMMA SameKeeps ==
  ASSUME NEW m \in Match, NEW f \in Match, ~Terminal(m), Standing(m), Same(m, f)
  PROVE  Standing(f) /\ Grown(m, f)
<1>1. /\ InMatch(f) = InMatch(m) /\ Live(f) = Live(m) /\ Active(f) = Active(m)
      /\ Qualified(f) = Qualified(m)
      /\ \A k : In(f, k) = In(m, k)
      /\ \A p : Better(f, p) = Better(m, p)
  BY DEF Same, InMatch, Live, Active, Qualified, In, Better, Ahead
<1>2. Ranked(f)
  BY <1>1 DEF Same, Standing, Ranked, Terminal
<1>3. Accounted(f)
  BY <1>1 DEF Same, Standing, Accounted, Terminal
<1>4. Decided(f)
  BY <1>1 DEF Same, Standing, Decided, Terminal
<1>5. Grown(m, f)
  BY <1>1, StandingSets DEF Same, Grown
<1>6. QED
  BY <1>2, <1>3, <1>4, <1>5 DEF Standing

\* The standings grow through any number of steps.
LEMMA GrownIsTransitive ==
  ASSUME NEW m \in Match, NEW f \in Match, NEW g \in Match, Grown(m, f), Grown(f, g)
  PROVE  Grown(m, g)
<1>1. Live(m) <= Live(f) /\ Live(f) <= Live(g)
  BY DEF Grown
<1>2. Live(m) \in Nat /\ Live(f) \in Nat /\ Live(g) \in Nat
  BY StandingSets
<1>3. ASSUME NEW p \in Players
      PROVE  IF m.stage[p] = 0 THEN g.stage[p] = 0 \/ g.stage[p] >= Live(m)
             ELSE g.stage[p] = m.stage[p] /\ g.score[p] = m.score[p] /\ g.fixed[p] = m.fixed[p]
  <2>1. f.stage[p] \in Nat /\ g.stage[p] \in Nat /\ m.stage[p] \in Nat
    BY StandingSets
  <2>2. IF m.stage[p] = 0 THEN f.stage[p] = 0 \/ f.stage[p] >= Live(m)
        ELSE f.stage[p] = m.stage[p] /\ f.score[p] = m.score[p] /\ f.fixed[p] = m.fixed[p]
    BY DEF Grown
  <2>3. IF f.stage[p] = 0 THEN g.stage[p] = 0 \/ g.stage[p] >= Live(f)
        ELSE g.stage[p] = f.stage[p] /\ g.score[p] = f.score[p] /\ g.fixed[p] = f.fixed[p]
    BY DEF Grown
  <2>4. QED
    BY <1>1, <1>2, <2>1, <2>2, <2>3
<1>4. QED
  BY <1>1, <1>2, <1>3 DEF Grown

LEMMA GrownIsReflexive ==
  ASSUME NEW m \in Match
  PROVE  Grown(m, m)
BY StandingSets DEF Grown

\* Whoever is ahead has the better rank, unless both surrendered in one round
\* (survivalStabilizeOnlineRanks).
LEMMA AheadRanks ==
  ASSUME NEW m \in Match, Ranked(m), NEW p \in Players, NEW q \in Players,
         m.stage[p] # 0, m.stage[q] # 0, Ahead(m, p, q),
         ~(m.stage[p] = m.stage[q] /\ m.fixed[p] # 0 /\ m.fixed[q] # 0)
  PROVE  m.rank[p] < m.rank[q]
<1> DEFINE kp == m.stage[p]
           kq == m.stage[q]
<1>1. kp \in Nat /\ kq \in Nat /\ kp >= kq /\ p # q /\ ~Ahead(m, q, p)
  BY StandingSets DEF Ahead
<1>2. /\ In(m, kp) \in SUBSET Players /\ In(m, kq) \in SUBSET Players
      /\ Better(m, p) \in SUBSET Players /\ Better(m, q) \in SUBSET Players
  BY StandingSets
<1>3. q \in In(m, kq) /\ p \in In(m, kp) /\ q \notin Better(m, p) /\ p \notin Better(m, p)
      /\ p \in Better(m, q) /\ q \notin Better(m, q)
  BY <1>1, StandingSets DEF In, Better, Ahead
<1>4. /\ m.fixed[p] # 0 => m.rank[p] = Cardinality(In(m, kp))
      /\ m.fixed[q] # 0 => m.rank[q] = Cardinality(In(m, kq))
      /\ m.fixed[p] = 0 => m.rank[p] = 1 + Cardinality(Better(m, p))
      /\ m.fixed[q] = 0 => m.rank[q] = 1 + Cardinality(Better(m, q))
  BY DEF Ranked
<1>5. /\ Cardinality(In(m, kp)) \in Nat /\ Cardinality(In(m, kq)) \in Nat
      /\ Cardinality(Better(m, p)) \in Nat /\ Cardinality(Better(m, q)) \in Nat
  BY <1>2, CountedPlayers
<1>6. CASE m.fixed[p] = 0 /\ m.fixed[q] = 0
  <2>1. Better(m, p) \subseteq Better(m, q)
    BY <1>6, StandingSets DEF Better, Ahead
  <2>2. Cardinality(Better(m, p)) < Cardinality(Better(m, q))
    BY <1>2, <1>3, <2>1, MorePlayers
  <2>3. QED
    BY <1>4, <1>5, <1>6, <2>2
<1>7. CASE m.fixed[p] = 0 /\ m.fixed[q] # 0
  <2>1. Better(m, p) \cup {p} \in SUBSET Players
    BY <1>2
  <2>2. Better(m, p) \cup {p} \subseteq In(m, kq)
    BY <1>1, StandingSets DEF Better, In, Ahead
  <2>3. Cardinality(Better(m, p) \cup {p}) < Cardinality(In(m, kq))
    BY <1>1, <1>2, <1>3, <2>1, <2>2, MorePlayers
  <2>4. Cardinality((Better(m, p) \cup {p}) \ {p}) = Cardinality(Better(m, p) \cup {p}) - 1
    BY <2>1, FewerPlayers
  <2>5. (Better(m, p) \cup {p}) \ {p} = Better(m, p)
    BY <1>3
  <2>6. Cardinality(Better(m, p) \cup {p}) \in Nat
    BY <2>1, CountedPlayers
  <2>7. Cardinality(Better(m, p)) = Cardinality(Better(m, p) \cup {p}) - 1
    BY <2>4, <2>5
  <2>8. QED
    BY <1>4, <1>5, <1>7, <2>3, <2>6, <2>7
<1>8. CASE m.fixed[p] # 0 /\ m.fixed[q] = 0
  <2>1. kp > kq
    BY <1>8, StandingSets DEF Ahead
  <2>2. In(m, kp) \subseteq Better(m, q)
    BY <2>1, StandingSets DEF In, Better, Ahead
  <2>3. Cardinality(In(m, kp)) <= Cardinality(Better(m, q))
    BY <1>2, <2>2, MorePlayers
  <2>4. QED
    BY <1>4, <1>5, <1>8, <2>3
<1>9. CASE m.fixed[p] # 0 /\ m.fixed[q] # 0
  <2>1. kp > kq
    BY <1>1, <1>9
  <2>2. In(m, kp) \subseteq In(m, kq) /\ q \notin In(m, kp)
    BY <2>1, StandingSets DEF In
  <2>3. Cardinality(In(m, kp)) < Cardinality(In(m, kq))
    BY <1>2, <1>3, <2>2, MorePlayers
  <2>4. QED
    BY <1>4, <1>9, <2>3
<1>10. QED
  BY <1>6, <1>7, <1>8, <1>9

\* As the standings grow, the rank of whoever is out stands, and nobody comes to
\* share it.
LEMMA PlaceStands ==
  ASSUME NEW m \in Match, NEW f \in Match, ~Terminal(m), Standing(m), Standing(f),
         Grown(m, f), NEW p \in Players, m.stage[p] # 0
  PROVE  /\ f.rank[p] = m.rank[p] /\ f.fixed[p] = m.fixed[p]
         /\ m.fixed[p] = 0 => \A q \in Players : f.rank[q] = m.rank[p] <=> m.rank[q] = m.rank[p]
<1>1. m.stage[p] <= m.ordinal /\ m.ordinal <= Live(m) /\ Live(m) <= Live(f)
  BY StandingSets DEF Standing, Ranked, Grown
<1>2. ASSUME NEW x \in Players, m.stage[x] # 0
      PROVE  f.stage[x] = m.stage[x] /\ f.score[x] = m.score[x] /\ f.fixed[x] = m.fixed[x]
  BY <1>2 DEF Grown
<1>3. ASSUME NEW x \in Players, m.stage[x] = 0
      PROVE  f.stage[x] = 0 \/ f.stage[x] >= Live(m)
  BY <1>3 DEF Grown
<1>4. ASSUME NEW x \in Players, m.stage[x] # 0
      PROVE  f.rank[x] = m.rank[x]
  <2>1. /\ m.stage[x] <= m.ordinal /\ m.stage[x] \in Nat /\ m.ordinal <= Live(m)
        /\ Live(m) \in Nat
    BY StandingSets DEF Standing, Ranked
  <2>2. CASE m.fixed[x] # 0
    <3>1. ASSUME NEW y \in Players
          PROVE  (f.stage[y] = 0 \/ f.stage[y] >= m.stage[x])
                   <=> (m.stage[y] = 0 \/ m.stage[y] >= m.stage[x])
      <4>1. CASE m.stage[y] = 0
        BY <1>3, <2>1, <4>1, StandingSets
      <4>2. CASE m.stage[y] # 0
        BY <1>2, <4>2
      <4>3. QED
        BY <4>1, <4>2
    <3>2. In(f, m.stage[x]) = In(m, m.stage[x])
      BY <3>1 DEF In
    <3>3. QED
      BY <1>2, <1>4, <2>2, <3>2 DEF Standing, Ranked
  <2>3. CASE m.fixed[x] = 0
    <3>1. m.stage[x] < Live(m) /\ m.rank[x] = 1 + Cardinality(Better(m, x))
      BY <1>4, <2>3 DEF Standing, Ranked
    <3>2. ASSUME NEW y \in Players
          PROVE  (m.stage[y] = 0 \/ Ahead(m, y, x)) <=> (f.stage[y] = 0 \/ Ahead(f, y, x))
      <4>1. CASE m.stage[y] = 0
        <5>1. f.stage[y] = 0 \/ f.stage[y] > f.stage[x]
          BY <1>2, <1>3, <1>4, <2>1, <3>1, <4>1, StandingSets
        <5>2. QED
          BY <4>1, <5>1 DEF Ahead
      <4>2. CASE m.stage[y] # 0
        BY <1>2, <1>4, <4>2 DEF Ahead
      <4>3. QED
        BY <4>1, <4>2
    <3>3. Better(f, x) = Better(m, x)
      BY <3>2 DEF Better
    <3>4. f.rank[x] = 1 + Cardinality(Better(f, x))
      BY <1>2, <1>4, <2>3 DEF Standing, Ranked
    <3>5. QED
      BY <3>1, <3>3, <3>4
  <2>4. QED
    BY <2>2, <2>3
<1>5. ASSUME m.fixed[p] = 0, NEW q \in Players, m.stage[q] = 0
      PROVE  f.rank[q] < m.rank[p] /\ m.rank[q] < m.rank[p]
  <2>1. m.stage[p] < Live(m) /\ m.rank[p] = 1 + Cardinality(Better(m, p))
    BY <1>5 DEF Standing, Ranked
  <2>2. Better(m, p) \in SUBSET Players /\ q \in Better(m, p)
    BY <1>5, StandingSets DEF Better
  <2>3. Cardinality(Better(m, p)) \in Nat /\ Cardinality(Better(m, p)) >= 1
    BY <2>2, CountedPlayers
  <2>4. m.rank[q] = 0
    BY <1>5 DEF Standing, Ranked, Terminal
  <2>5. CASE f.stage[q] = 0
    <3>1. f.rank[q] <= 1 /\ f.rank[q] \in Nat
      BY <2>5, StandingSets DEF Standing, Ranked
    <3>2. QED
      BY <2>1, <2>3, <2>4, <3>1
  <2>6. CASE f.stage[q] # 0
    <3>1. f.stage[q] > f.stage[p] /\ f.stage[p] # 0
      BY <1>2, <1>3, <1>5, <2>1, <2>6, StandingSets
    <3>2. Ahead(f, q, p)
      BY <3>1 DEF Ahead
    <3>3. f.rank[q] < f.rank[p]
      <4>1. Ranked(f)
        BY DEF Standing
      <4>2. f.stage[q] # f.stage[p]
        BY <3>1, StandingSets
      <4> QED BY <2>6, <3>1, <3>2, <4>1, <4>2, AheadRanks
    <3>4. QED
      BY <1>4, <2>1, <2>3, <2>4, <3>3
  <2>7. QED
    BY <2>5, <2>6
<1>6. QED
  <2>1. m.fixed[p] = 0 => \A q \in Players : f.rank[q] = m.rank[p] <=> m.rank[q] = m.rank[p]
    <3> SUFFICES ASSUME m.fixed[p] = 0, NEW q \in Players
                 PROVE  f.rank[q] = m.rank[p] <=> m.rank[q] = m.rank[p]
      OBVIOUS
    <3>1. CASE m.stage[q] # 0
      BY <1>4, <3>1
    <3>2. CASE m.stage[q] = 0
      BY <1>5, <3>2, StandingSets
    <3>3. QED
      BY <3>1, <3>2
  <2>2. QED
    BY <1>2, <1>4, <2>1

\* The rank of survivalStabilizeOnlineRanks counts those who are better placed.
LEMMA RankOfCounts ==
  ASSUME NEW m \in Match, NEW p \in Players
  PROVE  RankOf(m, p) = 1 + Cardinality(Better(m, p))
<1> DEFINE out == {q \in Players \ InMatch(m) : Ahead(m, q, p)}
<1>1. InMatch(m) \in SUBSET Players /\ out \in SUBSET Players /\ InMatch(m) \cap out = {}
  BY StandingSets
<1>2. Better(m, p) = InMatch(m) \cup out
  BY DEF Better, InMatch
<1>3. Cardinality(InMatch(m) \cup out) = Cardinality(InMatch(m)) + Cardinality(out)
  <2> HIDE DEF out
  <2> QED BY <1>1, ApartPlayers
<1>4. Cardinality(InMatch(m)) \in Nat /\ Cardinality(out) \in Nat
  <2> HIDE DEF out
  <2> QED BY <1>1, CountedPlayers
<1>5. RankOf(m, p) = 1 + Cardinality(InMatch(m)) + Cardinality(out)
  BY DEF RankOf
<1>6. QED
  BY <1>2, <1>3, <1>4, <1>5

\* While the ranks of a round are not yet drawn: who is in has none, and whoever
\* surrendered has the last place of its round.
Loose(m) ==
  \A p \in Players :
    /\ m.stage[p] <= m.ordinal
    /\ m.stage[p] = 0 => m.fixed[p] = 0 /\ m.rank[p] = 0
    /\ m.fixed[p] # 0 => m.fixed[p] = Cardinality(In(m, m.stage[p]))

\* Between the players' elimination and the drawing of ranks nothing else moves.
LEMMA StabilizeDraws ==
  ASSUME NEW m \in Match, Loose(m), m.finished
  PROVE  LET f == Stabilize(m) IN
         /\ f = [m EXCEPT !.rank = f.rank]
         /\ f.rank \in Counts
         /\ \A p \in Players :
              /\ m.stage[p] = 0 => f.rank[p] = 0
              /\ m.stage[p] # 0 /\ m.fixed[p] = 0 =>
                   f.rank[p] = 1 + Cardinality(Better(m, p))
              /\ m.fixed[p] # 0 => f.rank[p] = m.fixed[p]
<1> DEFINE drawn == [p \in Players |->
             IF m.stage[p] = 0     THEN m.rank[p]
             ELSE IF m.fixed[p] # 0 THEN m.fixed[p]
             ELSE IF m.stage[p] < m.ordinal \/ m.finished \/ m.state = "FINAL_RESULT"
             THEN RankOf(m, p) ELSE m.rank[p]]
           f == Stabilize(m)
<1>1. f = [m EXCEPT !.rank = drawn] /\ f.rank = drawn
  BY DEF Stabilize, Match
<1>2. ASSUME NEW p \in Players
      PROVE  /\ drawn[p] \in Nat
             /\ m.stage[p] = 0 => drawn[p] = 0
             /\ m.stage[p] # 0 /\ m.fixed[p] = 0 => drawn[p] = 1 + Cardinality(Better(m, p))
             /\ m.fixed[p] # 0 => drawn[p] = m.fixed[p]
  <2>1. RankOf(m, p) = 1 + Cardinality(Better(m, p)) /\ Cardinality(Better(m, p)) \in Nat
    <3>1. Better(m, p) \in SUBSET Players
      BY StandingSets
    <3>2. QED
      BY <3>1, RankOfCounts, CountedPlayers
  <2>2. m.rank[p] \in Nat /\ m.fixed[p] \in Nat
    BY StandingSets
  <2>3. m.stage[p] = 0 => m.fixed[p] = 0 /\ m.rank[p] = 0
    BY DEF Loose
  <2>4. QED
    BY <2>1, <2>2, <2>3
<1>3. drawn \in Counts
  <2> HIDE DEF f
  <2>1. \A p \in Players : drawn[p] \in Nat
    BY <1>2
  <2>2. QED
    BY <2>1 DEF Counts
<1>4. QED
  <2> HIDE DEF drawn
  <2> QED BY <1>1, <1>2, <1>3

\* The elimination of players moves them to the present round and scores them.
LEMMA Eliminated ==
  ASSUME NEW m \in Match, NEW out \in SUBSET Players
  PROVE  LET f == Eliminate(m, out) IN
         /\ f = [m EXCEPT !.stage = f.stage, !.score = f.score, !.qualified = m.qualified \ out]
         /\ f \in Match
         /\ \A p \in Players :
              IF p \in out /\ m.stage[p] = 0 THEN f.stage[p] = m.ordinal
              ELSE f.stage[p] = m.stage[p] /\ f.score[p] = m.score[p]
<1> DEFINE f == Eliminate(m, out)
           stage == [p \in Players |-> IF p \in out /\ m.stage[p] = 0 THEN m.ordinal ELSE m.stage[p]]
           score == [p \in Players |->
                       IF p \in out /\ m.stage[p] = 0 THEN RoundScore(m, p) ELSE m.score[p]]
<1>1. f = [m EXCEPT !.stage = stage, !.score = score, !.qualified = m.qualified \ out]
  BY DEF Eliminate, Match
<1>2. \A p \in Players : RoundScore(m, p) \in Nat
  BY StandingSets DEF RoundScore
<1>3. stage \in Counts /\ score \in Counts
  BY <1>2, StandingSets DEF Counts
<1>4. f.stage = stage /\ f.score = score
  <2> HIDE DEF stage, score
  <2> QED BY <1>1 DEF Match
<1>5. f \in Match
  <2> HIDE DEF stage, score, f
  <2>1. m.qualified \ out \in SUBSET Players
    BY DEF Match
  <2>2. QED
    BY <1>1, <1>3, <2>1 DEF Match
<1>6. QED
  BY <1>1, <1>4, <1>5

\* Whom a round's standings are counted from does not change while it eliminates.
LEMMA InStands ==
  ASSUME NEW m \in Match, NEW f \in Match, f.ordinal = m.ordinal,
         \A p \in Players : f.stage[p] = m.stage[p]
                            \/ (m.stage[p] = 0 /\ f.stage[p] = m.ordinal)
  PROVE  \A k \in Nat : k <= m.ordinal => In(f, k) = In(m, k)
<1> SUFFICES ASSUME NEW k \in Nat, k <= m.ordinal
             PROVE  In(f, k) = In(m, k)
  OBVIOUS
<1>1. ASSUME NEW x \in Players
      PROVE  (f.stage[x] = 0 \/ f.stage[x] >= k) <=> (m.stage[x] = 0 \/ m.stage[x] >= k)
  <2>1. f.stage[x] \in Nat /\ m.stage[x] \in Nat /\ m.ordinal \in Nat
    BY StandingSets
  <2>2. QED
    BY <2>1
<1>2. QED
  BY <1>1 DEF In

\* The end of the match ranks everyone for good (finishMatch).
LEMMA FinishMatchDecides ==
  ASSUME NEW m \in Match, Loose(m), m.finished, NEW w \in Players, InMatch(m) = {w}
  PROVE  LET f == FinishMatch(m, w) IN
         /\ f \in Match /\ Standing(f)
         /\ f.state = "FINAL_RESULT" /\ f.gate = "NONE" /\ f.age = 0
         /\ f.ordinal = m.ordinal /\ f.gen = m.gen /\ f.phase = m.phase /\ f.map = m.map
         /\ f.finished = m.finished /\ f.stage = m.stage /\ f.score = m.score
         /\ f.fixed = m.fixed /\ f.players = m.players /\ f.forfeited = m.forfeited
<1> DEFINE over == [Enter(m, "FINAL_RESULT") EXCEPT !.gate = "NONE", !.winner = w]
           ranked == Stabilize(over)
           f == FinishMatch(m, w)
<1>1. w # NoOne
  BY EntrantsAssumption
<1>2. f = [ranked EXCEPT !.rank[w] = 1]
  BY <1>1 DEF FinishMatch
<1>3. /\ over \in Match
      /\ over.state = "FINAL_RESULT" /\ over.gate = "NONE" /\ over.age = 0 /\ over.winner = w
      /\ over.ordinal = m.ordinal /\ over.gen = m.gen /\ over.phase = m.phase
      /\ over.map = m.map /\ over.finished = m.finished /\ over.stage = m.stage
      /\ over.score = m.score /\ over.fixed = m.fixed /\ over.players = m.players
      /\ over.forfeited = m.forfeited /\ over.rank = m.rank
  BY DEF Enter, Match, States
<1> HIDE DEF over
<1>4. Loose(over) /\ InMatch(over) = {w}
  BY <1>3 DEF Loose, In, InMatch
<1>5. /\ ranked = [over EXCEPT !.rank = ranked.rank]
      /\ ranked.rank \in Counts
      /\ \A p \in Players :
           /\ over.stage[p] = 0 => ranked.rank[p] = 0
           /\ over.stage[p] # 0 /\ over.fixed[p] = 0 =>
                ranked.rank[p] = 1 + Cardinality(Better(over, p))
           /\ over.fixed[p] # 0 => ranked.rank[p] = over.fixed[p]
  BY <1>3, <1>4, StabilizeDraws
<1> HIDE DEF ranked
<1> DEFINE rank == [ranked.rank EXCEPT ![w] = 1]
<1>6. f = [over EXCEPT !.rank = rank] /\ rank \in Counts
  BY <1>2, <1>3, <1>5 DEF Match, Counts
<1>7. \A p \in Players : rank[p] = IF p = w THEN 1 ELSE ranked.rank[p]
  BY <1>5 DEF Counts
<1> HIDE DEF f, rank
<1>8. /\ f \in Match
      /\ f.state = "FINAL_RESULT" /\ f.gate = "NONE" /\ f.age = 0 /\ f.winner = w
      /\ f.ordinal = m.ordinal /\ f.gen = m.gen /\ f.phase = m.phase /\ f.map = m.map
      /\ f.finished = m.finished /\ f.stage = m.stage /\ f.score = m.score
      /\ f.fixed = m.fixed /\ f.players = m.players /\ f.forfeited = m.forfeited
      /\ f.rank = rank
  BY <1>3, <1>6 DEF Match
<1>9. /\ InMatch(f) = {w}
      /\ \A p : Better(f, p) = Better(over, p)
      /\ \A k : In(f, k) = In(over, k)
  BY <1>3, <1>4, <1>8 DEF InMatch, Better, Ahead, In
<1>10. Ranked(f)
  <2> SUFFICES ASSUME NEW p \in Players
               PROVE  /\ f.stage[p] <= f.ordinal
                      /\ f.stage[p] = 0 => f.fixed[p] = 0 /\ f.rank[p] = 1
                      /\ f.stage[p] # 0 /\ f.fixed[p] = 0 =>
                           f.stage[p] < Live(f) /\ f.rank[p] = 1 + Cardinality(Better(f, p))
                      /\ f.fixed[p] # 0 =>
                           f.rank[p] = f.fixed[p] /\ f.fixed[p] = Cardinality(In(f, f.stage[p]))
    BY <1>8 DEF Ranked
  <2>1. /\ over.stage[p] <= over.ordinal
        /\ over.stage[p] = 0 => over.fixed[p] = 0
        /\ over.fixed[p] # 0 => over.fixed[p] = Cardinality(In(over, over.stage[p]))
    BY <1>4 DEF Loose
  <2>2. over.stage[p] = 0 <=> p = w
    BY <1>4 DEF InMatch
  <2>3. f.stage[p] \in Nat /\ f.ordinal \in Nat /\ Live(f) = f.ordinal + 1
    BY <1>8, StandingSets DEF Live
  <2>4. QED
    BY <1>3, <1>5, <1>7, <1>8, <1>9, <2>1, <2>2, <2>3
<1>11. Standing(f)
  BY <1>8, <1>9, <1>10 DEF Standing, Accounted, Decided, Terminal
<1>12. QED
  BY <1>8, <1>11 DEF f

-----------------------------------------------------------------------------
(* The end of a round *)

\* As long as somebody plays, there is a score that at least the places of the
\* round reach and fewer surpass (the cutoff of finishRound).
LEMMA CutoffExists ==
  ASSUME NEW m \in Match, Active(m) # {},
         NEW places \in Nat \ {0}, places <= Cardinality(Active(m))
  PROVE  \E s \in {RoundScore(m, p) : p \in Active(m)} :
           /\ Cardinality({p \in Active(m) : RoundScore(m, p) > s}) < places
           /\ Cardinality({p \in Active(m) : RoundScore(m, p) >= s}) >= places
<1> DEFINE A == Active(m)
           S == {RoundScore(m, p) : p \in A}
           Reach(s) == {p \in A : RoundScore(m, p) >= s}
           Above(s) == {p \in A : RoundScore(m, p) > s}
           T == {Cardinality(Reach(s)) : s \in {x \in S : Cardinality(Reach(x)) >= places}}
<1>1. A \subseteq Players /\ \A p \in A : RoundScore(m, p) \in Nat
  BY StandingSets DEF RoundScore
<1>2. \A s : /\ Reach(s) \in SUBSET Players /\ Above(s) \in SUBSET Players
             /\ Cardinality(Reach(s)) \in Nat /\ Cardinality(Above(s)) \in Nat
  <2> SUFFICES ASSUME NEW s
               PROVE  /\ Reach(s) \in SUBSET Players /\ Above(s) \in SUBSET Players
                      /\ Cardinality(Reach(s)) \in Nat /\ Cardinality(Above(s)) \in Nat
    OBVIOUS
  <2>1. Reach(s) \in SUBSET Players /\ Above(s) \in SUBSET Players
    BY <1>1
  <2>2. QED
    <3> HIDE DEF Reach, Above
    <3> QED BY <2>1, CountedPlayers
<1>3. S \in SUBSET Nat /\ S # {}
  BY <1>1
<1>4. T # {}
  <2> HIDE DEF T, S
  <2>1. PICK s \in S : \A x \in S : s <= x
    BY <1>3, LeastNatural
  <2>2. Reach(s) = A
    BY <1>1, <2>1 DEF S
  <2>3. Cardinality(Reach(s)) >= places
    <3> HIDE DEF Reach
    <3> QED BY <2>2
  <2>4. QED
    <3> HIDE DEF Reach
    <3> QED BY <2>1, <2>3 DEF T
<1>5. T \in SUBSET Nat
  <2> HIDE DEF Reach, S
  <2> QED BY <1>2
<1>6. PICK n \in T : \A k \in T : n <= k
  <2> HIDE DEF T
  <2> QED BY <1>4, <1>5, LeastNatural
<1>7. PICK s \in S : n = Cardinality(Reach(s)) /\ Cardinality(Reach(s)) >= places
  <2> HIDE DEF Reach, S
  <2> QED BY <1>6
<1>8. ASSUME Cardinality(Above(s)) >= places
      PROVE  FALSE
  <2> DEFINE R == {RoundScore(m, p) : p \in Above(s)}
  <2>1. Above(s) # {}
    <3> HIDE DEF Above
    <3> QED BY <1>2, <1>8, CountedPlayers
  <2>2. R \in SUBSET Nat /\ R # {} /\ R \subseteq S
    BY <1>1, <2>1
  <2>3. PICK x \in R : \A y \in R : x <= y
    <3> HIDE DEF R
    <3> QED BY <2>2, LeastNatural
  <2>4. x \in Nat /\ x > s /\ s \in Nat /\ x \in S
    BY <1>1, <1>7, <2>3
  <2>5. Reach(x) = Above(s)
    <3>1. ASSUME NEW p \in A, RoundScore(m, p) > s
          PROVE  RoundScore(m, p) >= x
      BY <1>1, <2>3, <2>4, <3>1
    <3>2. QED
      BY <1>1, <2>4, <3>1
  <2>6. Above(s) \subseteq Reach(s) /\ \E p \in Reach(s) : p \notin Above(s)
    BY <1>1, <1>7, <2>4
  <2> HIDE DEF R, S, Reach, Above
  <2>7. Cardinality(Reach(x)) \in T
    BY <1>8, <2>4, <2>5
  <2>8. Cardinality(Above(s)) < Cardinality(Reach(s))
    BY <1>2, <2>6, MorePlayers
  <2>9. n <= Cardinality(Reach(x))
    BY <1>6, <2>7
  <2>10. QED
    BY <1>2, <1>7, <2>5, <2>8, <2>9
<1>9. Cardinality(Above(s)) < places
  <2>1. Cardinality(Above(s)) \in Nat
    BY <1>2
  <2>2. ~(Cardinality(Above(s)) >= places)
    BY <1>8
  <2> HIDE DEF Above
  <2>3. QED
    BY <2>1, <2>2
<1>10. QED
  BY <1>7, <1>9

\* Somebody always goes on: the cutoff lets at least the first places pass.
LEMMA SomebodyPasses ==
  ASSUME NEW m \in Match, Active(m) # {}
  PROVE  Passing(m) # {} /\ Passing(m) \subseteq Active(m)
<1> DEFINE size == Cardinality(Active(m))
           places == IF TargetOf(m.phase) < size THEN TargetOf(m.phase) ELSE size
           Cut(s) == /\ Cardinality({p \in Active(m) : RoundScore(m, p) > s}) < places
                     /\ Cardinality({p \in Active(m) : RoundScore(m, p) >= s}) >= places
<1>1. size \in Nat /\ size >= 1
  BY StandingSets, CountedPlayers
<1>2. TargetOf(m.phase) \in Nat \ {0}
  BY Ladder DEF Match
<1>3. places \in Nat \ {0} /\ places <= size
  BY <1>1, <1>2
<1>4. \E s \in {RoundScore(m, p) : p \in Active(m)} : Cut(s)
  <2> HIDE DEF places
  <2> QED BY <1>3, CutoffExists
<1>5. Cutoff(m) = CHOOSE s \in {RoundScore(m, p) : p \in Active(m)} : Cut(s)
  BY DEF Cutoff
<1>6. Cut(Cutoff(m))
  <2> HIDE DEF Cut
  <2> QED BY <1>4, <1>5
<1>7. Cardinality(Passing(m)) >= places
  <2> HIDE DEF places
  <2> QED BY <1>6 DEF Passing
<1>8. Passing(m) \subseteq Active(m) /\ Passing(m) \in SUBSET Players
  BY StandingSets DEF Passing
<1>9. Passing(m) # {}
  <2> HIDE DEF places
  <2> QED BY <1>3, <1>7, <1>8, CountedPlayers
<1>10. QED
  BY <1>8, <1>9

\* What a function of the reducer leaves behind.
Keeps(m, f) == Sound(f) /\ Grown(m, f)

\* finishRound: those who pass are all who are still in the match, everyone else
\* of the round is ranked, and the last one wins.
LEMMA FinishRoundKeeps ==
  ASSUME NEW m \in Match, ~Terminal(m), Standing(m), Mapped(m), m.state # "ROUND_RESULT"
  PROVE  Keeps(m, FinishRound(m)) /\ FinishRound(m).state \in {"ROUND_RESULT", "FINAL_RESULT"}
<1> DEFINE closed == [m EXCEPT !.open = {}, !.finished = TRUE, !.qualified = Passing(m)]
           lost   == Active(m) \ Passing(m)
           out    == Eliminate(closed, lost)
<1>1. /\ ~m.finished /\ InMatch(m) = Active(m) /\ Cardinality(InMatch(m)) >= 2
      /\ m.players = In(m, m.ordinal) /\ Live(m) = m.ordinal
  BY DEF Standing, Accounted, Decided, Live
<1>2. Active(m) # {}
  <2>1. InMatch(m) \in SUBSET Players
    BY StandingSets
  <2>2. InMatch(m) # {}
    BY <1>1, <2>1, CountedPlayers
  <2>3. QED
    BY <1>1, <2>2
<1>3. Passing(m) # {} /\ Passing(m) \subseteq Active(m) /\ Active(m) \subseteq Players
  BY <1>2, SomebodyPasses, StandingSets
<1>4. /\ closed \in Match
      /\ closed.finished = TRUE /\ closed.qualified = Passing(m) /\ closed.open = {}
      /\ closed.ordinal = m.ordinal /\ closed.gen = m.gen /\ closed.phase = m.phase
      /\ closed.map = m.map /\ closed.stage = m.stage /\ closed.score = m.score
      /\ closed.fixed = m.fixed /\ closed.rank = m.rank /\ closed.players = m.players
      /\ closed.forfeited = m.forfeited
  BY <1>3 DEF Match
<1> HIDE DEF closed
<1>5. /\ out = [closed EXCEPT !.stage = out.stage, !.score = out.score,
                              !.qualified = closed.qualified \ lost]
      /\ out \in Match
      /\ \A p \in Players :
           IF p \in lost /\ closed.stage[p] = 0 THEN out.stage[p] = closed.ordinal
           ELSE out.stage[p] = closed.stage[p] /\ out.score[p] = closed.score[p]
  <2>1. lost \in SUBSET Players
    BY <1>3
  <2> HIDE DEF lost
  <2>2. QED
    BY <1>4, <2>1, Eliminated
<1> HIDE DEF out
<1>6. /\ out.finished = TRUE /\ out.qualified = Passing(m)
      /\ out.ordinal = m.ordinal /\ out.gen = m.gen /\ out.phase = m.phase
      /\ out.map = m.map /\ out.fixed = m.fixed /\ out.rank = m.rank
      /\ out.players = m.players /\ out.forfeited = m.forfeited
  <2>1. closed.qualified \ lost = Passing(m)
    BY <1>4
  <2> DEFINE stage == out.stage
             score == out.score
             left  == closed.qualified \ lost
  <2>2. out = [closed EXCEPT !.stage = stage, !.score = score, !.qualified = left]
    BY <1>5
  <2> HIDE DEF lost, stage, score, left
  <2>3. /\ out.finished = closed.finished /\ out.qualified = left
        /\ out.ordinal = closed.ordinal /\ out.gen = closed.gen /\ out.phase = closed.phase
        /\ out.map = closed.map /\ out.fixed = closed.fixed /\ out.rank = closed.rank
        /\ out.players = closed.players /\ out.forfeited = closed.forfeited
    BY <1>4, <2>2 DEF Match
  <2>4. QED
    BY <1>4, <2>1, <2>3 DEF left
<1>7. \A p \in Players :
        IF p \in lost THEN m.stage[p] = 0 /\ out.stage[p] = m.ordinal
        ELSE out.stage[p] = m.stage[p] /\ out.score[p] = m.score[p]
  BY <1>1, <1>4, <1>5 DEF InMatch
<1>8. InMatch(out) = Passing(m) /\ m.ordinal \in Nat \ {0}
  BY <1>1, <1>3, <1>7, StandingSets DEF InMatch
<1>9. \A k \in Nat : k <= m.ordinal => In(out, k) = In(m, k)
  <2> HIDE DEF lost
  <2>1. ASSUME NEW p \in Players
        PROVE  out.stage[p] = m.stage[p] \/ (m.stage[p] = 0 /\ out.stage[p] = m.ordinal)
    BY <1>7
  <2>2. QED
    BY <1>5, <1>6, <2>1, InStands
<1>10. Ranked(m)
  BY DEF Standing
<1>11. Loose(out)
  <2> SUFFICES ASSUME NEW p \in Players
               PROVE  /\ out.stage[p] <= out.ordinal
                      /\ out.stage[p] = 0 => out.fixed[p] = 0 /\ out.rank[p] = 0
                      /\ out.fixed[p] # 0 => out.fixed[p] = Cardinality(In(out, out.stage[p]))
    BY DEF Loose
  <2>1. /\ m.stage[p] <= m.ordinal /\ m.stage[p] \in Nat
        /\ m.stage[p] = 0 => m.fixed[p] = 0 /\ m.rank[p] = 0
        /\ m.fixed[p] # 0 => m.fixed[p] = Cardinality(In(m, m.stage[p]))
    BY <1>10, StandingSets DEF Ranked, Terminal
  <2>2. QED
    BY <1>6, <1>7, <1>8, <1>9, <2>1
<1>12. ASSUME NEW f \in Match, f.stage = out.stage, f.score = out.score, f.fixed = m.fixed,
              f.finished = TRUE, f.ordinal = m.ordinal
       PROVE  Grown(m, f)
  <2>1. Live(f) = m.ordinal + 1
    BY <1>12 DEF Live
  <2>2. QED
    BY <1>1, <1>7, <1>8, <1>12, <2>1 DEF Grown
<1>13. CASE Cardinality(Passing(m)) = 1
  <2> DEFINE w == CHOOSE p \in Passing(m) : TRUE
  <2>1. w \in Passing(m) /\ w \in Players
    BY <1>3
  <2>2. InMatch(out) = {w}
    <3> HIDE DEF w
    <3> QED BY <1>3, <1>8, <1>13, <2>1, OnlyPlayer
  <2>3. FinishRound(m) = FinishMatch(out, w)
    BY <1>13 DEF FinishRound, closed, out
  <2> DEFINE f == FinishMatch(out, w)
  <2>4. /\ f \in Match /\ Standing(f)
        /\ f.state = "FINAL_RESULT" /\ f.gate = "NONE" /\ f.age = 0
        /\ f.ordinal = out.ordinal /\ f.gen = out.gen /\ f.phase = out.phase /\ f.map = out.map
        /\ f.finished = out.finished /\ f.stage = out.stage /\ f.score = out.score
        /\ f.fixed = out.fixed /\ f.players = out.players /\ f.forfeited = out.forfeited
    <3> HIDE DEF w
    <3> QED BY <1>5, <1>6, <1>11, <2>1, <2>2, FinishMatchDecides
  <2> HIDE DEF f, w
  <2>5. Grown(m, f)
    BY <1>6, <1>12, <2>4
  <2>6. Sound(f)
    BY <1>6, <2>4 DEF Sound, Clocked, Mapped, Entry
  <2>7. QED
    BY <2>3, <2>4, <2>5, <2>6 DEF Keeps, f
<1>14. CASE Cardinality(Passing(m)) # 1
  <2> DEFINE drawn == Stabilize(out)
             f == [Enter(drawn, "ROUND_RESULT") EXCEPT !.gate = "ROUND_RESULT"]
  <2>1. FinishRound(m) = f
    BY <1>14 DEF FinishRound, closed, out
  <2>2. /\ drawn = [out EXCEPT !.rank = drawn.rank]
        /\ drawn.rank \in Counts
        /\ \A p \in Players :
             /\ out.stage[p] = 0 => drawn.rank[p] = 0
             /\ out.stage[p] # 0 /\ out.fixed[p] = 0 =>
                  drawn.rank[p] = 1 + Cardinality(Better(out, p))
             /\ out.fixed[p] # 0 => drawn.rank[p] = out.fixed[p]
    BY <1>5, <1>6, <1>11, StabilizeDraws
  <2> DEFINE rank == drawn.rank
  <2>11. drawn = [out EXCEPT !.rank = rank] /\ rank \in Counts
    BY <2>2
  <2> HIDE DEF drawn, rank
  <2>12. /\ drawn \in Match /\ drawn.rank = rank
         /\ drawn.ordinal = out.ordinal /\ drawn.gen = out.gen /\ drawn.phase = out.phase
         /\ drawn.map = out.map /\ drawn.finished = out.finished /\ drawn.stage = out.stage
         /\ drawn.score = out.score /\ drawn.fixed = out.fixed
         /\ drawn.players = out.players /\ drawn.forfeited = out.forfeited
         /\ drawn.qualified = out.qualified
    BY <1>5, <2>11 DEF Match
  <2>3. /\ f \in Match
        /\ f.state = "ROUND_RESULT" /\ f.gate = "ROUND_RESULT" /\ f.age = 0
        /\ f.ordinal = m.ordinal /\ f.gen = m.gen /\ f.phase = m.phase /\ f.map = m.map
        /\ f.finished = TRUE /\ f.stage = out.stage /\ f.score = out.score
        /\ f.fixed = m.fixed /\ f.players = m.players /\ f.forfeited = m.forfeited
        /\ f.qualified = Passing(m) /\ f.rank = drawn.rank
    BY <1>6, <2>12 DEF Enter, Match, States
  <2> HIDE DEF f
  <2>4. /\ InMatch(f) = Passing(m) /\ Live(f) = m.ordinal + 1
        /\ \A p : Better(f, p) = Better(out, p)
        /\ \A k : In(f, k) = In(out, k)
    BY <1>6, <1>8, <2>3 DEF InMatch, Live, Better, Ahead, In
  <2>5. Ranked(f)
    <3> SUFFICES ASSUME NEW p \in Players
                 PROVE  /\ f.stage[p] <= f.ordinal
                        /\ f.stage[p] = 0 => f.fixed[p] = 0 /\ f.rank[p] = 0
                        /\ f.stage[p] # 0 /\ f.fixed[p] = 0 =>
                             f.stage[p] < Live(f) /\ f.rank[p] = 1 + Cardinality(Better(f, p))
                        /\ f.fixed[p] # 0 =>
                             f.rank[p] = f.fixed[p] /\ f.fixed[p] = Cardinality(In(f, f.stage[p]))
      BY <2>3 DEF Ranked
    <3>1. /\ out.stage[p] <= out.ordinal
          /\ out.stage[p] = 0 => out.fixed[p] = 0
          /\ out.fixed[p] # 0 => out.fixed[p] = Cardinality(In(out, out.stage[p]))
      BY <1>11 DEF Loose
    <3>2. out.stage[p] \in Nat
      BY <1>5, StandingSets
    <3>3. QED
      BY <1>6, <1>8, <2>2, <2>3, <2>4, <3>1, <3>2
  <2>6. Accounted(f)
    <3>1. In(f, f.ordinal) = f.players
      BY <1>1, <1>8, <1>9, <2>3, <2>4
    <3>2. Qualified(f) = Passing(m)
      BY <1>3, <2>3, <2>4 DEF Qualified, Active
    <3>3. QED
      BY <2>3, <2>4, <3>1, <3>2 DEF Accounted, Terminal
  <2>7. Decided(f)
    <3>1. Cardinality(Passing(m)) >= 1 /\ Cardinality(Passing(m)) \in Nat
      BY <1>3, CountedPlayers
    <3>2. QED
      BY <1>14, <2>3, <2>4, <3>1 DEF Decided, Terminal
  <2>8. Grown(m, f)
    BY <1>12, <2>3
  <2>9. Sound(f)
    BY <2>3, <2>5, <2>6, <2>7 DEF Sound, Standing, Clocked, Mapped, Entry
  <2>10. QED
    BY <2>1, <2>3, <2>8, <2>9 DEF Keeps
<1>15. QED
  BY <1>13, <1>14

\* A function that leaves the standings alone keeps the match sound when it takes
\* care of the clock, the map and the barriers.
LEMMA SameSound ==
  ASSUME NEW m \in Match, ~Terminal(m), Sound(m),
         NEW f \in Match, Same(m, f), Clocked(f), Mapped(f), Entry(f)
  PROVE  Keeps(m, f)
<1>1. Standing(f) /\ Grown(m, f)
  BY SameKeeps DEF Sound
<1>2. QED
  BY <1>1 DEF Sound, Keeps

LEMMA SoundKeepsItself ==
  ASSUME NEW m, Sound(m)
  PROVE  m \in Match /\ Keeps(m, m)
BY GrownIsReflexive DEF Sound, Keeps

LEMMA KeepsIsTransitive ==
  ASSUME NEW m, NEW f, NEW g, Sound(m), Keeps(m, f), Keeps(f, g)
  PROVE  Keeps(m, g)
BY GrownIsTransitive DEF Keeps, Sound

\* Those who play the round are those who are still in the match.
LEMMA RoundPlayers ==
  ASSUME NEW m \in Match, ~Terminal(m), Standing(m), m.state # "ROUND_RESULT"
  PROVE  /\ m.finished = FALSE /\ Live(m) = m.ordinal /\ InMatch(m) = Active(m)
         /\ Active(m) \in SUBSET Players
         /\ Cardinality(Active(m)) >= 2 /\ Cardinality(Active(m)) \in Nat
         /\ m.players = In(m, m.ordinal)
         /\ \A p \in Active(m) : m.stage[p] = 0 /\ m.fixed[p] = 0 /\ m.rank[p] = 0
<1>1. /\ m.finished = FALSE /\ Live(m) = m.ordinal /\ InMatch(m) = Active(m)
      /\ Cardinality(InMatch(m)) >= 2 /\ m.players = In(m, m.ordinal)
  <2>1. m.finished \in BOOLEAN
    BY DEF Match
  <2>2. QED
    BY <2>1 DEF Standing, Accounted, Decided, Live
<1>2. Active(m) \in SUBSET Players
  BY StandingSets
<1>3. Cardinality(Active(m)) \in Nat
  BY <1>2, CountedPlayers
<1>4. \A p \in Active(m) : m.stage[p] = 0
  BY <1>1 DEF InMatch
<1>5. \A p \in Active(m) : m.fixed[p] = 0 /\ m.rank[p] = 0
  BY <1>2, <1>4 DEF Standing, Ranked, Terminal
<1>6. QED
  BY <1>1, <1>2, <1>3, <1>4, <1>5

\* startRound: the qualified play the next round; a map that was looked for ahead
\* of time is taken if it is for that round.
LEMMA StartRoundKeeps ==
  ASSUME NEW m \in Match, Sound(m), m.state = "ROUND_RESULT", NEW phase \in Phases
  PROVE  LET f == StartRound(m, m.ordinal + 1, phase, Qualified(m))
         IN  Keeps(m, f) /\ Prepared(f) /\ ~Terminal(f)
<1> DEFINE ordinal == m.ordinal + 1
           players == Qualified(m)
           f == StartRound(m, ordinal, phase, players)
           goal == [ordinal |-> ordinal, gen |-> 1, phase |-> phase]
           none == [p \in Players |-> 0]
           r == [m EXCEPT
                   !.state = "MAP_SELECTION", !.age = 0, !.gate = "NONE",
                   !.ordinal = ordinal, !.phase = phase, !.gen = 1, !.rerolls = 0,
                   !.players = players, !.forfeited = {}, !.ready = {}, !.failed = {},
                   !.absent = {}, !.deferred = {}, !.entered = {}, !.firstEntered = FALSE,
                   !.open = {}, !.used = none, !.best = none, !.qualified = {},
                   !.finished = FALSE, !.map = NoOne, !.nextMap = NoOne]
<1>1. /\ m.ordinal \in Nat \ {0} /\ ordinal \in Nat \ {0} /\ players \in SUBSET Players
      /\ none \in Counts
  BY StandingSets DEF Counts
<1>2. f = IF m.nextMap = goal THEN [Enter(r, "PREPARING") EXCEPT !.map = m.nextMap] ELSE r
  BY DEF StartRound
<1> HIDE DEF none
<1>3. /\ r \in Match
      /\ r.state = "MAP_SELECTION" /\ r.age = 0 /\ r.gate = "NONE"
      /\ r.ordinal = ordinal /\ r.phase = phase /\ r.gen = 1 /\ r.players = players
      /\ r.forfeited = {} /\ r.ready = {} /\ r.deferred = {} /\ r.qualified = {}
      /\ r.finished = FALSE /\ r.map = NoOne
      /\ r.stage = m.stage /\ r.score = m.score /\ r.fixed = m.fixed /\ r.rank = m.rank
  <2> HIDE DEF ordinal, players
  <2> QED BY <1>1 DEF Match, States
<1> HIDE DEF r, f
<1>4. m.nextMap \in Maps \cup {NoOne}
  BY DEF Match
<1>5. /\ f \in Match
      /\ f.state \in {"MAP_SELECTION", "PREPARING"} /\ f.age = 0 /\ f.gate = "NONE"
      /\ f.ordinal = ordinal /\ f.phase = phase /\ f.gen = 1 /\ f.players = players
      /\ f.forfeited = {} /\ f.ready = {} /\ f.deferred = {} /\ f.qualified = {}
      /\ f.finished = FALSE /\ (f.map = NoOne \/ f.map = goal)
      /\ f.stage = m.stage /\ f.score = m.score /\ f.fixed = m.fixed /\ f.rank = m.rank
  <2> HIDE DEF ordinal, players, goal
  <2>1. CASE m.nextMap = goal
    <3> DEFINE e == Enter(r, "PREPARING")
    <3>1. f = [e EXCEPT !.map = goal] /\ goal \in Maps \cup {NoOne}
      BY <1>2, <1>4, <2>1
    <3>2. e \in Match
      BY <1>3, EnterIsMatch DEF States
    <3>3. f \in Match
      <4> HIDE DEF e
      <4> QED BY <3>1, <3>2, MappedIsMatch
    <3>4. QED
      BY <1>3, <3>1, <3>3 DEF Match, Enter
  <2>2. CASE m.nextMap # goal
    BY <1>2, <1>3, <2>2
  <2>3. QED
    BY <2>1, <2>2
<1>6. m.finished = TRUE /\ InMatch(m) = Qualified(m) /\ Cardinality(InMatch(m)) >= 2
      /\ Live(m) = ordinal
  BY DEF Sound, Standing, Accounted, Decided, Terminal, Live
<1>7. /\ InMatch(f) = players /\ Active(f) = players /\ Live(f) = ordinal
      /\ \A p : Better(f, p) = Better(m, p)
      /\ \A k : In(f, k) = In(m, k)
  BY <1>5, <1>6 DEF InMatch, Active, Live, Better, Ahead, In
<1>8. Ranked(m)
  BY DEF Sound, Standing
<1>9. Ranked(f)
  <2> SUFFICES ASSUME NEW p \in Players
               PROVE  /\ f.stage[p] <= f.ordinal
                      /\ f.stage[p] = 0 => f.fixed[p] = 0 /\ f.rank[p] = 0
                      /\ f.stage[p] # 0 /\ f.fixed[p] = 0 =>
                           f.stage[p] < Live(f) /\ f.rank[p] = 1 + Cardinality(Better(f, p))
                      /\ f.fixed[p] # 0 =>
                           f.rank[p] = f.fixed[p] /\ f.fixed[p] = Cardinality(In(f, f.stage[p]))
    BY <1>5 DEF Ranked
  <2>1. m.stage[p] \in Nat
    BY StandingSets
  <2>2. QED
    BY <1>1, <1>5, <1>6, <1>7, <1>8, <2>1 DEF Ranked
<1>10. Accounted(f)
  <2>1. In(f, f.ordinal) = f.players
    <3>1. \A p \in Players : m.stage[p] \in Nat /\ m.stage[p] <= m.ordinal
      BY <1>8, StandingSets DEF Ranked
    <3>2. \A p \in Players : m.stage[p] = 0 \/ m.stage[p] >= ordinal <=> m.stage[p] = 0
      BY <1>1, <3>1
    <3>3. In(m, ordinal) = InMatch(m)
      BY <3>2 DEF In, InMatch
    <3>4. QED
      BY <1>5, <1>6, <1>7, <3>3
  <2>2. QED
    BY <1>5, <1>7, <2>1 DEF Accounted, Terminal
<1>11. Decided(f)
  BY <1>5, <1>6, <1>7 DEF Decided, Terminal
<1>12. Grown(m, f)
  BY <1>1, <1>5, <1>6, <1>7 DEF Grown
<1>13. Sound(f)
  <2>1. Mapped(f)
    BY <1>5 DEF Mapped
  <2>2. QED
    BY <1>5, <1>9, <1>10, <1>11, <2>1 DEF Sound, Standing, Clocked, Entry
<1>14. Prepared(f)
  BY <1>5 DEF Prepared
<1>15. QED
  BY <1>5, <1>12, <1>13, <1>14 DEF Keeps, Terminal, f, ordinal, players

\* A Death Match that is played out ends like any other round.
LEMMA CloseWhenSpentKeeps ==
  ASSUME NEW m \in Match, Sound(m), m.state = "PLAYING"
  PROVE  /\ Keeps(m, CloseWhenSpent(m))
         /\ CloseWhenSpent(m).state \in {"PLAYING", "ROUND_RESULT", "FINAL_RESULT"}
<1>1. Keeps(m, m)
  BY SoundKeepsItself
<1>2. Keeps(m, FinishRound(m)) /\ FinishRound(m).state \in {"ROUND_RESULT", "FINAL_RESULT"}
  BY FinishRoundKeeps DEF Sound, Terminal
<1>3. QED
  BY <1>1, <1>2 DEF CloseWhenSpent

\* survivorsOrEnd: when everybody else has given up, the match is decided.
LEMMA LastOneWinsDecides ==
  ASSUME NEW m \in Match, Loose(m), InMatch(m) = Active(m), Cardinality(Active(m)) = 1,
         Mapped(m)
  PROVE  LET f == LastOneWins(m) IN
         /\ Sound(f) /\ f.state = "FINAL_RESULT"
         /\ f.ordinal = m.ordinal /\ f.finished = TRUE
         /\ f.stage = m.stage /\ f.score = m.score /\ f.fixed = m.fixed
         /\ f.players = m.players /\ f.forfeited = m.forfeited
<1> DEFINE over == [m EXCEPT !.finished = TRUE, !.qualified = Active(m)]
           w == CHOOSE p \in Active(m) : TRUE
           f == FinishMatch(over, w)
<1>1. Active(m) \in SUBSET Players /\ Active(m) # {}
  <2>1. Active(m) \in SUBSET Players
    BY StandingSets
  <2>2. QED
    BY <2>1, CountedPlayers
<1>2. w \in Active(m)
  BY <1>1
<1>3. LastOneWins(m) = f
  BY <1>1 DEF LastOneWins
<1> HIDE DEF w
<1>4. /\ over \in Match /\ over.finished = TRUE /\ over.ordinal = m.ordinal
      /\ over.gen = m.gen /\ over.phase = m.phase /\ over.map = m.map
      /\ over.stage = m.stage /\ over.score = m.score /\ over.fixed = m.fixed
      /\ over.rank = m.rank /\ over.players = m.players /\ over.forfeited = m.forfeited
  BY <1>1 DEF Match
<1> HIDE DEF over
<1>5. InMatch(over) = {w}
  <2>1. Active(m) = {w}
    BY <1>1, <1>2, OnlyPlayer
  <2>2. QED
    BY <1>4, <2>1 DEF InMatch
<1>6. Loose(over)
  BY <1>4 DEF Loose, In
<1>7. /\ f \in Match /\ Standing(f)
      /\ f.state = "FINAL_RESULT" /\ f.gate = "NONE" /\ f.age = 0
      /\ f.ordinal = over.ordinal /\ f.gen = over.gen /\ f.phase = over.phase
      /\ f.map = over.map
      /\ f.finished = over.finished /\ f.stage = over.stage /\ f.score = over.score
      /\ f.fixed = over.fixed /\ f.players = over.players /\ f.forfeited = over.forfeited
  BY <1>1, <1>2, <1>4, <1>5, <1>6, FinishMatchDecides
<1> HIDE DEF f
<1>8. Sound(f)
  BY <1>4, <1>7 DEF Sound, Clocked, Mapped, Entry
<1>9. QED
  BY <1>3, <1>4, <1>7, <1>8

\* Surrender, up to what it may lead to: the player has left the round with its
\* last place.
LEMMA SurrenderLeaves ==
  ASSUME NEW m \in Match, Sound(m), ~Terminal(m), m.state # "ROUND_RESULT",
         NEW p \in Active(m)
  PROVE  LET floor == Cardinality(m.players)
             gone  == Eliminate([m EXCEPT !.forfeited = @ \cup {p}, !.open = @ \ {p}], {p})
             out   == [gone EXCEPT !.fixed[p] = floor, !.rank[p] = floor]
         IN  /\ out \in Match /\ Active(out) = Active(m) \ {p} /\ InMatch(out) = Active(out)
             /\ Cardinality(Active(out)) >= 1 /\ Cardinality(Active(out)) \in Nat
             /\ Loose(out) /\ Ranked(out) /\ Accounted(out)
             /\ Clocked(out) /\ Mapped(out) /\ Entry(out) /\ Grown(m, out)
             /\ out.state = m.state /\ out.ordinal = m.ordinal /\ out.finished = m.finished
             /\ out.phase = m.phase /\ out.used = m.used /\ out.open = m.open \ {p}
             /\ out.ready = m.ready /\ out.entered = m.entered
<1> DEFINE floor == Cardinality(m.players)
           left  == [m EXCEPT !.forfeited = @ \cup {p}, !.open = @ \ {p}]
           gone  == Eliminate(left, {p})
           fixed == [m.fixed EXCEPT ![p] = floor]
           rank  == [m.rank EXCEPT ![p] = floor]
           out   == [gone EXCEPT !.fixed[p] = floor, !.rank[p] = floor]
<1>1. /\ m.finished = FALSE /\ Live(m) = m.ordinal /\ InMatch(m) = Active(m)
      /\ Active(m) \in SUBSET Players
      /\ Cardinality(Active(m)) >= 2 /\ Cardinality(Active(m)) \in Nat
      /\ m.players = In(m, m.ordinal)
      /\ \A q \in Active(m) : m.stage[q] = 0 /\ m.fixed[q] = 0 /\ m.rank[q] = 0
  BY RoundPlayers DEF Sound
<1>2. p \in Players /\ m.ordinal \in Nat \ {0}
  BY <1>1, StandingSets
<1>3. floor \in Nat /\ floor >= 1
  <2>1. m.players \in SUBSET Players /\ p \in m.players
    BY DEF Match, Active
  <2>2. QED
    BY <2>1, CountedPlayers
<1>4. /\ left \in Match
      /\ left.state = m.state /\ left.age = m.age /\ left.gate = m.gate
      /\ left.ordinal = m.ordinal /\ left.gen = m.gen /\ left.phase = m.phase
      /\ left.map = m.map /\ left.players = m.players
      /\ left.forfeited = m.forfeited \cup {p} /\ left.open = m.open \ {p}
      /\ left.ready = m.ready /\ left.entered = m.entered /\ left.absent = m.absent
      /\ left.deferred = m.deferred /\ left.used = m.used /\ left.finished = m.finished
      /\ left.stage = m.stage /\ left.score = m.score /\ left.fixed = m.fixed
      /\ left.rank = m.rank
  BY <1>2 DEF Match
<1> HIDE DEF left
<1>5. /\ gone = [left EXCEPT !.stage = gone.stage, !.score = gone.score,
                             !.qualified = left.qualified \ {p}]
      /\ gone \in Match
      /\ \A q \in Players :
           IF q \in {p} /\ left.stage[q] = 0 THEN gone.stage[q] = left.ordinal
           ELSE gone.stage[q] = left.stage[q] /\ gone.score[q] = left.score[q]
  <2>1. {p} \in SUBSET Players
    BY <1>2
  <2>2. QED
    BY <1>4, <2>1, Eliminated
<1> HIDE DEF gone
<1>6. /\ gone.state = m.state /\ gone.age = m.age /\ gone.gate = m.gate
      /\ gone.ordinal = m.ordinal /\ gone.gen = m.gen /\ gone.phase = m.phase
      /\ gone.map = m.map /\ gone.players = m.players
      /\ gone.forfeited = m.forfeited \cup {p} /\ gone.open = m.open \ {p}
      /\ gone.ready = m.ready /\ gone.entered = m.entered /\ gone.absent = m.absent
      /\ gone.deferred = m.deferred /\ gone.used = m.used /\ gone.finished = m.finished
      /\ gone.fixed = m.fixed /\ gone.rank = m.rank
  <2> DEFINE stage == gone.stage
             score == gone.score
             rest  == left.qualified \ {p}
  <2>1. gone = [left EXCEPT !.stage = stage, !.score = score, !.qualified = rest]
    BY <1>5
  <2> HIDE DEF stage, score, rest
  <2>2. QED
    BY <1>4, <2>1 DEF Match
<1>7. fixed \in Counts /\ rank \in Counts
  BY <1>3 DEF Match, Counts
<1>8. out = [gone EXCEPT !.fixed = fixed, !.rank = rank]
  BY <1>5, <1>6 DEF Match
<1>9. \A q \in Players : /\ fixed[q] = IF q = p THEN floor ELSE m.fixed[q]
                         /\ rank[q] = IF q = p THEN floor ELSE m.rank[q]
  BY DEF Match, Counts
<1> HIDE DEF fixed, rank, out
<1>10. /\ out \in Match
       /\ out.state = m.state /\ out.age = m.age /\ out.gate = m.gate
       /\ out.ordinal = m.ordinal /\ out.gen = m.gen /\ out.phase = m.phase
       /\ out.map = m.map /\ out.players = m.players
       /\ out.forfeited = m.forfeited \cup {p} /\ out.open = m.open \ {p}
       /\ out.ready = m.ready /\ out.entered = m.entered /\ out.absent = m.absent
       /\ out.deferred = m.deferred /\ out.used = m.used /\ out.finished = m.finished
       /\ out.stage = gone.stage /\ out.score = gone.score
       /\ out.fixed = fixed /\ out.rank = rank
  BY <1>5, <1>6, <1>7, <1>8 DEF Match
<1>11. \A q \in Players :
         IF q = p THEN m.stage[q] = 0 /\ out.stage[q] = m.ordinal
         ELSE out.stage[q] = m.stage[q] /\ out.score[q] = m.score[q]
  BY <1>1, <1>4, <1>5, <1>10
<1>12. Active(out) = Active(m) \ {p} /\ InMatch(out) = Active(out)
  <2>1. Active(out) = Active(m) \ {p}
    BY <1>10 DEF Active
  <2>2. InMatch(out) = InMatch(m) \ {p}
    BY <1>2, <1>11 DEF InMatch
  <2>3. QED
    BY <1>1, <2>1, <2>2
<1>13. Cardinality(Active(out)) >= 1 /\ Cardinality(Active(out)) \in Nat
  <2>1. Cardinality(Active(m) \ {p}) = Cardinality(Active(m)) - 1
    BY <1>1, FewerPlayers
  <2>2. QED
    BY <1>1, <1>12, <2>1
<1>14. \A k \in Nat : k <= m.ordinal => In(out, k) = In(m, k)
  <2>1. ASSUME NEW q \in Players
        PROVE  out.stage[q] = m.stage[q] \/ (m.stage[q] = 0 /\ out.stage[q] = m.ordinal)
    BY <1>11
  <2>2. QED
    BY <1>10, <2>1, InStands
<1>15. Ranked(m)
  BY DEF Sound, Standing
<1>16. Live(out) = m.ordinal
  BY <1>1, <1>10 DEF Live
<1>17. ASSUME NEW q \in Players, q # p, m.stage[q] # 0, m.fixed[q] = 0
       PROVE  Better(out, q) = Better(m, q)
  <2>1. m.stage[q] < m.ordinal /\ m.stage[q] \in Nat
    BY <1>1, <1>15, <1>17, StandingSets DEF Ranked
  <2>2. ASSUME NEW x \in Players
        PROVE  (out.stage[x] = 0 \/ Ahead(out, x, q)) <=> (m.stage[x] = 0 \/ Ahead(m, x, q))
    <3>1. CASE x = p
      <4>1. out.stage[x] > out.stage[q] /\ m.stage[x] = 0
        BY <1>2, <1>11, <1>17, <2>1, <3>1
      <4>2. QED
        BY <4>1 DEF Ahead
    <3>2. CASE x # p
      <4>1. /\ out.stage[x] = m.stage[x] /\ out.score[x] = m.score[x]
            /\ out.fixed[x] = m.fixed[x] /\ out.stage[q] = m.stage[q]
            /\ out.score[q] = m.score[q] /\ out.fixed[q] = m.fixed[q]
        BY <1>9, <1>10, <1>11, <1>17, <3>2
      <4>2. QED
        BY <4>1 DEF Ahead
    <3>3. QED
      BY <3>1, <3>2
  <2>3. QED
    BY <2>2 DEF Better
<1>18. ASSUME NEW q \in Players
       PROVE  /\ out.stage[q] <= out.ordinal
              /\ out.stage[q] = 0 => out.fixed[q] = 0 /\ out.rank[q] = 0
              /\ out.stage[q] # 0 /\ out.fixed[q] = 0 =>
                   out.stage[q] < Live(out) /\ out.rank[q] = 1 + Cardinality(Better(out, q))
              /\ out.fixed[q] # 0 =>
                   out.rank[q] = out.fixed[q] /\ out.fixed[q] = Cardinality(In(out, out.stage[q]))
  <2>1. CASE q = p
    <3>1. In(out, m.ordinal) = m.players
      BY <1>1, <1>2, <1>14
    <3>2. QED
      BY <1>2, <1>3, <1>9, <1>10, <1>11, <2>1, <3>1
  <2>2. CASE q # p
    <3>1. /\ m.stage[q] <= m.ordinal /\ m.stage[q] \in Nat
          /\ m.stage[q] = 0 => m.fixed[q] = 0 /\ m.rank[q] = 0
          /\ m.stage[q] # 0 /\ m.fixed[q] = 0 =>
               m.stage[q] < Live(m) /\ m.rank[q] = 1 + Cardinality(Better(m, q))
          /\ m.fixed[q] # 0 =>
               m.rank[q] = m.fixed[q] /\ m.fixed[q] = Cardinality(In(m, m.stage[q]))
      BY <1>15, StandingSets DEF Ranked, Terminal
    <3>2. /\ out.stage[q] = m.stage[q] /\ out.fixed[q] = m.fixed[q] /\ out.rank[q] = m.rank[q]
      BY <1>9, <1>10, <1>11, <2>2
    <3>3. In(out, m.stage[q]) = In(m, m.stage[q])
      BY <1>14, <3>1
    <3>4. QED
      BY <1>1, <1>10, <1>16, <1>17, <2>2, <3>1, <3>2, <3>3
  <2>3. QED
    BY <2>1, <2>2
<1>19. Loose(out) /\ Ranked(out)
  BY <1>10, <1>18 DEF Loose, Ranked, Terminal
<1>20. Accounted(out)
  <2>1. In(out, out.ordinal) = out.players
    BY <1>1, <1>2, <1>10, <1>14
  <2>2. QED
    BY <1>1, <1>10, <1>12, <2>1 DEF Accounted
<1>21. Clocked(out) /\ Mapped(out) /\ Entry(out)
  <2>1. Active(out) \subseteq Active(m) /\ ActiveBots(out) \subseteq ActiveBots(m)
    BY <1>12 DEF ActiveBots
  <2>2. Late(out) = Late(m)
    BY <1>10 DEF Late
  <2>3. QED
    BY <1>10, <2>1, <2>2 DEF Sound, Clocked, Mapped, Entry
<1>22. Grown(m, out)
  <2>1. \A q \in Players :
          IF m.stage[q] = 0 THEN out.stage[q] = 0 \/ out.stage[q] >= Live(m)
          ELSE out.stage[q] = m.stage[q] /\ out.score[q] = m.score[q] /\ out.fixed[q] = m.fixed[q]
    BY <1>1, <1>2, <1>9, <1>10, <1>11
  <2>2. QED
    BY <1>1, <1>2, <1>16, <2>1 DEF Grown
<1>23. QED
  BY <1>10, <1>12, <1>13, <1>19, <1>20, <1>21, <1>22 DEF out, gone, left

-----------------------------------------------------------------------------
(* The commands *)

\* A match that is given up.
LEMMA CancelKeeps ==
  ASSUME NEW m \in Match, Sound(m), ~Terminal(m)
  PROVE  Keeps(m, FinishMatch(m, NoOne)) /\ Terminal(FinishMatch(m, NoOne))
<1> DEFINE f == FinishMatch(m, NoOne)
<1>1. f = [m EXCEPT !.state = "CANCELLED", !.age = 0, !.gate = "NONE"]
  BY DEF FinishMatch, Enter
<1> HIDE DEF f
<1>2. /\ f \in Match /\ f.state = "CANCELLED" /\ f.age = 0 /\ f.gate = "NONE"
      /\ f.ordinal = m.ordinal /\ f.players = m.players /\ f.forfeited = m.forfeited
      /\ f.finished = m.finished /\ f.qualified = m.qualified
      /\ f.stage = m.stage /\ f.score = m.score /\ f.fixed = m.fixed /\ f.rank = m.rank
      /\ f.map = m.map /\ f.gen = m.gen /\ f.phase = m.phase
  BY <1>1 DEF Match, States
<1>3. Same(m, f) /\ Clocked(f) /\ Mapped(f) /\ Entry(f) /\ Terminal(f)
  BY <1>2 DEF Same, Clocked, Sound, Mapped, Entry, Terminal
<1>4. QED
  BY <1>2, <1>3, SameSound DEF f

\* invalidateMap: another map is looked for, and nobody is late for it yet.
LEMMA RerollKeeps ==
  ASSUME NEW m \in Match, Sound(m), m.state \in {"PREPARING", "ENTERING"}
  PROVE  Keeps(m, Reroll(m)) /\ Prepared(Reroll(m))
         /\ Reroll(m).state \in {"MAP_SELECTION", "CANCELLED"}
<1>1. CASE m.rerolls >= MaxRerolls
  <2> DEFINE r == [m EXCEPT !.rerolls = @ + 1]
             f == FinishMatch(r, NoOne)
  <2>1. /\ r \in Match /\ r.state = m.state /\ r.age = m.age /\ r.gate = m.gate
        /\ r.ordinal = m.ordinal /\ r.players = m.players /\ r.forfeited = m.forfeited
        /\ r.finished = m.finished /\ r.qualified = m.qualified
        /\ r.stage = m.stage /\ r.score = m.score /\ r.fixed = m.fixed /\ r.rank = m.rank
        /\ r.map = m.map /\ r.gen = m.gen /\ r.phase = m.phase
        /\ r.ready = m.ready /\ r.entered = m.entered /\ r.absent = m.absent
        /\ r.deferred = m.deferred
    BY DEF Match
  <2>2. Reroll(m) = f
    BY <1>1 DEF Reroll
  <2> HIDE DEF r
  <2>3. Same(m, r) /\ Clocked(r) /\ Mapped(r) /\ Entry(r)
    BY <2>1 DEF Same, Sound, Clocked, Mapped, Entry, Terminal, Active, ActiveBots, Late
  <2>4. Keeps(m, r)
    BY <2>1, <2>3, SameSound DEF Terminal
  <2>5. Sound(r) /\ ~Terminal(r)
    BY <2>1, <2>4 DEF Keeps, Terminal
  <2>6. f.state = "CANCELLED" /\ Prepared(f)
    BY <2>1 DEF FinishMatch, Enter, Match, Prepared
  <2>7. Keeps(r, f)
    BY <2>1, <2>5, CancelKeeps
  <2>8. QED
    BY <2>2, <2>4, <2>6, <2>7, KeepsIsTransitive
<1>2. CASE ~(m.rerolls >= MaxRerolls)
  <2> DEFINE f == Reroll(m)
             e == Enter(m, "MAP_SELECTION")
  <2>1. f = [e EXCEPT
               !.rerolls = @ + 1, !.gen = @ + 1, !.map = NoOne, !.ready = {},
               !.failed = {}, !.entered = {}, !.deferred = {}, !.firstEntered = FALSE]
    BY <1>2 DEF Reroll
  <2>6. /\ e \in Match /\ e.state = "MAP_SELECTION" /\ e.age = 0 /\ e.gate = m.gate
        /\ e.ordinal = m.ordinal /\ e.players = m.players /\ e.forfeited = m.forfeited
        /\ e.finished = m.finished /\ e.qualified = m.qualified
        /\ e.stage = m.stage /\ e.score = m.score /\ e.fixed = m.fixed /\ e.rank = m.rank
    BY DEF Enter, Match, States
  <2> HIDE DEF e, f
  <2>2. /\ f \in Match /\ f.state = "MAP_SELECTION" /\ f.age = 0 /\ f.gate = m.gate
        /\ f.ordinal = m.ordinal /\ f.players = m.players /\ f.forfeited = m.forfeited
        /\ f.finished = m.finished /\ f.qualified = m.qualified
        /\ f.stage = m.stage /\ f.score = m.score /\ f.fixed = m.fixed /\ f.rank = m.rank
        /\ f.map = NoOne /\ f.ready = {} /\ f.deferred = {}
    <3> DEFINE more == e.rerolls + 1
               next == e.gen + 1
    <3>1. f = [e EXCEPT
                 !.rerolls = more, !.gen = next, !.map = NoOne, !.ready = {},
                 !.failed = {}, !.entered = {}, !.deferred = {}, !.firstEntered = FALSE]
      BY <2>1, <2>6 DEF Match
    <3>2. more \in Nat /\ next \in Nat
      BY <2>6 DEF Match
    <3> HIDE DEF more, next
    <3>3. f \in Match
      BY <2>6, <3>1, <3>2 DEF Match
    <3>4. QED
      BY <2>6, <3>1, <3>3 DEF Match
  <2>3. Same(m, f) /\ Clocked(f) /\ Mapped(f) /\ Entry(f) /\ Prepared(f)
    BY <2>2 DEF Same, Sound, Clocked, Mapped, Entry, Prepared, Terminal
  <2>4. Keeps(m, f)
    BY <2>2, <2>3, SameSound DEF Terminal
  <2>5. QED
    BY <2>2, <2>3, <2>4 DEF f
<1>3. QED
  BY <1>1, <1>2

\* FORFEIT: whoever surrenders has its place at once.
LEMMA SurrenderKeeps ==
  ASSUME NEW m \in Match, Sound(m), ~Terminal(m), m.state # "ROUND_RESULT",
         NEW p \in Active(m)
  PROVE  Keeps(m, Surrender(m, p))
<1> DEFINE floor == Cardinality(m.players)
           gone  == Eliminate([m EXCEPT !.forfeited = @ \cup {p}, !.open = @ \ {p}], {p})
           out   == [gone EXCEPT !.fixed[p] = floor, !.rank[p] = floor]
           f     == Surrender(m, p)
<1>1. /\ out \in Match /\ Active(out) = Active(m) \ {p} /\ InMatch(out) = Active(out)
      /\ Cardinality(Active(out)) >= 1 /\ Cardinality(Active(out)) \in Nat
      /\ Loose(out) /\ Ranked(out) /\ Accounted(out)
      /\ Clocked(out) /\ Mapped(out) /\ Entry(out) /\ Grown(m, out)
      /\ out.state = m.state /\ out.ordinal = m.ordinal /\ out.finished = m.finished
      /\ out.phase = m.phase /\ out.used = m.used /\ out.open = m.open \ {p}
      /\ out.ready = m.ready /\ out.entered = m.entered
  BY SurrenderLeaves
<1>2. f = IF Cardinality(Active(out)) <= 1 THEN LastOneWins(out)
          ELSE IF out.state = "PREPARING" /\ Active(out) \subseteq out.ready
          THEN Enter(out, "ENTERING")
          ELSE IF out.state = "ENTERING" /\ Active(out) \subseteq out.entered
          THEN Enter(out, "COUNTDOWN")
          ELSE IF out.state = "PLAYING" THEN CloseWhenSpent(out) ELSE out
  BY DEF Surrender
<1> HIDE DEF out, gone, f
<1>3. CASE Cardinality(Active(out)) <= 1
  <2>1. Cardinality(Active(out)) = 1 /\ f = LastOneWins(out)
    BY <1>1, <1>2, <1>3
  <2>2. /\ Sound(f) /\ f.state = "FINAL_RESULT"
        /\ f.ordinal = out.ordinal /\ f.finished = TRUE
        /\ f.stage = out.stage /\ f.score = out.score /\ f.fixed = out.fixed
        /\ f.players = out.players /\ f.forfeited = out.forfeited
    BY <1>1, <2>1, LastOneWinsDecides
  <2>3. Grown(out, f)
    <3>1. Live(out) <= Live(f)
      BY <1>1, <2>2, StandingSets DEF Live
    <3>2. QED
      BY <2>2, <3>1 DEF Grown
  <2>4. f \in Match
    BY <2>2 DEF Sound
  <2>5. QED
    BY <1>1, <2>2, <2>3, <2>4, GrownIsTransitive DEF Keeps, f
<1>4. CASE ~(Cardinality(Active(out)) <= 1)
  <2>1. Decided(out)
    BY <1>1, <1>4 DEF Decided, Terminal
  <2>2. Sound(out) /\ ~Terminal(out) /\ Keeps(m, out)
    BY <1>1, <2>1 DEF Sound, Standing, Keeps, Terminal
  <2>3. CASE out.state = "PREPARING" /\ Active(out) \subseteq out.ready
    <3> DEFINE g == Enter(out, "ENTERING")
    <3>1. f = g
      BY <1>2, <1>4, <2>3
    <3>2. g \in Match
      BY <1>1, EnterIsMatch DEF States
    <3>3. Same(out, g) /\ Clocked(g) /\ Mapped(g)
      BY <1>1, <2>2, <2>3 DEF Enter, Match, Sound, Same, Clocked, Mapped, Terminal
    <3>4. Entry(g)
      BY <1>1, <2>3 DEF Enter, Match, Entry, Active, ActiveBots
    <3> HIDE DEF g
    <3>5. Keeps(out, g)
      BY <1>1, <2>2, <3>2, <3>3, <3>4, SameSound
    <3>6. QED
      BY <2>2, <3>1, <3>5, KeepsIsTransitive DEF f
  <2>4. CASE ~(out.state = "PREPARING" /\ Active(out) \subseteq out.ready)
             /\ out.state = "ENTERING" /\ Active(out) \subseteq out.entered
    <3> DEFINE g == Enter(out, "COUNTDOWN")
    <3>1. f = g
      BY <1>2, <1>4, <2>4
    <3>2. g \in Match
      BY <1>1, EnterIsMatch DEF States
    <3>3. Same(out, g) /\ Clocked(g) /\ Mapped(g)
      BY <1>1, <2>2, <2>4 DEF Enter, Match, Sound, Same, Clocked, Mapped, Terminal
    <3>4. Entry(g)
      BY <1>1, <2>4 DEF Enter, Match, Entry, Active, ActiveBots
    <3> HIDE DEF g
    <3>5. Keeps(out, g)
      BY <1>1, <2>2, <3>2, <3>3, <3>4, SameSound
    <3>6. QED
      BY <2>2, <3>1, <3>5, KeepsIsTransitive DEF f
  <2>5. CASE out.state = "PLAYING"
    <3>1. f = CloseWhenSpent(out)
      BY <1>2, <1>4, <2>5
    <3>2. Keeps(out, CloseWhenSpent(out))
      BY <1>1, <2>2, <2>5, CloseWhenSpentKeeps
    <3>3. QED
      BY <2>2, <3>1, <3>2, KeepsIsTransitive DEF f
  <2>6. CASE /\ ~(out.state = "PREPARING" /\ Active(out) \subseteq out.ready)
             /\ ~(out.state = "ENTERING" /\ Active(out) \subseteq out.entered)
             /\ out.state # "PLAYING"
    BY <1>2, <1>4, <2>2, <2>6 DEF f
  <2>7. QED
    BY <2>3, <2>4, <2>5, <2>6
<1>5. QED
  BY <1>3, <1>4

\* A bot is never absent: only the presence of humans is looked at.
LEMMA BotsAreThere ==
  ASSUME NEW m \in Match, m.deferred = {}
  PROVE  ActiveBots(m) \subseteq EntryPlayers(m)
BY EntrantsAssumption DEF Match, ActiveBots, EntryPlayers, Players

\* Between two matches that differ in the clock and the entry alone.
LEMMA SameFields ==
  ASSUME NEW m \in Match, ~Terminal(m), Sound(m), NEW f \in Match,
         f.state = m.state \/ (m.state \in {"MAP_SELECTION", "PREPARING", "ENTERING", "COUNTDOWN"}
                               /\ f.state \in {"PREPARING", "ENTERING", "COUNTDOWN", "PLAYING"}),
         f.gate = m.gate \/ f.gate = "NONE",
         m.gate # "NONE" => f.state = m.state,
         f.age \in {0, m.age} \/ f.age <= 2, f.state # m.state => f.age <= 2,
         f.ordinal = m.ordinal, f.players = m.players, f.forfeited = m.forfeited,
         f.finished = m.finished, f.qualified = m.qualified, f.stage = m.stage,
         f.score = m.score, f.fixed = m.fixed, f.rank = m.rank,
         f.map = m.map, f.gen = m.gen, f.phase = m.phase
  PROVE  Same(m, f) /\ Clocked(f) /\ Mapped(f) /\ Active(f) = Active(m)
         /\ ActiveBots(f) = ActiveBots(m)
<1>1. Same(m, f)
  BY DEF Same, Terminal
<1>2. Clocked(f)
  BY DEF Sound, Clocked
<1>3. Mapped(f) /\ Active(f) = Active(m) /\ ActiveBots(f) = ActiveBots(m)
  BY DEF Sound, Mapped, Active, ActiveBots
<1>4. QED
  BY <1>1, <1>2, <1>3

\* ASSETS_READY opens the entry when everyone who is waited for is ready.
LEMMA MakeReadyKeeps ==
  ASSUME NEW m \in Match, Sound(m), ~Terminal(m), NEW p \in Active(m),
         m.state \in {"PREPARING", "ENTERING", "COUNTDOWN", "PLAYING"}
  PROVE  Keeps(m, MakeReady(m, p)) /\ (m.state = "PLAYING" => MakeReady(m, p).state = "PLAYING")
<1> DEFINE in == [m EXCEPT !.ready = @ \cup {p}, !.failed = @ \ {p}]
           f  == MakeReady(m, p)
<1>1. /\ in \in Match /\ in.state = m.state /\ in.age = m.age /\ in.gate = m.gate
      /\ in.ordinal = m.ordinal /\ in.players = m.players /\ in.forfeited = m.forfeited
      /\ in.finished = m.finished /\ in.qualified = m.qualified /\ in.stage = m.stage
      /\ in.score = m.score /\ in.fixed = m.fixed /\ in.rank = m.rank
      /\ in.map = m.map /\ in.gen = m.gen /\ in.phase = m.phase
      /\ in.ready = m.ready \cup {p} /\ in.entered = m.entered
      /\ in.absent = m.absent /\ in.deferred = m.deferred
  BY DEF Match, Active
<1>2. f = IF in.state = "PREPARING" /\ EntryPlayers(in) \subseteq in.ready
          THEN Enter(in, "ENTERING") ELSE in
  BY DEF MakeReady
<1> HIDE DEF in, f
<1>3. Same(m, in) /\ Clocked(in) /\ Mapped(in) /\ Active(in) = Active(m)
      /\ ActiveBots(in) = ActiveBots(m)
  BY <1>1, SameFields
<1>4. Entry(in)
  BY <1>1, <1>3 DEF Sound, Entry, Late
<1>5. Keeps(m, in) /\ Sound(in) /\ ~Terminal(in)
  BY <1>1, <1>3, <1>4, SameSound DEF Keeps, Terminal
<1>6. CASE in.state = "PREPARING" /\ EntryPlayers(in) \subseteq in.ready
  <2> DEFINE g == Enter(in, "ENTERING")
  <2>1. /\ g \in Match /\ g.state = "ENTERING" /\ g.age = 0 /\ g.gate = in.gate
        /\ g.ordinal = in.ordinal /\ g.players = in.players /\ g.forfeited = in.forfeited
        /\ g.finished = in.finished /\ g.qualified = in.qualified /\ g.stage = in.stage
        /\ g.score = in.score /\ g.fixed = in.fixed /\ g.rank = in.rank
        /\ g.map = in.map /\ g.gen = in.gen /\ g.phase = in.phase
        /\ g.ready = in.ready /\ g.entered = in.entered
        /\ g.absent = in.absent /\ g.deferred = in.deferred
    BY <1>1 DEF Enter, Match, States
  <2> HIDE DEF g
  <2>2. in.gate = "NONE"
    BY <1>1, <1>5, <1>6 DEF Sound, Clocked, Match
  <2>3. Same(in, g) /\ Clocked(g) /\ Mapped(g) /\ Active(g) = Active(in)
        /\ ActiveBots(g) = ActiveBots(in)
    BY <1>1, <1>5, <1>6, <2>1, <2>2, SameFields
  <2>4. Active(g) \subseteq g.ready \cup Late(g)
    BY <1>6, <2>1, <2>3 DEF EntryPlayers, Late
  <2>5. ActiveBots(g) \subseteq g.ready
    <3>1. in.deferred = {}
      BY <1>4, <1>6 DEF Entry
    <3>2. QED
      BY <1>1, <1>6, <2>1, <2>3, <3>1, BotsAreThere
  <2>6. Entry(g)
    BY <2>1, <2>4, <2>5 DEF Entry
  <2>7. Keeps(in, g)
    BY <1>1, <1>5, <2>1, <2>3, <2>6, SameSound
  <2>8. f = g
    BY <1>2, <1>6 DEF g
  <2>9. QED
    BY <1>1, <1>5, <1>6, <2>7, <2>8, KeepsIsTransitive DEF f
<1>7. CASE ~(in.state = "PREPARING" /\ EntryPlayers(in) \subseteq in.ready)
  BY <1>1, <1>2, <1>5, <1>7 DEF f
<1>8. QED
  BY <1>6, <1>7

\* PREPARATION_FAILED: another map, once nobody is left who could play this one.
LEMMA ReportFailureKeeps ==
  ASSUME NEW m \in Match, Sound(m), NEW p \in Active(m),
         m.state \in {"PREPARING", "ENTERING"}
  PROVE  /\ Keeps(m, ReportFailure(m, p))
         /\ Prepared(m) => Prepared(ReportFailure(m, p))
<1> DEFINE in == [m EXCEPT !.failed = @ \cup {p}]
           f  == ReportFailure(m, p)
<1>1. /\ in \in Match /\ in.state = m.state /\ in.age = m.age /\ in.gate = m.gate
      /\ in.ordinal = m.ordinal /\ in.players = m.players /\ in.forfeited = m.forfeited
      /\ in.finished = m.finished /\ in.qualified = m.qualified /\ in.stage = m.stage
      /\ in.score = m.score /\ in.fixed = m.fixed /\ in.rank = m.rank
      /\ in.map = m.map /\ in.gen = m.gen /\ in.phase = m.phase
      /\ in.ready = m.ready /\ in.entered = m.entered
      /\ in.absent = m.absent /\ in.deferred = m.deferred
  BY DEF Match, Active
<1>2. f = IF Active(in) \subseteq in.failed THEN Reroll(in) ELSE in
  BY DEF ReportFailure
<1> HIDE DEF in, f
<1>3. Same(m, in) /\ Clocked(in) /\ Mapped(in) /\ Active(in) = Active(m)
      /\ ActiveBots(in) = ActiveBots(m) /\ ~Terminal(m)
  BY <1>1, SameFields DEF Terminal
<1>4. Entry(in)
  BY <1>1, <1>3 DEF Sound, Entry, Late
<1>5. Keeps(m, in) /\ Sound(in)
  BY <1>1, <1>3, <1>4, SameSound DEF Keeps
<1>6. Prepared(m) => Prepared(in)
  BY <1>1, <1>3 DEF Prepared, Waited
<1>7. Keeps(in, Reroll(in)) /\ Prepared(Reroll(in))
  BY <1>1, <1>5, RerollKeeps
<1>8. QED
  BY <1>2, <1>5, <1>6, <1>7, KeepsIsTransitive DEF f

\* ENTERED: whoever was late is so no longer, and the countdown starts when
\* everyone who is waited for has entered.
LEMMA EnterSceneKeeps ==
  ASSUME NEW m \in Match, Sound(m), NEW p \in Active(m), p \in m.ready,
         m.state \in {"ENTERING", "COUNTDOWN", "PLAYING"}
  PROVE  Keeps(m, EnterScene(m, p)) /\ (m.state = "PLAYING" => EnterScene(m, p).state = "PLAYING")
<1> DEFINE in == [m EXCEPT !.entered = @ \cup {p}, !.absent = @ \ {p},
                           !.deferred = @ \ {p}, !.firstEntered = TRUE]
           f  == EnterScene(m, p)
<1>1. /\ in \in Match /\ in.state = m.state /\ in.age = m.age /\ in.gate = m.gate
      /\ in.ordinal = m.ordinal /\ in.players = m.players /\ in.forfeited = m.forfeited
      /\ in.finished = m.finished /\ in.qualified = m.qualified /\ in.stage = m.stage
      /\ in.score = m.score /\ in.fixed = m.fixed /\ in.rank = m.rank
      /\ in.map = m.map /\ in.gen = m.gen /\ in.phase = m.phase
      /\ in.ready = m.ready /\ in.entered = m.entered \cup {p}
      /\ in.absent = m.absent \ {p} /\ in.deferred = m.deferred \ {p}
  BY DEF Match, Active
<1>2. f = IF in.state = "ENTERING" /\ EntryPlayers(in) \subseteq in.entered
          THEN Enter(in, "COUNTDOWN") ELSE in
  BY DEF EnterScene
<1> HIDE DEF in, f
<1>3. Same(m, in) /\ Clocked(in) /\ Mapped(in) /\ Active(in) = Active(m)
      /\ ActiveBots(in) = ActiveBots(m) /\ ~Terminal(m)
  BY <1>1, SameFields DEF Terminal
<1>4. Entry(in)
  <2>1. Late(in) = Late(m) \ {p}
    BY <1>1 DEF Late
  <2>2. QED
    BY <1>1, <1>3, <2>1 DEF Sound, Entry
<1>5. Keeps(m, in) /\ Sound(in) /\ ~Terminal(in)
  BY <1>1, <1>3, <1>4, SameSound DEF Keeps, Terminal
<1>6. CASE in.state = "ENTERING" /\ EntryPlayers(in) \subseteq in.entered
  <2> DEFINE g == Enter(in, "COUNTDOWN")
  <2>1. g \in Match
    BY <1>1, EnterIsMatch DEF States
  <2>2. /\ g.state = "COUNTDOWN" /\ g.age = 0 /\ g.gate = in.gate
        /\ g.ordinal = in.ordinal /\ g.players = in.players /\ g.forfeited = in.forfeited
        /\ g.finished = in.finished /\ g.qualified = in.qualified /\ g.stage = in.stage
        /\ g.score = in.score /\ g.fixed = in.fixed /\ g.rank = in.rank
        /\ g.map = in.map /\ g.gen = in.gen /\ g.phase = in.phase
        /\ g.ready = in.ready /\ g.entered = in.entered
        /\ g.absent = in.absent /\ g.deferred = in.deferred
    BY <1>1 DEF Enter, Match
  <2> HIDE DEF g
  <2>3. in.gate = "NONE"
    BY <1>1, <1>5, <1>6 DEF Sound, Clocked, Match
  <2>4. Same(in, g) /\ Clocked(g) /\ Mapped(g) /\ Active(g) = Active(in)
        /\ ActiveBots(g) = ActiveBots(in)
    BY <1>1, <1>5, <1>6, <2>1, <2>2, <2>3, SameFields
  <2>5. Active(g) \subseteq g.entered \cup Late(g)
    BY <1>6, <2>2, <2>4 DEF EntryPlayers, Late
  <2>6. Entry(g)
    BY <2>2, <2>5 DEF Entry
  <2>7. Keeps(in, g)
    BY <1>1, <1>5, <2>1, <2>4, <2>6, SameSound
  <2>8. f = g
    BY <1>2, <1>6 DEF g
  <2>9. QED
    BY <1>1, <1>5, <1>6, <2>7, <2>8, KeepsIsTransitive DEF f
<1>7. CASE ~(in.state = "ENTERING" /\ EntryPlayers(in) \subseteq in.entered)
  BY <1>1, <1>2, <1>5, <1>7 DEF f
<1>8. QED
  BY <1>6, <1>7

\* A function that touches the vote or the attempts alone.
LEMMA AsideKeeps ==
  ASSUME NEW m \in Match, Sound(m), ~Terminal(m), NEW f \in Match,
         f.state = m.state, f.age = m.age, f.gate = m.gate,
         f.ordinal = m.ordinal, f.players = m.players, f.forfeited = m.forfeited,
         f.finished = m.finished, f.qualified = m.qualified, f.stage = m.stage,
         f.score = m.score, f.fixed = m.fixed, f.rank = m.rank,
         f.map = m.map, f.gen = m.gen, f.phase = m.phase,
         f.ready = m.ready, f.entered = m.entered, f.absent = m.absent,
         f.deferred = m.deferred
  PROVE  Keeps(m, f) /\ (Prepared(m) => Prepared(f)) /\ Active(f) = Active(m)
<1>1. Same(m, f) /\ Clocked(f) /\ Mapped(f) /\ Active(f) = Active(m)
      /\ ActiveBots(f) = ActiveBots(m)
  BY SameFields
<1>2. Entry(f)
  BY <1>1 DEF Sound, Entry, Late
<1>3. Prepared(m) => Prepared(f)
  BY <1>1 DEF Prepared, Waited
<1>4. QED
  BY <1>1, <1>2, <1>3, SameSound

\* DIFFICULTY_VOTE.
LEMMA CastVoteKeeps ==
  ASSUME NEW m \in Match, Sound(m), ~Terminal(m), NEW p \in Humans
  PROVE  Keeps(m, CastVote(m, p)) /\ CastVote(m, p).state = m.state
<1> DEFINE in == [m EXCEPT !.votes = @ \cup {p}]
           done == Humans \subseteq in.votes
           f == CastVote(m, p)
<1>1. f = [in EXCEPT !.resolved = done] /\ done \in BOOLEAN
  BY DEF CastVote
<1>2. in \in Match
  BY DEF Match
<1> HIDE DEF f, done
<1>3. /\ f \in Match /\ f.state = m.state /\ f.age = m.age /\ f.gate = m.gate
      /\ f.ordinal = m.ordinal /\ f.players = m.players /\ f.forfeited = m.forfeited
      /\ f.finished = m.finished /\ f.qualified = m.qualified /\ f.stage = m.stage
      /\ f.score = m.score /\ f.fixed = m.fixed /\ f.rank = m.rank
      /\ f.map = m.map /\ f.gen = m.gen /\ f.phase = m.phase
      /\ f.ready = m.ready /\ f.entered = m.entered
      /\ f.absent = m.absent /\ f.deferred = m.deferred
  BY <1>1, <1>2 DEF Match
<1>4. QED
  BY <1>3, AsideKeeps DEF f

\* ATTEMPT_START.
LEMMA BeginAttemptKeeps ==
  ASSUME NEW m \in Match, Sound(m), ~Terminal(m), NEW p \in Active(m)
  PROVE  Keeps(m, BeginAttempt(m, p)) /\ BeginAttempt(m, p).state = m.state
<1> DEFINE count == IF m.phase = Tiebreak THEN m.used[p] + 1 ELSE m.used[p]
           used  == [m.used EXCEPT ![p] = count]
           f     == BeginAttempt(m, p)
<1>1. p \in Players
  BY StandingSets
<1>2. f = [m EXCEPT !.open = @ \cup {p}, !.used = used]
  BY DEF BeginAttempt, Match
<1>3. used \in Counts
  <2>1. m.used \in [Players -> Nat] /\ count \in Nat
    BY <1>1, StandingSets DEF Match, Counts
  <2> HIDE DEF count
  <2>2. QED
    BY <1>1, <2>1 DEF Counts
<1> HIDE DEF f, used
<1>4. /\ f \in Match /\ f.state = m.state /\ f.age = m.age /\ f.gate = m.gate
      /\ f.ordinal = m.ordinal /\ f.players = m.players /\ f.forfeited = m.forfeited
      /\ f.finished = m.finished /\ f.qualified = m.qualified /\ f.stage = m.stage
      /\ f.score = m.score /\ f.fixed = m.fixed /\ f.rank = m.rank
      /\ f.map = m.map /\ f.gen = m.gen /\ f.phase = m.phase
      /\ f.ready = m.ready /\ f.entered = m.entered
      /\ f.absent = m.absent /\ f.deferred = m.deferred
  BY <1>1, <1>2, <1>3 DEF Match
<1>5. QED
  BY <1>4, AsideKeeps DEF f

\* PROGRESS and ATTEMPT_END, which may close a Death Match.
LEMMA RecordAttemptKeeps ==
  ASSUME NEW m \in Match, Sound(m), m.state = "PLAYING", NEW p \in Active(m),
         NEW progress \in Nat, NEW ended \in BOOLEAN
  PROVE  /\ Keeps(m, RecordAttempt(m, p, progress, ended))
         /\ RecordAttempt(m, p, progress, ended).state \in {"PLAYING", "ROUND_RESULT", "FINAL_RESULT"}
<1> DEFINE reached == IF progress > m.best[p] THEN progress ELSE m.best[p]
           best    == [m.best EXCEPT ![p] = reached]
           open    == IF ended THEN m.open \ {p} ELSE m.open
           in      == [m EXCEPT !.best[p] = IF progress > @ THEN progress ELSE @,
                                !.open = IF ended THEN @ \ {p} ELSE @]
<1>1. p \in Players
  BY StandingSets
<1>2. in = [m EXCEPT !.best = best, !.open = open]
  BY <1>1 DEF Match, Counts
<1>3. best \in Counts /\ open \in SUBSET Players
  <2>1. m.best \in [Players -> Nat] /\ reached \in Nat
    BY <1>1, StandingSets DEF Match, Counts
  <2>2. open \in SUBSET Players
    BY DEF Match
  <2> HIDE DEF reached
  <2>3. QED
    BY <1>1, <2>1, <2>2 DEF Counts
<1>4. RecordAttempt(m, p, progress, ended) = CloseWhenSpent(in)
  BY DEF RecordAttempt
<1> HIDE DEF in, best, open
<1>5. /\ in \in Match /\ in.state = m.state /\ in.age = m.age /\ in.gate = m.gate
      /\ in.ordinal = m.ordinal /\ in.players = m.players /\ in.forfeited = m.forfeited
      /\ in.finished = m.finished /\ in.qualified = m.qualified /\ in.stage = m.stage
      /\ in.score = m.score /\ in.fixed = m.fixed /\ in.rank = m.rank
      /\ in.map = m.map /\ in.gen = m.gen /\ in.phase = m.phase
      /\ in.ready = m.ready /\ in.entered = m.entered
      /\ in.absent = m.absent /\ in.deferred = m.deferred
  BY <1>2, <1>3 DEF Match
<1>6. Keeps(m, in) /\ Sound(in)
  BY <1>5, AsideKeeps DEF Keeps, Terminal
<1>7. /\ Keeps(in, CloseWhenSpent(in))
      /\ CloseWhenSpent(in).state \in {"PLAYING", "ROUND_RESULT", "FINAL_RESULT"}
  BY <1>5, <1>6, CloseWhenSpentKeeps
<1>8. QED
  BY <1>4, <1>6, <1>7, KeepsIsTransitive

-----------------------------------------------------------------------------
(* The timers *)

\* What the bot driver certifies is due when the deadline of the preparation may
\* be applied.
Timely(m) == m.state = "PREPARING" /\ m.age >= 1 => Prepared(m)

\* A barrier opens for a match whose players are there or marked as late.
LEMMA EnterKeeps ==
  ASSUME NEW m \in Match, Sound(m), m.gate = "NONE",
         m.state \in {"MAP_SELECTION", "PREPARING", "ENTERING"},
         NEW state \in {"PREPARING", "ENTERING", "COUNTDOWN"},
         state = "PREPARING" => m.deferred = {},
         state = "ENTERING" => Active(m) \subseteq m.ready \cup Late(m)
                               /\ ActiveBots(m) \subseteq m.ready,
         state = "COUNTDOWN" => Active(m) \subseteq m.entered \cup Late(m)
  PROVE  LET f == Enter(m, state) IN
         /\ f \in Match /\ Keeps(m, f) /\ f.state = state /\ f.age = 0 /\ f.gate = "NONE"
         /\ f.ready = m.ready /\ f.entered = m.entered /\ f.absent = m.absent
         /\ f.deferred = m.deferred /\ f.map = m.map
         /\ Active(f) = Active(m)
<1> DEFINE f == Enter(m, state)
<1>1. f \in Match
  BY EnterIsMatch DEF States
<1>2. /\ f.state = state /\ f.age = 0 /\ f.gate = m.gate
      /\ f.ordinal = m.ordinal /\ f.players = m.players /\ f.forfeited = m.forfeited
      /\ f.finished = m.finished /\ f.qualified = m.qualified /\ f.stage = m.stage
      /\ f.score = m.score /\ f.fixed = m.fixed /\ f.rank = m.rank
      /\ f.map = m.map /\ f.gen = m.gen /\ f.phase = m.phase
      /\ f.ready = m.ready /\ f.entered = m.entered
      /\ f.absent = m.absent /\ f.deferred = m.deferred
  BY DEF Enter, Match
<1> HIDE DEF f
<1>3. ~Terminal(m)
  BY DEF Terminal
<1>4. Same(m, f) /\ Clocked(f) /\ Mapped(f) /\ Active(f) = Active(m)
      /\ ActiveBots(f) = ActiveBots(m)
  BY <1>1, <1>2, <1>3, SameFields
<1>5. Late(f) = Late(m)
  BY <1>2 DEF Late
<1>6. Entry(f)
  BY <1>2, <1>4, <1>5 DEF Entry
<1>7. Keeps(m, f)
  BY <1>1, <1>3, <1>4, <1>6, SameSound
<1>8. QED
  BY <1>1, <1>2, <1>4, <1>7 DEF f

\* The vote closes, and the plain intro ends.
LEMMA GateKeeps ==
  ASSUME NEW m \in Match, Sound(m)
  PROVE  /\ Keeps(m, ResolveVote(m)) /\ ResolveVote(m).state = m.state
         /\ ResolveVote(m).gate = m.gate
         /\ ResolveVote(m).ordinal = m.ordinal /\ ResolveVote(m).gen = m.gen
         /\ ResolveVote(m).phase = m.phase /\ ResolveVote(m).map = m.map
         /\ Keeps(m, LiftGate(m)) /\ LiftGate(m).state = m.state
         /\ LiftGate(m).ordinal = m.ordinal /\ LiftGate(m).gen = m.gen
         /\ LiftGate(m).phase = m.phase /\ LiftGate(m).map = m.map
         /\ m.gate = "NONE" => ResolveVote(m) = m /\ LiftGate(m) = m
<1> DEFINE a == [m EXCEPT !.resolved = TRUE]
           age == IF m.gate = "INTRO" THEN 0 ELSE m.age
           b == [m EXCEPT !.gate = "NONE", !.age = age]
<1>1. CASE m.gate = "NONE"
  BY <1>1, SoundKeepsItself DEF ResolveVote, LiftGate
<1>2. CASE m.gate # "NONE"
  <2>1. m.state \in {"MAP_SELECTION", "ROUND_RESULT"} /\ ~Terminal(m) /\ Keeps(m, m)
    BY <1>2, SoundKeepsItself DEF Sound, Clocked, Terminal, Match
  <2>2. ResolveVote(m) \in {m, a} /\ LiftGate(m) \in {m, b}
    BY DEF ResolveVote, LiftGate, Match
  <2>3. /\ Keeps(m, a) /\ a.state = m.state /\ a.gate = m.gate
        /\ a.ordinal = m.ordinal /\ a.gen = m.gen /\ a.phase = m.phase /\ a.map = m.map
    <3>1. /\ a \in Match /\ a.state = m.state /\ a.age = m.age /\ a.gate = m.gate
          /\ a.ordinal = m.ordinal /\ a.players = m.players /\ a.forfeited = m.forfeited
          /\ a.finished = m.finished /\ a.qualified = m.qualified /\ a.stage = m.stage
          /\ a.score = m.score /\ a.fixed = m.fixed /\ a.rank = m.rank
          /\ a.map = m.map /\ a.gen = m.gen /\ a.phase = m.phase
          /\ a.ready = m.ready /\ a.entered = m.entered
          /\ a.absent = m.absent /\ a.deferred = m.deferred
      BY DEF Match
    <3> HIDE DEF a
    <3>2. QED
      BY <2>1, <3>1, AsideKeeps
  <2>4. /\ Keeps(m, b) /\ b.state = m.state
        /\ b.ordinal = m.ordinal /\ b.gen = m.gen /\ b.phase = m.phase /\ b.map = m.map
    <3>1. age \in {0, m.age} /\ age \in Nat
      BY DEF Match
    <3> HIDE DEF age
    <3>2. /\ b \in Match /\ b.state = m.state /\ b.age = age /\ b.gate = "NONE"
          /\ b.ordinal = m.ordinal /\ b.players = m.players /\ b.forfeited = m.forfeited
          /\ b.finished = m.finished /\ b.qualified = m.qualified /\ b.stage = m.stage
          /\ b.score = m.score /\ b.fixed = m.fixed /\ b.rank = m.rank
          /\ b.map = m.map /\ b.gen = m.gen /\ b.phase = m.phase
          /\ b.ready = m.ready /\ b.entered = m.entered
          /\ b.absent = m.absent /\ b.deferred = m.deferred
      BY <3>1 DEF Match
    <3> HIDE DEF b
    <3>3. Same(m, b) /\ Clocked(b) /\ Mapped(b) /\ Active(b) = Active(m)
          /\ ActiveBots(b) = ActiveBots(m)
      BY <2>1, <3>1, <3>2, SameFields
    <3>4. Entry(b)
      BY <2>1, <3>2, <3>3 DEF Sound, Entry
    <3>5. QED
      BY <2>1, <3>2, <3>3, <3>4, SameSound
  <2> HIDE DEF a, b
  <2>5. QED
    BY <1>2, <2>1, <2>2, <2>3, <2>4
<1>3. QED
  BY <1>1, <1>2

\* A map that was chosen during the intro opens the preparation after it.
LEMMA OpenPreparationKeeps ==
  ASSUME NEW m \in Match, Sound(m)
  PROVE  /\ Keeps(m, OpenPreparation(m))
         /\ OpenPreparation(m) = m
            \/ (m.state = "MAP_SELECTION" /\ m.gate = "NONE"
                /\ OpenPreparation(m).state = "PREPARING" /\ OpenPreparation(m).age = 0
                /\ OpenPreparation(m).ready = {})
         /\ m.map = NoOne => OpenPreparation(m) = m
<1>1. CASE m.state = "MAP_SELECTION" /\ m.map # NoOne /\ m.gate # "INTRO"
  <2>1. m.gate = "NONE" /\ m.deferred = {} /\ m.ready = {}
    BY <1>1 DEF Sound, Clocked, Entry, Match
  <2> DEFINE f == Enter(m, "PREPARING")
  <2>2. /\ f \in Match /\ Keeps(m, f) /\ f.state = "PREPARING" /\ f.age = 0 /\ f.gate = "NONE"
        /\ f.ready = m.ready /\ f.entered = m.entered /\ f.absent = m.absent
        /\ f.deferred = m.deferred /\ f.map = m.map
        /\ Active(f) = Active(m)
    BY <1>1, <2>1, EnterKeeps
  <2>3. OpenPreparation(m) = f
    BY <1>1 DEF OpenPreparation
  <2> HIDE DEF f
  <2>4. QED
    BY <1>1, <2>1, <2>2, <2>3
<1>2. CASE ~(m.state = "MAP_SELECTION" /\ m.map # NoOne /\ m.gate # "INTRO")
  BY <1>2, SoundKeepsItself DEF OpenPreparation
<1>3. QED
  BY <1>1, <1>2

\* When everyone who is waited for is ready the entry opens, and when all of them
\* have entered the countdown.
LEMMA PresentBarriersKeeps ==
  ASSUME NEW m \in Match, Sound(m)
  PROVE  LET f == PresentBarriers(m) IN
         /\ Keeps(m, f)
         /\ f = m \/ (m.state \in {"PREPARING", "ENTERING"} /\ f.age = 0
                      /\ f.state \in {"ENTERING", "COUNTDOWN"} /\ f.state # m.state)
<1> DEFINE g == IF m.state = "PREPARING" /\ AllPresent(m, m.ready)
                THEN Enter(m, "ENTERING") ELSE m
           f == PresentBarriers(m)
<1>1. f = IF g.state = "ENTERING" /\ AllPresent(g, g.entered)
          THEN Enter(g, "COUNTDOWN") ELSE g
  BY DEF PresentBarriers
<1>2. /\ g \in Match /\ Keeps(m, g)
      /\ g = m \/ (m.state = "PREPARING" /\ g.state = "ENTERING" /\ g.age = 0)
  <2>1. CASE m.state = "PREPARING" /\ AllPresent(m, m.ready)
    <3>1. m.gate = "NONE" /\ m.deferred = {}
      BY <2>1 DEF Sound, Clocked, Entry, Match
    <3>2. Active(m) \subseteq m.ready \cup Late(m) /\ ActiveBots(m) \subseteq m.ready
      BY <2>1, <3>1, BotsAreThere DEF AllPresent, EntryPlayers, Late
    <3> DEFINE e == Enter(m, "ENTERING")
    <3>3. /\ e \in Match /\ Keeps(m, e) /\ e.state = "ENTERING" /\ e.age = 0 /\ e.gate = "NONE"
          /\ e.ready = m.ready /\ e.entered = m.entered /\ e.absent = m.absent
          /\ e.deferred = m.deferred /\ e.map = m.map
          /\ Active(e) = Active(m)
      BY <2>1, <3>1, <3>2, EnterKeeps
    <3> HIDE DEF e
    <3>4. g = e
      BY <2>1 DEF e
    <3>5. QED
      BY <2>1, <3>3, <3>4
  <2>2. CASE ~(m.state = "PREPARING" /\ AllPresent(m, m.ready))
    BY <2>2, SoundKeepsItself
  <2>3. QED
    BY <2>1, <2>2
<1> HIDE DEF f, g
<1>3. CASE g.state = "ENTERING" /\ AllPresent(g, g.entered)
  <2>1. Sound(g) /\ g.gate = "NONE"
    BY <1>2, <1>3 DEF Keeps, Sound, Clocked, Match
  <2>2. Active(g) \subseteq g.entered \cup Late(g)
    BY <1>3 DEF AllPresent, EntryPlayers, Late
  <2> DEFINE e == Enter(g, "COUNTDOWN")
  <2>3. /\ e \in Match /\ Keeps(g, e) /\ e.state = "COUNTDOWN" /\ e.age = 0 /\ e.gate = "NONE"
        /\ e.ready = g.ready /\ e.entered = g.entered /\ e.absent = g.absent
        /\ e.deferred = g.deferred /\ e.map = g.map
        /\ Active(e) = Active(g)
    BY <1>2, <1>3, <2>1, <2>2, EnterKeeps
  <2> HIDE DEF e
  <2>4. f = e
    BY <1>1, <1>3 DEF e
  <2>5. QED
    BY <1>2, <1>3, <2>3, <2>4, KeepsIsTransitive DEF f
<1>4. CASE ~(g.state = "ENTERING" /\ AllPresent(g, g.entered))
  BY <1>1, <1>2, <1>4 DEF f
<1>5. QED
  BY <1>3, <1>4

\* forfeitUnready: those who missed a deadline are marked as late.
LEMMA DeferKeeps ==
  ASSUME NEW m \in Match, Sound(m), NEW done \in SUBSET Players,
         m.state = "ENTERING"
  PROVE  LET f == DeferExcept(m, done) IN
         /\ f \in Match /\ Keeps(m, f) /\ f.state = m.state /\ f.gate = m.gate
         /\ f.ready = m.ready /\ f.entered = m.entered /\ f.absent = m.absent
         /\ f.deferred = m.deferred \cup (Active(m) \ done) /\ Active(f) = Active(m)
<1> DEFINE f == DeferExcept(m, done)
<1>1. /\ f \in Match /\ f.state = m.state /\ f.age = m.age /\ f.gate = m.gate
      /\ f.ordinal = m.ordinal /\ f.players = m.players /\ f.forfeited = m.forfeited
      /\ f.finished = m.finished /\ f.qualified = m.qualified /\ f.stage = m.stage
      /\ f.score = m.score /\ f.fixed = m.fixed /\ f.rank = m.rank
      /\ f.map = m.map /\ f.gen = m.gen /\ f.phase = m.phase
      /\ f.ready = m.ready /\ f.entered = m.entered
      /\ f.absent = m.absent /\ f.deferred = m.deferred \cup (Active(m) \ done)
  BY DEF DeferExcept, Match, Active
<1> HIDE DEF f
<1>2. ~Terminal(m)
  BY DEF Terminal
<1>3. Same(m, f) /\ Clocked(f) /\ Mapped(f) /\ Active(f) = Active(m)
      /\ ActiveBots(f) = ActiveBots(m)
  BY <1>1, <1>2, SameFields
<1>4. Entry(f)
  BY <1>1, <1>3 DEF Sound, Entry, Late
<1>5. QED
  BY <1>1, <1>2, <1>3, <1>4, SameSound DEF f

\* The deadline of the entry.
LEMMA EntryDeadlineKeeps ==
  ASSUME NEW m \in Match, Sound(m)
  PROVE  LET f == EntryDeadline(m) IN
         /\ Keeps(m, f)
         /\ f = m \/ (m.state = "ENTERING" /\ f.state \in {"COUNTDOWN", "MAP_SELECTION", "CANCELLED"}
                      /\ Prepared(f))
<1> DEFINE f == EntryDeadline(m)
<1>1. CASE m.state # "ENTERING"
  BY <1>1, SoundKeepsItself DEF EntryDeadline
<1>2. CASE m.state = "ENTERING" /\ EntryPlayers(m) = {}
  <2>1. m.gate = "NONE" /\ Active(m) \subseteq m.entered \cup Late(m)
    BY <1>2 DEF Sound, Clocked, Match, EntryPlayers, Late
  <2> DEFINE e == Enter(m, "COUNTDOWN")
  <2>2. /\ e \in Match /\ Keeps(m, e) /\ e.state = "COUNTDOWN" /\ e.age = 0 /\ e.gate = "NONE"
        /\ e.ready = m.ready /\ e.entered = m.entered /\ e.absent = m.absent
        /\ e.deferred = m.deferred /\ e.map = m.map
        /\ Active(e) = Active(m)
    BY <1>2, <2>1, EnterKeeps
  <2> HIDE DEF e
  <2>3. f = e
    BY <1>2 DEF EntryDeadline, e
  <2>4. QED
    BY <1>2, <2>2, <2>3 DEF Prepared
<1>3. CASE m.state = "ENTERING" /\ EntryPlayers(m) # {} /\ m.age < 2
  BY <1>3, SoundKeepsItself DEF EntryDeadline
<1>4. CASE m.state = "ENTERING" /\ EntryPlayers(m) # {} /\ ~(m.age < 2) /\ ~m.firstEntered
  <2>1. f = Reroll(m)
    BY <1>4 DEF EntryDeadline
  <2>2. Keeps(m, Reroll(m)) /\ Prepared(Reroll(m))
        /\ Reroll(m).state \in {"MAP_SELECTION", "CANCELLED"}
    BY <1>4, RerollKeeps
  <2>3. QED
    BY <1>4, <2>1, <2>2
<1>5. CASE m.state = "ENTERING" /\ EntryPlayers(m) # {} /\ ~(m.age < 2) /\ m.firstEntered
  <2> DEFINE d == DeferExcept(m, m.entered)
             e == Enter(d, "COUNTDOWN")
  <2>1. f = e
    BY <1>5 DEF EntryDeadline
  <2>2. m.entered \in SUBSET Players /\ m.gate = "NONE"
    BY <1>5 DEF Match, Sound, Clocked
  <2>3. /\ d \in Match /\ Keeps(m, d) /\ d.state = m.state /\ d.gate = m.gate
        /\ d.ready = m.ready /\ d.entered = m.entered /\ d.absent = m.absent
        /\ d.deferred = m.deferred \cup (Active(m) \ m.entered) /\ Active(d) = Active(m)
    BY <1>5, <2>2, DeferKeeps
  <2> HIDE DEF d
  <2>4. Active(d) \subseteq d.entered \cup Late(d)
    BY <2>3 DEF Late
  <2>5. /\ e \in Match /\ Keeps(d, e) /\ e.state = "COUNTDOWN" /\ e.age = 0 /\ e.gate = "NONE"
        /\ e.ready = d.ready /\ e.entered = d.entered /\ e.absent = d.absent
        /\ e.deferred = d.deferred /\ e.map = d.map
        /\ Active(e) = Active(d)
    BY <1>5, <2>2, <2>3, <2>4, EnterKeeps DEF Keeps
  <2> HIDE DEF e
  <2>6. Keeps(m, e)
    BY <2>3, <2>5, KeepsIsTransitive
  <2>7. QED
    BY <1>5, <2>1, <2>5, <2>6 DEF Prepared
<1>6. QED
  BY <1>1, <1>2, <1>3, <1>4, <1>5 DEF Match

\* The deadline of the preparation, which may be that of the entry too: with
\* nobody left to wait for the countdown starts at once.
LEMMA DeadlinesKeep ==
  ASSUME NEW m \in Match, Sound(m), Timely(m)
  PROVE  LET f == EntryDeadline(PreparationDeadline(m)) IN
         /\ Keeps(m, f)
         /\ f = m \/ (m.state \in {"PREPARING", "ENTERING"} /\ Prepared(f)
                      /\ f.state \in {"ENTERING", "COUNTDOWN", "MAP_SELECTION", "CANCELLED"}
                      /\ IF m.state = "PREPARING" THEN m.age >= 1 ELSE f.state # "ENTERING")
<1> DEFINE g == PreparationDeadline(m)
           f == EntryDeadline(g)
<1>1. Keeps(m, m) /\ m.age \in Nat
  BY SoundKeepsItself DEF Match
<1>2. CASE ~(m.state = "PREPARING" /\ m.age >= 1)
  <2>1. g = m
    BY <1>2 DEF PreparationDeadline
  <2>2. /\ Keeps(m, EntryDeadline(m))
        /\ EntryDeadline(m) = m
           \/ (m.state = "ENTERING" /\ Prepared(EntryDeadline(m))
               /\ EntryDeadline(m).state \in {"COUNTDOWN", "MAP_SELECTION", "CANCELLED"})
    BY EntryDeadlineKeeps
  <2> HIDE DEF g
  <2>3. QED
    BY <2>1, <2>2 DEF g
<1>3. CASE /\ m.state = "PREPARING" /\ m.age >= 1
           /\ Active(m) \cap m.ready = {} /\ EntryPlayers(m) # {}
  <2>1. g = IF m.age < 2 /\ ~(Active(m) \subseteq m.failed) THEN m ELSE Reroll(m)
    BY <1>3 DEF PreparationDeadline
  <2>2. Keeps(m, Reroll(m)) /\ Prepared(Reroll(m))
        /\ Reroll(m).state \in {"MAP_SELECTION", "CANCELLED"}
    BY <1>3, RerollKeeps
  <2> HIDE DEF g
  <2>3. g = m \/ g = Reroll(m)
    BY <2>1
  <2>4. g.state # "ENTERING"
    BY <1>3, <2>2, <2>3
  <2>5. f = g
    BY <2>4 DEF EntryDeadline
  <2>6. QED
    BY <1>1, <1>3, <2>2, <2>3, <2>5 DEF g
<1>4. CASE /\ m.state = "PREPARING" /\ m.age >= 1
           /\ ~(Active(m) \cap m.ready = {} /\ EntryPlayers(m) # {})
  <2> DEFINE d == DeferExcept(m, m.ready)
             e == Enter(d, "ENTERING")
             k == Enter(e, "COUNTDOWN")
  <2>1. g = e
    BY <1>4 DEF PreparationDeadline
  <2>2. m.gate = "NONE" /\ m.deferred = {} /\ ~Terminal(m) /\ m.ready \in SUBSET Players
        /\ Active(m) \in SUBSET Players
    BY <1>4 DEF Sound, Clocked, Entry, Match, Terminal, Active
  <2>3. /\ d \in Match
        /\ d.ordinal = m.ordinal /\ d.players = m.players /\ d.forfeited = m.forfeited
        /\ d.finished = m.finished /\ d.qualified = m.qualified /\ d.stage = m.stage
        /\ d.score = m.score /\ d.fixed = m.fixed /\ d.rank = m.rank
        /\ d.map = m.map /\ d.gen = m.gen /\ d.phase = m.phase /\ d.gate = m.gate
        /\ d.ready = m.ready /\ d.entered = m.entered
        /\ d.absent = m.absent /\ d.deferred = Active(m) \ m.ready
    BY <2>2 DEF DeferExcept, Match
  <2> HIDE DEF d
  <2>4. e \in Match
    BY <2>3, EnterIsMatch DEF States
  <2>5. /\ e.state = "ENTERING" /\ e.age = 0 /\ e.gate = "NONE"
        /\ e.ordinal = m.ordinal /\ e.players = m.players /\ e.forfeited = m.forfeited
        /\ e.finished = m.finished /\ e.qualified = m.qualified /\ e.stage = m.stage
        /\ e.score = m.score /\ e.fixed = m.fixed /\ e.rank = m.rank
        /\ e.map = m.map /\ e.gen = m.gen /\ e.phase = m.phase
        /\ e.ready = m.ready /\ e.entered = m.entered
        /\ e.absent = m.absent /\ e.deferred = Active(m) \ m.ready
    BY <2>2, <2>3 DEF Enter, Match
  <2> HIDE DEF e
  <2>6. k \in Match
    BY <2>4, EnterIsMatch DEF States
  <2>7. /\ k.state = "COUNTDOWN" /\ k.age = 0 /\ k.gate = "NONE"
        /\ k.ordinal = m.ordinal /\ k.players = m.players /\ k.forfeited = m.forfeited
        /\ k.finished = m.finished /\ k.qualified = m.qualified /\ k.stage = m.stage
        /\ k.score = m.score /\ k.fixed = m.fixed /\ k.rank = m.rank
        /\ k.map = m.map /\ k.gen = m.gen /\ k.phase = m.phase
        /\ k.ready = m.ready /\ k.entered = m.entered
        /\ k.absent = m.absent /\ k.deferred = Active(m) \ m.ready
    BY <2>4, <2>5 DEF Enter, Match
  <2> HIDE DEF k
  <2>8. Prepared(m)
    BY <1>4 DEF Timely
  <2>9. CASE ActiveBots(m) \subseteq m.ready
    <3>1. Same(m, e) /\ Clocked(e) /\ Mapped(e) /\ Active(e) = Active(m)
          /\ ActiveBots(e) = ActiveBots(m)
      BY <1>4, <2>2, <2>4, <2>5, SameFields
    <3>2. Entry(e)
      BY <2>5, <2>9, <3>1 DEF Entry, Late
    <3>3. Keeps(m, e) /\ Sound(e)
      BY <2>2, <2>4, <3>1, <3>2, SameSound DEF Keeps
    <3>4. /\ Keeps(e, EntryDeadline(e))
          /\ EntryDeadline(e) = e
             \/ (e.state = "ENTERING" /\ Prepared(EntryDeadline(e))
                 /\ EntryDeadline(e).state \in {"COUNTDOWN", "MAP_SELECTION", "CANCELLED"})
      BY <2>4, <3>3, EntryDeadlineKeeps
    <3>5. Prepared(e)
      BY <2>5 DEF Prepared
    <3>6. Keeps(m, EntryDeadline(e))
      BY <3>3, <3>4, KeepsIsTransitive
    <3> HIDE DEF g
    <3>7. QED
      BY <1>4, <2>1, <2>5, <3>4, <3>5, <3>6 DEF g
  <2>10. CASE Waited(m) \cap m.ready = {} /\ ActiveBots(m) \cap m.ready = {}
    <3>1. Active(m) \ m.absent \subseteq Active(m) \ m.ready
      BY <2>2, <2>10 DEF Waited, ActiveBots, Players
    <3>2. EntryPlayers(e) = {}
      BY <2>5, <3>1 DEF EntryPlayers, Active
    <3>3. EntryDeadline(e) = k
      BY <2>5, <3>2 DEF EntryDeadline, k
    <3>4. Same(m, k) /\ Clocked(k) /\ Mapped(k) /\ Active(k) = Active(m)
          /\ ActiveBots(k) = ActiveBots(m)
      BY <1>4, <2>2, <2>6, <2>7, SameFields
    <3>5. Entry(k)
      BY <2>7, <3>1, <3>4 DEF Entry, Late
    <3>6. Keeps(m, k) /\ Prepared(k)
      BY <2>2, <2>6, <2>7, <3>4, <3>5, SameSound DEF Prepared
    <3> HIDE DEF g
    <3>7. QED
      BY <1>4, <2>1, <2>7, <3>3, <3>6 DEF g
  <2>11. QED
    BY <1>4, <2>8, <2>9, <2>10 DEF Prepared
<1>5. QED
  BY <1>2, <1>3, <1>4

\* The countdown is over.
LEMMA PlayingKeeps ==
  ASSUME NEW m \in Match, Sound(m), m.state = "COUNTDOWN"
  PROVE  LET f == [m EXCEPT !.state = "PLAYING"]
         IN  f \in Match /\ Keeps(m, f) /\ f.state = "PLAYING"
<1> DEFINE f == [m EXCEPT !.state = "PLAYING"]
<1>1. /\ f \in Match /\ f.state = "PLAYING" /\ f.age = m.age /\ f.gate = m.gate
      /\ f.ordinal = m.ordinal /\ f.players = m.players /\ f.forfeited = m.forfeited
      /\ f.finished = m.finished /\ f.qualified = m.qualified /\ f.stage = m.stage
      /\ f.score = m.score /\ f.fixed = m.fixed /\ f.rank = m.rank
      /\ f.map = m.map /\ f.gen = m.gen /\ f.phase = m.phase
      /\ f.ready = m.ready /\ f.entered = m.entered
      /\ f.absent = m.absent /\ f.deferred = m.deferred
  BY DEF Match, States
<1> HIDE DEF f
<1>2. m.gate = "NONE" /\ ~Terminal(m) /\ m.age <= 2
  BY DEF Sound, Clocked, Match, Terminal
<1>3. Same(m, f) /\ Clocked(f) /\ Mapped(f) /\ Active(f) = Active(m)
      /\ ActiveBots(f) = ActiveBots(m)
  BY <1>1, <1>2, SameFields
<1>4. Entry(f)
  BY <1>1, <1>3 DEF Sound, Entry, Late
<1>5. Keeps(m, f)
  BY <1>1, <1>2, <1>3, <1>4, SameSound
<1>6. QED
  BY <1>1, <1>5 DEF f

\* The countdown and the clock of the round.
LEMMA PlayClockKeeps ==
  ASSUME NEW m \in Match, Sound(m)
  PROVE  LET f == PlayClock(m) IN
         /\ Keeps(m, f)
         /\ f = m \/ (m.state \in {"COUNTDOWN", "PLAYING"}
                      /\ f.state \in {"PLAYING", "ROUND_RESULT", "FINAL_RESULT"}
                      /\ (m.state = "PLAYING" => m.age >= 2))
<1> DEFINE e == [m EXCEPT !.state = "PLAYING"]
           g == IF m.state = "COUNTDOWN" /\ m.age >= 1 THEN e ELSE m
           f == PlayClock(m)
<1>1. f = IF g.state = "PLAYING" /\ g.age >= 2 THEN FinishRound(g) ELSE g
  BY DEF PlayClock
<1>2. m.state = "COUNTDOWN" => e \in Match /\ Keeps(m, e) /\ e.state = "PLAYING"
  BY PlayingKeeps
<1> HIDE DEF e
<1>3. /\ g \in Match /\ Keeps(m, g)
      /\ g = m \/ (m.state = "COUNTDOWN" /\ g.state = "PLAYING")
  BY <1>2, SoundKeepsItself
<1> HIDE DEF f, g
<1>4. CASE g.state = "PLAYING" /\ g.age >= 2
  <2>1. Keeps(g, FinishRound(g)) /\ FinishRound(g).state \in {"ROUND_RESULT", "FINAL_RESULT"}
    BY <1>3, <1>4, FinishRoundKeeps DEF Keeps, Sound, Terminal
  <2>2. Keeps(m, FinishRound(g))
    BY <1>3, <2>1, KeepsIsTransitive
  <2>3. QED
    BY <1>1, <1>3, <1>4, <2>1, <2>2 DEF f
<1>5. CASE ~(g.state = "PLAYING" /\ g.age >= 2)
  BY <1>1, <1>3, <1>5 DEF f
<1>6. QED
  BY <1>4, <1>5

\* advanceTimers keeps the match sound as long as the bots are certified before
\* the deadline of the preparation, and keeps them so.
LEMMA AdvanceTimersKeeps ==
  ASSUME NEW m \in Match, Sound(m), Timely(m)
  PROVE  LET f == AdvanceTimers(m) IN
         /\ f \in Match /\ Keeps(m, f)
         /\ Prepared(m) => Prepared(f)
         /\ m.state = "ROUND_RESULT" => f.state = "ROUND_RESULT"
         /\ m.state = "PREPARING" /\ m.age = 0 /\ f.state = "PREPARING" => f = m
         /\ m.state = "ENTERING" /\ f.state = "ENTERING" => f = m
         /\ m.state = "PLAYING" /\ m.age < 2 => f = m
         /\ m.state = "MAP_SELECTION" /\ m.map = NoOne =>
              /\ f.state = "MAP_SELECTION"
              /\ f.ordinal = m.ordinal /\ f.gen = m.gen /\ f.phase = m.phase
<1> DEFINE a == ResolveVote(m)
           b == LiftGate(a)
           c == OpenPreparation(b)
           d == PresentBarriers(c)
           e == EntryDeadline(PreparationDeadline(d))
           f == PlayClock(e)
<1>1. AdvanceTimers(m) = f
  BY DEF AdvanceTimers
<1>2. Keeps(m, a) /\ a.state = m.state /\ a.gate = m.gate /\ (m.gate = "NONE" => a = m)
      /\ a.ordinal = m.ordinal /\ a.gen = m.gen /\ a.phase = m.phase /\ a.map = m.map
  BY GateKeeps
<1>3. Sound(a) /\ a \in Match
  BY <1>2 DEF Keeps, Sound
<1> HIDE DEF a
<1>4. Keeps(a, b) /\ b.state = a.state /\ (a.gate = "NONE" => b = a)
      /\ b.ordinal = a.ordinal /\ b.gen = a.gen /\ b.phase = a.phase /\ b.map = a.map
  BY <1>3, GateKeeps
<1>5. Sound(b) /\ b \in Match /\ Keeps(m, b)
  BY <1>2, <1>4, KeepsIsTransitive DEF Keeps, Sound
<1>6. m.state \notin {"MAP_SELECTION", "ROUND_RESULT"} => b = m
  BY <1>2, <1>4 DEF Sound, Clocked, Match
<1>7. /\ b.state = m.state /\ b.ordinal = m.ordinal /\ b.gen = m.gen /\ b.phase = m.phase
      /\ b.map = m.map
  BY <1>2, <1>4
<1> HIDE DEF b
<1>8. /\ Keeps(b, c)
      /\ c = b \/ (b.state = "MAP_SELECTION" /\ b.gate = "NONE"
                   /\ c.state = "PREPARING" /\ c.age = 0 /\ c.ready = {})
      /\ b.map = NoOne => c = b
  BY <1>5, OpenPreparationKeeps
<1>9. Sound(c) /\ c \in Match /\ Keeps(m, c)
  BY <1>5, <1>8, KeepsIsTransitive DEF Keeps, Sound
<1>10. Timely(c) /\ (Prepared(m) => Prepared(c))
  BY <1>6, <1>7, <1>8 DEF Timely, Prepared
<1> HIDE DEF c
<1>11. /\ Keeps(c, d)
       /\ d = c \/ (c.state \in {"PREPARING", "ENTERING"} /\ d.age = 0
                    /\ d.state \in {"ENTERING", "COUNTDOWN"} /\ d.state # c.state)
  BY <1>9, PresentBarriersKeeps
<1>12. Sound(d) /\ d \in Match /\ Keeps(m, d)
  BY <1>9, <1>11, KeepsIsTransitive DEF Keeps, Sound
<1>13. Timely(d) /\ (Prepared(m) => Prepared(d))
  BY <1>10, <1>11 DEF Timely, Prepared
<1> HIDE DEF d
<1>14. /\ Keeps(d, e)
       /\ e = d \/ (d.state \in {"PREPARING", "ENTERING"} /\ Prepared(e)
                    /\ e.state \in {"ENTERING", "COUNTDOWN", "MAP_SELECTION", "CANCELLED"}
                    /\ IF d.state = "PREPARING" THEN d.age >= 1 ELSE e.state # "ENTERING")
  BY <1>12, <1>13, DeadlinesKeep
<1>15. Sound(e) /\ e \in Match /\ Keeps(m, e) /\ (Prepared(m) => Prepared(e))
  BY <1>12, <1>13, <1>14, KeepsIsTransitive DEF Keeps, Sound
<1> HIDE DEF e
<1>16. /\ Keeps(e, f)
       /\ f = e \/ (e.state \in {"COUNTDOWN", "PLAYING"}
                    /\ f.state \in {"PLAYING", "ROUND_RESULT", "FINAL_RESULT"}
                    /\ (e.state = "PLAYING" => e.age >= 2))
  BY <1>15, PlayClockKeeps
<1>17. f \in Match /\ Keeps(m, f) /\ (Prepared(m) => Prepared(f))
  BY <1>15, <1>16, KeepsIsTransitive DEF Keeps, Sound, Prepared
<1> HIDE DEF f
<1>18. m.state = "ROUND_RESULT" => f.state = "ROUND_RESULT"
  BY <1>7, <1>8, <1>11, <1>14, <1>16
<1>19. m.state = "PREPARING" /\ m.age = 0 /\ f.state = "PREPARING" => f = m
  BY <1>6, <1>8, <1>11, <1>14, <1>16
<1>20. m.state = "ENTERING" /\ f.state = "ENTERING" => f = m
  BY <1>6, <1>8, <1>11, <1>14, <1>16
<1>21. m.state = "PLAYING" /\ m.age < 2 => f = m
  <2>1. m.age \in Nat
    BY DEF Match
  <2>2. QED
    BY <1>6, <1>8, <1>11, <1>14, <1>16, <2>1
<1>22. m.state = "MAP_SELECTION" /\ m.map = NoOne =>
         /\ f.state = "MAP_SELECTION"
         /\ f.ordinal = m.ordinal /\ f.gen = m.gen /\ f.phase = m.phase
  BY <1>7, <1>8, <1>11, <1>14, <1>16
<1>23. QED
  BY <1>1, <1>17, <1>18, <1>19, <1>20, <1>21, <1>22

-----------------------------------------------------------------------------
(* The reducer *)

\* What the reducer does not refuse keeps the match sound; a reported failure
\* keeps the bots certified too.
LEMMA EffectKeeps ==
  ASSUME NEW m \in Match, Sound(m), ~Terminal(m),
         NEW p \in Players, NEW c \in Command(p), Taken(m, c),
         c.type = "DIFFICULTY_VOTE" => p \in Humans
  PROVE  /\ Keeps(m, Effect(m, c))
         /\ c.type = "PREPARATION_FAILED" /\ Prepared(m) => Prepared(Effect(m, c))
         /\ m.state = "PLAYING" /\ c.type \in {"ATTEMPT_START", "PROGRESS", "ATTEMPT_END"} =>
              Effect(m, c).state \in {"PLAYING", "ROUND_RESULT", "FINAL_RESULT"}
<1>1. /\ c.who = p
      /\ c.type \in {"DIFFICULTY_VOTE", "PRESENTATION_COMPLETE", "FORFEIT", "ASSETS_READY",
                     "ENTERED", "ATTEMPT_START", "PREPARATION_FAILED", "PROGRESS", "ATTEMPT_END"}
      /\ c.type \in {"PROGRESS", "ATTEMPT_END"} => c.progress \in Nat
  BY ServiceAssumption DEF Command
<1>2. CASE c.type = "DIFFICULTY_VOTE"
  <2>1. Effect(m, c) = CastVote(m, p)
    BY <1>1, <1>2 DEF Effect
  <2>2. QED
    BY <1>2, <2>1, CastVoteKeeps
<1>3. CASE c.type = "PRESENTATION_COMPLETE"
  <2>1. Effect(m, c) = m
    BY <1>3 DEF Effect
  <2>2. QED
    BY <1>3, <2>1, SoundKeepsItself
<1>4. CASE c.type = "FORFEIT"
  <2>1. Effect(m, c) = Surrender(m, p)
    BY <1>1, <1>4 DEF Effect
  <2>2. p \in Active(m) /\ m.state # "ROUND_RESULT"
    BY <1>1, <1>4 DEF Taken
  <2>3. QED
    BY <1>4, <2>1, <2>2, SurrenderKeeps
<1>5. CASE c.type = "ASSETS_READY"
  <2>1. Effect(m, c) = MakeReady(m, p)
    BY <1>1, <1>5 DEF Effect
  <2>2. p \in Active(m) /\ m.state \in {"PREPARING", "ENTERING", "COUNTDOWN", "PLAYING"}
    BY <1>1, <1>5 DEF Taken
  <2>3. QED
    BY <1>5, <2>1, <2>2, MakeReadyKeeps
<1>6. CASE c.type = "PREPARATION_FAILED"
  <2>1. Effect(m, c) = ReportFailure(m, p)
    BY <1>1, <1>6 DEF Effect
  <2>2. p \in Active(m) /\ m.state \in {"PREPARING", "ENTERING"}
    BY <1>1, <1>6 DEF Taken
  <2>3. QED
    BY <1>6, <2>1, <2>2, ReportFailureKeeps
<1>7. CASE c.type = "ENTERED"
  <2>1. Effect(m, c) = EnterScene(m, p)
    BY <1>1, <1>7 DEF Effect
  <2>2. p \in Active(m) /\ p \in m.ready /\ m.state \in {"ENTERING", "COUNTDOWN", "PLAYING"}
    BY <1>1, <1>7 DEF Taken
  <2>3. QED
    BY <1>7, <2>1, <2>2, EnterSceneKeeps
<1>8. CASE c.type = "ATTEMPT_START"
  <2>1. Effect(m, c) = BeginAttempt(m, p)
    BY <1>1, <1>8 DEF Effect
  <2>2. p \in Active(m)
    BY <1>1, <1>8 DEF Taken
  <2>3. QED
    BY <1>8, <2>1, <2>2, BeginAttemptKeeps
<1>9. CASE c.type = "PROGRESS"
  <2>1. Effect(m, c) = RecordAttempt(m, p, c.progress, FALSE)
    BY <1>1, <1>9 DEF Effect
  <2>2. p \in Active(m) /\ m.state = "PLAYING"
    BY <1>1, <1>9 DEF Taken
  <2>3. QED
    BY <1>1, <1>9, <2>1, <2>2, RecordAttemptKeeps
<1>10. CASE c.type = "ATTEMPT_END"
  <2>1. Effect(m, c) = RecordAttempt(m, p, c.progress, TRUE)
    BY <1>1, <1>10 DEF Effect
  <2>2. p \in Active(m) /\ m.state = "PLAYING"
    BY <1>1, <1>10 DEF Taken
  <2>3. QED
    BY <1>1, <1>10, <2>1, <2>2, RecordAttemptKeeps
<1>11. QED
  BY <1>1, <1>2, <1>3, <1>4, <1>5, <1>6, <1>7, <1>8, <1>9, <1>10

\* reduceSurvivalMatch for a command that it takes.
LEMMA ReduceKeeps ==
  ASSUME NEW m \in Match, Sound(m), Timely(m),
         NEW p \in Humans, NEW c \in Command(p), ~Refused(m, c)
  PROVE  /\ Keeps(m, Reduce(m, c))
         /\ c.type = "PREPARATION_FAILED" /\ Prepared(m) => Prepared(Reduce(m, c))
<1> DEFINE t == AdvanceTimers(m)
<1>1. t \in Match /\ Keeps(m, t) /\ (Prepared(m) => Prepared(t))
  BY AdvanceTimersKeeps
<1>2. Sound(t)
  BY <1>1 DEF Keeps
<1>3. Reduce(m, c) = IF Terminal(m) THEN m ELSE IF Concerns(m, t) THEN Effect(t, c) ELSE t
  BY DEF Reduce
<1>4. Concerns(m, t) => ~Terminal(t) /\ Taken(t, c)
  BY DEF Refused, Concerns
<1> HIDE DEF t
<1>5. CASE Terminal(m)
  BY <1>3, <1>5, SoundKeepsItself
<1>6. CASE ~Terminal(m) /\ Concerns(m, t)
  <2>1. p \in Players
    BY DEF Players
  <2>2. /\ Keeps(t, Effect(t, c))
        /\ c.type = "PREPARATION_FAILED" /\ Prepared(t) => Prepared(Effect(t, c))
    BY <1>1, <1>2, <1>4, <1>6, <2>1, EffectKeeps
  <2>3. QED
    BY <1>1, <1>3, <1>6, <2>2, KeepsIsTransitive
<1>7. CASE ~Terminal(m) /\ ~Concerns(m, t)
  BY <1>1, <1>3, <1>7
<1>8. QED
  BY <1>5, <1>6, <1>7

\* The same for TICK, which starts the next round once the result was shown.
LEMMA ReduceTickKeeps ==
  ASSUME NEW m \in Match, Sound(m), Timely(m)
  PROVE  Keeps(m, ReduceTick(m))
<1> DEFINE t == AdvanceTimers(m)
           phase == NextPhase(t.phase, Cardinality(Qualified(t)))
           f == StartRound(t, t.ordinal + 1, phase, Qualified(t))
<1>1. t \in Match /\ Keeps(m, t) /\ (m.state = "ROUND_RESULT" => t.state = "ROUND_RESULT")
  BY AdvanceTimersKeeps
<1>2. Sound(t)
  BY <1>1 DEF Keeps
<1>3. ReduceTick(m) = IF Terminal(m) THEN m
                      ELSE IF m.state = "ROUND_RESULT" /\ t.gate # "ROUND_RESULT" THEN f ELSE t
  BY DEF ReduceTick
<1> HIDE DEF t
<1>4. phase \in Phases
  <2>1. Qualified(t) \in SUBSET Players /\ t.phase \in Phases
    BY <1>1, StandingSets DEF Match
  <2>2. Cardinality(Qualified(t)) \in Nat
    BY <2>1, CountedPlayers
  <2>3. QED
    BY <2>1, <2>2, NextPhaseIsPhase
<1> HIDE DEF phase
<1>5. m.state = "ROUND_RESULT" => Keeps(t, f)
  BY <1>1, <1>2, <1>4, StartRoundKeeps
<1> HIDE DEF f
<1>6. QED
  BY <1>1, <1>3, <1>5, SoundKeepsItself, KeepsIsTransitive

\* invalidateMap of a map that too many could not play.
LEMMA InvalidateMapKeeps ==
  ASSUME NEW m \in Match, Sound(m), Prepared(m), m.state \in {"PREPARING", "ENTERING"}
  PROVE  Keeps(m, InvalidateMap(m))
<1> DEFINE t == AdvanceTimers(m)
<1>1. t \in Match /\ Keeps(m, t)
  BY AdvanceTimersKeeps DEF Timely
<1>2. InvalidateMap(m) = IF Concerns(m, t) THEN Reroll(t) ELSE t
  BY DEF InvalidateMap
<1> HIDE DEF t
<1>3. CASE Concerns(m, t)
  <2>1. t.state \in {"PREPARING", "ENTERING"}
    BY <1>3 DEF Concerns
  <2>2. Keeps(t, Reroll(t))
    BY <1>1, <2>1, RerollKeeps DEF Keeps
  <2>3. QED
    BY <1>1, <1>2, <1>3, <2>2, KeepsIsTransitive
<1>4. CASE ~Concerns(m, t)
  BY <1>1, <1>2, <1>4
<1>5. QED
  BY <1>3, <1>4

\* MAP_SELECTED, NEXT_MAP_SELECTED: the map that is installed is for this match.
LEMMA InstallMapKeeps ==
  ASSUME NEW m \in Match, Good(m), NEW target, target # NoOne, MapTarget(m) = target
  PROVE  Keeps(m, InstallMap(m, target)) /\ Prepared(InstallMap(m, target)) /\ ~Terminal(m)
<1> DEFINE t == AdvanceTimers(m)
           f == InstallMap(m, target)
<1>1. /\ t \in Match /\ Keeps(m, t) /\ (Prepared(m) => Prepared(t))
      /\ m.state = "ROUND_RESULT" => t.state = "ROUND_RESULT"
      /\ m.state = "MAP_SELECTION" /\ m.map = NoOne =>
           /\ t.state = "MAP_SELECTION"
           /\ t.ordinal = m.ordinal /\ t.gen = m.gen /\ t.phase = m.phase
  BY AdvanceTimersKeeps DEF Good, Timely
<1>2. f = IF ~Concerns(m, t) THEN t
          ELSE IF t.state = "ROUND_RESULT" THEN [t EXCEPT !.nextMap = target]
          ELSE IF t.gate = "INTRO" THEN [t EXCEPT !.map = target]
          ELSE [Enter(t, "PREPARING") EXCEPT !.map = target]
  BY DEF InstallMap
<1>3. Sound(t) /\ Prepared(t)
  BY <1>1 DEF Keeps, Good
<1> HIDE DEF t, f
<1>4. CASE m.state = "ROUND_RESULT" /\ m.nextMap = NoOne
  <2>1. target \in Maps
    <3>1. target = [ordinal |-> m.ordinal + 1, gen |-> 1,
                    phase |-> NextPhase(m.phase, Cardinality(Qualified(m)))]
      BY <1>4 DEF MapTarget
    <3>2. Qualified(m) \in SUBSET Players /\ m.phase \in Phases /\ m.ordinal \in Nat
      BY StandingSets DEF Match
    <3>3. NextPhase(m.phase, Cardinality(Qualified(m))) \in Nat
      BY <3>2, CountedPlayers, NextPhaseIsPhase DEF Phases
    <3>4. QED
      BY <3>1, <3>2, <3>3 DEF Maps
  <2>2. t.state = "ROUND_RESULT" /\ ~Terminal(t) /\ ~Terminal(m) /\ Concerns(m, t)
    BY <1>1, <1>4 DEF Terminal, Concerns
  <2>3. f = [t EXCEPT !.nextMap = target]
    BY <1>2, <2>2
  <2>4. /\ f \in Match /\ f.state = t.state /\ f.age = t.age /\ f.gate = t.gate
        /\ f.ordinal = t.ordinal /\ f.players = t.players /\ f.forfeited = t.forfeited
        /\ f.finished = t.finished /\ f.qualified = t.qualified /\ f.stage = t.stage
        /\ f.score = t.score /\ f.fixed = t.fixed /\ f.rank = t.rank
        /\ f.map = t.map /\ f.gen = t.gen /\ f.phase = t.phase
        /\ f.ready = t.ready /\ f.entered = t.entered
        /\ f.absent = t.absent /\ f.deferred = t.deferred
    BY <1>1, <2>1, <2>3 DEF Match
  <2>5. Keeps(t, f) /\ (Prepared(t) => Prepared(f)) /\ Active(f) = Active(t)
    BY <1>1, <1>3, <2>2, <2>4, AsideKeeps
  <2>6. QED
    BY <1>1, <1>3, <2>2, <2>5, KeepsIsTransitive DEF Good, f
<1>5. CASE m.state = "MAP_SELECTION" /\ m.resolved /\ m.map = NoOne
  <2>1. target = [ordinal |-> m.ordinal, gen |-> m.gen, phase |-> m.phase]
    BY <1>5 DEF MapTarget
  <2>2. target \in Maps \cup {NoOne}
    BY <2>1 DEF Match, Maps, Phases
  <2>3. /\ t.state = "MAP_SELECTION" /\ ~Terminal(t) /\ ~Terminal(m) /\ Concerns(m, t)
        /\ target = [ordinal |-> t.ordinal, gen |-> t.gen, phase |-> t.phase]
    BY <1>1, <1>5, <2>1 DEF Terminal, Concerns
  <2>4. t.deferred = {} /\ t.ready = {}
    BY <1>3, <2>3 DEF Sound, Entry
  <2>5. CASE t.gate = "INTRO"
    <3>1. f = [t EXCEPT !.map = target]
      BY <1>2, <2>3, <2>5
    <3>2. f \in Match
      BY <1>1, <2>2, <3>1, MappedIsMatch
    <3>3. /\ f.state = t.state /\ f.age = t.age /\ f.gate = t.gate
          /\ f.ordinal = t.ordinal /\ f.players = t.players /\ f.forfeited = t.forfeited
          /\ f.finished = t.finished /\ f.qualified = t.qualified /\ f.stage = t.stage
          /\ f.score = t.score /\ f.fixed = t.fixed /\ f.rank = t.rank
          /\ f.map = target /\ f.gen = t.gen /\ f.phase = t.phase
          /\ f.ready = t.ready /\ f.deferred = t.deferred
      BY <1>1, <3>1 DEF Match
    <3>4. Same(t, f) /\ Clocked(f) /\ Mapped(f) /\ Entry(f) /\ Prepared(f)
      BY <1>3, <2>3, <2>4, <3>3 DEF Same, Sound, Clocked, Mapped, Entry, Prepared, Terminal
    <3>5. Keeps(t, f)
      BY <1>1, <1>3, <2>3, <3>2, <3>4, SameSound
    <3>6. QED
      BY <1>1, <2>3, <3>4, <3>5, KeepsIsTransitive DEF Good, f
  <2>6. CASE t.gate # "INTRO"
    <3> DEFINE e == Enter(t, "PREPARING")
    <3>1. f = [e EXCEPT !.map = target]
      BY <1>2, <2>3, <2>6
    <3>2. t.gate = "NONE"
      BY <1>1, <1>3, <2>3, <2>6 DEF Sound, Clocked, Match
    <3>3. e \in Match
      BY <1>1, EnterIsMatch DEF States
    <3>4. /\ e.state = "PREPARING" /\ e.age = 0 /\ e.gate = "NONE"
          /\ e.ordinal = t.ordinal /\ e.players = t.players /\ e.forfeited = t.forfeited
          /\ e.finished = t.finished /\ e.qualified = t.qualified /\ e.stage = t.stage
          /\ e.score = t.score /\ e.fixed = t.fixed /\ e.rank = t.rank
          /\ e.gen = t.gen /\ e.phase = t.phase
          /\ e.ready = t.ready /\ e.deferred = t.deferred
      BY <1>1, <3>2 DEF Enter, Match
    <3> HIDE DEF e
    <3>5. f \in Match
      BY <2>2, <3>1, <3>3, MappedIsMatch
    <3>6. /\ f.state = "PREPARING" /\ f.age = 0 /\ f.gate = "NONE"
          /\ f.ordinal = t.ordinal /\ f.players = t.players /\ f.forfeited = t.forfeited
          /\ f.finished = t.finished /\ f.qualified = t.qualified /\ f.stage = t.stage
          /\ f.score = t.score /\ f.fixed = t.fixed /\ f.rank = t.rank
          /\ f.map = target /\ f.gen = t.gen /\ f.phase = t.phase
          /\ f.ready = t.ready /\ f.deferred = t.deferred
      BY <3>1, <3>3, <3>4 DEF Match
    <3>7. Same(t, f) /\ Clocked(f) /\ Mapped(f) /\ Entry(f) /\ Prepared(f)
      BY <1>3, <2>3, <2>4, <3>6 DEF Same, Sound, Clocked, Mapped, Entry, Prepared, Terminal
    <3>8. Keeps(t, f)
      BY <1>1, <1>3, <2>3, <3>5, <3>7, SameSound
    <3>9. QED
      BY <1>1, <2>3, <3>7, <3>8, KeepsIsTransitive DEF Good, f
  <2>7. QED
    BY <2>5, <2>6
<1>6. QED
  BY <1>4, <1>5 DEF MapTarget

\* MAP_SUPPLY_FAILED.
LEMMA GiveUpOnMapsKeeps ==
  ASSUME NEW m \in Match, Good(m)
  PROVE  Keeps(m, GiveUpOnMaps(m)) /\ Prepared(GiveUpOnMaps(m))
<1> DEFINE t == AdvanceTimers(m)
<1>1. t \in Match /\ Keeps(m, t) /\ Prepared(t)
  BY AdvanceTimersKeeps DEF Good, Timely
<1>2. GiveUpOnMaps(m) = IF Concerns(m, t) THEN FinishMatch(t, NoOne) ELSE t
  BY DEF GiveUpOnMaps
<1> HIDE DEF t
<1>3. CASE Concerns(m, t)
  <2>1. Keeps(t, FinishMatch(t, NoOne)) /\ Terminal(FinishMatch(t, NoOne))
    BY <1>1, <1>3, CancelKeeps DEF Keeps, Concerns
  <2>2. QED
    BY <1>1, <1>2, <1>3, <2>1, KeepsIsTransitive DEF Good, Prepared, Terminal
<1>4. CASE ~Concerns(m, t)
  BY <1>1, <1>2, <1>4
<1>5. QED
  BY <1>3, <1>4

-----------------------------------------------------------------------------
(* The online adapter *)

\* The barrier is lifted in states that wait for nobody's entry.
LEMMA LiftBarrierKeeps ==
  ASSUME NEW m \in Match, Sound(m), ~Terminal(m)
  PROVE  Keeps(m, LiftBarrier(m)) /\ (m.gate = "NONE" => LiftBarrier(m) = m)
<1> DEFINE t == AdvanceTimers(m)
           c == [type |-> "PRESENTATION_COMPLETE"]
<1>1. CASE ~BarrierDue(m)
  BY <1>1, SoundKeepsItself DEF LiftBarrier
<1>2. CASE BarrierDue(m)
  <2>1. m.state \in {"MAP_SELECTION", "ROUND_RESULT"} /\ m.gate # "NONE"
    BY <1>2 DEF BarrierDue, Sound, Clocked
  <2>2. Keeps(m, t)
    BY <2>1, AdvanceTimersKeeps DEF Timely
  <2>3. Effect(t, c) = t
    BY DEF Effect
  <2>4. Reduce(m, c) = t
    BY <2>3 DEF Reduce
  <2>5. LiftBarrier(m) = t
    BY <1>2, <2>4 DEF LiftBarrier
  <2> HIDE DEF t
  <2>6. QED
    BY <2>1, <2>2, <2>5
<1>3. QED
  BY <1>1, <1>2

\* Whoever is away is no longer waited for.
LEMMA MarkAbsentKeeps ==
  ASSUME NEW m \in Match, Sound(m), NEW gone \in SUBSET Humans
  PROVE  /\ Keeps(m, MarkAbsent(m, gone))
         /\ m.state \notin {"PREPARING", "ENTERING"} => MarkAbsent(m, gone) = m
<1> DEFINE f == MarkAbsent(m, gone)
           absent == m.absent \cup Missing(m, gone)
<1>1. f = [m EXCEPT !.absent = absent]
  BY DEF MarkAbsent, Match
<1>2. absent \in SUBSET Humans
  BY DEF Missing, Match
<1>3. CASE m.state \notin {"PREPARING", "ENTERING"}
  <2>1. absent = m.absent
    BY <1>3 DEF Missing, Match
  <2>2. f = m
    BY <1>1, <2>1 DEF Match
  <2>3. QED
    BY <2>2, SoundKeepsItself
<1>4. CASE m.state \in {"PREPARING", "ENTERING"}
  <2> HIDE DEF f
  <2>1. m.absent \subseteq absent
    OBVIOUS
  <2> HIDE DEF absent
  <2>2. /\ f \in Match /\ f.state = m.state /\ f.age = m.age /\ f.gate = m.gate
        /\ f.ordinal = m.ordinal /\ f.players = m.players /\ f.forfeited = m.forfeited
        /\ f.finished = m.finished /\ f.qualified = m.qualified /\ f.stage = m.stage
        /\ f.score = m.score /\ f.fixed = m.fixed /\ f.rank = m.rank
        /\ f.map = m.map /\ f.gen = m.gen /\ f.phase = m.phase
        /\ f.ready = m.ready /\ f.entered = m.entered
        /\ f.absent = absent /\ f.deferred = m.deferred
    BY <1>1, <1>2 DEF Match
  <2>3. ~Terminal(m)
    BY <1>4 DEF Terminal
  <2>4. Same(m, f) /\ Clocked(f) /\ Mapped(f) /\ Active(f) = Active(m)
        /\ ActiveBots(f) = ActiveBots(m)
    BY <2>2, <2>3, SameFields
  <2>5. Entry(f)
    BY <2>1, <2>2, <2>4 DEF Sound, Entry, Late
  <2>6. Keeps(m, f)
    BY <2>2, <2>3, <2>4, <2>5, SameSound
  <2>7. QED
    BY <1>4, <2>6 DEF f
<1>5. QED
  BY <1>3, <1>4

\* The bot driver dates its commands before the deadline that is due.
LEMMA AtLatestKeeps ==
  ASSUME NEW m \in Match, Sound(m), ~Terminal(m), m.state # "MAP_SELECTION",
         NEW age \in {0, 1}
  PROVE  LET f == AtLatest(m, age) IN
         /\ f \in Match /\ Keeps(m, f) /\ f.age <= age /\ f.age \in Nat
         /\ f.state = m.state /\ f.gate = m.gate
         /\ f.ordinal = m.ordinal /\ f.players = m.players /\ f.forfeited = m.forfeited
         /\ f.finished = m.finished /\ f.qualified = m.qualified /\ f.stage = m.stage
         /\ f.score = m.score /\ f.fixed = m.fixed /\ f.rank = m.rank
         /\ f.map = m.map /\ f.gen = m.gen /\ f.phase = m.phase
         /\ f.ready = m.ready /\ f.entered = m.entered /\ f.failed = m.failed
         /\ f.absent = m.absent /\ f.deferred = m.deferred
<1> DEFINE then == IF m.age > age THEN age ELSE m.age
           f == AtLatest(m, age)
<1>1. f = [m EXCEPT !.age = then]
  BY DEF AtLatest, Match
<1>2. then \in Nat /\ then <= age /\ then <= 2
  BY DEF Match
<1> HIDE DEF f, then
<1>3. /\ f \in Match /\ f.age = then
      /\ f.state = m.state /\ f.gate = m.gate
      /\ f.ordinal = m.ordinal /\ f.players = m.players /\ f.forfeited = m.forfeited
      /\ f.finished = m.finished /\ f.qualified = m.qualified /\ f.stage = m.stage
      /\ f.score = m.score /\ f.fixed = m.fixed /\ f.rank = m.rank
      /\ f.map = m.map /\ f.gen = m.gen /\ f.phase = m.phase
      /\ f.ready = m.ready /\ f.entered = m.entered /\ f.failed = m.failed
      /\ f.absent = m.absent /\ f.deferred = m.deferred
  BY <1>1, <1>2 DEF Match
<1>4. m.gate # "NONE" => f.state = m.state
  BY <1>3
<1>5. Same(m, f) /\ Clocked(f) /\ Mapped(f) /\ Active(f) = Active(m)
      /\ ActiveBots(f) = ActiveBots(m)
  BY <1>2, <1>3, SameFields
<1>6. Entry(f)
  BY <1>3, <1>5 DEF Sound, Entry, Late
<1>7. Keeps(m, f)
  BY <1>3, <1>5, <1>6, SameSound
<1>8. QED
  BY <1>2, <1>3, <1>7 DEF f

\* What the bot driver leaves has the clock of the match again.
LEMMA RedatedKeeps ==
  ASSUME NEW m \in Match, Sound(m), ~Terminal(m), m.state \in {"PREPARING", "ENTERING"},
         NEW f \in Match, f.state = m.state, f.gate = m.gate,
         f.ordinal = m.ordinal, f.players = m.players, f.forfeited = m.forfeited,
         f.finished = m.finished, f.qualified = m.qualified, f.stage = m.stage,
         f.score = m.score, f.fixed = m.fixed, f.rank = m.rank,
         f.map = m.map, f.gen = m.gen, f.phase = m.phase, Entry(f)
  PROVE  LET u == Redated(m, f) IN
         /\ u \in Match /\ Keeps(m, u) /\ u.state = m.state
         /\ u.ready = f.ready /\ u.absent = f.absent /\ Active(u) = Active(m)
         /\ ActiveBots(u) = ActiveBots(m)
<1> DEFINE u == Redated(m, f)
<1>1. u = [f EXCEPT !.age = m.age]
  BY DEF Redated
<1> HIDE DEF u
<1>2. /\ u \in Match /\ u.state = m.state /\ u.age = m.age /\ u.gate = m.gate
      /\ u.ordinal = m.ordinal /\ u.players = m.players /\ u.forfeited = m.forfeited
      /\ u.finished = m.finished /\ u.qualified = m.qualified /\ u.stage = m.stage
      /\ u.score = m.score /\ u.fixed = m.fixed /\ u.rank = m.rank
      /\ u.map = m.map /\ u.gen = m.gen /\ u.phase = m.phase
      /\ u.ready = f.ready /\ u.entered = f.entered
      /\ u.absent = f.absent /\ u.deferred = f.deferred
  BY <1>1 DEF Match
<1>3. Same(m, u) /\ Clocked(u) /\ Mapped(u) /\ Active(u) = Active(m)
      /\ ActiveBots(u) = ActiveBots(m)
  BY <1>2, SameFields
<1>4. Active(f) = Active(m) /\ ActiveBots(f) = ActiveBots(m)
  BY DEF Active, ActiveBots
<1>5. Entry(u)
  BY <1>2, <1>3, <1>4 DEF Entry, Late
<1>6. QED
  BY <1>2, <1>3, <1>5, SameSound DEF u

\* The bots are certified, or with every human's preparation failed report the
\* same, before a deadline is applied.
LEMMA BotsPrepareKeeps ==
  ASSUME NEW m \in Match, Sound(m), ~BotsRefused(m)
  PROVE  Keeps(m, BotsPrepare(m)) /\ Prepared(BotsPrepare(m))
<1> DEFINE n == AtLatest(m, 0)
           t == AdvanceTimers(n)
           failed == [t EXCEPT !.failed = @ \cup ActiveBots(m)]
           ready  == [t EXCEPT !.ready = @ \cup ActiveBots(m)]
           f == BotsPrepare(m)
<1>1. CASE m.state # "PREPARING" \/ ActiveBots(m) = {}
  BY <1>1, SoundKeepsItself DEF BotsPrepare, Prepared
<1>2. CASE m.state = "PREPARING" /\ ActiveBots(m) # {}
  <2>1. f = IF t.state # "PREPARING" THEN t
            ELSE IF AllFailed(m)
            THEN IF Active(failed) \subseteq failed.failed THEN Reroll(failed)
                 ELSE Redated(m, failed)
            ELSE IF EntryPlayers(ready) \subseteq ready.ready THEN Enter(ready, "ENTERING")
                 ELSE Redated(m, ready)
    BY <1>2 DEF BotsPrepare
  <2>2. ~Terminal(m) /\ ActiveBots(m) \in SUBSET Players /\ m.gate = "NONE"
    BY <1>2 DEF Terminal, ActiveBots, Players, Active, Match, Sound, Clocked
  <2>3. /\ n \in Match /\ Keeps(m, n) /\ n.age <= 0 /\ n.age \in Nat
        /\ n.state = m.state /\ n.gate = m.gate
        /\ n.ordinal = m.ordinal /\ n.players = m.players /\ n.forfeited = m.forfeited
        /\ n.finished = m.finished /\ n.qualified = m.qualified /\ n.stage = m.stage
        /\ n.score = m.score /\ n.fixed = m.fixed /\ n.rank = m.rank
        /\ n.map = m.map /\ n.gen = m.gen /\ n.phase = m.phase
        /\ n.ready = m.ready /\ n.entered = m.entered /\ n.failed = m.failed
        /\ n.absent = m.absent /\ n.deferred = m.deferred
    BY <1>2, <2>2, AtLatestKeeps
  <2> HIDE DEF n
  <2>4. Sound(n) /\ Timely(n) /\ n.age = 0
    BY <2>3 DEF Keeps, Timely
  <2>5. /\ t \in Match /\ Keeps(n, t)
        /\ n.state = "PREPARING" /\ n.age = 0 /\ t.state = "PREPARING" => t = n
    BY <2>3, <2>4, AdvanceTimersKeeps
  <2> HIDE DEF t, f
  <2>6. CASE t.state # "PREPARING"
    BY <2>1, <2>3, <2>5, <2>6, KeepsIsTransitive DEF Prepared, f
  <2>7. CASE t.state = "PREPARING" /\ AllFailed(m)
    <3>1. t = n
      BY <1>2, <2>3, <2>4, <2>5, <2>7
    <3>2. /\ failed \in Match /\ failed.state = m.state /\ failed.age = n.age
          /\ failed.gate = m.gate
          /\ failed.ordinal = m.ordinal /\ failed.players = m.players
          /\ failed.forfeited = m.forfeited
          /\ failed.finished = m.finished /\ failed.qualified = m.qualified
          /\ failed.stage = m.stage /\ failed.score = m.score /\ failed.fixed = m.fixed
          /\ failed.rank = m.rank /\ failed.map = m.map /\ failed.gen = m.gen
          /\ failed.phase = m.phase
          /\ failed.ready = m.ready /\ failed.entered = m.entered
          /\ failed.absent = m.absent /\ failed.deferred = m.deferred
      BY <2>2, <2>3, <3>1 DEF Match
    <3> HIDE DEF failed
    <3>3. ~Terminal(n)
      BY <2>2, <2>3 DEF Terminal
    <3>4. Keeps(n, failed)
      BY <2>3, <2>4, <3>2, <3>3, AsideKeeps
    <3>5. Sound(failed) /\ Keeps(m, failed)
      BY <2>3, <3>4, KeepsIsTransitive DEF Keeps
    <3>6. Keeps(failed, Reroll(failed)) /\ Prepared(Reroll(failed))
      BY <1>2, <3>2, <3>5, RerollKeeps
    <3> DEFINE u == Redated(m, failed)
    <3>7. /\ u \in Match /\ Keeps(m, u) /\ u.state = m.state
          /\ u.ready = failed.ready /\ u.absent = failed.absent /\ Active(u) = Active(m)
          /\ ActiveBots(u) = ActiveBots(m)
      BY <1>2, <2>2, <3>2, <3>5, RedatedKeeps DEF Sound
    <3> HIDE DEF u
    <3>8. Prepared(u)
      <4>1. Waited(m) \cap m.ready = {} /\ ActiveBots(m) \cap m.ready = {}
        BY <1>2, <2>7 DEF AllFailed, BotsRefused
      <4>2. Waited(u) = Waited(m)
        BY <3>2, <3>7 DEF Waited
      <4>3. QED
        BY <3>2, <3>7, <4>1, <4>2 DEF Prepared
    <3>9. f = Reroll(failed) \/ f = u
      BY <2>1, <2>7 DEF u
    <3>10. QED
      BY <3>5, <3>6, <3>7, <3>8, <3>9, KeepsIsTransitive DEF f
  <2>8. CASE t.state = "PREPARING" /\ ~AllFailed(m)
    <3>1. t = n
      BY <1>2, <2>3, <2>4, <2>5, <2>8
    <3>2. /\ ready \in Match /\ ready.state = m.state /\ ready.age = n.age
          /\ ready.gate = m.gate
          /\ ready.ordinal = m.ordinal /\ ready.players = m.players
          /\ ready.forfeited = m.forfeited
          /\ ready.finished = m.finished /\ ready.qualified = m.qualified
          /\ ready.stage = m.stage /\ ready.score = m.score /\ ready.fixed = m.fixed
          /\ ready.rank = m.rank /\ ready.map = m.map /\ ready.gen = m.gen
          /\ ready.phase = m.phase
          /\ ready.ready = m.ready \cup ActiveBots(m) /\ ready.entered = m.entered
          /\ ready.absent = m.absent /\ ready.deferred = m.deferred
      BY <2>2, <2>3, <3>1 DEF Match
    <3> HIDE DEF ready
    <3>3. ~Terminal(n)
      BY <2>2, <2>3 DEF Terminal
    <3>4. Same(m, ready) /\ Clocked(ready) /\ Mapped(ready) /\ Active(ready) = Active(m)
          /\ ActiveBots(ready) = ActiveBots(m)
      BY <1>2, <2>2, <2>4, <3>2, SameFields
    <3>5. Entry(ready)
      BY <1>2, <3>2, <3>4 DEF Sound, Entry
    <3>6. Keeps(m, ready) /\ Sound(ready)
      BY <2>2, <3>2, <3>4, <3>5, SameSound DEF Keeps
    <3> DEFINE u == Redated(m, ready)
               e == Enter(ready, "ENTERING")
    <3>7. /\ u \in Match /\ Keeps(m, u) /\ u.state = m.state
          /\ u.ready = ready.ready /\ u.absent = ready.absent /\ Active(u) = Active(m)
          /\ ActiveBots(u) = ActiveBots(m)
      BY <1>2, <2>2, <3>2, <3>5, RedatedKeeps
    <3> HIDE DEF u
    <3>8. Prepared(u)
      BY <3>2, <3>7 DEF Prepared
    <3>9. CASE EntryPlayers(ready) \subseteq ready.ready
      <4>1. Active(ready) \subseteq ready.ready \cup Late(ready)
        BY <3>9 DEF EntryPlayers, Late
      <4>2. ActiveBots(ready) \subseteq ready.ready
        BY <3>2, <3>4
      <4>3. /\ e \in Match /\ Keeps(ready, e) /\ e.state = "ENTERING" /\ e.age = 0
            /\ e.gate = "NONE"
            /\ e.ready = ready.ready /\ e.entered = ready.entered /\ e.absent = ready.absent
            /\ e.deferred = ready.deferred /\ e.map = ready.map
            /\ Active(e) = Active(ready)
        BY <1>2, <2>2, <3>2, <3>6, <4>1, <4>2, EnterKeeps
      <4> HIDE DEF e
      <4>4. f = e
        BY <2>1, <2>8, <3>9 DEF e
      <4>5. QED
        BY <3>6, <4>3, <4>4, KeepsIsTransitive DEF Prepared, f
    <3>10. CASE ~(EntryPlayers(ready) \subseteq ready.ready)
      <4>1. f = u
        BY <2>1, <2>8, <3>10 DEF u
      <4>2. QED
        BY <3>7, <3>8, <4>1 DEF f
    <3>11. QED
      BY <3>9, <3>10
  <2>9. QED
    BY <2>6, <2>7, <2>8
<1>3. QED
  BY <1>1, <1>2

\* The bots enter, which they may as they are ready.
LEMMA BotsEnterKeeps ==
  ASSUME NEW m \in Match, Sound(m), Prepared(m)
  PROVE  Keeps(m, BotsEnter(m)) /\ Prepared(BotsEnter(m))
<1> DEFINE n == AtLatest(m, 1)
           t == AdvanceTimers(n)
           e == [t EXCEPT !.entered = @ \cup ActiveBots(m), !.firstEntered = TRUE,
                          !.deferred = @ \ ActiveBots(m)]
           f == BotsEnter(m)
           idle == \/ m.state # "ENTERING" \/ m.age < 1 \/ ActiveBots(m) = {}
                   \/ Waited(m) # {} /\ Waited(m) \cap m.entered = {}
<1>1. f = IF idle THEN m
          ELSE IF t.state # "ENTERING" THEN t
          ELSE IF EntryPlayers(e) \subseteq e.entered THEN Enter(e, "COUNTDOWN")
          ELSE Redated(m, e)
  BY DEF BotsEnter
<1>2. ~idle => m.state = "ENTERING"
  OBVIOUS
<1> HIDE DEF idle
<1>3. CASE idle
  BY <1>1, <1>3, SoundKeepsItself
<1>4. CASE ~idle
  <2>1. m.state = "ENTERING" /\ ~Terminal(m) /\ ActiveBots(m) \in SUBSET Players
        /\ m.gate = "NONE" /\ ActiveBots(m) \subseteq m.ready
        /\ Active(m) \subseteq m.ready \cup Late(m)
    BY <1>2, <1>4 DEF Terminal, ActiveBots, Players, Active, Match, Sound, Clocked, Entry
  <2>2. /\ n \in Match /\ Keeps(m, n) /\ n.age <= 1 /\ n.age \in Nat
        /\ n.state = m.state /\ n.gate = m.gate
        /\ n.ordinal = m.ordinal /\ n.players = m.players /\ n.forfeited = m.forfeited
        /\ n.finished = m.finished /\ n.qualified = m.qualified /\ n.stage = m.stage
        /\ n.score = m.score /\ n.fixed = m.fixed /\ n.rank = m.rank
        /\ n.map = m.map /\ n.gen = m.gen /\ n.phase = m.phase
        /\ n.ready = m.ready /\ n.entered = m.entered /\ n.failed = m.failed
        /\ n.absent = m.absent /\ n.deferred = m.deferred
    BY <2>1, AtLatestKeeps
  <2> HIDE DEF n
  <2>3. Sound(n) /\ Timely(n) /\ Prepared(n)
    BY <2>1, <2>2 DEF Keeps, Timely, Prepared
  <2>4. /\ t \in Match /\ Keeps(n, t) /\ (Prepared(n) => Prepared(t))
        /\ n.state = "ENTERING" /\ t.state = "ENTERING" => t = n
    BY <2>2, <2>3, AdvanceTimersKeeps
  <2> HIDE DEF t, f
  <2>5. CASE t.state # "ENTERING"
    BY <1>1, <1>4, <2>2, <2>3, <2>4, <2>5, KeepsIsTransitive DEF f
  <2>6. CASE t.state = "ENTERING"
    <3>1. t = n
      BY <2>1, <2>2, <2>4, <2>6
    <3> DEFINE came == m.entered \cup ActiveBots(m)
               left == m.deferred \ ActiveBots(m)
    <3>20. came \in SUBSET Players /\ left \in SUBSET Players
      BY <2>1 DEF Match
    <3>21. e = [n EXCEPT !.entered = came, !.firstEntered = TRUE, !.deferred = left]
      BY <2>2, <3>1
    <3> HIDE DEF came, left, e
    <3>2. /\ e \in Match /\ e.state = m.state /\ e.age = n.age /\ e.gate = m.gate
          /\ e.ordinal = m.ordinal /\ e.players = m.players /\ e.forfeited = m.forfeited
          /\ e.finished = m.finished /\ e.qualified = m.qualified /\ e.stage = m.stage
          /\ e.score = m.score /\ e.fixed = m.fixed /\ e.rank = m.rank
          /\ e.map = m.map /\ e.gen = m.gen /\ e.phase = m.phase
          /\ e.ready = m.ready /\ e.entered = m.entered \cup ActiveBots(m)
          /\ e.absent = m.absent /\ e.deferred = m.deferred \ ActiveBots(m)
      <4>1. e \in Match
        BY <2>2, <3>20, <3>21 DEF Match
      <4>2. QED
        BY <2>2, <3>21, <4>1 DEF Match, came, left
    <3>3. Same(m, e) /\ Clocked(e) /\ Mapped(e) /\ Active(e) = Active(m)
          /\ ActiveBots(e) = ActiveBots(m)
      BY <2>1, <2>2, <3>2, SameFields
    <3>4. Entry(e)
      BY <2>1, <3>2, <3>3 DEF Entry, Late
    <3>5. Keeps(m, e) /\ Sound(e)
      BY <2>1, <3>2, <3>3, <3>4, SameSound DEF Keeps
    <3> DEFINE u == Redated(m, e)
               g == Enter(e, "COUNTDOWN")
    <3>6. /\ u \in Match /\ Keeps(m, u) /\ u.state = m.state
          /\ u.ready = e.ready /\ u.absent = e.absent /\ Active(u) = Active(m)
          /\ ActiveBots(u) = ActiveBots(m)
      BY <2>1, <3>2, <3>4, RedatedKeeps
    <3> HIDE DEF u
    <3>7. CASE EntryPlayers(e) \subseteq e.entered
      <4>1. Active(e) \subseteq e.entered \cup Late(e)
        BY <3>7 DEF EntryPlayers, Late
      <4>2. /\ g \in Match /\ Keeps(e, g) /\ g.state = "COUNTDOWN" /\ g.age = 0 /\ g.gate = "NONE"
            /\ g.ready = e.ready /\ g.entered = e.entered /\ g.absent = e.absent
            /\ g.deferred = e.deferred /\ g.map = e.map
            /\ Active(g) = Active(e)
        BY <2>1, <3>2, <3>5, <4>1, EnterKeeps
      <4> HIDE DEF g
      <4>3. f = g
        BY <1>1, <1>4, <2>6, <3>7 DEF g
      <4>4. QED
        BY <3>5, <4>2, <4>3, KeepsIsTransitive DEF Prepared, f
    <3>8. CASE ~(EntryPlayers(e) \subseteq e.entered)
      <4>1. f = u
        BY <1>1, <1>4, <2>6, <3>8 DEF u
      <4>2. QED
        BY <2>1, <3>6, <4>1 DEF Prepared, f
    <3>9. QED
      BY <3>7, <3>8
  <2>7. QED
    BY <2>5, <2>6
<1>5. QED
  BY <1>3, <1>4

\* drive: it certifies the bots of any match the reducer leaves.
LEMMA DriveKeeps ==
  ASSUME NEW m \in Match, Sound(m), NEW gone \in SUBSET Humans, ~DriveRefused(m, gone)
  PROVE  /\ Drive(m, gone) \in Match /\ Keeps(m, Drive(m, gone)) /\ Prepared(Drive(m, gone))
         /\ m.state = "PLAYING" => Drive(m, gone) = m
<1> DEFINE a == LiftBarrier(m)
           b == MarkAbsent(a, gone)
           c == BotsPrepare(b)
           d == BotsEnter(c)
           f == BotsStart(d)
<1>1. Drive(m, gone) = IF Terminal(m) THEN m ELSE f
  BY DEF Drive
<1>2. CASE Terminal(m)
  BY <1>1, <1>2, SoundKeepsItself DEF Prepared, Terminal
<1>3. CASE ~Terminal(m)
  <2>1. Keeps(m, a) /\ (m.gate = "NONE" => a = m)
    BY <1>3, LiftBarrierKeeps
  <2>2. Sound(a) /\ a \in Match
    BY <2>1 DEF Keeps, Sound
  <2>3. ~BotsRefused(b)
    BY <1>3 DEF DriveRefused
  <2> HIDE DEF a
  <2>4. Keeps(a, b) /\ (a.state \notin {"PREPARING", "ENTERING"} => b = a)
    BY <2>2, MarkAbsentKeeps
  <2>5. Sound(b) /\ b \in Match /\ Keeps(m, b)
    BY <2>1, <2>4, KeepsIsTransitive DEF Keeps, Sound
  <2> HIDE DEF b
  <2>6. Keeps(b, c) /\ Prepared(c) /\ (b.state # "PREPARING" => c = b)
    BY <2>3, <2>5, BotsPrepareKeeps DEF BotsPrepare
  <2>7. Sound(c) /\ c \in Match /\ Keeps(m, c)
    BY <2>5, <2>6, KeepsIsTransitive DEF Keeps, Sound
  <2> HIDE DEF c
  <2>8. Keeps(c, d) /\ Prepared(d) /\ (c.state # "ENTERING" => d = c)
    BY <2>6, <2>7, BotsEnterKeeps DEF BotsEnter
  <2>9. Sound(d) /\ d \in Match /\ Keeps(m, d)
    BY <2>7, <2>8, KeepsIsTransitive DEF Keeps, Sound
  <2> HIDE DEF d
  <2>10. Keeps(d, f) /\ f \in Match /\ Prepared(f) /\ (d.state # "COUNTDOWN" => f = d)
    <3> DEFINE p == [d EXCEPT !.state = "PLAYING"]
    <3>1. f \in {d, p} /\ (d.state # "COUNTDOWN" => f = d)
      BY DEF BotsStart
    <3>2. d.state = "COUNTDOWN" => p \in Match /\ Keeps(d, p) /\ p.state = "PLAYING"
      BY <2>9, PlayingKeeps
    <3> HIDE DEF p, f
    <3>3. QED
      BY <2>8, <2>9, <3>1, <3>2, SoundKeepsItself DEF Prepared
  <2> HIDE DEF f
  <2>11. m.state = "PLAYING" => f = m
    <3>1. m.state = "PLAYING" => m.gate = "NONE"
      BY DEF Sound, Clocked, Match
    <3>2. QED
      BY <2>1, <2>4, <2>6, <2>8, <2>10, <3>1
  <2>12. QED
    BY <1>1, <1>3, <2>9, <2>10, <2>11, KeepsIsTransitive
<1>4. QED
  BY <1>2, <1>3

-----------------------------------------------------------------------------
(* The transactions *)

\* A match begins with everybody in it.
LEMMA NewMatchIsGood ==
  Good(NewMatch)
<1> DEFINE phase == PhaseFrom(1, Cardinality(Players))
           none  == [p \in Players |-> 0]
           n == NewMatch
<1>1. Cardinality(Players) \in Nat
  BY CountedPlayers
<1>2. phase \in Phases
  BY <1>1, Ladder, PhaseFromIsPhase
<1>3. none \in Counts /\ \A p \in Players : none[p] = 0
  BY DEF Counts
<1>4. /\ n.state = "MAP_SELECTION" /\ n.age = 0 /\ n.gate = "INTRO" /\ n.votes = {}
      /\ n.resolved = FALSE /\ n.ordinal = 1 /\ n.phase = phase /\ n.gen = 1
      /\ n.rerolls = 0 /\ n.players = Players /\ n.forfeited = {} /\ n.ready = {}
      /\ n.deferred = {} /\ n.qualified = {} /\ n.finished = FALSE /\ n.map = NoOne
      /\ n.stage = none /\ n.score = none /\ n.fixed = none /\ n.rank = none
  BY DEF NewMatch
<1>5. n \in Match
  <2> HIDE DEF phase, none
  <2>1. n = [state |-> "MAP_SELECTION", age |-> 0, gate |-> "INTRO",
             votes |-> {}, resolved |-> FALSE,
             ordinal |-> 1, phase |-> phase, gen |-> 1,
             rerolls |-> 0, players |-> Players, forfeited |-> {}, ready |-> {},
             failed |-> {}, absent |-> {}, deferred |-> {}, entered |-> {},
             firstEntered |-> FALSE, open |-> {}, used |-> none,
             best |-> none, qualified |-> {}, finished |-> FALSE,
             map |-> NoOne, nextMap |-> NoOne,
             stage |-> none, score |-> none, fixed |-> none, rank |-> none,
             winner |-> NoOne]
    BY DEF NewMatch, phase, none
  <2> HIDE DEF n
  <2>2. QED
    BY <1>2, <1>3, <2>1 DEF Match, States
<1> HIDE DEF n, phase, none
<1>6. InMatch(n) = Players /\ Active(n) = Players /\ In(n, n.ordinal) = Players
      /\ ~Terminal(n)
  BY <1>3, <1>4 DEF InMatch, Active, In, Terminal
<1>7. Ranked(n)
  BY <1>3, <1>4 DEF Ranked
<1>8. Accounted(n) /\ Decided(n)
  BY <1>4, <1>6, EntrantsAssumption DEF Accounted, Decided
<1>9. Clocked(n) /\ Mapped(n) /\ Entry(n) /\ Prepared(n)
  BY <1>4 DEF Clocked, Mapped, Entry, Prepared
<1>10. QED
  BY <1>5, <1>7, <1>8, <1>9 DEF Good, Sound, Standing, n

\* A tick of the worker or of a reader.
LEMMA TickKeeps ==
  ASSUME NEW m \in Match, Good(m), NEW gone \in SUBSET Humans,
         ~DriveRefused(m, gone), ~DriveRefused(ReduceTick(Drive(m, gone)), gone)
  PROVE  LET f == Drive(ReduceTick(Drive(m, gone)), gone) IN
         /\ Keeps(m, f) /\ Prepared(f)
         /\ m.state = "PLAYING" /\ m.age < 2 => f = m
<1> DEFINE d == Drive(m, gone)
           r == ReduceTick(d)
           f == Drive(r, gone)
<1>1. Sound(m) /\ Prepared(m)
  BY DEF Good
<1>2. d \in Match /\ Keeps(m, d) /\ Prepared(d) /\ (m.state = "PLAYING" => d = m)
  BY <1>1, DriveKeeps
<1>3. ~DriveRefused(r, gone)
  OBVIOUS
<1> HIDE DEF d
<1>4. Sound(d) /\ Timely(d)
  BY <1>2 DEF Keeps, Timely
<1>5. Keeps(d, r)
  BY <1>2, <1>4, ReduceTickKeeps
<1>6. m.state = "PLAYING" /\ m.age < 2 => r = m
  <2>1. SUFFICES ASSUME m.state = "PLAYING", m.age < 2 PROVE r = m
    OBVIOUS
  <2>2. d = m
    BY <1>2, <2>1
  <2>3. AdvanceTimers(m) = m
    BY <1>1, <2>1, AdvanceTimersKeeps DEF Timely
  <2>4. QED
    BY <2>1, <2>2, <2>3 DEF ReduceTick
<1> HIDE DEF r
<1>7. Sound(r) /\ r \in Match
  BY <1>5 DEF Keeps, Sound
<1>8. /\ Keeps(r, f) /\ Prepared(f) /\ (r.state = "PLAYING" => f = r)
  BY <1>3, <1>7, DriveKeeps
<1> HIDE DEF f
<1>9. Keeps(m, f)
  BY <1>1, <1>2, <1>5, <1>8, KeepsIsTransitive
<1>10. QED
  BY <1>6, <1>8, <1>9 DEF f, r, d

\* A command of a participant (dispatch), and of two the audio of whose map failed.
LEMMA CommandKeeps ==
  ASSUME Good(match), NEW gone \in SUBSET Humans,
         NEW p \in Humans, NEW c \in Command(p), Accepted(c, gone)
  PROVE  Keeps(match, Drive(Reduced(c, gone), gone)) /\ Prepared(Drive(Reduced(c, gone), gone))
<1> DEFINE d == Drive(match, gone)
           r == Reduce(d, c)
           s == Reduced(c, gone)
<1>1. Sound(match) /\ match \in Match /\ Prepared(match)
  BY DEF Good, Sound
<1>2. ~DriveRefused(match, gone) /\ ~Refused(d, c) /\ ~DriveRefused(s, gone)
  BY DEF Accepted
<1>3. d \in Match /\ Keeps(match, d) /\ Prepared(d)
  BY <1>1, <1>2, DriveKeeps
<1>4. s = AudioChecked(r, c)
  BY DEF Reduced
<1> HIDE DEF d
<1>5. Sound(d) /\ Timely(d)
  BY <1>3 DEF Keeps, Timely
<1>6. Keeps(d, r) /\ (c.type = "PREPARATION_FAILED" => Prepared(r))
  BY <1>2, <1>3, <1>5, ReduceKeeps
<1> HIDE DEF r, s
<1>7. Sound(r) /\ r \in Match
  BY <1>6 DEF Keeps, Sound
<1>8. Keeps(r, s)
  <2>1. CASE s = r
    BY <1>7, <2>1, SoundKeepsItself
  <2>2. CASE s # r
    <3>1. /\ c.type = "PREPARATION_FAILED" /\ r.state \in {"PREPARING", "ENTERING"}
          /\ s = InvalidateMap(r)
      BY <1>4, <2>2 DEF AudioChecked
    <3>2. QED
      BY <1>6, <1>7, <3>1, InvalidateMapKeeps
  <2>3. QED
    BY <2>1, <2>2
<1>9. Sound(s) /\ s \in Match /\ Keeps(match, s)
  BY <1>1, <1>3, <1>6, <1>8, KeepsIsTransitive DEF Keeps, Sound
<1>10. Keeps(s, Drive(s, gone)) /\ Prepared(Drive(s, gone))
  BY <1>2, <1>9, DriveKeeps
<1>11. QED
  BY <1>1, <1>9, <1>10, KeepsIsTransitive DEF s

\* Time passes and nothing else.
LEMMA ElapseKeeps ==
  ASSUME NEW m \in Match, Good(m), NEW age \in Moments(m)
  PROVE  LET f == [m EXCEPT !.age = age] IN
         Keeps(m, f) /\ Prepared(f) /\ ~Terminal(m) /\ f.state = m.state
<1> DEFINE f == [m EXCEPT !.age = age]
<1>1. Sound(m) /\ Prepared(m) /\ m.age \in Nat
  BY DEF Good, Sound, Match
<1>2. /\ age \in Nat
      /\ \/ m.gate = "INTRO"
         \/ m.state \in {"PREPARING", "ENTERING", "COUNTDOWN", "PLAYING"} /\ age <= 2
         \/ m.state = "ROUND_RESULT" /\ age <= 1
  BY <1>1 DEF Moments
<1>3. ~Terminal(m) /\ (m.state # "MAP_SELECTION" => age <= 2)
  BY <1>1, <1>2 DEF Sound, Clocked, Terminal
<1>4. /\ f \in Match /\ f.state = m.state /\ f.age = age /\ f.gate = m.gate
      /\ f.ordinal = m.ordinal /\ f.players = m.players /\ f.forfeited = m.forfeited
      /\ f.finished = m.finished /\ f.qualified = m.qualified /\ f.stage = m.stage
      /\ f.score = m.score /\ f.fixed = m.fixed /\ f.rank = m.rank
      /\ f.map = m.map /\ f.gen = m.gen /\ f.phase = m.phase
      /\ f.ready = m.ready /\ f.entered = m.entered
      /\ f.absent = m.absent /\ f.deferred = m.deferred
  BY <1>2 DEF Match
<1> HIDE DEF f
<1>5. Same(m, f)
  BY <1>3, <1>4 DEF Same, Terminal
<1>6. Clocked(f) /\ Mapped(f)
  BY <1>1, <1>3, <1>4 DEF Sound, Clocked, Mapped
<1>7. Active(f) = Active(m) /\ ActiveBots(f) = ActiveBots(m) /\ Waited(f) = Waited(m)
      /\ Late(f) = Late(m)
  BY <1>4 DEF Active, ActiveBots, Waited, Late
<1>8. Entry(f) /\ Prepared(f)
  BY <1>1, <1>4, <1>7 DEF Sound, Entry, Prepared
<1>9. QED
  BY <1>1, <1>3, <1>4, <1>5, <1>6, <1>8, SameSound DEF f

\* Every transaction leaves a good match, and the standings of a match that runs
\* only grow.
LEMMA TransactionsKeep ==
  ASSUME Good(match), [Next]_vars
  PROVE  /\ Good(match')
         /\ match' = match \/ (~Terminal(match) /\ Grown(match, match'))
<1> DEFINE Kept == Keeps(match, match') /\ Prepared(match') /\ ~Terminal(match)
<1>0. Sound(match) /\ match \in Match
  BY DEF Good, Sound
<1>1. Kept => Good(match') /\ Grown(match, match')
  BY DEF Keeps, Good
<1>2. SUFFICES Kept \/ match' = match
  BY <1>1
<1> HIDE DEF Kept
<1>3. ASSUME NEW gone \in SUBSET Expected(match), Tick(gone)
      PROVE  Kept
  <2>1. gone \in SUBSET Humans
    BY DEF Expected
  <2>2. TickTaken(gone) /\ match' = Ticked(gone)
    BY <1>3 DEF Tick, Commit
  <2>3. QED
    BY <1>0, <2>1, <2>2, TickKeeps DEF TickTaken, Ticked, Kept
<1>4. ASSUME NEW gone \in SUBSET Expected(match), NEW p \in Humans, NEW c \in Command(p),
             Dispatch(c, gone)
      PROVE  Kept
  <2>1. gone \in SUBSET Humans
    BY DEF Expected
  <2>2. Accepted(c, gone) /\ match' = Drive(Reduced(c, gone), gone)
    BY <1>4 DEF Dispatch, Commit
  <2>3. ~Terminal(match)
    BY <2>2 DEF Accepted
  <2>4. QED
    BY <2>1, <2>2, <2>3, CommandKeeps DEF Kept
<1>5. CASE Elapse
  <2>1. PICK age \in Moments(match) : match' = [match EXCEPT !.age = age]
    BY <1>5 DEF Elapse
  <2>2. QED
    BY <1>0, <2>1, ElapseKeeps DEF Kept
<1>6. CASE EndSelection \/ EndStray
  <2>1. PICK found \in {job, stray}, holds \in BOOLEAN :
          found # NoOne /\ (Install(found, holds) \/ FailSelection(holds))
    BY <1>6 DEF EndSelection, EndStray
  <2>2. CASE Install(found, holds)
    <3>1. match' = match \/ (MapTarget(match) = found /\ match' = InstallMap(match, found))
      BY <2>2 DEF Install, Confirms, Commit
    <3>2. QED
      BY <1>0, <2>1, <3>1, InstallMapKeeps DEF Kept
  <2>3. CASE FailSelection(holds)
    <3>1. match' = match \/ (match.state = "MAP_SELECTION" /\ match' = GiveUpOnMaps(match))
      BY <2>3 DEF FailSelection, Commit
    <3>2. match.state = "MAP_SELECTION" => ~Terminal(match)
      BY DEF Terminal
    <3>3. QED
      BY <1>0, <3>1, <3>2, GiveUpOnMapsKeeps DEF Kept
  <2>4. QED
    BY <2>1, <2>2, <2>3
<1>7. ASSUME NEW b \in Bots, BotFrame(b)
      PROVE  Kept
  <2>1. /\ match.state = "PLAYING" /\ b \in Players
        /\ \E c \in Command(b) :
             /\ c.type \in {"ATTEMPT_START", "PROGRESS", "ATTEMPT_END"}
             /\ Taken(match, c) /\ match' = Effect(match, c)
    BY <1>7 DEF BotFrame, Commit, Players
  <2>2. PICK c \in Command(b) :
          /\ c.type \in {"ATTEMPT_START", "PROGRESS", "ATTEMPT_END"}
          /\ Taken(match, c) /\ match' = Effect(match, c)
    BY <2>1
  <2>3. ~Terminal(match)
    BY <2>1 DEF Terminal
  <2>4. Keeps(match, Effect(match, c))
        /\ Effect(match, c).state \in {"PLAYING", "ROUND_RESULT", "FINAL_RESULT"}
    BY <1>0, <2>1, <2>2, <2>3, EffectKeeps
  <2>5. Prepared(match')
    BY <2>2, <2>4 DEF Prepared
  <2>6. QED
    BY <2>2, <2>3, <2>4, <2>5 DEF Kept
<1>8. CASE BeginSelection \/ OvertakeSelection \/ UNCHANGED vars
  BY <1>8 DEF BeginSelection, OvertakeSelection, vars
<1>9. QED
  BY <1>3, <1>4, <1>5, <1>6, <1>7, <1>8 DEF Next

-----------------------------------------------------------------------------
(* How a round ends *)

Unspent(m) == {p \in Active(m) : ~Spent(m, p)}

PlayedBy(m, f) ==
  \/ f.state = "PLAYING"
  \/ f.state = "FINAL_RESULT" /\ Cardinality(Active(f)) <= 1
  \/ m.phase = Tiebreak /\ Cardinality(Unspent(m)) <= 1

\* At most one player is left out of those who spent what they had.
LEMMA OneUnspent ==
  ASSUME NEW m \in Match, NEW p, Unspent(m) \subseteq {p}
  PROVE  Cardinality(Unspent(m)) <= 1
<1>1. IsFiniteSet({p}) /\ Cardinality({p}) = 1
  BY FS_Singleton
<1>2. Cardinality(Unspent(m)) <= Cardinality({p})
  BY <1>1, FS_Subset
<1>3. QED
  BY <1>1, <1>2

\* A surrender ends the round when it leaves one player, or none who has
\* anything left to play (FORFEIT).
LEMMA SurrenderPlaysOut ==
  ASSUME NEW m \in Match, Sound(m), m.state = "PLAYING", NEW p \in Active(m)
  PROVE  PlayedBy(m, Surrender(m, p))
<1> DEFINE floor == Cardinality(m.players)
           gone  == Eliminate([m EXCEPT !.forfeited = @ \cup {p}, !.open = @ \ {p}], {p})
           out   == [gone EXCEPT !.fixed[p] = floor, !.rank[p] = floor]
           f     == Surrender(m, p)
<1>1. ~Terminal(m) /\ m.state # "ROUND_RESULT"
  BY DEF Terminal
<1>2. /\ out \in Match /\ Active(out) = Active(m) \ {p} /\ InMatch(out) = Active(out)
      /\ Cardinality(Active(out)) >= 1 /\ Cardinality(Active(out)) \in Nat
      /\ Loose(out) /\ Mapped(out)
      /\ out.state = m.state /\ out.phase = m.phase /\ out.used = m.used
      /\ out.open = m.open \ {p}
  BY <1>1, SurrenderLeaves
<1>3. f = IF Cardinality(Active(out)) <= 1 THEN LastOneWins(out)
          ELSE IF out.state = "PREPARING" /\ Active(out) \subseteq out.ready
          THEN Enter(out, "ENTERING")
          ELSE IF out.state = "ENTERING" /\ Active(out) \subseteq out.entered
          THEN Enter(out, "COUNTDOWN")
          ELSE IF out.state = "PLAYING" THEN CloseWhenSpent(out) ELSE out
  BY DEF Surrender
<1> HIDE DEF out, f
<1>4. CASE Cardinality(Active(out)) <= 1
  <2> DEFINE w == LastOneWins(out)
  <2>1. Cardinality(Active(out)) = 1
    BY <1>2, <1>4
  <2>2. /\ Sound(w) /\ w.state = "FINAL_RESULT"
        /\ w.players = out.players /\ w.forfeited = out.forfeited
    BY <1>2, <2>1, LastOneWinsDecides
  <2> HIDE DEF w
  <2>3. Active(w) = Active(out)
    BY <2>2 DEF Active
  <2>4. f = w
    BY <1>3, <1>4 DEF w
  <2>5. QED
    BY <1>4, <2>2, <2>3, <2>4 DEF PlayedBy, f
<1>5. CASE ~(Cardinality(Active(out)) <= 1)
  <2>1. f = CloseWhenSpent(out)
    BY <1>2, <1>3, <1>5
  <2>2. CASE out.phase = Tiebreak /\ \A q \in Active(out) : Spent(out, q)
    <3>1. Unspent(m) \subseteq {p}
      BY <1>2, <2>2 DEF Unspent, Spent
    <3>2. QED
      BY <1>2, <2>2, <3>1, OneUnspent DEF PlayedBy
  <2>3. CASE ~(out.phase = Tiebreak /\ \A q \in Active(out) : Spent(out, q))
    <3>1. f = out
      BY <2>1, <2>3 DEF CloseWhenSpent
    <3>2. QED
      BY <1>2, <3>1 DEF PlayedBy, f
  <2>4. QED
    BY <2>2, <2>3
<1>6. QED
  BY <1>4, <1>5

\* A report ends the round when nobody but its player has anything left to play.
LEMMA RecordPlaysOut ==
  ASSUME NEW m \in Match, m.state = "PLAYING", NEW p \in Active(m),
         NEW progress \in Nat, NEW ended \in BOOLEAN
  PROVE  PlayedBy(m, RecordAttempt(m, p, progress, ended))
<1> DEFINE n == [m EXCEPT !.best[p] = IF progress > @ THEN progress ELSE @,
                          !.open = IF ended THEN @ \ {p} ELSE @]
           f == RecordAttempt(m, p, progress, ended)
<1>1. f = CloseWhenSpent(n)
  BY DEF RecordAttempt
<1>2. /\ n.state = m.state /\ n.phase = m.phase /\ n.used = m.used
      /\ n.open \in {m.open, m.open \ {p}}
      /\ n.players = m.players /\ n.forfeited = m.forfeited
  BY DEF Match
<1> HIDE DEF n, f
<1>3. Active(n) = Active(m)
  BY <1>2 DEF Active
<1>4. CASE n.phase = Tiebreak /\ \A q \in Active(n) : Spent(n, q)
  <2>1. Unspent(m) \subseteq {p}
    BY <1>2, <1>3, <1>4 DEF Unspent, Spent
  <2>2. QED
    BY <1>2, <1>4, <2>1, OneUnspent DEF PlayedBy
<1>5. CASE ~(n.phase = Tiebreak /\ \A q \in Active(n) : Spent(n, q))
  <2>1. f = n
    BY <1>1, <1>5 DEF CloseWhenSpent
  <2>2. QED
    BY <1>2, <2>1 DEF PlayedBy, f
<1>6. QED
  BY <1>4, <1>5

\* So does what else a command may do while the round is played.
LEMMA EffectPlaysOut ==
  ASSUME NEW m \in Match, Sound(m), m.state = "PLAYING",
         NEW p \in Players, NEW c \in Command(p), Taken(m, c)
  PROVE  PlayedBy(m, Effect(m, c)) /\ c.type # "PREPARATION_FAILED"
<1> DEFINE f == Effect(m, c)
<1>1. /\ c.who = p
      /\ c.type \in {"DIFFICULTY_VOTE", "PRESENTATION_COMPLETE", "FORFEIT", "ASSETS_READY",
                     "ENTERED", "ATTEMPT_START", "PREPARATION_FAILED", "PROGRESS",
                     "ATTEMPT_END"}
      /\ c.type \in {"PROGRESS", "ATTEMPT_END"} => c.progress \in Nat
  BY ServiceAssumption DEF Command
<1>2. ~Terminal(m) /\ m.gate = "NONE" /\ Active(m) \subseteq Players
  BY StandingSets DEF Terminal, Sound, Clocked, Match
<1>3. c.type # "PREPARATION_FAILED" /\ c.type # "DIFFICULTY_VOTE"
  BY <1>2 DEF Taken
<1>4. CASE c.type = "PRESENTATION_COMPLETE"
  <2>1. f = m
    BY <1>4 DEF Effect
  <2>2. QED
    BY <1>3, <2>1 DEF PlayedBy
<1>5. CASE c.type = "FORFEIT"
  <2>1. f = Surrender(m, p) /\ p \in Active(m)
    BY <1>1, <1>5 DEF Effect, Taken
  <2>2. QED
    BY <1>3, <2>1, SurrenderPlaysOut
<1>6. CASE c.type = "ASSETS_READY"
  <2>1. f = MakeReady(m, p) /\ p \in Active(m)
    BY <1>1, <1>6 DEF Effect, Taken
  <2>2. f.state = "PLAYING"
    BY <1>2, <2>1, MakeReadyKeeps
  <2>3. QED
    BY <1>3, <2>2 DEF PlayedBy
<1>7. CASE c.type = "ENTERED"
  <2>1. f = EnterScene(m, p) /\ p \in Active(m) /\ p \in m.ready
    BY <1>1, <1>7 DEF Effect, Taken
  <2>2. f.state = "PLAYING"
    BY <1>2, <2>1, EnterSceneKeeps
  <2>3. QED
    BY <1>3, <2>2 DEF PlayedBy
<1>8. CASE c.type = "ATTEMPT_START"
  <2>1. f = BeginAttempt(m, p) /\ p \in Active(m)
    BY <1>1, <1>8 DEF Effect, Taken
  <2>2. f.state = m.state
    BY <1>2, <2>1, BeginAttemptKeeps
  <2>3. QED
    BY <1>3, <2>2 DEF PlayedBy
<1>9. CASE c.type \in {"PROGRESS", "ATTEMPT_END"}
  <2>1. p \in Active(m) /\ c.progress \in Nat
        /\ \E ended \in BOOLEAN : f = RecordAttempt(m, p, c.progress, ended)
    BY <1>1, <1>9 DEF Effect, Taken
  <2>2. QED
    BY <1>3, <2>1, RecordPlaysOut
<1>10. QED
  BY <1>1, <1>3, <1>4, <1>5, <1>6, <1>7, <1>8, <1>9

\* A command that comes in time takes effect on the very match it finds.
LEMMA CommandPlaysOut ==
  ASSUME Good(match), match.state = "PLAYING", match.age < 2,
         NEW gone \in SUBSET Humans, NEW p \in Humans, NEW c \in Command(p),
         Accepted(c, gone)
  PROVE  PlayedBy(match, Drive(Reduced(c, gone), gone))
<1> DEFINE e == Effect(match, c)
<1>1. Sound(match) /\ match \in Match /\ p \in Players /\ ~Terminal(match)
  BY DEF Good, Sound, Players, Terminal
<1>2. Drive(match, gone) = match
  BY <1>1, DriveKeeps DEF Accepted
<1>3. AdvanceTimers(match) = match
  BY <1>1, AdvanceTimersKeeps DEF Timely
<1>4. Concerns(match, match)
  BY <1>1 DEF Concerns
<1>5. Taken(match, c)
  BY <1>2, <1>3, <1>4 DEF Accepted, Refused
<1>6. PlayedBy(match, e) /\ c.type # "PREPARATION_FAILED"
  BY <1>1, <1>5, EffectPlaysOut
<1>7. Reduced(c, gone) = e
  BY <1>1, <1>2, <1>3, <1>4, <1>6 DEF Reduced, Reduce, AudioChecked
<1>8. c.type = "DIFFICULTY_VOTE" => p \in Humans
  OBVIOUS
<1>9. Keeps(match, e)
  BY <1>1, <1>5, <1>8, EffectKeeps
<1>10. ~DriveRefused(e, gone)
  BY <1>7 DEF Accepted
<1> HIDE DEF e
<1>11. Sound(e) /\ e \in Match
  BY <1>9 DEF Keeps, Sound
<1>12. e.state \in {"PLAYING", "FINAL_RESULT"} => Drive(e, gone) = e
  BY <1>10, <1>11, DriveKeeps DEF Drive, Terminal
<1>13. QED
  BY <1>6, <1>7, <1>12 DEF PlayedBy

-----------------------------------------------------------------------------
(* The counters of a match *)

Counters == {"state", "age", "gen", "rerolls", "used"}

(* A map is given up MaxRerolls times at most, with a generation for each, and
   the next time the match is cancelled; an attempt of a Death Match is counted
   before it begins. *)
Paced(m) ==
  /\ Counters \subseteq DOMAIN m
  /\ m.age \in 0..4
  /\ m.gen \in 1..(MaxRerolls + 1) /\ m.rerolls \in 0..(MaxRerolls + 1)
  /\ m.state # "CANCELLED" => m.rerolls <= MaxRerolls /\ m.gen <= m.rerolls + 1
  /\ m.used \in [Players -> 0..TiebreakAttempts]

(* What a function that counts nothing leaves alone. *)
Uncounted(m, f) ==
  /\ Counters \subseteq DOMAIN f
  /\ f.age \in 0..4 /\ f.gen = m.gen /\ f.rerolls = m.rerolls /\ f.used = m.used
  /\ m.state = "CANCELLED" => f.state = "CANCELLED"

\* Every function of the reducer and of the adapter keeps the bounds: it counts
\* nothing, begins anew with a round, rerolls a match that is not yet cancelled, or
\* begins an attempt that is still to be had.
LEMMA UncountedIsPaced ==
  ASSUME NEW m, Paced(m), NEW f, Uncounted(m, f)
  PROVE  Paced(f)
BY DEF Paced, Uncounted

LEMMA EnterIsPaced ==
  ASSUME NEW m, Paced(m), NEW state, m.state # "CANCELLED" \/ state = "CANCELLED"
  PROVE  Paced(Enter(m, state)) /\ Enter(m, state).state = state
<1>1. Uncounted(m, Enter(m, state)) /\ Enter(m, state).state = state
  BY DEF Paced, Uncounted, Enter, Counters
<1>2. QED
  BY <1>1, UncountedIsPaced

LEMMA StabilizeIsPaced ==
  ASSUME NEW m, Paced(m)
  PROVE  Paced(Stabilize(m)) /\ Stabilize(m).state = m.state
<1>1. \A r : Uncounted(m, [m EXCEPT !.rank = r]) /\ [m EXCEPT !.rank = r].state = m.state
  BY DEF Paced, Uncounted, Counters
<1>2. QED
  BY <1>1, UncountedIsPaced DEF Stabilize

LEMMA EliminateIsPaced ==
  ASSUME NEW m, Paced(m), NEW out
  PROVE  Paced(Eliminate(m, out)) /\ Eliminate(m, out).state = m.state
<1>1. PICK s, c, q : Eliminate(m, out) = [m EXCEPT !.stage = s, !.score = c, !.qualified = q]
  BY DEF Eliminate
<1>2. Uncounted(m, Eliminate(m, out)) /\ Eliminate(m, out).state = m.state
  BY <1>1 DEF Paced, Uncounted, Counters
<1>3. QED
  BY <1>2, UncountedIsPaced

LEMMA FinishMatchIsPaced ==
  ASSUME NEW m, Paced(m), NEW winner, winner = NoOne \/ m.state # "CANCELLED"
  PROVE  Paced(FinishMatch(m, winner))
<1>1. CASE winner = NoOne
  <2> DEFINE f == [Enter(m, "CANCELLED") EXCEPT !.gate = "NONE"]
  <2>1. Uncounted(m, f)
    BY DEF Paced, Uncounted, Counters, Enter
  <2>2. FinishMatch(m, winner) = f
    BY <1>1 DEF FinishMatch
  <2>3. QED
    BY <2>1, <2>2, UncountedIsPaced
<1>2. CASE winner # NoOne
  <2> DEFINE over == [Enter(m, "FINAL_RESULT") EXCEPT !.gate = "NONE", !.winner = winner]
             s == Stabilize(over)
             f == [s EXCEPT !.rank[winner] = 1]
  <2>1. Uncounted(m, over) /\ over.state = "FINAL_RESULT"
    BY <1>2 DEF Paced, Uncounted, Counters, Enter
  <2>2. Paced(over)
    BY <2>1, UncountedIsPaced
  <2>3. FinishMatch(m, winner) = f
    BY <1>2 DEF FinishMatch
  <2> HIDE DEF over
  <2>4. Paced(s)
    BY <2>2, StabilizeIsPaced
  <2> HIDE DEF s
  <2>5. Uncounted(s, f)
    BY <2>4 DEF Paced, Uncounted, Counters
  <2>6. QED
    BY <2>3, <2>4, <2>5, UncountedIsPaced
<1>3. QED
  BY <1>1, <1>2

LEMMA RerollIsPaced ==
  ASSUME NEW m, Paced(m), m.state # "CANCELLED"
  PROVE  Paced(Reroll(m))
<1>0. MaxRerolls \in Nat
  BY FormatAssumption
<1>1. CASE m.rerolls >= MaxRerolls
  <2> DEFINE c == [Enter(m, "CANCELLED") EXCEPT !.gate = "NONE"]
             r == [m EXCEPT !.rerolls = @ + 1]
             f == [Enter(r, "CANCELLED") EXCEPT !.gate = "NONE"]
  <2>1. Reroll(m) = f
    BY <1>1 DEF Reroll, FinishMatch
  <2>2. /\ Counters \subseteq DOMAIN f /\ f.age = 0 /\ f.gen = m.gen /\ f.used = m.used
        /\ f.rerolls = m.rerolls + 1 /\ f.state = "CANCELLED"
    BY DEF Paced, Counters, Enter
  <2>3. m.rerolls + 1 \in 0..(MaxRerolls + 1)
    BY <1>0 DEF Paced
  <2>4. QED
    BY <2>1, <2>2, <2>3 DEF Paced
<1>2. CASE ~(m.rerolls >= MaxRerolls)
  <2> DEFINE f == Reroll(m)
  <2>1. /\ Counters \subseteq DOMAIN f /\ f.age = 0 /\ f.gen = m.gen + 1 /\ f.used = m.used
        /\ f.rerolls = m.rerolls + 1 /\ f.state = "MAP_SELECTION"
    BY <1>2 DEF Paced, Counters, Enter, Reroll
  <2>2. /\ m.rerolls + 1 \in 0..(MaxRerolls + 1) /\ m.gen + 1 \in 1..(MaxRerolls + 1)
        /\ m.rerolls + 1 <= MaxRerolls /\ m.gen + 1 <= m.rerolls + 2
    BY <1>0, <1>2 DEF Paced
  <2> HIDE DEF f
  <2>3. Paced(f)
    BY <2>1, <2>2 DEF Paced
  <2>4. QED
    BY <2>3 DEF f
<1>3. QED
  BY <1>1, <1>2

LEMMA LastOneWinsIsPaced ==
  ASSUME NEW m, Paced(m), m.state # "CANCELLED"
  PROVE  Paced(LastOneWins(m))
<1> DEFINE f == [m EXCEPT !.finished = TRUE, !.qualified = Active(m)]
<1>1. Uncounted(m, f) /\ f.state = m.state
  BY DEF Paced, Uncounted, Counters
<1>2. Paced(f) /\ f.state # "CANCELLED"
  BY <1>1, UncountedIsPaced
<1>3. PICK winner : LastOneWins(m) = FinishMatch(f, winner)
  BY DEF LastOneWins
<1> HIDE DEF f
<1>4. QED
  BY <1>2, <1>3, FinishMatchIsPaced

LEMMA FinishRoundIsPaced ==
  ASSUME NEW m, Paced(m), m.state # "CANCELLED"
  PROVE  Paced(FinishRound(m))
<1> DEFINE closed == [m EXCEPT !.open = {}, !.finished = TRUE, !.qualified = Passing(m)]
           out == Eliminate(closed, Active(m) \ Passing(m))
           s == Stabilize(out)
           r == Enter(s, "ROUND_RESULT")
           f == [r EXCEPT !.gate = "ROUND_RESULT"]
<1>1. \/ \E winner : FinishRound(m) = FinishMatch(out, winner)
      \/ FinishRound(m) = f
  BY DEF FinishRound
<1>2. Uncounted(m, closed) /\ closed.state = m.state
  BY DEF Paced, Uncounted, Counters
<1>3. Paced(closed) /\ closed.state # "CANCELLED"
  BY <1>2, UncountedIsPaced
<1> HIDE DEF closed
<1>4. Paced(out) /\ out.state # "CANCELLED"
  BY <1>3, EliminateIsPaced
<1> HIDE DEF out
<1>5. Paced(s) /\ s.state # "CANCELLED"
  BY <1>4, StabilizeIsPaced
<1> HIDE DEF s
<1>6. Paced(r) /\ r.state = "ROUND_RESULT"
  BY <1>5, EnterIsPaced
<1> HIDE DEF r
<1>7. Uncounted(r, f)
  BY <1>6 DEF Paced, Uncounted, Counters
<1>8. Paced(f)
  BY <1>6, <1>7, UncountedIsPaced
<1> HIDE DEF f
<1>9. QED
  BY <1>1, <1>4, <1>8, FinishMatchIsPaced

LEMMA StartRoundIsPaced ==
  ASSUME NEW m, Paced(m), NEW ordinal, NEW phase, NEW players
  PROVE  Paced(StartRound(m, ordinal, phase, players))
<1> DEFINE none == [p \in Players |-> 0]
           r == [m EXCEPT
                   !.state = "MAP_SELECTION", !.age = 0, !.gate = "NONE",
                   !.ordinal = ordinal, !.phase = phase, !.gen = 1, !.rerolls = 0,
                   !.players = players, !.forfeited = {}, !.ready = {}, !.failed = {},
                   !.absent = {}, !.deferred = {}, !.entered = {}, !.firstEntered = FALSE,
                   !.open = {}, !.used = none, !.best = none, !.qualified = {},
                   !.finished = FALSE, !.map = NoOne, !.nextMap = NoOne]
           e == Enter(r, "PREPARING")
           f == [e EXCEPT !.map = m.nextMap]
<1>0. MaxRerolls \in Nat /\ none \in [Players -> 0..TiebreakAttempts]
  BY FormatAssumption
<1>1. StartRound(m, ordinal, phase, players) \in {f, r}
  BY DEF StartRound
<1> HIDE DEF none
<1>2. /\ Counters \subseteq DOMAIN r /\ r.state = "MAP_SELECTION" /\ r.age = 0
      /\ r.gen = 1 /\ r.rerolls = 0 /\ r.used = none
  BY DEF Paced, Counters
<1> HIDE DEF r
<1>3. Paced(r) /\ r.state # "CANCELLED"
  BY <1>0, <1>2 DEF Paced
<1>4. Paced(e) /\ e.state = "PREPARING"
  BY <1>3, EnterIsPaced
<1> HIDE DEF e
<1>5. Uncounted(e, f)
  BY <1>4 DEF Paced, Uncounted, Counters
<1>6. Paced(f)
  BY <1>4, <1>5, UncountedIsPaced
<1>7. QED
  BY <1>1, <1>3, <1>6

LEMMA AdvanceTimersIsPaced ==
  ASSUME NEW m, Paced(m)
  PROVE  Paced(AdvanceTimers(m))
<1> DEFINE a == ResolveVote(m)
           b == LiftGate(a)
           c == OpenPreparation(b)
           d == PresentBarriers(c)
           e == PreparationDeadline(d)
           f == EntryDeadline(e)
           g == PlayClock(f)
<1>1. Paced(a)
  <2>1. Uncounted(m, a)
    BY DEF ResolveVote, Paced, Uncounted, Counters
  <2>2. QED
    BY <2>1, UncountedIsPaced
<1> HIDE DEF a
<1>2. Paced(b)
  <2>1. Uncounted(a, b)
    BY <1>1 DEF LiftGate, Paced, Uncounted, Counters
  <2>2. QED
    BY <1>1, <2>1, UncountedIsPaced
<1> HIDE DEF b
<1>3. Paced(c)
  BY <1>2, EnterIsPaced DEF OpenPreparation
<1> HIDE DEF c
<1>4. Paced(d)
  <2> DEFINE p == IF c.state = "PREPARING" /\ AllPresent(c, c.ready) THEN Enter(c, "ENTERING") ELSE c
  <2>1. Paced(p)
    BY <1>3, EnterIsPaced
  <2>2. d = p \/ (p.state = "ENTERING" /\ d = Enter(p, "COUNTDOWN"))
    BY DEF PresentBarriers
  <2> HIDE DEF p, d
  <2>3. QED
    BY <2>1, <2>2, EnterIsPaced
<1> HIDE DEF d
<1>5. \A k, done : Paced(k) => /\ Paced(DeferExcept(k, done))
                              /\ DeferExcept(k, done).state = k.state
  <2> TAKE k, done
  <2> HAVE Paced(k)
  <2>1. Uncounted(k, DeferExcept(k, done)) /\ DeferExcept(k, done).state = k.state
    BY DEF DeferExcept, Paced, Uncounted, Counters
  <2>2. QED
    BY <2>1, UncountedIsPaced
<1>6. Paced(e)
  <2>1. \/ e = d
        \/ /\ d.state = "PREPARING"
           /\ \/ e = Reroll(d)
              \/ e = Enter(DeferExcept(d, d.ready), "ENTERING")
    BY DEF PreparationDeadline
  <2> HIDE DEF e
  <2>2. QED
    BY <1>4, <1>5, <2>1, EnterIsPaced, RerollIsPaced
<1> HIDE DEF e
<1>7. Paced(f)
  <2>1. \/ f = e
        \/ /\ e.state = "ENTERING"
           /\ \/ f = Reroll(e)
              \/ f = Enter(e, "COUNTDOWN")
              \/ f = Enter(DeferExcept(e, e.entered), "COUNTDOWN")
    BY DEF EntryDeadline
  <2> HIDE DEF f
  <2>2. QED
    BY <1>5, <1>6, <2>1, EnterIsPaced, RerollIsPaced
<1> HIDE DEF f
<1>8. Paced(g)
  <2> DEFINE q == [f EXCEPT !.state = "PLAYING"]
             p == IF f.state = "COUNTDOWN" /\ f.age >= 1 THEN q ELSE f
  <2>1. f.state = "COUNTDOWN" => Uncounted(f, q)
    BY <1>7 DEF Paced, Uncounted, Counters
  <2>2. Paced(p)
    BY <1>7, <2>1, UncountedIsPaced
  <2>3. g = p \/ (p.state = "PLAYING" /\ g = FinishRound(p))
    BY DEF PlayClock
  <2> HIDE DEF p, g
  <2>4. QED
    BY <2>2, <2>3, FinishRoundIsPaced
<1>9. QED
  BY <1>8 DEF AdvanceTimers, a, b, c, d, e, f, g

LEMMA ReduceTickIsPaced ==
  ASSUME NEW m, Paced(m)
  PROVE  Paced(ReduceTick(m))
BY AdvanceTimersIsPaced, StartRoundIsPaced DEF ReduceTick

LEMMA CloseWhenSpentIsPaced ==
  ASSUME NEW m, Paced(m), m.state # "CANCELLED"
  PROVE  Paced(CloseWhenSpent(m))
BY FinishRoundIsPaced DEF CloseWhenSpent

LEMMA SurrenderIsPaced ==
  ASSUME NEW m, Paced(m), m.state # "CANCELLED", NEW p
  PROVE  Paced(Surrender(m, p))
<1> DEFINE floor == Cardinality(m.players)
           left == [m EXCEPT !.forfeited = @ \cup {p}, !.open = @ \ {p}]
           gone == Eliminate(left, {p})
           out  == [gone EXCEPT !.fixed[p] = floor, !.rank[p] = floor]
<1>1. Uncounted(m, left) /\ left.state = m.state
  BY DEF Paced, Uncounted, Counters
<1>2. Paced(left) /\ left.state # "CANCELLED"
  BY <1>1, UncountedIsPaced
<1> HIDE DEF left
<1>3. Paced(gone) /\ gone.state # "CANCELLED"
  BY <1>2, EliminateIsPaced
<1> HIDE DEF gone
<1>4. Uncounted(gone, out) /\ out.state = gone.state
  BY <1>3 DEF Paced, Uncounted, Counters
<1>5. Paced(out) /\ out.state # "CANCELLED"
  BY <1>3, <1>4, UncountedIsPaced
<1>6. Surrender(m, p) \in {LastOneWins(out), Enter(out, "ENTERING"), Enter(out, "COUNTDOWN"),
                           CloseWhenSpent(out), out}
  BY DEF Surrender, gone, left
<1> HIDE DEF out
<1>7. QED
  BY <1>5, <1>6, LastOneWinsIsPaced, EnterIsPaced, CloseWhenSpentIsPaced

LEMMA EffectIsPaced ==
  ASSUME NEW m, Paced(m), m.state # "CANCELLED",
         NEW p \in Players, NEW c \in Command(p), Taken(m, c)
  PROVE  Paced(Effect(m, c))
<1>1. c.who = p /\ c.type \in {"DIFFICULTY_VOTE", "PRESENTATION_COMPLETE", "FORFEIT",
        "ASSETS_READY", "ENTERED", "ATTEMPT_START", "PREPARATION_FAILED", "PROGRESS",
        "ATTEMPT_END"}
  BY DEF Command
<1>2. CASE c.type = "DIFFICULTY_VOTE"
  <2>1. PICK v, w : CastVote(m, p) = [[m EXCEPT !.votes = v] EXCEPT !.resolved = w]
    BY DEF CastVote
  <2>2. Uncounted(m, CastVote(m, p))
    BY <2>1 DEF Paced, Uncounted, Counters
  <2>3. QED
    BY <1>1, <1>2, <2>2, UncountedIsPaced DEF Effect
<1>3. CASE c.type = "PRESENTATION_COMPLETE"
  BY <1>3 DEF Effect
<1>4. CASE c.type = "FORFEIT"
  BY <1>1, <1>4, SurrenderIsPaced DEF Effect
<1>5. CASE c.type = "ASSETS_READY"
  <2> DEFINE in == [m EXCEPT !.ready = @ \cup {p}, !.failed = @ \ {p}]
  <2>1. Uncounted(m, in) /\ in.state = m.state
    BY DEF Paced, Uncounted, Counters
  <2>2. MakeReady(m, p) \in {in, Enter(in, "ENTERING")}
    BY DEF MakeReady
  <2> HIDE DEF in
  <2>3. QED
    BY <1>1, <1>5, <2>1, <2>2, UncountedIsPaced, EnterIsPaced DEF Effect
<1>6. CASE c.type = "PREPARATION_FAILED"
  <2> DEFINE in == [m EXCEPT !.failed = @ \cup {p}]
  <2>1. Uncounted(m, in) /\ in.state = m.state
    BY DEF Paced, Uncounted, Counters
  <2>2. ReportFailure(m, p) \in {in, Reroll(in)}
    BY DEF ReportFailure
  <2> HIDE DEF in
  <2>3. QED
    BY <1>1, <1>6, <2>1, <2>2, UncountedIsPaced, RerollIsPaced DEF Effect
<1>7. CASE c.type = "ENTERED"
  <2> DEFINE in == [m EXCEPT !.entered = @ \cup {p}, !.absent = @ \ {p},
                             !.deferred = @ \ {p}, !.firstEntered = TRUE]
  <2>1. Uncounted(m, in) /\ in.state = m.state
    BY DEF Paced, Uncounted, Counters
  <2>2. EnterScene(m, p) \in {in, Enter(in, "COUNTDOWN")}
    BY DEF EnterScene
  <2> HIDE DEF in
  <2>3. QED
    BY <1>1, <1>7, <2>1, <2>2, UncountedIsPaced, EnterIsPaced DEF Effect
<1>8. CASE c.type = "ATTEMPT_START"
  <2> DEFINE f == BeginAttempt(m, p)
             count == IF m.phase = Tiebreak THEN m.used[p] + 1 ELSE m.used[p]
  <2>1. m.phase = Tiebreak => m.used[p] < TiebreakAttempts
    BY <1>1, <1>8 DEF Taken
  <2>2. count \in 0..TiebreakAttempts
    BY <2>1, FormatAssumption DEF Paced
  <2>3. f = [m EXCEPT !.open = @ \cup {p}, !.used[p] = count]
    BY DEF BeginAttempt
  <2> HIDE DEF f, count
  <2>4. /\ Counters \subseteq DOMAIN f /\ f.age = m.age /\ f.gen = m.gen
        /\ f.rerolls = m.rerolls /\ f.state = m.state
        /\ f.used = [m.used EXCEPT ![p] = count]
    BY <2>3 DEF Paced, Counters
  <2>5. f.used \in [Players -> 0..TiebreakAttempts]
    BY <2>2, <2>4 DEF Paced
  <2>6. Paced(f)
    BY <2>4, <2>5 DEF Paced
  <2>7. QED
    BY <1>1, <1>8, <2>6 DEF Effect, f
<1>9. CASE c.type \in {"PROGRESS", "ATTEMPT_END"}
  <2>1. PICK ended \in BOOLEAN : Effect(m, c) = RecordAttempt(m, p, c.progress, ended)
    BY <1>1, <1>9 DEF Effect
  <2> DEFINE in == [m EXCEPT !.best[p] = IF c.progress > @ THEN c.progress ELSE @,
                             !.open = IF ended THEN @ \ {p} ELSE @]
  <2>2. Effect(m, c) = CloseWhenSpent(in)
    BY <2>1 DEF RecordAttempt
  <2>3. Uncounted(m, in) /\ in.state = m.state
    BY DEF Paced, Uncounted, Counters
  <2> HIDE DEF in
  <2>4. QED
    BY <2>2, <2>3, UncountedIsPaced, CloseWhenSpentIsPaced
<1>10. QED
  BY <1>1, <1>2, <1>3, <1>4, <1>5, <1>6, <1>7, <1>8, <1>9

LEMMA ReduceIsPaced ==
  ASSUME NEW m, Paced(m), NEW p \in Players, NEW c \in Command(p), ~Refused(m, c)
  PROVE  Paced(Reduce(m, c))
<1> DEFINE t == AdvanceTimers(m)
<1>1. Paced(t)
  BY AdvanceTimersIsPaced
<1>2. Concerns(m, t) => Taken(t, c) /\ t.state # "CANCELLED"
  BY DEF Refused, Concerns, Terminal
<1> HIDE DEF t
<1>3. Concerns(m, t) => Paced(Effect(t, c))
  BY <1>1, <1>2, EffectIsPaced
<1>4. QED
  BY <1>1, <1>3 DEF Reduce, t

LEMMA MapsArePaced ==
  ASSUME NEW m, Paced(m)
  PROVE  /\ \A target : Paced(InstallMap(m, target))
         /\ Paced(GiveUpOnMaps(m)) /\ Paced(InvalidateMap(m))
<1> DEFINE t == AdvanceTimers(m)
<1>1. Paced(t)
  BY AdvanceTimersIsPaced
<1>2. Concerns(m, t) => t.state # "CANCELLED"
  BY DEF Concerns, Terminal
<1>3. GiveUpOnMaps(m) = (IF Concerns(m, t) THEN FinishMatch(t, NoOne) ELSE t)
      /\ InvalidateMap(m) = (IF Concerns(m, t) THEN Reroll(t) ELSE t)
  BY DEF GiveUpOnMaps, InvalidateMap
<1>4. ASSUME NEW target PROVE Paced(InstallMap(m, target))
  <2> DEFINE e == Enter(t, "PREPARING")
             x == [t EXCEPT !.nextMap = target]
             y == [t EXCEPT !.map = target]
             z == [e EXCEPT !.map = target]
  <2>1. \/ InstallMap(m, target) \in {t, x, y}
        \/ Concerns(m, t) /\ InstallMap(m, target) = z
    BY DEF InstallMap
  <2> HIDE DEF t
  <2>2. Paced(x) /\ Paced(y)
    <3>1. Uncounted(t, x) /\ Uncounted(t, y)
      BY <1>1 DEF Paced, Uncounted, Counters
    <3>2. QED
      BY <1>1, <3>1, UncountedIsPaced
  <2>3. Concerns(m, t) => Paced(e)
    BY <1>1, <1>2, EnterIsPaced
  <2> HIDE DEF e
  <2>4. Concerns(m, t) => Paced(z)
    <3>1. Paced(e) => Uncounted(e, z)
      BY DEF Paced, Uncounted, Counters
    <3>2. QED
      BY <2>3, <3>1, UncountedIsPaced
  <2> HIDE DEF x, y, z
  <2>5. QED
    BY <1>1, <2>1, <2>2, <2>4
<1> HIDE DEF t
<1>5. QED
  BY <1>1, <1>2, <1>3, <1>4, FinishMatchIsPaced, RerollIsPaced

LEMMA LiftBarrierIsPaced ==
  ASSUME NEW m, Paced(m)
  PROVE  Paced(LiftBarrier(m))
<1> DEFINE c == [type |-> "PRESENTATION_COMPLETE"]
           t == AdvanceTimers(m)
<1>1. Paced(t)
  BY AdvanceTimersIsPaced
<1>2. Reduce(m, c) \in {m, t}
  BY DEF Reduce, Effect
<1>3. QED
  BY <1>1, <1>2 DEF LiftBarrier

LEMMA BotsArePaced ==
  ASSUME NEW m, Paced(m)
  PROVE  Paced(BotsPrepare(m)) /\ Paced(BotsEnter(m)) /\ Paced(BotsStart(m))
<1>1. ASSUME NEW age \in 0..4
      PROVE  Paced(AtLatest(m, age)) /\ Paced(AdvanceTimers(AtLatest(m, age)))
  <2>1. Uncounted(m, AtLatest(m, age))
    BY DEF AtLatest, Paced, Uncounted, Counters
  <2>2. QED
    BY <2>1, UncountedIsPaced, AdvanceTimersIsPaced
<1>2. ASSUME NEW f, Paced(f) PROVE Paced(Redated(m, f))
  <2>1. Uncounted(f, [f EXCEPT !.age = m.age])
    BY <1>2 DEF Paced, Uncounted, Counters
  <2>2. QED
    BY <1>2, <2>1, UncountedIsPaced DEF Redated
<1>3. Paced(BotsPrepare(m))
  <2> DEFINE t == AdvanceTimers(AtLatest(m, 0))
             f == [t EXCEPT !.failed = @ \cup ActiveBots(m)]
             r == [t EXCEPT !.ready = @ \cup ActiveBots(m)]
  <2>1. Paced(t)
    BY <1>1
  <2>2. \/ BotsPrepare(m) \in {m, t}
        \/ /\ t.state = "PREPARING"
           /\ BotsPrepare(m) \in {Reroll(f), Redated(m, f), Enter(r, "ENTERING"), Redated(m, r)}
    BY DEF BotsPrepare
  <2> HIDE DEF t
  <2>3. Uncounted(t, f) /\ Uncounted(t, r) /\ f.state = t.state /\ r.state = t.state
    BY <2>1 DEF Paced, Uncounted, Counters
  <2>4. Paced(f) /\ Paced(r)
    BY <2>1, <2>3, UncountedIsPaced
  <2> HIDE DEF f, r
  <2>5. QED
    BY <1>2, <2>1, <2>2, <2>3, <2>4, RerollIsPaced, EnterIsPaced
<1>4. Paced(BotsEnter(m))
  <2> DEFINE t == AdvanceTimers(AtLatest(m, 1))
             e == [t EXCEPT !.entered = @ \cup ActiveBots(m), !.firstEntered = TRUE,
                            !.deferred = @ \ ActiveBots(m)]
  <2>1. Paced(t)
    BY <1>1
  <2>2. \/ BotsEnter(m) \in {m, t}
        \/ t.state = "ENTERING" /\ BotsEnter(m) \in {Enter(e, "COUNTDOWN"), Redated(m, e)}
    BY DEF BotsEnter
  <2> HIDE DEF t
  <2>3. Uncounted(t, e) /\ e.state = t.state
    BY <2>1 DEF Paced, Uncounted, Counters
  <2>4. Paced(e)
    BY <2>1, <2>3, UncountedIsPaced
  <2> HIDE DEF e
  <2>5. QED
    BY <1>2, <2>1, <2>2, <2>3, <2>4, EnterIsPaced
<1>5. Paced(BotsStart(m))
  <2>1. m.state = "COUNTDOWN" => Uncounted(m, [m EXCEPT !.state = "PLAYING"])
    BY DEF Paced, Uncounted, Counters
  <2>2. QED
    BY <2>1, UncountedIsPaced DEF BotsStart
<1>6. QED
  BY <1>3, <1>4, <1>5

LEMMA DriveIsPaced ==
  ASSUME NEW m, Paced(m), NEW gone
  PROVE  Paced(Drive(m, gone))
<1> DEFINE a == LiftBarrier(m)
           b == MarkAbsent(a, gone)
           c == BotsPrepare(b)
           d == BotsEnter(c)
           f == BotsStart(d)
<1>1. Drive(m, gone) = IF Terminal(m) THEN m ELSE f
  BY DEF Drive
<1>2. Paced(a)
  BY LiftBarrierIsPaced
<1> HIDE DEF a
<1>3. Paced(a) => Paced(b)
  <2>1. Paced(a) => Uncounted(a, b)
    BY DEF MarkAbsent, Paced, Uncounted, Counters
  <2>2. QED
    BY <2>1, UncountedIsPaced
<1> HIDE DEF b
<1>4. Paced(b) => Paced(c)
  BY BotsArePaced
<1> HIDE DEF c
<1>5. Paced(c) => Paced(d)
  BY BotsArePaced
<1> HIDE DEF d
<1>6. Paced(d) => Paced(f)
  BY BotsArePaced
<1> HIDE DEF f
<1>7. QED
  BY <1>1, <1>2, <1>3, <1>4, <1>5, <1>6

(* The counters of the match, and what is reported and counted beside it. *)
Counted ==
  /\ Paced(match) /\ match.ordinal <= MaxRounds
  /\ audio \subseteq Humans /\ failures \in 0..MapFailureLimit

LEMMA NewMatchIsCounted ==
  Init => Counted
<1> SUFFICES ASSUME Init PROVE Counted
  OBVIOUS
<1>1. /\ Counters \subseteq DOMAIN match /\ match.state = "MAP_SELECTION" /\ match.age = 0
      /\ match.gen = 1 /\ match.rerolls = 0 /\ match.used = [p \in Players |-> 0]
      /\ match.ordinal = 1
  BY DEF Init, NewMatch, Counters
<1>2. Paced(match)
  BY <1>1, FormatAssumption DEF Paced
<1>3. QED
  BY <1>1, <1>2, ServiceAssumption DEF Counted, Init

LEMMA TransactionsCount ==
  ASSUME Good(match), Counted, [Next]_vars
  PROVE  Counted'
<1>1. Paced(match) /\ match.ordinal <= MaxRounds /\ audio \subseteq Humans
      /\ failures \in 0..MapFailureLimit
  BY DEF Counted
<1>2. ASSUME NEW m, Paced(m), NEW reporters \in SUBSET Humans, Commit(m, reporters)
      PROVE  Paced(match') /\ match'.ordinal <= MaxRounds /\ audio' \subseteq Humans
  BY <1>2 DEF Commit, Bounded
<1>3. ASSUME NEW gone \in SUBSET Expected(match), Tick(gone)
      PROVE  Counted'
  <2>1. Paced(Ticked(gone))
    BY <1>1, DriveIsPaced, ReduceTickIsPaced DEF Ticked
  <2>2. Commit(Ticked(gone), audio) /\ failures' = failures
    BY <1>3 DEF Tick
  <2>3. QED
    BY <1>1, <1>2, <2>1, <2>2 DEF Counted
<1>4. ASSUME NEW gone \in SUBSET Expected(match), NEW p \in Humans, NEW c \in Command(p),
             Dispatch(c, gone)
      PROVE  Counted'
  <2> DEFINE d == Drive(match, gone)
             r == Reduce(d, c)
             s == Reduced(c, gone)
  <2>1. Paced(d)
    BY <1>1, DriveIsPaced
  <2>2. ~Refused(d, c) /\ p \in Players
    BY <1>4 DEF Dispatch, Accepted, Players
  <2>3. s \in {r, InvalidateMap(r)}
    BY DEF Reduced, AudioChecked
  <2> HIDE DEF d, s
  <2>4. Paced(r)
    BY <2>1, <2>2, ReduceIsPaced
  <2> HIDE DEF r
  <2>5. Paced(s)
    BY <2>3, <2>4, MapsArePaced
  <2>6. Paced(Drive(s, gone))
    BY <2>5, DriveIsPaced
  <2>7. Reporters(c) \in SUBSET Humans
    BY <1>1 DEF Reporters, Command
  <2>8. Commit(Drive(s, gone), Reporters(c)) /\ failures' = failures
    BY <1>4 DEF Dispatch, s
  <2>9. QED
    BY <1>1, <1>2, <2>6, <2>7, <2>8 DEF Counted
<1>5. CASE Elapse
  <2>1. PICK age \in Moments(match) : match' = [match EXCEPT !.age = age]
    BY <1>5 DEF Elapse
  <2>2. match \in Match
    BY DEF Good, Sound
  <2>3. age \in 0..4
    BY <1>1 DEF Moments, Paced
  <2>4. Uncounted(match, match') /\ match'.ordinal = match.ordinal
    BY <1>1, <2>1, <2>2, <2>3 DEF Paced, Uncounted, Counters, Match
  <2>5. Paced(match')
    BY <1>1, <2>4, UncountedIsPaced
  <2>6. QED
    BY <1>1, <1>5, <2>4, <2>5 DEF Counted, Elapse
<1>6. CASE EndSelection \/ EndStray
  <2>1. PICK found \in {job, stray}, holds \in BOOLEAN :
          Install(found, holds) \/ FailSelection(holds)
    BY <1>6 DEF EndSelection, EndStray
  <2>2. CASE Install(found, holds)
    <3>1. \/ UNCHANGED <<match, audio, failures>>
          \/ Commit(InstallMap(match, found), audio) /\ failures' = 0
      BY <2>2 DEF Install
    <3>2. Paced(InstallMap(match, found)) /\ 0 \in 0..MapFailureLimit
      BY <1>1, MapsArePaced, ServiceAssumption
    <3>3. QED
      BY <1>1, <1>2, <3>1, <3>2 DEF Counted
  <2>3. CASE FailSelection(holds)
    <3>1. failures' \in 0..MapFailureLimit
      BY <1>1, <2>3, ServiceAssumption DEF FailSelection
    <3>2. UNCHANGED <<match, audio>> \/ Commit(GiveUpOnMaps(match), audio)
      BY <2>3 DEF FailSelection
    <3>3. Paced(GiveUpOnMaps(match))
      BY <1>1, MapsArePaced
    <3>4. QED
      BY <1>1, <1>2, <3>1, <3>2, <3>3 DEF Counted
  <2>4. QED
    BY <2>1, <2>2, <2>3
<1>7. ASSUME NEW b \in Bots, BotFrame(b)
      PROVE  Counted'
  <2>1. PICK c \in Command(b) : Taken(match, c) /\ Commit(Effect(match, c), audio)
    BY <1>7 DEF BotFrame
  <2>2. b \in Players /\ match.state # "CANCELLED" /\ failures' = failures
    BY <1>7 DEF BotFrame, Players
  <2>3. Paced(Effect(match, c))
    BY <1>1, <2>1, <2>2, EffectIsPaced
  <2>4. QED
    BY <1>1, <1>2, <2>1, <2>2, <2>3 DEF Counted
<1>8. CASE BeginSelection \/ OvertakeSelection \/ UNCHANGED vars
  BY <1>1, <1>8 DEF BeginSelection, OvertakeSelection, vars, Counted
<1>9. QED
  BY <1>3, <1>4, <1>5, <1>6, <1>7, <1>8 DEF Next

\* The place of a player is one of as many as there are players.
LEMMA RanksAreCounted ==
  ASSUME NEW m \in Match, Ranked(m), NEW p \in Players
  PROVE  m.rank[p] \in 0..Cardinality(Players)
<1>1. Cardinality(Players) \in Nat /\ Cardinality(Players) >= 1 /\ IsFiniteSet(Players)
  BY EntrantsAssumption, CountedPlayers
<1>2. CASE m.stage[p] = 0
  BY <1>1, <1>2 DEF Ranked
<1>3. CASE m.fixed[p] # 0
  <2>1. m.rank[p] = Cardinality(In(m, m.stage[p])) /\ In(m, m.stage[p]) \subseteq Players
    BY <1>3 DEF Ranked, In
  <2>2. QED
    BY <1>1, <2>1, FS_Subset, FS_CardinalityType
<1>4. CASE m.stage[p] # 0 /\ m.fixed[p] = 0
  <2>1. m.rank[p] = 1 + Cardinality(Better(m, p))
    BY <1>4 DEF Ranked
  <2>2. m.stage[p] \in Nat /\ m.score[p] \in Nat
    BY StandingSets DEF Match, Counts
  <2>3. p \notin Better(m, p) /\ Better(m, p) \subseteq Players
    BY <1>4, <2>2 DEF Better, Ahead
  <2>4. Cardinality(Better(m, p)) \in Nat /\ Cardinality(Better(m, p)) < Cardinality(Players)
    BY <1>1, <2>3, FS_Subset, FS_CardinalityType
  <2>5. QED
    BY <1>1, <2>1, <2>4
<1>5. QED
  BY <1>2, <1>3, <1>4

-----------------------------------------------------------------------------
(* Theorems *)

\* Every transaction leaves the fields of a match in order, whatever it was asked
\* and whoever was away (reduceSurvivalMatch, drive, selectMap).
THEOREM SurvivalInvariant == Spec => []Good(match)
<1>1. Init => Good(match)
  BY NewMatchIsGood DEF Init
<1>3. Good(match) /\ [Next]_vars => Good(match)'
  BY TransactionsKeep
<1>4. QED
  BY <1>1, <1>3, PTL DEF Spec

\* The match keeps its bounds: its clock and its rounds, the generations of a map
\* and the rerolls, the places and the attempts of a Death Match, and what is
\* reported and counted beside it (survival-match.ts, survival-engine.service.ts).
THEOREM SurvivalTypes == Spec => []SurvivalTypeOK
<1>1. Init => Good(match) /\ Counted
  BY NewMatchIsGood, NewMatchIsCounted DEF Init
<1>2. Good(match) /\ Counted /\ [Next]_vars => Good(match)' /\ Counted'
  BY TransactionsKeep, TransactionsCount
<1>3. ASSUME Good(match), Counted
      PROVE  SurvivalTypeOK
  <2>1. match \in Match /\ Ranked(match) /\ Paced(match)
    BY <1>3 DEF Good, Sound, Standing, Counted
  <2>2. /\ match.state \in States /\ match.age \in 0..4
        /\ match.gate \in {"NONE", "INTRO", "ROUND_RESULT"} /\ match.phase \in Phases
    BY <2>1 DEF Match, Paced
  <2>3. match.ordinal \in Nat \ {0} /\ match.ordinal <= MaxRounds /\ MaxRounds \in Nat
    BY <1>3, <2>1, ServiceAssumption DEF Match, Counted
  <2>4. match.gen \in 1..(MaxRerolls + 1) /\ match.rerolls \in 0..(MaxRerolls + 1)
    BY <2>1 DEF Paced
  <2>5. {match.players, match.forfeited, match.ready, match.failed, match.absent,
         match.deferred, match.entered, match.open, match.qualified} \subseteq SUBSET Players
    BY <2>1 DEF Match, Players
  <2>6. ASSUME NEW p \in Players
        PROVE  /\ match.stage[p] \in 0..MaxRounds
               /\ match.rank[p] \in 0..Cardinality(Players)
               /\ match.used[p] \in 0..TiebreakAttempts
    <3>1. match.stage[p] \in Nat /\ match.stage[p] <= match.ordinal
      BY <2>1, StandingSets DEF Ranked
    <3>2. match.used[p] \in 0..TiebreakAttempts
      BY <2>1 DEF Paced
    <3>3. QED
      BY <2>1, <2>3, <3>1, <3>2, RanksAreCounted
  <2>7. QED
    BY <1>3, <2>2, <2>3, <2>4, <2>5, <2>6 DEF SurvivalTypeOK, Counted
<1>4. Good(match) /\ Counted => SurvivalTypeOK
  BY <1>3
<1>5. QED
  BY <1>1, <1>2, <1>4, PTL DEF Spec

\* The map that is played was looked for for this round, generation and phase.
THEOREM SurvivalMapIsForItsRound == Spec => []MapIsForItsRound
<1>1. Good(match) => MapIsForItsRound
  BY DEF Good, Sound, Mapped, MapIsForItsRound
<1>2. QED
  BY <1>1, SurvivalInvariant, PTL

\* No barrier or deadline leaves an active player behind unmarked.
THEOREM SurvivalNobodyLockedOut == Spec => []NobodyLockedOut
<1>1. Good(match) => NobodyLockedOut
  BY DEF Good, Sound, Entry, Late, NobodyLockedOut
<1>2. QED
  BY <1>1, SurvivalInvariant, PTL

\* The standings follow what was played.
THEOREM SurvivalStandingsFollowPlay == Spec => []StandingsFollowPlay
<1>1. ASSUME Good(match)
      PROVE  StandingsFollowPlay
  <2>1. match \in Match /\ Ranked(match) /\ Accounted(match) /\ Decided(match)
    BY <1>1 DEF Good, Sound, Standing
  <2>2. EveryoneIsAccountedFor
    BY <2>1 DEF EveryoneIsAccountedFor, Accounted, Decided, Terminal
  <2>3. ASSUME match.state = "FINAL_RESULT"
        PROVE  RanksFollowPlay /\ match.rank[match.winner] = 1
    <3>1. match.winner \in Players /\ InMatch(match) = {match.winner}
      BY <2>1, <2>3 DEF Decided
    <3>2. match.stage[match.winner] = 0
          /\ \A p \in Players \ {match.winner} : match.stage[p] # 0
      BY <3>1 DEF InMatch
    <3>3. match.rank[match.winner] = 1
      BY <2>1, <2>3, <3>1, <3>2 DEF Ranked
    <3>4. ASSUME NEW p \in Players \ {match.winner}, NEW q \in Players \ {match.winner}
          PROVE  IF SurrenderedTogether(p, q) THEN match.rank[p] = match.rank[q]
                 ELSE Ahead(match, p, q) => match.rank[p] < match.rank[q]
      <4>1. CASE SurrenderedTogether(p, q)
        BY <2>1, <4>1 DEF SurrenderedTogether, Ranked
      <4>2. CASE ~SurrenderedTogether(p, q)
        BY <2>1, <3>2, <4>2, AheadRanks DEF SurrenderedTogether
      <4>3. QED
        BY <4>1, <4>2
    <3>5. QED
      BY <3>3, <3>4 DEF RanksFollowPlay
  <2>4. QED
    BY <2>2, <2>3 DEF StandingsFollowPlay
<1>2. QED
  BY <1>1, SurvivalInvariant, PTL

\* The place a player was paid for never changes.
THEOREM SurvivalPrizeStands == Spec => PrizeStands
<1> DEFINE Kept == \A p \in Humans : HasPrize(match, p) /\ HasPrize(match', p)
                                     => Prize(match', p) = Prize(match, p)
<1>1. ASSUME Good(match), [Next]_vars
      PROVE  [Kept]_vars
  <2>1. Good(match') /\ (match' = match \/ (~Terminal(match) /\ Grown(match, match')))
    BY <1>1, TransactionsKeep
  <2>2. CASE match' = match
    BY <2>2
  <2>3. CASE ~Terminal(match) /\ Grown(match, match')
    <3>1. /\ match \in Match /\ match' \in Match
          /\ Standing(match) /\ Standing(match')
      BY <1>1, <2>1 DEF Good, Sound
    <3>2. ASSUME NEW p \in Humans, HasPrize(match, p)
          PROVE  Prize(match', p) = Prize(match, p)
      <4>1. p \in Players
        BY DEF Players
      <4>2. match.stage[p] # 0
        BY <2>3, <3>1, <3>2, <4>1 DEF HasPrize, Standing, Ranked, Terminal
      <4>3. /\ match'.rank[p] = match.rank[p] /\ match'.fixed[p] = match.fixed[p]
            /\ match.fixed[p] = 0 =>
                 \A q \in Players : match'.rank[q] = match.rank[p] <=> match.rank[q] = match.rank[p]
        BY <2>3, <3>1, <4>1, <4>2, PlaceStands
      <4>4. match.fixed[p] = 0 => {q \in Players : match'.rank[q] = match'.rank[p]}
                                  = {q \in Players : match.rank[q] = match.rank[p]}
        BY <4>3
      <4>5. LastPlace(match', p) = LastPlace(match, p)
        BY <4>3, <4>4 DEF LastPlace
      <4>6. QED
        BY <4>3, <4>5 DEF Prize
    <3>3. QED
      BY <3>2
  <2>4. QED
    BY <2>1, <2>2, <2>3
<1>2. PrizeStands <=> [][Kept]_vars
  BY DEF PrizeStands
<1> HIDE DEF Kept
<1>3. QED
  BY <1>1, <1>2, SurvivalInvariant, PTL DEF Spec

\* A round ends before its time only when it is played out.
THEOREM SurvivalPlayedOut == Spec => PlayedOut
<1> DEFINE Kept == match.state = "PLAYING" /\ match'.state # "PLAYING" =>
                     \/ match.age = 2
                     \/ Cardinality(Active(match')) <= 1
                     \/ /\ match.phase = Tiebreak
                        /\ Cardinality({p \in Active(match) : ~Spent(match, p)}) <= 1
<1>1. ASSUME Good(match), [Next]_vars
      PROVE  Kept
  <2>1. Sound(match) /\ match \in Match /\ match.age \in Nat
        /\ (match.state = "PLAYING" => match.age <= 2)
    BY <1>1 DEF Good, Sound, Clocked, Match
  <2>2. SUFFICES ASSUME match.state = "PLAYING", match.age < 2
                 PROVE  match'.state = "PLAYING" \/ PlayedBy(match, match')
    BY <2>1 DEF PlayedBy, Unspent
  <2>3. ASSUME NEW gone \in SUBSET Expected(match), Tick(gone)
        PROVE  match'.state = "PLAYING"
    <3>1. gone \in SUBSET Humans
      BY DEF Expected
    <3>2. TickTaken(gone) /\ match' = Ticked(gone)
      BY <2>3 DEF Tick, Commit
    <3>3. Ticked(gone) = match
      BY <1>1, <2>1, <2>2, <3>1, <3>2, TickKeeps DEF TickTaken, Ticked
    <3>4. QED
      BY <2>2, <3>2, <3>3
  <2>4. ASSUME NEW gone \in SUBSET Expected(match), NEW p \in Humans, NEW c \in Command(p),
               Dispatch(c, gone)
        PROVE  PlayedBy(match, match')
    <3>1. gone \in SUBSET Humans
      BY DEF Expected
    <3>2. Accepted(c, gone) /\ match' = Drive(Reduced(c, gone), gone)
      BY <2>4 DEF Dispatch, Commit
    <3>3. QED
      BY <1>1, <2>2, <3>1, <3>2, CommandPlaysOut
  <2>5. CASE Elapse
    <3>1. PICK age \in Moments(match) : match' = [match EXCEPT !.age = age]
      BY <2>5 DEF Elapse
    <3>2. QED
      BY <1>1, <2>1, <2>2, <3>1, ElapseKeeps
  <2>6. CASE EndSelection \/ EndStray
    <3>1. MapTarget(match) = NoOne
      BY <2>2 DEF MapTarget
    <3>2. match' = match
      BY <2>2, <2>6, <3>1 DEF EndSelection, EndStray, Install, Confirms, FailSelection
    <3>3. QED
      BY <2>2, <3>2
  <2>7. ASSUME NEW b \in Bots, BotFrame(b)
        PROVE  PlayedBy(match, match')
    <3>1. b \in Players
          /\ \E c \in Command(b) : Taken(match, c) /\ match' = Effect(match, c)
      BY <2>7 DEF BotFrame, Commit, Players
    <3>2. PICK c \in Command(b) : Taken(match, c) /\ match' = Effect(match, c)
      BY <3>1
    <3>3. QED
      BY <2>1, <2>2, <3>1, <3>2, EffectPlaysOut
  <2>8. CASE BeginSelection \/ OvertakeSelection \/ UNCHANGED vars
    BY <2>2, <2>8 DEF BeginSelection, OvertakeSelection, vars
  <2>9. QED
    BY <1>1, <2>3, <2>4, <2>5, <2>6, <2>7, <2>8 DEF Next
<1>2. PlayedOut <=> [][Kept]_vars
  BY DEF PlayedOut
<1> HIDE DEF Kept
<1>3. QED
  BY <1>1, <1>2, SurvivalInvariant, PTL DEF Spec

=============================================================================
