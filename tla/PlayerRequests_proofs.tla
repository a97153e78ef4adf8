------------------------ MODULE PlayerRequests_proofs ------------------------
(***************************************************************************)
(* What holds of the requests of one player's devices: of the pauses of a   *)
(* match for every budget, any number of pauses, failures, restarts and     *)
(* scenes, and however late a request that its client gave up is handled;   *)
(* and of the way into a match for any number of sessions, matches, faults  *)
(* and acts of the player, and for every length of the two leases.          *)
(***************************************************************************)
EXTENDS MCPlayerRequests, FiniteSetTheorems, SequenceTheorems, TLAPS

-----------------------------------------------------------------------------
(* The pauses of a match *)

PauseAnswer == [remaining : Remains, accepted : BOOLEAN]

Wish(s) == [lease : Lease(s), paused : BOOLEAN, answer : {None} \cup PauseAnswer]

(* A request that is under way names a lease that its client began. *)
Requests ==
  /\ \A s \in Side :
       request[s] # None => request[s] \in Wish(s) /\ client[s].lease # 0
  /\ \A r \in late :
       /\ r \in [side : Side, lease : Nat, paused : BOOLEAN]
       /\ r.lease \in Lease(r.side)

(* What a client wants to tell the server is about a lease of its own. *)
Wishes ==
  \A s \in Side : client[s].sync \/ client[s].paused => client[s].lease # 0

(* The policy's record of one side, p, against what happened, h: a lease was
   opened once if it is the present one or retired, and never otherwise; a
   lease that is closed is retired; the time charged is the time it was open,
   up to the budget. *)
Charged(p, h, at) ==
  Least(Budget, p.used + Elapsed(p, at)) = Least(Budget, h.time)

Honest(s, p, h, at) ==
  /\ p \in [used : Remains, lease : Lease(s) \cup {0}, open : BOOLEAN,
            startedAt : Nat, retired : SUBSET Lease(s)]
  /\ h \in [opens : [Lease(s) -> Nat], time : Nat, resumed : SUBSET Lease(s)]
  /\ p.open => p.lease # 0 /\ p.startedAt <= at
  /\ p.lease # 0 /\ ~p.open => p.lease \in p.retired
  /\ \A l \in Lease(s) : /\ h.opens[l] <= 1
                         /\ h.opens[l] = 1 => l = p.lease \/ l \in p.retired
  /\ Charged(p, h, at)

Scenes ==
  /\ scene \in [number : Nat, playing : BOOLEAN]
  /\ lost = None \/ (lost \in [side : Side, by : {"PAUSE", "SURRENDER"}] /\ ~Playing)

ClientOf(s) ==
  [lease : Lease(s) \cup {0}, begun : 0..MaxPauses[s], paused : BOOLEAN,
   sync : BOOLEAN, remaining : Remains, scene : Nat, playing : BOOLEAN,
   pausedIn : Nat]

(* The server's half and the clients' half of the inductive invariant. *)
ServerInv ==
  /\ clock \in Nat
  /\ pause = [s \in Side |-> pause[s]] /\ history = [s \in Side |-> history[s]]
  /\ Scenes
  /\ \A s \in Side : Honest(s, pause[s], history[s], clock)
  /\ ForfeitSpentTheBudget

ClientInv ==
  /\ client = [s \in Side |-> client[s]] /\ request = [s \in Side |-> request[s]]
  /\ \A s \in Side : client[s] \in ClientOf(s)
  /\ Requests /\ Wishes

IInv == ServerInv /\ ClientInv

-----------------------------------------------------------------------------
(* The policy *)

(* A request and an answer are told from none. *)
LEMMA RequestIsSome ==
  /\ \A s \in Side : \A w \in Wish(s) : w # None
  /\ \A a \in PauseAnswer : a # None
  /\ \A l \in [side : Side, by : {"PAUSE", "SURRENDER"}] : l # None
  BY DEF Wish, PauseAnswer, None

(* What happened to the side once its pause became q by a request for lease l. *)
After(h, p, q, l, paused) == Noted(h, q.open /\ q # p, l, paused)

(* Whatever is asked for, and whenever, the record stays honest: a lease opens
   for the first time only, and its time is charged once. *)
LEMMA ChangeHonest ==
  ASSUME NEW s \in Side, NEW p, NEW h, NEW at \in Nat, Honest(s, p, h, at),
         NEW l \in Lease(s), NEW paused \in BOOLEAN
  PROVE  LET q == ChangeMatchPause(p, l, paused, at)
         IN Honest(s, q, After(h, p, q, l, paused), at)
<1> DEFINE q == ChangeMatchPause(p, l, paused, at)
           g == After(h, p, q, l, paused)
<1>l. Lease(s) \subseteq Nat \ {0}
  BY PauseBounds DEF Lease
<1>h. /\ g \in [opens : [Lease(s) -> Nat], time : Nat, resumed : SUBSET Lease(s)]
      /\ g.time = h.time
      /\ g.opens = [h.opens EXCEPT ![l] = IF q.open /\ q # p THEN @ + 1 ELSE @]
  <2> HIDE DEF q
  <2>1. h.opens \in [Lease(s) -> Nat] /\ h.time \in Nat /\ h.resumed \in SUBSET Lease(s)
    BY DEF Honest
  <2>2. [h.opens EXCEPT ![l] = IF q.open /\ q # p THEN @ + 1 ELSE @] \in [Lease(s) -> Nat]
    BY <2>1
  <2>3. QED
    BY <2>1, <2>2 DEF After, Noted
<1>1. CASE Ignored(p, l, paused)
  <2>1. q = p /\ g.opens = h.opens
    BY <1>1, <1>h DEF ChangeMatchPause, Honest
  <2>2. QED
    BY <2>1, <1>h DEF Honest, Charged
<1>2. CASE ~Ignored(p, l, paused)
  <2>1. q = [used      |-> Least(Budget, p.used + Elapsed(p, at)),
             lease     |-> IF paused THEN l ELSE p.lease,
             open      |-> paused,
             startedAt |-> IF paused THEN at ELSE 0,
             retired   |-> p.retired \cup (IF p.open THEN {p.lease} ELSE {})]
    BY <1>2 DEF ChangeMatchPause
  <2>2. Least(Budget, p.used + Elapsed(p, at)) \in Remains
    BY BudgetAssumption DEF Honest, Least, Elapsed, AtLeastZero, Remains
  <2>3. q \in [used : Remains, lease : Lease(s) \cup {0}, open : BOOLEAN,
               startedAt : Nat, retired : SUBSET Lease(s)]
    BY <2>1, <2>2 DEF Honest
  <2>4. /\ q.open => q.lease # 0 /\ q.startedAt <= at
        /\ q.lease # 0 /\ ~q.open => q.lease \in q.retired
    BY <2>1, <1>l, <1>2 DEF Honest, Ignored
  <2>5. ASSUME NEW k \in Lease(s)
        PROVE  g.opens[k] <= 1 /\ (g.opens[k] = 1 => k = q.lease \/ k \in q.retired)
    <3> HIDE DEF q, g
    <3>1. CASE paused
      <4>1. l # p.lease /\ l \notin p.retired /\ h.opens[l] = 0
        BY <3>1, <1>2 DEF Ignored, Honest
      <4>2. g.opens[l] <= 1 /\ \A j \in Lease(s) \ {l} : g.opens[j] = h.opens[j]
        BY <4>1, <1>h DEF Honest
      <4>3. h.opens[k] = 1 => k = p.lease \/ k \in p.retired
        BY DEF Honest
      <4>4. k = p.lease => k \in q.retired
        BY <2>1, <1>l DEF Honest
      <4>5. QED
        <5>1. CASE k = l
          BY <5>1, <4>2, <2>1, <3>1
        <5>2. CASE k # l
          <6>1. g.opens[k] = h.opens[k] /\ h.opens[k] <= 1
            BY <5>2, <4>2 DEF Honest
          <6>2. QED
            BY <6>1, <4>3, <4>4, <2>1
        <5>3. QED
          BY <5>1, <5>2
    <3>2. CASE ~paused
      BY <3>2, <2>1, <1>h DEF Honest
    <3>3. QED
      BY <3>1, <3>2
  <2>6. Charged(q, g, at)
    <3>1. Elapsed(q, at) = 0 /\ q.used = Least(Budget, p.used + Elapsed(p, at))
      BY <2>1 DEF Elapsed, AtLeastZero
    <3>2. Least(Budget, q.used + 0) = q.used
      BY <2>2, <3>1, BudgetAssumption DEF Least, Remains
    <3>3. QED
      BY <3>1, <3>2, <1>h DEF Charged, Honest
  <2>7. QED
    BY <2>3, <2>4, <2>5, <2>6, <1>h DEF Honest
<1>3. QED
  BY <1>1, <1>2

(* A tick of an open pause is a tick of its side's pause time. *)
LEMMA TickHonest ==
  ASSUME NEW s \in Side, NEW p, NEW h, NEW at \in Nat, Honest(s, p, h, at)
  PROVE  Honest(s, p, [h EXCEPT !.time = IF p.open THEN @ + 1 ELSE @], at + 1)
  BY BudgetAssumption DEF Honest, Charged, Least, Elapsed, AtLeastZero, Remains

(* A pause has expired only when the side has used its budget up. *)
LEMMA ExpiredSpentTheBudget ==
  ASSUME NEW s \in Side, NEW pauses, NEW h, NEW at \in Nat,
         Honest(s, pauses[s], h, at), s \in Expired(pauses, at)
  PROVE  h.time >= Budget
  BY BudgetAssumption
     DEF Honest, Charged, Expired, Deadline, Least, Elapsed, AtLeastZero, Remains

(* Of the open pauses that are spent one has expired. *)
LEMMA SpentExpires ==
  ASSUME NEW pauses, NEW at \in Nat, NEW s \in Side,
         \A t \in Side : \E h : Honest(t, pauses[t], h, at),
         pauses[s].open, MatchPauseView(pauses[s], at) = 0
  PROVE  Expired(pauses, at) # {}
<1>1. \A t \in Side : /\ pauses[t].used \in Remains /\ pauses[t].open \in BOOLEAN
                      /\ pauses[t].startedAt \in Nat
                      /\ Deadline(pauses[t]) \in Nat
  BY BudgetAssumption DEF Honest, Deadline, AtLeastZero, Remains
<1>2. at >= Deadline(pauses[s])
  <2>0. PICK h : Honest(s, pauses[s], h, at)
    OBVIOUS
  <2>s. pauses[s].startedAt <= at
    BY <2>0 DEF Honest
  <2>1. PICK u \in Remains, b \in Nat :
          u = pauses[s].used /\ b = pauses[s].startedAt /\ b <= at
    BY <2>s, <1>1
  <2>2. AtLeastZero(Budget, u + AtLeastZero(at, b)) = 0
    BY <2>1 DEF MatchPauseView, Elapsed
  <2>r. u \in Nat /\ u <= Budget /\ Budget \in Nat
    BY <2>1, BudgetAssumption DEF Remains
  <2>3. at >= b + AtLeastZero(Budget, u)
    BY <2>1, <2>2, <2>r DEF AtLeastZero
  <2>4. QED
    BY <2>1, <2>3 DEF Deadline
<1>3. "A" \in Expired(pauses, at) \/ "B" \in Expired(pauses, at)
  BY <1>1, <1>2 DEF Expired, Side
<1>4. QED
  BY <1>3

-----------------------------------------------------------------------------
(* The handlers *)

Records(p, h, at) == \A s \in Side : Honest(s, p[s], h[s], at)

(* Advancing the match over honest records loses it only for a side whose
   pauses used the budget up, and loses it when some pause has expired. *)
LEMMA SettleForfeits ==
  ASSUME ServerInv, NEW p, NEW h, Records(p, h, clock), Settle(p),
         \A s \in Side : h[s].time = history'[s].time /\ h[s].time = history[s].time
  PROVE  Scenes' /\ ForfeitSpentTheBudget' /\ (Loser(p) # {} => lost' # None)
<1>1. CASE Loser(p) = {}
  BY <1>1 DEF Settle, ServerInv, Scenes, ForfeitSpentTheBudget, Playing
<1>2. CASE Loser(p) # {}
  <2>1. PICK s \in Loser(p) : LoseMatch(s, "PAUSE")
    BY <1>2 DEF Settle
  <2>2. s \in Side /\ s \in Expired(p, clock)
    BY <2>1 DEF Loser, Expired
  <2>3. h[s].time >= Budget
    BY <2>2, ExpiredSpentTheBudget DEF Records, ServerInv
  <2>4. /\ lost' = [side |-> s, by |-> "PAUSE"]
        /\ scene' = [scene EXCEPT !.playing = FALSE]
    BY <2>1 DEF LoseMatch
  <2>5. lost' \in [side : Side, by : {"PAUSE", "SURRENDER"}]
    BY <2>2, <2>4
  <2>6. lost' # None
    BY <2>5, RequestIsSome
  <2>7. QED
    BY <2>2, <2>3, <2>4, <2>5, <2>6
       DEF ServerInv, Scenes, ForfeitSpentTheBudget, Playing
<1>3. QED
  BY <1>1, <1>2

Asked(r) == r \in [side : Side, lease : Nat, paused : BOOLEAN] /\ r.lease \in Lease(r.side)

(* The pause handler, for a request that somebody waits for or nobody. *)
LEMMA HandleFacts ==
  ASSUME ServerInv, NEW r, Asked(r), HandlePause(r)
  PROVE  /\ pause' = [s \in Side |-> pause'[s]] /\ history' = [s \in Side |-> history'[s]]
         /\ Records(pause', history', clock)
         /\ Scenes' /\ ForfeitSpentTheBudget'
         /\ Loser(pause) # {} => lost' # None
<1> DEFINE s == r.side
           refused == r.paused /\ (~Playing \/ Loser(pause) # {})
           q == IF refused THEN pause[s] ELSE ChangeMatchPause(pause[s], r.lease, r.paused, clock)
           g == After(history[s], pause[s], q, r.lease, r.paused)
<1>1. s \in Side /\ r.lease \in Lease(s) /\ r.paused \in BOOLEAN
  BY DEF Asked
<1>2. pause' = [pause EXCEPT ![s] = q]
  BY DEF HandlePause, ServerInv
<1>3. history' = [history EXCEPT ![s] = g]
  <2>1. pause'[s] = q
    BY <1>1, <1>2 DEF ServerInv
  <2>2. Opens(s) = (q.open /\ q # pause[s])
    BY <2>1 DEF Opens
  <2> HIDE DEF q
  <2>3. history' = [history EXCEPT ![s] = Noted(history[s], Opens(s), r.lease, r.paused)]
    BY DEF HandlePause
  <2>4. QED
    BY <2>2, <2>3 DEF After
<1>4. Honest(s, q, g, clock)
  <2>1. Honest(s, pause[s], history[s], clock)
    BY <1>1 DEF ServerInv
  <2>2. CASE refused
    BY <1>1, <2>1, <2>2 DEF Honest, After, Noted, Charged
  <2>3. CASE ~refused
    BY <1>1, <2>1, <2>3, ChangeHonest DEF ServerInv
  <2>4. QED
    BY <2>2, <2>3
<1> HIDE DEF q, g
<1>5. /\ pause' = [t \in Side |-> pause'[t]] /\ history' = [t \in Side |-> history'[t]]
      /\ Records(pause', history', clock)
  BY <1>1, <1>2, <1>3, <1>4 DEF Records, ServerInv
<1>6. \A t \in Side : history'[t].time = history[t].time
  BY <1>1, <1>3 DEF g, After, Noted, ServerInv
<1>7. Records(pause, history, clock)
  BY DEF Records, ServerInv
<1>8. CASE Loser(pause) # {}
  <2>1. Settle(pause)
    BY <1>8 DEF HandlePause
  <2>2. QED
    BY <1>5, <1>6, <1>7, <2>1, SettleForfeits
<1>9. CASE Loser(pause) = {}
  <2>1. Settle(pause')
    BY <1>9 DEF HandlePause
  <2>2. QED
    BY <1>5, <1>6, <1>9, <2>1, SettleForfeits
<1>10. QED
  BY <1>8, <1>9

(* The flush sends a wish of the client's own, when nothing else is under way. *)
LEMMA FlushFacts ==
  ASSUME ClientInv, NEW s \in Side, NEW c \in ClientOf(s),
         c.sync \/ c.paused \/ client[s].lease # 0 => c.lease # 0,
         Flush(s, c), UNCHANGED late
  PROVE  ClientInv'
<1>1. CASE request[s] = None /\ c.sync
  <2>1. /\ request' = [request EXCEPT ![s] =
                         [lease |-> c.lease, paused |-> c.paused, answer |-> None]]
        /\ client' = [client EXCEPT ![s] = [c EXCEPT !.sync = FALSE]]
    BY <1>1 DEF Flush
  <2>2. PICK d : d = [c EXCEPT !.sync = FALSE]
    OBVIOUS
  <2>3. /\ d \in ClientOf(s) /\ d.lease = c.lease /\ d.paused = c.paused
        /\ d.sync = FALSE /\ c.lease \in Lease(s) /\ c.paused \in BOOLEAN
    BY <1>1, <2>2 DEF ClientOf
  <2>4. PICK w : w = [lease |-> c.lease, paused |-> c.paused, answer |-> None]
    OBVIOUS
  <2>5. w \in Wish(s)
    BY <2>3, <2>4 DEF Wish
  <2>6. client' = [client EXCEPT ![s] = d] /\ request' = [request EXCEPT ![s] = w]
    BY <2>1, <2>2, <2>4
  <2>7. c.lease # 0
    BY <1>1
  <2>8. QED
    BY <2>3, <2>5, <2>6, <2>7 DEF ClientInv, Requests, Wishes
<1>2. CASE ~(request[s] = None /\ c.sync)
  <2>1. client' = [client EXCEPT ![s] = c] /\ UNCHANGED request
    BY <1>2 DEF Flush
  <2>2. QED
    BY <2>1 DEF ClientInv, Requests, Wishes
<1>3. QED
  BY <1>1, <1>2

(* Giving a request up leaves it, at most, to be handled late. *)
LEMMA AbandonFacts ==
  ASSUME ClientInv, NEW s \in Side, Abandon(s)
  PROVE  /\ request' = [request EXCEPT ![s] = None]
         /\ \A r \in late' : /\ r \in [side : Side, lease : Nat, paused : BOOLEAN]
                            /\ r.lease \in Lease(r.side)
<1>1. request' = [request EXCEPT ![s] = None]
  BY DEF Abandon
<1>2. late' = late \/ (request[s] # None /\ late' = late \cup {Sent(s)})
  BY DEF Abandon
<1>3. request[s] # None =>
        /\ Sent(s) \in [side : Side, lease : Nat, paused : BOOLEAN]
        /\ Sent(s).lease \in Lease(Sent(s).side)
  BY PauseBounds DEF ClientInv, Requests, Wish, Sent, Lease
<1>4. QED
  BY <1>1, <1>2, <1>3 DEF ClientInv, Requests

-----------------------------------------------------------------------------
(* The inductive invariant *)

LEMMA InitHolds == Init => IInv
<1> SUFFICES ASSUME Init PROVE IInv
  OBVIOUS
<1> DEFINE fresh == Fresh([begun |-> 0])
           c == [fresh EXCEPT !.scene = 1, !.playing = TRUE]
<1>a. fresh \in [lease : {0}, begun : {0}, paused : {FALSE}, sync : {FALSE},
                remaining : Remains, scene : Nat, playing : BOOLEAN, pausedIn : Nat]
  BY BudgetAssumption DEF Fresh, Remains
<1> HIDE DEF fresh
<1>d. c \in [lease : {0}, begun : {0}, paused : {FALSE}, sync : {FALSE},
            remaining : Remains, scene : Nat, playing : BOOLEAN, pausedIn : Nat]
  BY <1>a
<1>1. c = [Fresh([begun |-> 0]) EXCEPT !.scene = 1, !.playing = TRUE]
  BY DEF fresh
<1> HIDE DEF c
<1>e. \A s \in Side : c \in ClientOf(s)
  <2>1. \A s \in Side : 0 \in 0..MaxPauses[s] /\ 0 \in Lease(s) \cup {0}
    BY PauseBounds
  <2>2. QED
    BY <1>d, <2>1, Zenon DEF ClientOf
<1>f. client = [s \in Side |-> c] /\ request = [s \in Side |-> None] /\ late = {}
  BY <1>1 DEF Init
<1>2. ClientInv
  BY <1>d, <1>e, <1>f DEF ClientInv, Requests, Wishes
<1>3. \A s \in Side : Honest(s, pause[s], history[s], clock)
  BY BudgetAssumption, PauseBounds
     DEF Init, EmptyMatchPause, Honest, Charged, Least, Elapsed, AtLeastZero, Remains, Lease
<1>4. ServerInv
  BY <1>3 DEF Init, ServerInv, Scenes, ForfeitSpentTheBudget, Playing
<1>5. QED
  BY <1>2, <1>4 DEF IInv

(* Nothing the server keeps changes. *)
LEMMA ServerKept ==
  ASSUME ServerInv, UNCHANGED <<clock, server, history>>
  PROVE  ServerInv'
  BY DEF ServerInv, server, Scenes, Playing, ForfeitSpentTheBudget

LEMMA ClientsKept ==
  ASSUME ClientInv, UNCHANGED <<client, request, late>>
  PROVE  ClientInv'
  BY DEF ClientInv, Requests, Wishes

(* The pause handler, whoever waits for its answer. *)
LEMMA HandleKeeps ==
  ASSUME ServerInv, NEW r, Asked(r), HandlePause(r), UNCHANGED clock
  PROVE  ServerInv'
  BY HandleFacts DEF ServerInv, Records

(* Advancing the match by itself. *)
LEMMA SettleKeeps ==
  ASSUME ServerInv, Settle(pause), UNCHANGED <<clock, pause, history>>
  PROVE  ServerInv' /\ (Loser(pause) # {} => lost' # None)
<1>1. Scenes' /\ ForfeitSpentTheBudget' /\ (Loser(pause) # {} => lost' # None)
  BY SettleForfeits DEF ServerInv, Records
<1>2. QED
  BY <1>1 DEF ServerInv

(* Time passes on both sides. *)
LEMMA TickKeeps ==
  ASSUME IInv, Tick
  PROVE  IInv'
<1>1. ServerInv'
  <2>1. /\ clock' = clock + 1 /\ UNCHANGED <<scene, lost, pause>> /\ lost = None
        /\ history' = [s \in Side |-> [history[s] EXCEPT
                          !.time = IF pause[s].open THEN @ + 1 ELSE @]]
    BY DEF Tick, server
  <2>2. ASSUME NEW s \in Side
        PROVE  Honest(s, pause[s], history'[s], clock + 1)
    BY <2>1, TickHonest DEF IInv, ServerInv
  <2>3. QED
    BY <2>1, <2>2 DEF IInv, ServerInv, Scenes, Playing, ForfeitSpentTheBudget
<1>2. ClientInv'
  <2>1. /\ client' = [s \in Side |-> [client[s] EXCEPT
                  !.remaining = IF client[s].paused THEN AtLeastZero(@, 1) ELSE @]]
        /\ UNCHANGED <<request, late>>
    BY DEF Tick
  <2>2. ASSUME NEW s \in Side
        PROVE  /\ client'[s] \in ClientOf(s) /\ client'[s].lease = client[s].lease
               /\ client'[s].sync = client[s].sync /\ client'[s].paused = client[s].paused
    <3>1. client[s] \in ClientOf(s)
      BY DEF IInv, ClientInv
    <3>2. PICK n : n = IF client[s].paused THEN AtLeastZero(client[s].remaining, 1)
                                           ELSE client[s].remaining
      OBVIOUS
    <3>3. n \in Remains
      BY <3>1, <3>2, BudgetAssumption DEF ClientOf, Remains, AtLeastZero
    <3>4. client'[s] = [client[s] EXCEPT !.remaining = n]
      BY <2>1, <3>2
    <3>5. QED
      BY <3>1, <3>3, <3>4 DEF ClientOf
  <2>3. QED
    BY <2>1, <2>2 DEF IInv, ClientInv, Requests, Wishes
<1>3. QED
  BY <1>1, <1>2 DEF IInv

(* The three ways a client comes to flush. *)
LEMMA FlushesKeep ==
  ASSUME IInv, NEW s \in Side, BeginPause(s) \/ EndPause(s) \/ FlushAgain(s)
  PROVE  IInv'
<1>t. client[s] \in ClientOf(s)
  BY DEF IInv, ClientInv
<1>l. MaxPauses[s] \in Nat
  BY PauseBounds
<1>s. UNCHANGED <<clock, server, history, late>>
  BY DEF BeginPause, EndPause, FlushAgain
<1>1. CASE BeginPause(s)
  <2>1. PICK c : c = [client[s] EXCEPT !.begun = @ + 1, !.lease = client[s].begun + 1,
                        !.paused = TRUE, !.sync = TRUE, !.pausedIn = client[s].scene]
    OBVIOUS
  <2>b. /\ client[s].begun + 1 \in 0..MaxPauses[s] /\ client[s].begun + 1 \in Lease(s)
        /\ client[s].begun + 1 # 0 /\ client[s].scene \in Nat
    BY <1>1, <1>t, <1>l DEF BeginPause, ClientOf, Lease
  <2>2. c \in ClientOf(s) /\ c.lease # 0
    <3>1. PICK n : n = client[s].begun + 1
      OBVIOUS
    <3>2. c = [client[s] EXCEPT !.begun = n, !.lease = n, !.paused = TRUE, !.sync = TRUE,
                                !.pausedIn = client[s].scene]
      BY <2>1, <3>1
    <3>3. n \in 0..MaxPauses[s] /\ n \in Lease(s) /\ n # 0 /\ client[s].scene \in Nat
      BY <2>b, <3>1
    <3>4. QED
      BY <1>t, <3>2, <3>3 DEF ClientOf
  <2>3. Flush(s, c)
    BY <1>1, <2>1 DEF BeginPause
  <2>4. QED
    BY <1>s, <2>2, <2>3, FlushFacts, ServerKept DEF IInv
<1>2. CASE EndPause(s)
  <2>1. PICK c : c = [client[s] EXCEPT !.paused = FALSE, !.sync = TRUE]
    OBVIOUS
  <2>2. c \in ClientOf(s) /\ c.lease # 0
    BY <1>2, <1>t, <2>1 DEF EndPause, ClientOf, IInv, ClientInv, Wishes
  <2>3. Flush(s, c)
    BY <1>2, <2>1 DEF EndPause
  <2>4. QED
    BY <1>s, <2>2, <2>3, FlushFacts, ServerKept DEF IInv
<1>3. CASE FlushAgain(s)
  <2>1. Flush(s, client[s])
    BY <1>3 DEF FlushAgain
  <2>2. client[s].sync \/ client[s].paused => client[s].lease # 0
    BY DEF IInv, ClientInv, Wishes
  <2>3. QED
    BY <1>s, <1>t, <2>1, <2>2, FlushFacts, ServerKept DEF IInv
<1>4. QED
  BY <1>1, <1>2, <1>3

(* The server handles a request, awaited or late. *)
LEMMA HandlersKeep ==
  ASSUME IInv
  PROVE  /\ \A s \in Side : HandleRequest(s) => IInv'
         /\ \A r \in late : HandleLate(r) => IInv'
<1>1. ASSUME NEW s \in Side, HandleRequest(s)
      PROVE  IInv'
  <2>1. request[s] \in Wish(s) /\ client[s].lease # 0
    BY <1>1 DEF HandleRequest, IInv, ClientInv, Requests
  <2>2. Asked(Sent(s))
    BY <2>1, PauseBounds DEF Asked, Sent, Wish, Lease
  <2>3. ServerInv'
    BY <1>1, <2>2, HandleKeeps DEF HandleRequest, IInv
  <2>4. PICK a : a = [remaining |-> MatchPauseView(pause'[s], clock),
                      accepted  |-> ~(request[s].paused /\ (~Playing \/ Loser(pause) # {}))]
    OBVIOUS
  <2>5. MatchPauseView(pause'[s], clock) \in Remains
    <3>1. pause'[s].used \in Remains /\ Elapsed(pause'[s], clock) \in Nat
      BY <1>1, <2>3 DEF ServerInv, Honest, Elapsed, AtLeastZero, HandleRequest
    <3>2. QED
      BY <3>1, BudgetAssumption DEF MatchPauseView, AtLeastZero, Remains
  <2>6. a \in PauseAnswer
    BY <2>4, <2>5 DEF PauseAnswer
  <2>7. request' = [request EXCEPT ![s].answer = a] /\ UNCHANGED <<client, late>>
    BY <1>1, <2>4 DEF HandleRequest
  <2>8. request'[s] \in Wish(s)
    BY <2>1, <2>6, <2>7 DEF Wish, IInv, ClientInv
  <2>9. ClientInv'
    BY <2>1, <2>7, <2>8 DEF IInv, ClientInv, Requests, Wishes
  <2>10. QED
    BY <2>3, <2>9 DEF IInv
<1>2. ASSUME NEW r \in late, HandleLate(r)
      PROVE  IInv'
  <2>1. Asked(r)
    BY DEF IInv, ClientInv, Requests, Asked
  <2>2. ServerInv'
    BY <1>2, <2>1, HandleKeeps DEF HandleLate, IInv
  <2>3. ClientInv'
    BY <1>2 DEF HandleLate, IInv, ClientInv, Requests, Wishes
  <2>4. QED
    BY <2>2, <2>3 DEF IInv
<1>3. QED
  BY <1>1, <1>2

(* An answer arrives, or its client stops waiting for it. *)
LEMMA AnswersKeep ==
  ASSUME IInv, NEW s \in Side,
         ReceiveAnswer(s) \/ FailRequest(s) \/ RestartClient(s)
  PROVE  IInv'
<1>t. client[s] \in ClientOf(s)
  BY DEF IInv, ClientInv
<1>s. ServerInv'
  BY ServerKept DEF ReceiveAnswer, FailRequest, RestartClient, IInv
<1>1. CASE ReceiveAnswer(s)
  <2>1. request[s] \in Wish(s) /\ client[s].lease # 0 /\ request[s].answer \in PauseAnswer
    BY <1>1 DEF ReceiveAnswer, IInv, ClientInv, Requests, Wish
  <2>2. PICK n : n = Observed(client[s], IF request[s].answer.accepted
                                          THEN request[s].answer.remaining ELSE 0)
    OBVIOUS
  <2>3. n \in Remains
    BY <1>t, <2>1, <2>2, BudgetAssumption DEF Observed, Least, PauseAnswer, ClientOf, Remains
  <2>4. PICK c : c = IF request[s].lease = client[s].lease
                     THEN [client[s] EXCEPT !.remaining = n] ELSE client[s]
    OBVIOUS
  <2>5. /\ c \in ClientOf(s) /\ c.lease = client[s].lease
        /\ c.paused = client[s].paused /\ c.sync = client[s].sync
    BY <1>t, <2>3, <2>4 DEF ClientOf
  <2>6. PICK b \in BOOLEAN :
          b = (c.sync \/ request[s].lease # client[s].lease
                     \/ request[s].paused # client[s].paused)
    BY <2>1, <2>5 DEF ClientOf
  <2>7. client' = [client EXCEPT ![s] = [c EXCEPT !.sync = b]]
    BY <1>1, <2>2, <2>4, <2>6 DEF ReceiveAnswer, Observe
  <2>8. PICK d : d = [c EXCEPT !.sync = b]
    OBVIOUS
  <2>9. d \in ClientOf(s) /\ d.lease = client[s].lease
    BY <2>5, <2>8 DEF ClientOf
  <2>10. /\ client' = [client EXCEPT ![s] = d] /\ UNCHANGED late
         /\ request' = [request EXCEPT ![s] = None]
    BY <1>1, <2>7, <2>8 DEF ReceiveAnswer
  <2>11. ClientInv'
    BY <2>1, <2>9, <2>10 DEF IInv, ClientInv, Requests, Wishes
  <2>12. QED
    BY <1>s, <2>11 DEF IInv
<1>2. CASE FailRequest(s)
  <2>1. /\ request' = [request EXCEPT ![s] = None]
        /\ \A r \in late' : /\ r \in [side : Side, lease : Nat, paused : BOOLEAN]
                           /\ r.lease \in Lease(r.side)
    BY <1>2, AbandonFacts DEF FailRequest, IInv
  <2>2. client' = [client EXCEPT ![s].sync = TRUE] /\ client[s].lease # 0
    BY <1>2 DEF FailRequest, IInv, ClientInv, Requests
  <2>3. PICK d : d = [client[s] EXCEPT !.sync = TRUE]
    OBVIOUS
  <2>4. d \in ClientOf(s) /\ d.lease = client[s].lease
    BY <1>t, <2>3 DEF ClientOf
  <2>5. client' = [client EXCEPT ![s] = d]
    BY <2>2, <2>3
  <2>6. ClientInv'
    BY <2>1, <2>2, <2>4, <2>5 DEF IInv, ClientInv, Requests, Wishes
  <2>7. QED
    BY <1>s, <2>6 DEF IInv
<1>3. CASE RestartClient(s)
  <2>1. /\ request' = [request EXCEPT ![s] = None]
        /\ \A r \in late' : /\ r \in [side : Side, lease : Nat, paused : BOOLEAN]
                           /\ r.lease \in Lease(r.side)
    BY <1>3, AbandonFacts DEF RestartClient, IInv
  <2>2. client' = [client EXCEPT ![s] = Fresh(client[s])]
    BY <1>3 DEF RestartClient
  <2>3. Fresh(client[s]) \in ClientOf(s)
    BY <1>t, BudgetAssumption DEF Fresh, ClientOf, Remains
  <2>4. ~Fresh(client[s]).sync /\ ~Fresh(client[s]).paused
    BY DEF Fresh
  <2>5. ClientInv'
    BY <2>1, <2>2, <2>3, <2>4 DEF IInv, ClientInv, Requests, Wishes
  <2>6. QED
    BY <1>s, <2>5 DEF IInv
<1>4. QED
  BY <1>1, <1>2, <1>3

(* Whoever finds a spent pause settles it; a client may concede instead. *)
LEMMA PollsKeep ==
  ASSUME IInv, NEW s \in Side, Poll(s) \/ ConcedeMatch(s)
  PROVE  IInv' /\ (Loser(pause) # {} => lost' # None)
<1>1. CASE Poll(s)
  <2>1. ServerInv' /\ (Loser(pause) # {} => lost' # None)
    BY <1>1, SettleKeeps DEF Poll, IInv
  <2>2. client[s] \in ClientOf(s)
    BY DEF IInv, ClientInv
  <2>3. PICK n : n = Observed(client[s], MatchPauseView(pause[s], clock))
    OBVIOUS
  <2>4. n \in Remains
    <3>1. pause[s].used \in Nat /\ Elapsed(pause[s], clock) \in Nat
      BY DEF IInv, ServerInv, Honest, Elapsed, AtLeastZero, Remains
    <3>2. QED
      BY <2>2, <2>3, <3>1, BudgetAssumption
         DEF Observed, MatchPauseView, Least, AtLeastZero, ClientOf, Remains
  <2>5. scene'.number \in Nat /\ scene'.playing \in BOOLEAN
    BY <2>1 DEF ServerInv, Scenes
  <2>6. PICK d : d = [[client[s] EXCEPT !.remaining = n] EXCEPT
                        !.scene = scene'.number, !.playing = scene'.playing]
    OBVIOUS
  <2>7. /\ d \in ClientOf(s) /\ d.lease = client[s].lease
        /\ d.sync = client[s].sync /\ d.paused = client[s].paused
    BY <2>2, <2>4, <2>5, <2>6 DEF ClientOf
  <2>8. client' = [client EXCEPT ![s] = d] /\ UNCHANGED <<request, late>>
    BY <1>1, <2>3, <2>6 DEF Poll, Observe
  <2>9. ClientInv'
    BY <2>7, <2>8 DEF IInv, ClientInv, Requests, Wishes
  <2>10. QED
    BY <2>1, <2>9 DEF IInv
<1>2. CASE ConcedeMatch(s)
  <2>1. ClientInv'
    BY <1>2, ClientsKept DEF ConcedeMatch, IInv
  <2>2. ServerInv' /\ (Loser(pause) # {} => lost' # None)
    <3>1. CASE Loser(pause) # {}
      BY <1>2, <3>1, SettleKeeps DEF ConcedeMatch, IInv
    <3>2. CASE Loser(pause) = {}
      <4>1. /\ lost' = [side |-> s, by |-> "SURRENDER"]
            /\ scene' = [scene EXCEPT !.playing = FALSE]
            /\ UNCHANGED <<clock, pause, history>>
        BY <1>2, <3>2 DEF ConcedeMatch, LoseMatch
      <4>2. lost' # None /\ Scenes' /\ ForfeitSpentTheBudget'
        BY <4>1 DEF IInv, ServerInv, Scenes, Playing, ForfeitSpentTheBudget, None
      <4>3. QED
        BY <4>1, <4>2 DEF IInv, ServerInv
    <3>3. QED
      BY <3>1, <3>2
  <2>3. QED
    BY <2>1, <2>2 DEF IInv
<1>3. QED
  BY <1>1, <1>2

(* Scenes begin and end beside the pauses. *)
LEMMA ScenesKeep ==
  ASSUME IInv, EndScene \/ LeasedStartEndsRound \/ BeginScene
  PROVE  IInv'
<1>1. ClientInv'
  BY ClientsKept DEF EndScene, LeasedStartEndsRound, SceneOver, BeginScene, IInv
<1>2. UNCHANGED <<clock, lost, pause, history>>
  BY DEF EndScene, LeasedStartEndsRound, SceneOver, BeginScene
<1>3. CASE EndScene \/ LeasedStartEndsRound
  <2>1. scene' = [scene EXCEPT !.playing = FALSE]
    BY <1>3 DEF EndScene, LeasedStartEndsRound, SceneOver
  <2>2. Scenes'
    BY <1>2, <2>1 DEF IInv, ServerInv, Scenes, Playing
  <2>3. QED
    BY <1>1, <1>2, <2>2 DEF IInv, ServerInv, ForfeitSpentTheBudget
<1>4. CASE BeginScene
  <2>1. scene' = [number |-> scene.number + 1, playing |-> TRUE] /\ lost = None
    BY <1>4 DEF BeginScene
  <2>2. Scenes'
    BY <1>2, <2>1 DEF IInv, ServerInv, Scenes
  <2>3. QED
    BY <1>1, <1>2, <2>2 DEF IInv, ServerInv, ForfeitSpentTheBudget
<1>5. QED
  BY <1>3, <1>4

LEMMA StepHolds == IInv /\ [Next]_vars => IInv'
<1> SUFFICES ASSUME IInv, [Next]_vars PROVE IInv'
  OBVIOUS
<1>1. CASE Tick
  BY <1>1, TickKeeps
<1>2. CASE EndScene \/ LeasedStartEndsRound \/ BeginScene
  BY <1>2, ScenesKeep
<1>3. ASSUME NEW r \in late, HandleLate(r) PROVE IInv'
  BY <1>3, HandlersKeep
<1>4. ASSUME NEW s \in Side, BeginPause(s) \/ EndPause(s) \/ FlushAgain(s) PROVE IInv'
  BY <1>4, FlushesKeep
<1>5. ASSUME NEW s \in Side, HandleRequest(s) PROVE IInv'
  BY <1>5, HandlersKeep
<1>6. ASSUME NEW s \in Side, ReceiveAnswer(s) \/ FailRequest(s) \/ RestartClient(s)
      PROVE  IInv'
  BY <1>6, AnswersKeep
<1>7. ASSUME NEW s \in Side, Poll(s) \/ ConcedeMatch(s) PROVE IInv'
  BY <1>7, PollsKeep
<1>8. CASE UNCHANGED vars
  BY <1>8, ServerKept, ClientsKept DEF vars, server, IInv
<1>9. QED
  BY <1>1, <1>2, <1>3, <1>4, <1>5, <1>6, <1>7, <1>8 DEF Next

(* A request under way is about a lease of its client's own; the policy's record
   of each side is the record of what happened; a match lost by a pause was lost
   for a budget that was used (changeMatchPause, matchPauseView, changePause). *)
THEOREM PauseInvariant == Spec => []IInv
  BY InitHolds, StepHolds, PTL DEF Spec

-----------------------------------------------------------------------------
(* What follows *)

(* However a request is repeated, lost or late, the budget is charged with the
   time a pause of the side was open (changeMatchPause, matchPauseView). *)
THEOREM OpenTimeCharged == Spec => []OpenTimeIsCharged
<1>1. ASSUME NEW s \in Side, NEW p, NEW h, NEW at \in Nat, Honest(s, p, h, at)
      PROVE  MatchPauseView(p, at) = AtLeastZero(Budget, h.time)
  <2>1. p.used \in Nat /\ h.time \in Nat /\ Elapsed(p, at) \in Nat
    BY <1>1 DEF Honest, Elapsed, AtLeastZero, Remains
  <2>2. Least(Budget, p.used + Elapsed(p, at)) = Least(Budget, h.time)
    BY <1>1 DEF Honest, Charged
  <2>3. QED
    BY <2>1, <2>2, BudgetAssumption DEF MatchPauseView, AtLeastZero, Least
<1>2. IInv => OpenTimeIsCharged
  BY <1>1 DEF IInv, ServerInv, OpenTimeIsCharged
<1>3. QED
  BY <1>2, PauseInvariant, PTL

(* No match is lost by a pause before the pauses of that side were open for the
   whole budget (expiredMatchPauseSide, advanceLockedMatch). *)
THEOREM ForfeitSpent == Spec => []ForfeitSpentTheBudget
<1>1. IInv => ForfeitSpentTheBudget
  BY DEF IInv, ServerInv
<1>2. QED
  BY <1>1, PauseInvariant, PTL

(* The server opens a lease at most once, whatever arrives late or twice
   (changeMatchPause). *)
THEOREM OpenedOnce == Spec => []LeaseOpensOnce
<1>1. IInv => LeaseOpensOnce
  BY DEF IInv, ServerInv, Honest, LeaseOpensOnce
<1>2. QED
  BY <1>1, PauseInvariant, PTL

(* In play a spent pause is closed by no Resume and replaced by no Start, however
   late or often they arrive: somebody loses the match, or a leased Start settles
   the round with the pause still open, and a Death Match not even that way
   (changePause, advanceLockedMatch, startAttempt). *)
THEOREM SpentPauseHeld == Spec => SpentPauseHeldInPlay
<1> DEFINE Held(s) == /\ pause'[s] = pause[s] /\ scene'.number = scene.number
                      /\ Playing' \/ scene.number <= RoundScenes
           Escapes(s) ==
             /\ Playing /\ pause[s].open /\ MatchPauseView(pause[s], clock) = 0
             /\ lost' = None /\ ~Held(s)
<1>1. ASSUME IInv, [Next]_vars, NEW s \in Side, Escapes(s)
      PROVE  FALSE
  <2>1. Loser(pause) # {}
    <3>1. \A t \in Side : \E h : Honest(t, pause[t], h, clock)
      BY <1>1 DEF IInv, ServerInv
    <3>2. Expired(pause, clock) # {}
      BY <1>1, <3>1, SpentExpires DEF IInv, ServerInv
    <3>3. QED
      BY <1>1, <3>2 DEF Loser
  <2>2. ASSUME NEW r, Asked(r), HandlePause(r) PROVE FALSE
    BY <1>1, <2>1, <2>2, HandleFacts DEF IInv
  <2>3. CASE \E r \in late : HandleLate(r)
    BY <1>1, <2>2, <2>3 DEF HandleLate, Asked, IInv, ClientInv, Requests
  <2>4. CASE \E t \in Side : HandleRequest(t)
    <3>1. PICK t \in Side : HandleRequest(t)
      BY <2>4
    <3>2. request[t] \in Wish(t)
      BY <1>1, <3>1 DEF HandleRequest, IInv, ClientInv, Requests
    <3>3. Asked(Sent(t))
      BY <3>2, PauseBounds DEF Asked, Sent, Wish, Lease
    <3>4. QED
      BY <2>2, <3>1, <3>3 DEF HandleRequest
  <2>5. CASE \E t \in Side : Poll(t) \/ ConcedeMatch(t)
    BY <1>1, <2>1, <2>5, PollsKeep
  <2>6. ~EndScene /\ ~BeginScene
    BY <1>1, <2>1 DEF EndScene, BeginScene, Playing
  <2>7. ~(pause' = pause /\ scene' = scene)
    BY <1>1 DEF Playing
  <2>8. ~LeasedStartEndsRound
    <3>1. [scene EXCEPT !.playing = FALSE].number = scene.number
      BY <1>1 DEF IInv, ServerInv, Scenes
    <3>2. QED
      BY <1>1, <3>1 DEF LeasedStartEndsRound, SceneOver
  <2>9. QED
    BY <1>1, <2>3, <2>4, <2>5, <2>6, <2>7, <2>8
       DEF Next, vars, server, Tick, BeginPause, EndPause, FlushAgain,
           ReceiveAnswer, FailRequest, RestartClient
<1> DEFINE Kept == \A s \in Side :
                     Playing /\ pause[s].open /\ MatchPauseView(pause[s], clock) = 0
                       => \/ lost' # None
                          \/ /\ pause'[s] = pause[s] /\ scene'.number = scene.number
                             /\ Playing' \/ scene.number <= RoundScenes
<1>2. IInv /\ [Next]_vars => Kept
  BY <1>1
<1> HIDE DEF Held, Escapes
<1>3. SpentPauseHeldInPlay <=> [][Kept]_vars
  BY DEF SpentPauseHeldInPlay
<1> HIDE DEF Kept
<1>4. QED
  BY <1>2, <1>3, PauseInvariant, PTL DEF Spec

-----------------------------------------------------------------------------
(* The bounds of the pause state *)

(* What names a lease names one that its client has begun, in the policy's
   record p, the client c and its request q. *)
Named(p, c, q) ==
  /\ p.startedAt <= MaxClock /\ p.lease <= c.begun
  /\ c.lease <= c.begun /\ c.scene <= MaxScenes /\ c.pausedIn <= MaxScenes
  /\ q # None => q.lease <= c.begun

Terms ==
  /\ clock <= MaxClock /\ scene.number \in 1..MaxScenes
  /\ failures \in 0..MaxFailures /\ restarts \in 0..MaxRestarts

Names ==
  /\ \A s \in Side : Named(pause[s], client[s], request[s])
  /\ \A r \in late : r.lease <= client[r.side].begun

(* A request names a lease up to the n-th, and so does what the policy makes of it. *)
LEMMA ChangeNames ==
  ASSUME NEW p, NEW l \in Nat, NEW n \in Nat, NEW paused \in BOOLEAN, NEW at \in Nat,
         p.startedAt <= MaxClock, p.lease <= n, l <= n, at <= MaxClock
  PROVE  LET q == ChangeMatchPause(p, l, paused, at)
         IN q.startedAt <= MaxClock /\ q.lease <= n
  BY PauseBounds DEF ChangeMatchPause

(* Advancing the match ends a scene, and changes its number in no case. *)
LEMMA SettleKeepsNumber ==
  ASSUME Scenes, NEW p, Settle(p)
  PROVE  scene'.number = scene.number
<1>1. ASSUME NEW s, LoseMatch(s, "PAUSE") PROVE scene'.number = scene.number
  BY <1>1 DEF LoseMatch, Scenes
<1>2. QED
  BY <1>1 DEF Settle

LEMMA HandleNames ==
  ASSUME IInv, Terms, Names, NEW r, Asked(r), HandlePause(r),
         r.lease <= client[r.side].begun, UNCHANGED client
  PROVE  /\ \A s \in Side : /\ pause'[s].startedAt <= MaxClock
                            /\ pause'[s].lease <= client[s].begun
         /\ scene'.number = scene.number
<1>1. scene'.number = scene.number
  BY SettleKeepsNumber DEF HandlePause, IInv, ServerInv
<1>2. r.side \in Side /\ r.lease \in Nat /\ r.paused \in BOOLEAN /\ clock \in Nat
  BY DEF Asked, IInv, ServerInv
<1>3. client[r.side].begun \in Nat
  BY <1>2 DEF IInv, ClientInv, ClientOf
<1>4. PICK q : q = ChangeMatchPause(pause[r.side], r.lease, r.paused, clock)
  OBVIOUS
<1>5. q.startedAt <= MaxClock /\ q.lease <= client[r.side].begun
  BY <1>2, <1>3, <1>4, ChangeNames DEF Names, Named, Terms
<1>6. pause' = pause \/ pause' = [pause EXCEPT ![r.side] = q]
  BY <1>4 DEF HandlePause
<1>7. pause = [s \in Side |-> pause[s]]
  BY DEF IInv, ServerInv
<1>8. QED
  BY <1>1, <1>2, <1>5, <1>6, <1>7 DEF Names, Named

(* A client that begins no fewer pauses keeps what was named before. *)
LEMMA ClientNames ==
  ASSUME IInv, Names, NEW s \in Side, NEW c,
         client' = [client EXCEPT ![s] = c], c.begun \in Nat, client[s].begun <= c.begun,
         c.lease <= c.begun, c.scene <= MaxScenes, c.pausedIn <= MaxScenes,
         \/ UNCHANGED request
         \/ request' = [request EXCEPT ![s] = None]
         \/ \E q : request' = [request EXCEPT ![s] = q] /\ q.lease <= c.begun,
         \A r \in late' : r \in late \/ (r.side = s /\ r.lease <= c.begun),
         UNCHANGED pause
  PROVE  Names'
<1>l. \A t \in Side : Lease(t) \cup {0} \subseteq Nat
  BY PauseBounds DEF Lease
<1>1. ASSUME NEW t \in Side
      PROVE  client[t].begun \in Nat /\ client[t].lease \in Nat /\ pause[t].lease \in Nat
  <2>1. client[t] \in ClientOf(t) /\ Honest(t, pause[t], history[t], clock)
    BY DEF IInv, ClientInv, ServerInv
  <2>2. pause[t].lease \in Lease(t) \cup {0}
    BY <2>1 DEF Honest
  <2>3. client[t].begun \in Nat /\ client[t].lease \in Lease(t) \cup {0}
    BY <2>1 DEF ClientOf
  <2>4. QED
    BY <2>2, <2>3, <1>l
<1>2. \A t \in Side : request[t] # None => request[t].lease \in Nat
  BY PauseBounds DEF IInv, ClientInv, Requests, Wish, Lease
<1>3. \A r \in late : r.side \in Side /\ r.lease \in Nat
  BY DEF IInv, ClientInv, Requests
<1>4. client' = [t \in Side |-> IF t = s THEN c ELSE client[t]]
  BY DEF IInv, ClientInv
<1>5. ASSUME NEW t \in Side PROVE Named(pause[t], client'[t], request'[t])
  <2>1. CASE t # s
    <3>1. client'[t] = client[t] /\ request'[t] = request[t]
      BY <2>1, <1>4 DEF IInv, ClientInv
    <3>2. QED
      BY <3>1 DEF Names
  <2>2. CASE t = s
    <3>1. client'[s] = c
      BY <1>4
    <3>2. pause[s].startedAt <= MaxClock /\ pause[s].lease <= c.begun
      BY <1>1 DEF Names, Named
    <3>3. request'[s] # None => request'[s].lease <= c.begun
      <4>1. CASE UNCHANGED request
        BY <4>1, <1>1, <1>2 DEF Names, Named
      <4>2. CASE request' = [request EXCEPT ![s] = None]
        BY <4>2 DEF IInv, ClientInv
      <4>3. ASSUME NEW q, request' = [request EXCEPT ![s] = q], q.lease <= c.begun
            PROVE  request'[s] # None => request'[s].lease <= c.begun
        BY <4>3 DEF IInv, ClientInv
      <4>4. QED
        BY <4>1, <4>2, <4>3
    <3>4. QED
      BY <2>2, <3>1, <3>2, <3>3 DEF Named
  <2>3. QED
    BY <2>1, <2>2
<1>6. ASSUME NEW r \in late' PROVE r.lease <= client'[r.side].begun
  <2>1. CASE r.side = s /\ r.lease <= c.begun
    BY <2>1, <1>4
  <2>2. CASE r \in late
    BY <2>2, <1>1, <1>3, <1>4 DEF Names
  <2>3. QED
    BY <2>1, <2>2
<1>7. QED
  BY <1>5, <1>6 DEF Names

LEMMA FlushNames ==
  ASSUME IInv, Names, NEW s \in Side, NEW c \in ClientOf(s), Flush(s, c),
         client[s].begun <= c.begun, c.lease <= c.begun,
         c.scene <= MaxScenes, c.pausedIn <= MaxScenes, UNCHANGED <<late, pause>>
  PROVE  Names'
<1>0. c.begun \in Nat
  BY DEF ClientOf
<1>1. CASE request[s] = None /\ c.sync
  <2>1. PICK q : q = [lease |-> c.lease, paused |-> c.paused, answer |-> None]
    OBVIOUS
  <2>2. PICK d : d = [c EXCEPT !.sync = FALSE]
    OBVIOUS
  <2>3. /\ d.begun = c.begun /\ d.lease = c.lease /\ d.scene = c.scene
        /\ d.pausedIn = c.pausedIn
    BY <2>2 DEF ClientOf
  <2>4. /\ request' = [request EXCEPT ![s] = q] /\ client' = [client EXCEPT ![s] = d]
        /\ q.lease = c.lease
    BY <1>1, <2>1, <2>2 DEF Flush
  <2>5. /\ client[s].begun <= d.begun /\ d.begun \in Nat /\ d.lease <= d.begun
        /\ d.scene <= MaxScenes /\ d.pausedIn <= MaxScenes /\ q.lease <= d.begun
    BY <1>0, <2>3, <2>4
  <2>6. QED
    BY <2>4, <2>5, ClientNames
<1>2. CASE ~(request[s] = None /\ c.sync)
  <2>1. client' = [client EXCEPT ![s] = c] /\ UNCHANGED request
    BY <1>2 DEF Flush
  <2>2. QED
    BY <1>0, <2>1, ClientNames
<1>3. QED
  BY <1>1, <1>2

(* A request that is given up names what it named before. *)
LEMMA AbandonNames ==
  ASSUME IInv, Names, NEW s \in Side, Abandon(s)
  PROVE  /\ request' = [request EXCEPT ![s] = None]
         /\ \A r \in late' : r \in late \/ (r.side = s /\ r.lease <= client[s].begun)
<1>1. request' = [request EXCEPT ![s] = None]
  BY DEF Abandon
<1>2. late' = late \/ (request[s] # None /\ late' = late \cup {Sent(s)})
  BY DEF Abandon
<1>3. request[s] # None => Sent(s).side = s /\ Sent(s).lease <= client[s].begun
  BY DEF Names, Named, Sent
<1>4. QED
  BY <1>1, <1>2, <1>3

LEMMA FlushesName ==
  ASSUME IInv, Names, NEW s \in Side, BeginPause(s) \/ EndPause(s) \/ FlushAgain(s)
  PROVE  Names'
<1>t. client[s] \in ClientOf(s)
  BY DEF IInv, ClientInv
<1>b. /\ MaxPauses[s] \in Nat /\ client[s].begun \in Nat /\ client[s].lease <= client[s].begun
      /\ client[s].scene <= MaxScenes /\ client[s].pausedIn <= MaxScenes
  BY <1>t, PauseBounds DEF Names, Named, ClientOf
<1>s. UNCHANGED <<late, pause>>
  BY DEF BeginPause, EndPause, FlushAgain, server
<1>1. CASE BeginPause(s)
  <2>1. PICK n : n = client[s].begun + 1
    OBVIOUS
  <2>2. n \in 0..MaxPauses[s] /\ n \in Lease(s) /\ client[s].begun <= n /\ client[s].scene \in Nat
    BY <1>1, <1>b, <1>t, <2>1 DEF BeginPause, Lease, ClientOf
  <2>3. PICK c : c = [client[s] EXCEPT !.begun = n, !.lease = n, !.paused = TRUE,
                        !.sync = TRUE, !.pausedIn = client[s].scene]
    OBVIOUS
  <2>4. /\ c \in ClientOf(s) /\ c.begun = n /\ c.lease = n /\ c.scene = client[s].scene
        /\ c.pausedIn = client[s].scene
    BY <1>t, <2>2, <2>3 DEF ClientOf
  <2>5. Flush(s, c)
    BY <1>1, <2>1, <2>3 DEF BeginPause
  <2>6. c.lease <= c.begun /\ client[s].begun <= c.begun
        /\ c.scene <= MaxScenes /\ c.pausedIn <= MaxScenes
    BY <1>b, <2>2, <2>4
  <2>7. QED
    BY <1>s, <2>4, <2>5, <2>6, FlushNames
<1>2. CASE EndPause(s)
  <2>1. PICK c : c = [client[s] EXCEPT !.paused = FALSE, !.sync = TRUE]
    OBVIOUS
  <2>2. /\ c \in ClientOf(s) /\ c.begun = client[s].begun /\ c.lease = client[s].lease
        /\ c.scene = client[s].scene /\ c.pausedIn = client[s].pausedIn
    BY <1>t, <2>1 DEF ClientOf
  <2>3. Flush(s, c)
    BY <1>2, <2>1 DEF EndPause
  <2>4. QED
    BY <1>b, <1>s, <2>2, <2>3, FlushNames
<1>3. CASE FlushAgain(s)
  BY <1>3, <1>b, <1>s, <1>t, FlushNames DEF FlushAgain
<1>4. QED
  BY <1>1, <1>2, <1>3

LEMMA AnswersName ==
  ASSUME IInv, Names, NEW s \in Side,
         ReceiveAnswer(s) \/ FailRequest(s) \/ RestartClient(s)
  PROVE  Names'
<1>t. client[s] \in ClientOf(s)
  BY DEF IInv, ClientInv
<1>b. /\ client[s].begun \in Nat /\ client[s].lease <= client[s].begun
      /\ client[s].scene <= MaxScenes /\ client[s].pausedIn <= MaxScenes
  BY <1>t DEF Names, Named, ClientOf
<1>s. UNCHANGED pause
  BY DEF ReceiveAnswer, FailRequest, RestartClient, server
<1> DEFINE Alike(c) == /\ c.begun = client[s].begun /\ c.lease = client[s].lease
                       /\ c.scene = client[s].scene /\ c.pausedIn = client[s].pausedIn
<1>1. CASE ReceiveAnswer(s)
  <2>1. PICK n : n = Observed(client[s], IF request[s].answer.accepted
                                          THEN request[s].answer.remaining ELSE 0)
    OBVIOUS
  <2>2. PICK c : c = IF request[s].lease = client[s].lease
                     THEN [client[s] EXCEPT !.remaining = n] ELSE client[s]
    OBVIOUS
  <2>3. Alike(c) /\ c = [f \in DOMAIN client[s] |-> c[f]]
    BY <1>t, <2>2 DEF ClientOf
  <2>4. PICK b : b = (c.sync \/ request[s].lease # client[s].lease
                             \/ request[s].paused # client[s].paused)
    OBVIOUS
  <2>5. PICK d : d = [c EXCEPT !.sync = b]
    OBVIOUS
  <2>6. Alike(d)
    BY <1>t, <2>3, <2>5 DEF ClientOf
  <2>7. /\ client' = [client EXCEPT ![s] = d] /\ UNCHANGED late
        /\ request' = [request EXCEPT ![s] = None]
    BY <1>1, <2>1, <2>2, <2>4, <2>5 DEF ReceiveAnswer, Observe
  <2>8. /\ d.begun \in Nat /\ client[s].begun <= d.begun /\ d.lease <= d.begun
        /\ d.scene <= MaxScenes /\ d.pausedIn <= MaxScenes
        /\ \A r \in late' : r \in late \/ (r.side = s /\ r.lease <= d.begun)
    BY <1>b, <2>6, <2>7
  <2>9. QED
    BY <1>s, <2>7, <2>8, ClientNames
<1>2. CASE FailRequest(s)
  <2>1. PICK d : d = [client[s] EXCEPT !.sync = TRUE]
    OBVIOUS
  <2>2. Alike(d)
    BY <1>t, <2>1 DEF ClientOf
  <2>3. /\ client' = [client EXCEPT ![s] = d] /\ request' = [request EXCEPT ![s] = None]
        /\ \A r \in late' : r \in late \/ (r.side = s /\ r.lease <= client[s].begun)
    BY <1>2, <2>1, AbandonNames DEF FailRequest
  <2>4. /\ d.begun \in Nat /\ client[s].begun <= d.begun /\ d.lease <= d.begun
        /\ d.scene <= MaxScenes /\ d.pausedIn <= MaxScenes
        /\ \A r \in late' : r \in late \/ (r.side = s /\ r.lease <= d.begun)
    BY <1>b, <2>2, <2>3
  <2>5. QED
    BY <1>s, <2>3, <2>4, ClientNames
<1>3. CASE RestartClient(s)
  <2>1. PICK d : d = Fresh(client[s])
    OBVIOUS
  <2>2. d.begun = client[s].begun /\ d.lease = 0 /\ d.scene = 0 /\ d.pausedIn = 0
    BY <2>1 DEF Fresh
  <2>3. /\ client' = [client EXCEPT ![s] = d] /\ request' = [request EXCEPT ![s] = None]
        /\ \A r \in late' : r \in late \/ (r.side = s /\ r.lease <= client[s].begun)
    BY <1>3, <2>1, AbandonNames DEF RestartClient
  <2>4. /\ d.begun \in Nat /\ client[s].begun <= d.begun /\ d.lease <= d.begun
        /\ d.scene <= MaxScenes /\ d.pausedIn <= MaxScenes
        /\ \A r \in late' : r \in late \/ (r.side = s /\ r.lease <= d.begun)
    BY <1>b, <2>2, <2>3, PauseBounds
  <2>5. QED
    BY <1>s, <2>3, <2>4, ClientNames
<1>4. QED
  BY <1>1, <1>2, <1>3

(* The handler, whoever waits for it. *)
LEMMA HandlersName ==
  ASSUME IInv, Terms, Names
  PROVE  /\ \A s \in Side : HandleRequest(s) => Names' /\ scene'.number = scene.number
         /\ \A r \in late : HandleLate(r) => Names' /\ scene'.number = scene.number
<1>1. ASSUME NEW s \in Side, HandleRequest(s)
      PROVE  Names' /\ scene'.number = scene.number
  <2>1. request[s] \in Wish(s)
    BY <1>1 DEF HandleRequest, IInv, ClientInv, Requests
  <2>2. Asked(Sent(s)) /\ Sent(s).side = s /\ Sent(s).lease <= client[s].begun
    BY <1>1, <2>1, PauseBounds DEF Asked, Sent, Wish, Lease, HandleRequest, Names, Named
  <2>3. /\ \A t \in Side : /\ pause'[t].startedAt <= MaxClock
                           /\ pause'[t].lease <= client[t].begun
        /\ scene'.number = scene.number
    BY <1>1, <2>2, HandleNames DEF HandleRequest
  <2>4. PICK a : a = [remaining |-> MatchPauseView(pause'[s], clock),
                      accepted  |-> ~(request[s].paused /\ (~Playing \/ Loser(pause) # {}))]
    OBVIOUS
  <2>5. request' = [request EXCEPT ![s].answer = a] /\ UNCHANGED <<client, late>>
    BY <1>1, <2>4 DEF HandleRequest
  <2>6. \A t \in Side : request'[t] # None =>
                          request[t] # None /\ request'[t].lease = request[t].lease
    BY <1>1, <2>1, <2>5 DEF IInv, ClientInv, Wish, HandleRequest
  <2>7. QED
    BY <2>3, <2>5, <2>6 DEF Names, Named
<1>2. ASSUME NEW r \in late, HandleLate(r)
      PROVE  Names' /\ scene'.number = scene.number
  <2>1. Asked(r) /\ r.lease <= client[r.side].begun
    BY DEF IInv, ClientInv, Requests, Asked, Names
  <2>2. /\ \A t \in Side : /\ pause'[t].startedAt <= MaxClock
                           /\ pause'[t].lease <= client[t].begun
        /\ scene'.number = scene.number
    BY <1>2, <2>1, HandleNames DEF HandleLate
  <2>3. UNCHANGED <<client, request>> /\ late' = late \ {r}
    BY <1>2 DEF HandleLate
  <2>4. QED
    BY <2>2, <2>3 DEF Names, Named
<1>3. QED
  BY <1>1, <1>2

LEMMA PollsName ==
  ASSUME IInv, Terms, Names, NEW s \in Side, Poll(s) \/ ConcedeMatch(s)
  PROVE  Names' /\ scene'.number = scene.number
<1>0. Scenes
  BY DEF IInv, ServerInv
<1>1. CASE Poll(s)
  <2>1. scene'.number = scene.number
    BY <1>0, <1>1, SettleKeepsNumber DEF Poll
  <2>2. client[s] \in ClientOf(s)
    BY DEF IInv, ClientInv
  <2>3. PICK n : n = Observed(client[s], MatchPauseView(pause[s], clock))
    OBVIOUS
  <2>4. PICK d : d = [[client[s] EXCEPT !.remaining = n] EXCEPT
                        !.scene = scene'.number, !.playing = scene'.playing]
    OBVIOUS
  <2>5. /\ d.begun = client[s].begun /\ d.lease = client[s].lease
        /\ d.pausedIn = client[s].pausedIn /\ d.scene = scene.number
    BY <2>1, <2>2, <2>4 DEF ClientOf
  <2>6. client' = [client EXCEPT ![s] = d] /\ UNCHANGED <<request, late, pause>>
    BY <1>1, <2>3, <2>4 DEF Poll, Observe
  <2>7. /\ d.begun \in Nat /\ client[s].begun <= d.begun /\ d.lease <= d.begun
        /\ d.scene <= MaxScenes /\ d.pausedIn <= MaxScenes
    BY <2>2, <2>5, PauseBounds DEF ClientOf, Names, Named, Terms
  <2>8. Names'
    BY <2>6, <2>7, ClientNames
  <2>9. QED
    BY <2>1, <2>8
<1>2. CASE ConcedeMatch(s)
  <2>1. UNCHANGED <<pause, client, request, late>>
    BY <1>2 DEF ConcedeMatch
  <2>2. scene'.number = scene.number
    <3>1. CASE Loser(pause) # {}
      BY <1>0, <1>2, <3>1, SettleKeepsNumber DEF ConcedeMatch
    <3>2. CASE Loser(pause) = {}
      BY <1>0, <1>2, <3>2 DEF ConcedeMatch, LoseMatch, Scenes
    <3>3. QED
      BY <3>1, <3>2
  <2>3. QED
    BY <2>1, <2>2 DEF Names, Named
<1>3. QED
  BY <1>1, <1>2

LEMMA TickNames ==
  ASSUME IInv, Names, Tick
  PROVE  Names'
<1>1. \A s \in Side : client[s] \in ClientOf(s)
  BY DEF IInv, ClientInv
<1>2. /\ client' = [s \in Side |-> [client[s] EXCEPT
                      !.remaining = IF client[s].paused THEN AtLeastZero(@, 1) ELSE @]]
      /\ UNCHANGED <<request, late, pause>>
  BY DEF Tick, server
<1>3. ASSUME NEW s \in Side
      PROVE  /\ client'[s].begun = client[s].begun /\ client'[s].lease = client[s].lease
             /\ client'[s].scene = client[s].scene /\ client'[s].pausedIn = client[s].pausedIn
  BY <1>1, <1>2 DEF ClientOf
<1>4. \A r \in late : r.side \in Side
  BY DEF IInv, ClientInv, Requests
<1>5. QED
  BY <1>2, <1>3, <1>4 DEF Names, Named

LEMMA BoundsStep == IInv /\ Terms /\ Names /\ [Next]_vars => (Terms /\ Names)'
<1> SUFFICES ASSUME IInv, Terms, Names, [Next]_vars PROVE (Terms /\ Names)'
  OBVIOUS
<1>n. clock \in Nat /\ {MaxClock, MaxFailures, MaxRestarts} \subseteq Nat /\ MaxScenes \in Nat
  BY PauseBounds DEF IInv, ServerInv
<1>1. CASE Tick
  BY <1>1, <1>n, TickNames DEF Tick, Terms, server
<1>2. CASE EndScene \/ LeasedStartEndsRound \/ BeginScene
  <2>1. UNCHANGED <<clock, pause, client, request, late, failures, restarts>>
    BY <1>2 DEF EndScene, LeasedStartEndsRound, SceneOver, BeginScene
  <2>2. scene'.number \in 1..MaxScenes
    BY <1>2, <1>n DEF EndScene, LeasedStartEndsRound, SceneOver, BeginScene, Terms,
                      IInv, ServerInv, Scenes
  <2>3. QED
    BY <2>1, <2>2 DEF Terms, Names, Named
<1>3. ASSUME NEW r \in late, HandleLate(r) PROVE (Terms /\ Names)'
  BY <1>3, HandlersName DEF HandleLate, Terms
<1>4. ASSUME NEW s \in Side, BeginPause(s) \/ EndPause(s) \/ FlushAgain(s)
      PROVE  (Terms /\ Names)'
  BY <1>4, FlushesName DEF BeginPause, EndPause, FlushAgain, Terms, server
<1>5. ASSUME NEW s \in Side, HandleRequest(s) PROVE (Terms /\ Names)'
  BY <1>5, HandlersName DEF HandleRequest, Terms
<1>6. ASSUME NEW s \in Side, ReceiveAnswer(s) \/ FailRequest(s) \/ RestartClient(s)
      PROVE  (Terms /\ Names)'
  BY <1>6, <1>n, AnswersName DEF ReceiveAnswer, FailRequest, RestartClient, Terms, server
<1>7. ASSUME NEW s \in Side, Poll(s) \/ ConcedeMatch(s) PROVE (Terms /\ Names)'
  BY <1>7, PollsName DEF Poll, ConcedeMatch, Terms
<1>8. CASE UNCHANGED vars
  BY <1>8 DEF vars, server, Terms, Names, Named
<1>9. QED
  BY <1>1, <1>2, <1>3, <1>4, <1>5, <1>6, <1>7, <1>8 DEF Next

LEMMA BoundsInit == Init => Terms /\ Names
<1> SUFFICES ASSUME Init PROVE Terms /\ Names
  OBVIOUS
<1>1. PICK c : c = [Fresh([begun |-> 0]) EXCEPT !.scene = 1, !.playing = TRUE]
  OBVIOUS
<1>2. c.begun = 0 /\ c.lease = 0 /\ c.scene = 1 /\ c.pausedIn = 0
  BY <1>1 DEF Fresh
<1>3. client = [s \in Side |-> c]
  BY <1>1 DEF Init
<1>n. {MaxClock, MaxFailures, MaxRestarts} \subseteq Nat /\ MaxScenes \in Nat \ {0}
  BY PauseBounds
<1>4. Terms
  BY <1>n DEF Init, Terms
<1>5. \A s \in Side : /\ pause[s].startedAt = 0 /\ pause[s].lease = 0
                      /\ client[s] = c /\ request[s] = None
  BY <1>3 DEF Init, EmptyMatchPause
<1>l. late = {} /\ (0 <= MaxScenes) /\ (1 <= MaxScenes) /\ (0 <= MaxClock)
  BY <1>n DEF Init
<1>6. Names
  BY <1>2, <1>5, <1>l DEF Names, Named
<1>7. QED
  BY <1>4, <1>6

(* What the server and the clients keep of pauses has its shape, and the server's
   lease of a side is never newer than the last that its client has begun
   (MatchPauseState, RankedRuntime). *)
THEOREM PauseTypes == Spec => []TypeOK
<1>1. IInv /\ Terms /\ Names => TypeOK
  <2> SUFFICES ASSUME IInv, Terms, Names PROVE TypeOK
    OBVIOUS
  <2>n. clock \in Nat /\ {MaxClock, MaxFailures, MaxRestarts} \subseteq Nat /\ MaxScenes \in Nat
    BY PauseBounds DEF IInv, ServerInv
  <2>1. clock \in 0..MaxClock
    BY <2>n DEF Terms
  <2>2. scene \in [number : 1..MaxScenes, playing : BOOLEAN]
    BY DEF Terms, IInv, ServerInv, Scenes
  <2>3. ASSUME NEW s \in Side
        PROVE  pause[s] \in PauseRecord(s) /\ client[s] \in ClientRecord(s)
    <3>1. /\ pause[s] \in [used : Remains, lease : Lease(s) \cup {0}, open : BOOLEAN,
                           startedAt : Nat, retired : SUBSET Lease(s)]
          /\ client[s] \in ClientOf(s) /\ Named(pause[s], client[s], request[s])
      BY DEF IInv, ServerInv, Honest, ClientInv, Names
    <3>2. pause[s].startedAt \in 0..MaxClock
      BY <2>n, <3>1 DEF Named
    <3>3. client[s].scene \in 0..MaxScenes /\ client[s].pausedIn \in 0..MaxScenes
      BY <2>n, <3>1 DEF Named, ClientOf
    <3>4. pause[s] \in PauseRecord(s)
      BY <3>1, <3>2 DEF PauseRecord
    <3>5. client[s] \in ClientRecord(s)
      BY <3>1, <3>3 DEF ClientRecord, ClientOf
    <3>6. QED
      BY <3>4, <3>5
  <2>4. \A s \in Side : pause[s].lease <= client[s].begun /\ (pause[s].open => pause[s].lease # 0)
    BY DEF IInv, ServerInv, Honest, Names, Named
  <2>5. lost = None \/ (lost \in [side : Side, by : {"PAUSE", "SURRENDER"}] /\ ~Playing)
    BY DEF IInv, ServerInv, Scenes
  <2>6. QED
    BY <2>1, <2>2, <2>3, <2>4, <2>5 DEF TypeOK, Terms
<1>2. Spec => [](Terms /\ Names)
  <2>1. Init => IInv /\ Terms /\ Names
    BY InitHolds, BoundsInit
  <2>2. (IInv /\ Terms /\ Names) /\ [Next]_vars => (IInv /\ Terms /\ Names)'
    BY StepHolds, BoundsStep
  <2>3. QED
    BY <2>1, <2>2, PTL DEF Spec
<1>3. QED
  BY <1>1, <1>2, PauseInvariant, PTL

-----------------------------------------------------------------------------
(* The way into a match *)

MatchRow == [state : {"MATCHED", "LIVE", "OVER"}, ver : Nat, token : Nat]

EntryRow == [status : {"NONE", "QUEUED", "MATCHED", "LEFT", "EXPIRED"},
             session : Nat, seen : Nat, match : Nat]

(* The place in the queue belongs to the live session, of a player who is in no
   match; the match that is not over is the only one. *)
Assigned ==
  /\ \A m, n \in Ongoing : m = n
  /\ entry.status = "QUEUED" => Ongoing = {} /\ entry.session = live.id
  /\ entry.status = "MATCHED" =>
       /\ entry.match \in 1..Len(matches)
       /\ \A m \in Ongoing : /\ entry.match = m /\ entry.session = live.id
                             /\ matches[m].token = live.id

Rows ==
  /\ now \in Nat /\ issued \in Nat
  /\ live \in [id : {0, issued}, dev : {"own", "other"}, seen : Nat, expires : Nat]
  /\ entry \in EntryRow /\ rival \in BOOLEAN
  /\ matches \in Seq(MatchRow)
  /\ Assigned

(* What the server answers; an answer about a match names one that exists. *)
Answer ==
  [code : {"none", "FAULT", "OK", "UNAUTHORIZED", "CONFLICT", "ELSEWHERE",
           "NOT_QUEUED", "QUEUED", "LEFT", "EXPIRED"}]
    \cup [code : {"SESSION"}, session : Nat, active : BOOLEAN]
    \cup [code : {"MATCHED"}, match : Nat, token : Nat]
    \cup [code : {"STATE"}, match : Nat, state : States, ver : Nat]

RequestRow ==
  [kind : {"none", "CONFIG", "PLACEMENT", "SESSION", "BEAT", "CLOSE", "JOIN", "LEAVE",
           "QUEUE", "MATCH", "READY"},
   session : Nat, match : Nat, token : Nat, take : BOOLEAN,
   phase : {"none", "sent", "admitted", "done"}, sentAt : Nat, answer : Answer]

DeviceRow ==
  [stage : Stages, session : Nat, deadline : Nat, match : Nat, state : States,
   ver : Nat, token : Nat, recovering : BOOLEAN, elsewhere : BOOLEAN]

Shapes ==
  /\ device \in DeviceRow
  /\ control \in RequestRow /\ poll \in RequestRow /\ beat \in RequestRow
  /\ unserved \subseteq RequestRow

(* Which request a channel may carry at which stage of the device. *)
Channels ==
  /\ control.kind \in {"none", "CONFIG", "PLACEMENT", "SESSION", "JOIN", "LEAVE", "READY"}
  /\ poll.kind \in {"none", "QUEUE", "MATCH"} /\ beat.kind \in {"none", "BEAT"}
  /\ \A r \in unserved : r.kind \in {"SESSION", "JOIN", "LEAVE", "CLOSE"}
  /\ \A r \in {control, poll, beat} : r.phase = "none" => r.kind = "none"
  /\ control.kind \in {"SESSION", "CONFIG"} => device.stage = "Loading" /\ device.session = 0
  /\ control.kind = "PLACEMENT" => device.stage = "Loading"
  /\ control.kind \in {"JOIN", "LEAVE"} => device.stage = "JoiningQueue"
  /\ control.kind = "READY" =>
       /\ device.stage \in {"Matched", "Ready"}
       /\ device.match \in {0, control.match}
  /\ poll.kind = "QUEUE" => device.stage = "Queued"
  /\ beat.kind = "BEAT" => beat.session = device.session
  /\ device.session = 0 => beat.kind = "none"
  /\ device.elsewhere => device.stage = "Error" /\ device.session = 0

(* The matches that are shown, asked about and answered exist. *)
Known ==
  /\ device.match \in 0..Len(matches)
  /\ device.stage = "Matched" => device.match # 0
  /\ \A r \in {control, poll} : 
       /\ r.kind \in {"MATCH", "READY"} => r.match \in 1..Len(matches)
       /\ r.answer.code = "MATCHED" => r.answer.match \in 1..Len(matches)
       /\ r.answer.code = "STATE" => r.answer.match = r.match

(* The session is no longer the one let in last, or the server counts its lease
   from t at the earliest. *)
OwnIsLive == live.id # 0 /\ live.dev = "own"
Covers(session, t) ==
  session = issued \/ OwnIsLive => OwnIsLive /\ live.seen >= t

(* The device never counts on a longer lease than the server has granted, and no
   Close that is under way is about its present session.  The end of the token
   is no part of it: the device does not know it. *)
Leases ==
  /\ \A r \in {control, poll, beat} \cup unserved : r.session <= issued /\ r.sentAt <= now
  /\ device.session <= issued
  /\ device.session # 0 =>
       /\ Covers(device.session, device.deadline - SessionLease)
       /\ device.deadline <= now + SessionLease
       /\ \A r \in unserved : r.kind = "CLOSE" => r.session < device.session
  /\ control.answer.code = "SESSION" =>
       /\ control.kind = "SESSION" /\ control.answer.session \in 1..issued
       /\ Covers(control.answer.session, control.sentAt)
       /\ \A r \in unserved : r.kind = "CLOSE" => r.session < control.answer.session
  /\ beat.answer.code = "OK" => beat.kind = "BEAT" /\ Covers(beat.session, beat.sentAt)

Screens == Shapes /\ Channels /\ Known /\ Leases

-----------------------------------------------------------------------------
(* The tables *)

(* One row of a match is written. *)
LEMMA EditFacts ==
  ASSUME NEW ms \in Seq(MatchRow), NEW m \in 1..Len(ms), NEW row \in MatchRow
  PROVE  /\ [ms EXCEPT ![m] = row] \in Seq(MatchRow)
         /\ DOMAIN [ms EXCEPT ![m] = row] = 1..Len(ms)
         /\ Len([ms EXCEPT ![m] = row]) = Len(ms)
         /\ [ms EXCEPT ![m] = row][m] = row
         /\ \A j \in 1..Len(ms) : j # m => [ms EXCEPT ![m] = row][j] = ms[j]
  BY ExceptSeq

(* Pairing the only entry of a player in no match puts him into one match. *)
LEMMA PairFacts ==
  ASSUME matches \in Seq(MatchRow), Ongoing = {}, NEW e \in EntryRow, Pair(e)
  PROVE  /\ matches' \in Seq(MatchRow)
         /\ entry' \in EntryRow /\ entry'.status = "MATCHED" /\ entry'.session = e.session
         /\ Ongoing' = {Len(matches')} /\ entry'.match = Len(matches')
         /\ entry'.match \in 1..Len(matches')
         /\ matches'[Len(matches')].token = e.session
<1> DEFINE row == [state |-> "MATCHED", ver |-> 1, token |-> e.session]
<1>1. row \in MatchRow
  BY DEF EntryRow, MatchRow
<1>2. matches' = Append(matches, row) /\ entry' = [e EXCEPT !.status = "MATCHED",
                                                            !.match = Len(matches')]
  BY DEF Pair
<1>3. /\ matches' \in Seq(MatchRow) /\ Len(matches') = Len(matches) + 1
      /\ \A i \in 1..Len(matches) : matches'[i] = matches[i]
      /\ matches'[Len(matches')] = row /\ Len(matches) \in Nat
  BY <1>1, <1>2, AppendProperties
<1>4. entry' \in EntryRow /\ entry'.status = "MATCHED" /\ entry'.session = e.session
      /\ entry'.match = Len(matches')
  <2>1. PICK n \in Nat : n = Len(matches')
    BY <1>3
  <2>2. entry' = [e EXCEPT !.status = "MATCHED", !.match = n]
    BY <1>2, <2>1
  <2>3. QED
    BY <2>1, <2>2 DEF EntryRow
<1>5. DOMAIN matches' = 1..Len(matches') /\ DOMAIN matches = 1..Len(matches)
  BY <1>3
<1>6. Ongoing' = {Len(matches')}
  <2>1. \A m \in 1..Len(matches) : matches[m].state = "OVER"
    BY <1>5 DEF Ongoing
  <2>2. row.state = "MATCHED"
    OBVIOUS
  <2> HIDE DEF row
  <2>3. Len(matches') \in DOMAIN matches'
        /\ \A m \in DOMAIN matches' : m # Len(matches') => m \in 1..Len(matches)
    BY <1>3, <1>5
  <2>4. \A m \in DOMAIN matches' : matches'[m].state # "OVER" <=> m = Len(matches')
    BY <1>3, <2>1, <2>2, <2>3
  <2>5. QED
    BY <2>3, <2>4 DEF Ongoing
<1>7. QED
  BY <1>3, <1>4, <1>6

(* A match is not over: its row is among the rows. *)
LEMMA OngoingFacts ==
  ASSUME matches \in Seq(MatchRow)
  PROVE  /\ Ongoing = {m \in 1..Len(matches) : matches[m].state # "OVER"}
         /\ TheMatch(Ongoing) = 0 => Ongoing = {}
         /\ TheMatch(Ongoing) # 0 => TheMatch(Ongoing) \in Ongoing
<1>1. DOMAIN matches = 1..Len(matches) /\ Len(matches) \in Nat
  OBVIOUS
<1>2. Ongoing # {} => TheMatch(Ongoing) \in Ongoing
  BY DEF TheMatch
<1>3. 0 \notin Ongoing /\ (Ongoing = {} => TheMatch(Ongoing) = 0)
  BY <1>1 DEF Ongoing, TheMatch
<1>4. QED
  BY <1>1, <1>2, <1>3 DEF Ongoing

-----------------------------------------------------------------------------
(* The transactions *)

(* A session is created: the only match that is not over is handed to it. *)
LEMMA CreateKeeps ==
  ASSUME Rows, NEW dev \in {"own", "other"}, NEW take, Create(dev, take), UNCHANGED now
  PROVE  Rows'
<1>1. CASE UNCHANGED rows
  BY <1>1 DEF rows, Rows, Assigned, Ongoing
<1>2. CASE ~UNCHANGED rows
  <2> DEFINE m == TheMatch(Ongoing)
  <2>0. PICK end \in Nat : end = now + SessionSeconds
    BY AdmissionBounds DEF Rows
  <2>1. /\ issued' = issued + 1
        /\ live' = [id |-> issued', dev |-> dev, seen |-> now, expires |-> end]
        /\ entry' = IF m = 0 THEN NoEntry
                    ELSE [status |-> "MATCHED", session |-> issued', seen |-> now, match |-> m]
        /\ matches' = IF m = 0 THEN matches ELSE [matches EXCEPT ![m].token = issued']
        /\ UNCHANGED rival
    BY <1>2, <2>0 DEF Create
  <2>2. matches \in Seq(MatchRow) /\ now \in Nat /\ issued \in Nat /\ rival \in BOOLEAN
        /\ (\A i, j \in Ongoing : i = j)
    BY DEF Rows, Assigned
  <2> HIDE DEF m
  <2>3. CASE m = 0
    <3>1. Ongoing = {}
      BY <2>2, <2>3, OngoingFacts DEF m
    <3>2. UNCHANGED matches /\ entry' = NoEntry
      BY <2>1, <2>3
    <3>3. NoEntry \in EntryRow /\ NoEntry.status = "NONE"
      BY DEF NoEntry, EntryRow
    <3>4. Assigned'
      BY <2>2, <3>2, <3>3 DEF Assigned, Ongoing
    <3>5. QED
      BY <2>1, <2>2, <3>2, <3>3, <3>4 DEF Rows
  <2>4. CASE m # 0
    <3>1. /\ m \in Ongoing /\ m \in 1..Len(matches)
      BY <2>2, <2>4, OngoingFacts DEF m
    <3>2. matches[m] \in MatchRow
      BY <2>2, <3>1
    <3>3. PICK row : row = [matches[m] EXCEPT !.token = issued']
      OBVIOUS
    <3>4. row \in MatchRow /\ row.state = matches[m].state /\ row.token = issued'
      BY <2>1, <2>2, <3>2, <3>3 DEF MatchRow
    <3>5. matches' = [matches EXCEPT ![m] = row]
      BY <2>1, <2>4, <3>3
    <3>6. /\ matches' \in Seq(MatchRow) /\ Len(matches') = Len(matches)
          /\ DOMAIN matches' = 1..Len(matches)
          /\ matches'[m] = row /\ \A j \in 1..Len(matches) : j # m => matches'[j] = matches[j]
      BY <2>2, <3>1, <3>4, <3>5, EditFacts
    <3>7. Ongoing' = Ongoing
      BY <2>2, <3>1, <3>4, <3>6 DEF Ongoing
    <3>8. /\ entry' = [status |-> "MATCHED", session |-> issued', seen |-> now, match |-> m]
          /\ entry' \in EntryRow
      BY <2>1, <2>2, <2>4, <3>1 DEF EntryRow
    <3>9. Assigned'
      BY <2>1, <2>2, <3>1, <3>4, <3>6, <3>7, <3>8 DEF Assigned
    <3>10. QED
      BY <2>1, <2>2, <3>6, <3>8, <3>9 DEF Rows
  <2>5. QED
    BY <2>3, <2>4
<1>3. QED
  BY <1>1, <1>2

(* The session is renewed, or closed with its place in the queue. *)
LEMMA SessionKeeps ==
  ASSUME Rows, NEW r, UNCHANGED now, Heartbeat(r) \/ Close(r)
  PROVE  Rows'
<1>1. CASE Heartbeat(r)
  <2>1. UNCHANGED <<issued, entry, rival, matches>>
    BY <1>1 DEF Heartbeat
  <2>2. live' \in [id : {0, issued}, dev : {"own", "other"}, seen : Nat, expires : Nat] /\ live'.id = live.id
    BY <1>1 DEF Heartbeat, Rows
  <2>3. QED
    BY <2>1, <2>2 DEF Rows, Assigned, Ongoing
<1>2. CASE Close(r)
  <2>1. CASE UNCHANGED rows
    BY <2>1 DEF rows, Rows, Assigned, Ongoing
  <2>2. CASE ~UNCHANGED rows
    <3>1. /\ r.session # 0 /\ r.session = live.id
          /\ entry' = IF entry.session = r.session THEN NoEntry ELSE entry
          /\ live' = NoSession /\ UNCHANGED <<issued, rival, matches>>
      BY <1>2, <2>2 DEF Close, Alive
    <3>2. NoEntry \in EntryRow /\ NoEntry.status = "NONE"
      BY DEF NoEntry, EntryRow
    <3>3. live' \in [id : {0, issued}, dev : {"own", "other"}, seen : Nat, expires : Nat]
      BY <3>1 DEF NoSession
    <3>4. entry' \in EntryRow
      BY <3>1, <3>2 DEF Rows
    <3>5. entry.status = "QUEUED" => entry.session = live.id
      BY DEF Rows, Assigned
    <3>6. entry.status = "MATCHED" /\ Ongoing # {} => entry.session = live.id
      BY DEF Rows, Assigned
    <3>7. Ongoing' = Ongoing /\ (\A i, j \in Ongoing : i = j)
      BY <3>1 DEF Ongoing, Rows, Assigned
    <3>8. Assigned'
      <4>1. CASE entry' = NoEntry
        BY <4>1, <3>2, <3>7 DEF Assigned
      <4>2. CASE entry' = entry /\ entry.session # r.session
        <5>1. entry'.status # "QUEUED" /\ (entry'.status = "MATCHED" => Ongoing = {})
          BY <4>2, <3>1, <3>5, <3>6
        <5>2. entry.status = "MATCHED" => entry.match \in 1..Len(matches)
          BY DEF Rows, Assigned
        <5>3. QED
          BY <5>1, <5>2, <4>2, <3>1, <3>7 DEF Assigned
      <4>3. QED
        BY <4>1, <4>2, <3>1
    <3>9. QED
      BY <3>1, <3>3, <3>4, <3>8 DEF Rows
  <2>3. QED
    BY <2>1, <2>2
<1>3. QED
  BY <1>1, <1>2

(* The queue: only a live session of a player in no match gets in. *)
LEMMA QueueKeeps ==
  ASSUME Rows, NEW r, UNCHANGED now, Join(r) \/ Leave(r) \/ QueueStatus(r)
  PROVE  Rows'
<1>1. CASE Join(r)
  <2> DEFINE own == [status |-> "QUEUED", session |-> r.session, seen |-> now, match |-> 0]
  <2>1. CASE UNCHANGED <<entry, rival, matches>>
    BY <1>1, <2>1 DEF Join, Rows, Assigned, Ongoing
  <2>2. CASE ~UNCHANGED <<entry, rival, matches>>
    <3>1. /\ UNCHANGED <<live, issued>> /\ JoinVerdict(r.session) = "OK"
          /\ \/ Pair(own) /\ rival' = FALSE
             \/ entry' = own /\ UNCHANGED <<rival, matches>>
      BY <1>1, <2>2 DEF Join
    <3>2. r.session = live.id /\ Ongoing = {}
      BY <3>1 DEF JoinVerdict, Alive
    <3>3. own \in EntryRow /\ own.session = live.id /\ own.status = "QUEUED"
      BY <3>2 DEF Rows, EntryRow
    <3> HIDE DEF own
    <3>4. CASE Pair(own) /\ rival' = FALSE
      BY <3>1, <3>2, <3>3, <3>4, PairFacts DEF Rows, Assigned
    <3>5. CASE entry' = own /\ UNCHANGED <<rival, matches>>
      BY <3>1, <3>2, <3>3, <3>5 DEF Rows, Assigned, Ongoing
    <3>6. QED
      BY <3>1, <3>4, <3>5
  <2>3. QED
    BY <2>1, <2>2
<1>2. CASE Leave(r)
  <2>1. /\ UNCHANGED <<live, issued, rival, matches>>
        /\ entry' = entry \/ entry' = [entry EXCEPT !.status = "LEFT"]
    BY <1>2 DEF Leave
  <2>2. QED
    BY <2>1 DEF Rows, EntryRow, Assigned, Ongoing
<1>3. CASE QueueStatus(r)
  <2>1. /\ UNCHANGED <<live, issued, rival, matches>>
        /\ entry' = entry \/ entry' = [entry EXCEPT !.seen = now]
    BY <1>3 DEF QueueStatus
  <2>2. QED
    BY <2>1 DEF Rows, EntryRow, Assigned, Ongoing
<1>4. QED
  BY <1>1, <1>2, <1>3

(* A match moves on: it is over for good, and stays the same match. *)
LEMMA MatchKeeps ==
  ASSUME Rows, NEW m \in Ongoing, NEW row \in MatchRow, row.token = matches[m].token,
         matches' = [matches EXCEPT ![m] = row],
         UNCHANGED <<now, live, issued, entry, rival>>
  PROVE  Rows'
<1>1. m \in 1..Len(matches) /\ matches \in Seq(MatchRow)
  BY OngoingFacts DEF Rows
<1>6. /\ matches' \in Seq(MatchRow) /\ Len(matches') = Len(matches)
      /\ DOMAIN matches' = 1..Len(matches) /\ DOMAIN matches = 1..Len(matches)
      /\ matches'[m] = row /\ \A j \in 1..Len(matches) : j # m => matches'[j] = matches[j]
  BY <1>1, EditFacts
<1>7. Ongoing' \subseteq Ongoing
  BY <1>6 DEF Ongoing
<1>8. \A j \in Ongoing' : matches'[j].token = matches[j].token
  BY <1>6 DEF Ongoing
<1>9. Assigned'
  BY <1>6, <1>7, <1>8 DEF Rows, Assigned
<1>10. QED
  BY <1>6, <1>9 DEF Rows

LEMMA MatchCallKeeps ==
  ASSUME Rows, NEW r, UNCHANGED now, MatchCall(r)
  PROVE  Rows'
<1>1. CASE UNCHANGED matches
  <2>1. UNCHANGED <<live, issued, entry, rival>>
    BY DEF MatchCall
  <2>2. QED
    BY <1>1, <2>1 DEF Rows, Assigned, Ongoing
<1>2. CASE ~UNCHANGED matches
  <2>1. /\ matches[r.match].state = "MATCHED"
        /\ matches' = [matches EXCEPT ![r.match].state = "LIVE", ![r.match].ver = @ + 1]
        /\ UNCHANGED <<live, issued, entry, rival>>
    BY <1>2 DEF MatchCall
  <2>2. PICK m : m = r.match
    OBVIOUS
  <2>3. matches \in Seq(MatchRow)
    BY DEF Rows
  <2>4. m \in 1..Len(matches)
    BY <1>2, <2>1, <2>2, <2>3
  <2>5. PICK old \in MatchRow : old = matches[m]
    BY <2>3, <2>4
  <2>v. PICK v \in Nat : v = old.ver + 1
    BY <2>5 DEF MatchRow
  <2>6. PICK row : row = [old EXCEPT !.state = "LIVE", !.ver = v]
    OBVIOUS
  <2>7. row \in MatchRow /\ row.token = matches[m].token
    BY <2>5, <2>v, <2>6 DEF MatchRow
  <2>8. matches' = [matches EXCEPT ![m] = row]
    BY <2>1, <2>2, <2>4, <2>5, <2>v, <2>6
  <2>9. m \in Ongoing
    BY <2>1, <2>2, <2>3, <2>4, OngoingFacts
  <2>10. QED
    BY <2>1, <2>7, <2>8, <2>9, MatchKeeps
<1>3. QED
  BY <1>1, <1>2

LEMMA TransactionKeeps ==
  ASSUME Rows, NEW r, UNCHANGED now, Transaction(r)
  PROVE  Rows'
  BY CreateKeeps, SessionKeeps, QueueKeeps, MatchCallKeeps DEF Transaction

(* The rest of the world: the rival, the end of a match, the other device. *)
LEMMA WorldKeeps ==
  ASSUME Rows,
         \/ RivalArrives \/ RivalGoes \/ MatchEnds \/ OtherBeats \/ OtherLeaves
         \/ TimePasses \/ \E take \in BOOLEAN : OtherEnters(take)
  PROVE  Rows'
<1>1. CASE RivalArrives
  <2> DEFINE e == IF entry.status = "QUEUED" /\ entry.seen + QueueLease <= now
                  THEN [entry EXCEPT !.status = "EXPIRED"] ELSE entry
  <2>1. /\ UNCHANGED <<now, live, issued>>
        /\ \/ e.status = "QUEUED" /\ Pair(e) /\ UNCHANGED rival
           \/ entry' = e /\ rival' = TRUE /\ UNCHANGED matches
    BY <1>1 DEF RivalArrives
  <2>2. /\ e \in EntryRow /\ (e.status = "QUEUED" => e = entry)
        /\ (e.status # "QUEUED" => e.status = "EXPIRED" \/ e = entry)
    BY DEF Rows, EntryRow
  <2> HIDE DEF e
  <2>3. CASE e.status = "QUEUED" /\ Pair(e) /\ UNCHANGED rival
    BY <2>1, <2>2, <2>3, PairFacts DEF Rows, Assigned
  <2>4. CASE entry' = e /\ rival' = TRUE /\ UNCHANGED matches
    BY <2>1, <2>2, <2>4 DEF Rows, Assigned, Ongoing
  <2>5. QED
    BY <2>1, <2>3, <2>4
<1>2. CASE RivalGoes
  BY <1>2 DEF RivalGoes, Rows, Assigned, Ongoing
<1>3. CASE MatchEnds
  <2>1. PICK m \in Ongoing :
          matches' = [matches EXCEPT ![m].state = "OVER", ![m].ver = @ + 1]
    BY <1>3 DEF MatchEnds
  <2>2. matches \in Seq(MatchRow) /\ m \in 1..Len(matches)
    BY OngoingFacts DEF Rows
  <2>3. PICK old \in MatchRow : old = matches[m]
    BY <2>2
  <2>v. PICK v \in Nat : v = old.ver + 1
    BY <2>3 DEF MatchRow
  <2>4. PICK row : row = [old EXCEPT !.state = "OVER", !.ver = v]
    OBVIOUS
  <2>5. row \in MatchRow /\ row.token = matches[m].token
    BY <2>3, <2>v, <2>4 DEF MatchRow
  <2>6. matches' = [matches EXCEPT ![m] = row] /\ UNCHANGED <<now, live, issued, entry, rival>>
    BY <1>3, <2>1, <2>2, <2>3, <2>v, <2>4 DEF MatchEnds
  <2>7. QED
    BY <2>5, <2>6, MatchKeeps
<1>4. CASE OtherBeats
  <2>1. live' = [live EXCEPT !.seen = now] /\ UNCHANGED <<now, issued, entry, rival, matches>>
    BY <1>4 DEF OtherBeats
  <2>2. QED
    BY <2>1 DEF Rows, Assigned, Ongoing
<1>5. CASE OtherLeaves
  BY <1>5, SessionKeeps DEF OtherLeaves
<1>6. CASE TimePasses
  BY <1>6 DEF TimePasses, rows, Rows, Assigned, Ongoing
<1>7. CASE \E take \in BOOLEAN : OtherEnters(take)
  BY <1>7, CreateKeeps DEF OtherEnters
<1>8. QED
  BY <1>1, <1>2, <1>3, <1>4, <1>5, <1>6, <1>7

(* What the device does by itself leaves the tables alone. *)
LEMMA DeviceLeavesRows == Callback \/ Timer \/ Player \/ Fault => UNCHANGED <<now, rows>>
  BY DEF Callback, Timer, Player, Fault, ConfigAnswered, SessionAnswered, PlacementAnswered,
         JoinAnswered, LeaveAnswered, QueueAnswered, MatchAnswered, ReadyAnswered,
         BeatAnswered, SendBeat, PollQueue, PollMatch, LeaseRunsOut, Begin, Recheck,
         TakeOver, JoinQueue, LeaveQueue, SubmitReady, DismissMatch, QueueAgain, LeaveRanked

LEMMA RowsInit == AdmissionInit => Rows
<1> SUFFICES ASSUME AdmissionInit PROVE Rows
  OBVIOUS
<1>1. matches = <<>> /\ matches \in Seq(MatchRow) /\ Ongoing = {}
  BY DEF AdmissionInit, Ongoing
<1>2. entry = NoEntry /\ entry \in EntryRow /\ entry.status = "NONE"
  BY DEF AdmissionInit, NoEntry, EntryRow
<1>3. live \in [id : {0, issued}, dev : {"own", "other"}, seen : Nat, expires : Nat]
  BY DEF AdmissionInit, NoSession
<1>4. QED
  BY <1>1, <1>2, <1>3 DEF AdmissionInit, Rows, Assigned

LEMMA RowsStep == Rows /\ [AdmissionNext]_admissionVars => Rows'
<1> SUFFICES ASSUME Rows, [AdmissionNext]_admissionVars PROVE Rows'
  OBVIOUS
<1>1. CASE UNCHANGED <<now, rows>>
  BY <1>1 DEF rows, Rows, Assigned, Ongoing
<1>2. CASE ServerStep \/ ServeLate
  <2>1. UNCHANGED <<now, rows>> \/ (UNCHANGED now /\ \E r : Transaction(r))
    BY <1>2 DEF ServerStep, ServeLate, ServeControl, ServePoll, ServeBeat, Serve
  <2>2. QED
    BY <1>1, <2>1, TransactionKeeps
<1>3. CASE Callback \/ Timer \/ Player \/ Fault
  BY <1>1, <1>3, DeviceLeavesRows
<1>4. CASE \/ RivalArrives \/ RivalGoes \/ MatchEnds \/ OtherBeats \/ OtherLeaves
          \/ TimePasses \/ \E take \in BOOLEAN : OtherEnters(take)
  BY <1>4, WorldKeeps
<1>5. CASE UNCHANGED admissionVars
  BY <1>1, <1>5 DEF admissionVars
<1>6. QED
  BY <1>2, <1>3, <1>4, <1>5 DEF AdmissionNext

(* However joins, take-overs, requests served late and the rival interleave, the
   tables agree with each other (session.service.ts, queue.service.ts). *)
THEOREM AdmissionRows == AdmissionSpec => []Rows
  BY RowsInit, RowsStep, PTL DEF AdmissionSpec

(* The place in the queue, the unfinished match and its token belong to the live
   session (lockAdmission, SessionService.create and close). *)
THEOREM AssignmentFollows == AdmissionSpec => []AssignmentFollowsSession
<1>1. Rows => AssignmentFollowsSession
  BY DEF Rows, Assigned, AssignmentFollowsSession
<1>2. QED
  BY <1>1, AdmissionRows, PTL

(* A player is in one unfinished match at most (assertNoActiveMatch). *)
THEOREM OneMatch == AdmissionSpec => []OneUnfinishedMatch
<1>1. Rows => OneUnfinishedMatch
  <2> SUFFICES ASSUME Rows PROVE Cardinality(Ongoing) <= 1
    BY DEF OneUnfinishedMatch
  <2>1. CASE Ongoing = {}
    BY <2>1, FS_EmptySet
  <2>2. CASE Ongoing # {}
    <3>1. PICK m : m \in Ongoing
      BY <2>2
    <3>2. \A n \in Ongoing : n = m
      BY <3>1 DEF Rows, Assigned
    <3>3. Ongoing = {m}
      BY <3>1, <3>2
    <3>4. Cardinality({m}) = 1
      BY FS_Singleton
    <3>5. QED
      BY <3>3, <3>4
  <2>3. QED
    BY <2>1, <2>2
<1>2. QED
  BY <1>1, AdmissionRows, PTL

-----------------------------------------------------------------------------
(* The device's requests *)

(* A plain answer, and a channel that carries nothing. *)
LEMMA IdleFacts ==
  /\ NoAnswer \in Answer /\ NoAnswer.code = "none"
  /\ Idle \in RequestRow /\ Idle.kind = "none" /\ Idle.phase = "none"
  /\ Idle.session = 0 /\ Idle.sentAt = 0 /\ Idle.answer = NoAnswer
<1>1. NoAnswer \in Answer /\ NoAnswer.code = "none"
  BY DEF NoAnswer, Answer
<1>2. QED
  BY <1>1 DEF Idle, RequestRow

(* A request is about what the device shows, from now on. *)
LEMMA RequestFacts ==
  ASSUME Shapes, now \in Nat,
         NEW k \in {"SESSION", "BEAT", "CLOSE", "JOIN", "LEAVE", "QUEUE", "MATCH", "READY"}
  PROVE  /\ Request(k) \in RequestRow /\ Request(k).kind = k /\ Request(k).phase = "sent"
         /\ Request(k).session = device.session
         /\ (k \in AboutMatch => Request(k).match = device.match)
         /\ Request(k).sentAt <= now /\ Request(k).answer = NoAnswer
<1> DEFINE m == IF k \in AboutMatch THEN device.match ELSE 0
           t == IF k \in AboutMatch THEN device.token ELSE 0
           at == IF k \in Leased THEN now ELSE 0
           a == [Idle EXCEPT !.kind = k, !.session = device.session, !.match = m]
<1>1. /\ device.session \in Nat /\ m \in Nat /\ t \in Nat /\ at \in Nat /\ at <= now
      /\ k \in AboutMatch => m = device.match
  BY DEF Shapes, DeviceRow
<1>3. Request(k) = [a EXCEPT !.token = t, !.phase = "sent", !.sentAt = at]
  BY DEF Request
<1> HIDE DEF m, t, at
<1>2. /\ a \in RequestRow /\ a.kind = k /\ a.session = device.session
      /\ a.match = m /\ a.answer = NoAnswer
  BY <1>1, IdleFacts DEF RequestRow
<1> HIDE DEF a
<1>4. QED
  BY <1>1, <1>2, <1>3 DEF RequestRow

(* A session asked for, over another device or not. *)
LEMMA SessionRequest ==
  ASSUME Shapes, now \in Nat, NEW take \in BOOLEAN
  PROVE  LET r == [Request("SESSION") EXCEPT !.take = take] IN
         /\ r \in RequestRow /\ r.kind = "SESSION" /\ r.phase = "sent"
         /\ r.session = device.session /\ r.sentAt <= now /\ r.answer = NoAnswer
<1> DEFINE q == Request("SESSION")
<1>1. /\ q \in RequestRow /\ q.kind = "SESSION" /\ q.phase = "sent"
      /\ q.session = device.session /\ q.sentAt <= now /\ q.answer = NoAnswer
  BY RequestFacts
<1> HIDE DEF q
<1>2. LET r == [q EXCEPT !.take = take] IN
         /\ r \in RequestRow /\ r.kind = "SESSION" /\ r.phase = "sent"
         /\ r.session = device.session /\ r.sentAt <= now /\ r.answer = NoAnswer
  BY <1>1 DEF RequestRow
<1>3. QED
  BY <1>2 DEF q

(* The queue asked about for a session that was just created. *)
LEMMA FirstQueueRequest ==
  ASSUME Shapes, now \in Nat, NEW n \in Nat
  PROVE  LET r == [Request("QUEUE") EXCEPT !.session = n] IN
         /\ r \in RequestRow /\ r.kind = "QUEUE" /\ r.phase = "sent"
         /\ r.session = n /\ r.sentAt <= now /\ r.answer = NoAnswer
<1> DEFINE q == Request("QUEUE")
<1>1. /\ q \in RequestRow /\ q.kind = "QUEUE" /\ q.phase = "sent"
      /\ q.session = device.session /\ q.sentAt <= now /\ q.answer = NoAnswer
  BY RequestFacts
<1> HIDE DEF q
<1>2. LET r == [q EXCEPT !.session = n] IN
         /\ r \in RequestRow /\ r.kind = "QUEUE" /\ r.phase = "sent"
         /\ r.session = n /\ r.sentAt <= now /\ r.answer = NoAnswer
  BY <1>1 DEF RequestRow
<1>3. QED
  BY <1>2 DEF q

(* The match that the queue just named. *)
LEMMA FirstMatchRequest ==
  ASSUME Shapes, now \in Nat, NEW m \in Nat, NEW t \in Nat
  PROVE  LET r == [Request("MATCH") EXCEPT !.match = m, !.token = t] IN
         /\ r \in RequestRow /\ r.kind = "MATCH" /\ r.phase = "sent" /\ r.session = device.session
         /\ r.match = m /\ r.sentAt <= now /\ r.answer = NoAnswer
<1> DEFINE q == Request("MATCH")
<1>1. /\ q \in RequestRow /\ q.kind = "MATCH" /\ q.phase = "sent"
      /\ q.session = device.session /\ q.sentAt <= now /\ q.answer = NoAnswer
  BY RequestFacts
<1> HIDE DEF q
<1>2. LET r == [q EXCEPT !.match = m, !.token = t] IN
         /\ r \in RequestRow /\ r.kind = "MATCH" /\ r.phase = "sent" /\ r.session = device.session
         /\ r.match = m /\ r.sentAt <= now /\ r.answer = NoAnswer
  BY <1>1 DEF RequestRow
<1>3. QED
  BY <1>2 DEF q

(* What is asked of another service is answered by its action. *)
LEMMA ForeignRequest ==
  ASSUME NEW k \in {"CONFIG", "PLACEMENT"}
  PROVE  LET r == [Idle EXCEPT !.kind = k, !.phase = "done"] IN
         /\ r \in RequestRow /\ r.kind = k /\ r.phase = "done"
         /\ r.session = 0 /\ r.sentAt = 0 /\ r.answer = NoAnswer
  BY IdleFacts DEF RequestRow

(* What is left of requests that nobody waits for. *)
LEMMA OrphanFacts ==
  ASSUME NEW R \in SUBSET RequestRow, NEW q \in Orphans(R)
  PROVE  /\ q \in RequestRow /\ q.kind \in {"SESSION", "JOIN", "LEAVE"}
         /\ \E r \in R : q.session = r.session /\ q.sentAt = r.sentAt
<1>1. PICK r \in R : r.kind \in {"SESSION", "JOIN", "LEAVE"}
                     /\ q = [r EXCEPT !.answer = NoAnswer]
  BY DEF Orphans
<1>2. r \in RequestRow
  OBVIOUS
<1>3. QED
  BY <1>1, <1>2, IdleFacts DEF RequestRow

(* The request as it is once served, or failed. *)
LEMMA DoneFacts ==
  ASSUME NEW r \in RequestRow, NEW a \in Answer
  PROVE  LET q == Done(r, a) IN
         /\ q \in RequestRow /\ q.kind = r.kind /\ q.session = r.session
         /\ q.match = r.match /\ q.sentAt = r.sentAt /\ q.answer = a /\ q.phase = "done"
  BY DEF Done, RequestRow

-----------------------------------------------------------------------------
(* The device: what it counts on *)

(* What was under way, or is left of the requests of the channels. *)
Left == \A r \in unserved' :
          r \in unserved \/ \E R \in SUBSET {control, poll, beat} : r \in Orphans(R)

LEMMA LeftFacts ==
  ASSUME Rows, Screens, Left
  PROVE  /\ \A r \in unserved' : r \in RequestRow
                                /\ r.kind \in {"SESSION", "JOIN", "LEAVE", "CLOSE"}
         /\ \A r \in unserved' : r \in unserved
              \/ (r.kind # "CLOSE" /\ r.session <= issued /\ r.sentAt <= now)
<1>1. {control, poll, beat} \in SUBSET RequestRow
  BY DEF Screens, Shapes
<1>2. \A r \in unserved : r \in RequestRow /\ r.kind \in {"SESSION", "JOIN", "LEAVE", "CLOSE"}
  BY DEF Screens, Shapes, Channels
<1>3. ASSUME NEW R \in SUBSET {control, poll, beat}, NEW r \in Orphans(R)
      PROVE  /\ r \in RequestRow /\ r.kind \in {"SESSION", "JOIN", "LEAVE"}
             /\ r.session <= issued /\ r.sentAt <= now
  <2>1. R \in SUBSET RequestRow
    BY <1>1
  <2>2. \A q \in R : q.session <= issued /\ q.sentAt <= now
    BY DEF Screens, Leases
  <2>3. QED
    BY <2>1, <2>2, OrphanFacts
<1>4. QED
  BY <1>2, <1>3 DEF Left

(* A step of the device that neither learns of a session nor extends its lease
   leaves it counting on no more than before. *)
LEMMA LeasesKeep ==
  ASSUME Rows, Screens, UNCHANGED <<now, rows>>, device' \in DeviceRow,
         device'.session = 0 \/ (device'.session = device.session
                                 /\ device'.deadline = device.deadline),
         \A r \in {control', poll', beat'} : r.session <= issued /\ r.sentAt <= now,
         control' = control \/ control'.answer.code # "SESSION",
         beat' = beat \/ beat'.answer.code # "OK",
         Left
  PROVE  Leases'
<1>1. \A r \in unserved' : r \in unserved
        \/ (r.kind # "CLOSE" /\ r.session <= issued /\ r.sentAt <= now)
  BY LeftFacts
<1>2. UNCHANGED <<now, live, issued>>
  BY DEF rows
<1>3. \A s, t : Covers(s, t) => Covers(s, t)'
  BY <1>2 DEF Covers, OwnIsLive
<1>4. \A r \in {control', poll', beat'} \cup unserved' : r.session <= issued /\ r.sentAt <= now
  BY <1>1 DEF Screens, Leases
<1>5. device'.session <= issued
  BY DEF Screens, Leases, Rows
<1>6. device'.session # 0 =>
        /\ Covers(device'.session, device'.deadline - SessionLease)
        /\ device'.deadline <= now + SessionLease
        /\ \A r \in unserved' : r.kind = "CLOSE" => r.session < device'.session
  BY <1>1 DEF Screens, Leases
<1>7. control'.answer.code = "SESSION" =>
        /\ control'.kind = "SESSION" /\ control'.answer.session \in 1..issued
        /\ Covers(control'.answer.session, control'.sentAt)
        /\ \A r \in unserved' : r.kind = "CLOSE" => r.session < control'.answer.session
  BY <1>1 DEF Screens, Leases
<1>8. beat'.answer.code = "OK" => beat'.kind = "BEAT" /\ Covers(beat'.session, beat'.sentAt)
  BY DEF Screens, Leases
<1>9. QED
  BY <1>2, <1>4, <1>5, <1>6, <1>7, <1>8 DEF Leases, Covers, OwnIsLive

(* A channel that is free carries no answer that would count. *)
LEMMA OldRequests ==
  ASSUME Rows, Screens
  PROVE  /\ device \in DeviceRow /\ control \in RequestRow /\ poll \in RequestRow
         /\ beat \in RequestRow /\ now \in Nat /\ issued \in Nat /\ Len(matches) \in Nat
         /\ Shapes
         /\ \A r \in {control, poll, beat, Idle} : r.session <= issued /\ r.sentAt <= now
         /\ device.session <= issued
  BY IdleFacts DEF Rows, Screens, Shapes, Leases

-----------------------------------------------------------------------------
(* The device: its steps *)

LEMMA BeginKeeps ==
  ASSUME Rows, Screens, Begin
  PROVE  Screens'
<1> DEFINE d == [Out EXCEPT !.stage = "Loading"]
           c == [Idle EXCEPT !.kind = "CONFIG", !.phase = "done"]
<1>0. NoAnswer.code = "none"
  BY IdleFacts
<1>1. /\ d \in DeviceRow /\ d.stage = "Loading" /\ d.session = 0 /\ d.match = 0
      /\ d.elsewhere = FALSE
  BY DEF Out, DeviceRow, Stages, States
<1>2. /\ c \in RequestRow /\ c.kind = "CONFIG" /\ c.phase = "done"
      /\ c.session = 0 /\ c.sentAt = 0 /\ c.answer = NoAnswer
  BY ForeignRequest
<1>3. /\ device' = d /\ control' = c /\ poll' = Idle /\ beat' = Idle
      /\ unserved' = unserved \cup Orphans({control, poll, beat}) /\ UNCHANGED <<now, rows>>
  BY DEF Begin, Show, Ask
<1> HIDE DEF d, c
<1>l. Left
  BY <1>3 DEF Left
<1>4. \A r \in unserved' : r \in RequestRow /\ r.kind \in {"SESSION", "JOIN", "LEAVE", "CLOSE"}
  BY <1>l, LeftFacts
<1>5. Shapes' /\ Channels'
  BY <1>1, <1>2, <1>3, <1>4, IdleFacts DEF Shapes, Channels
<1>6. Known'
  BY <1>0, <1>1, <1>2, <1>3, IdleFacts, OldRequests DEF Known, rows
<1>7. Leases'
  BY <1>0, <1>l, <1>1, <1>2, <1>3, LeasesKeep, IdleFacts, OldRequests
<1>8. QED
  BY <1>5, <1>6, <1>7 DEF Screens

LEMMA ConfigKeeps ==
  ASSUME Rows, Screens, ConfigAnswered
  PROVE  Screens'
<1>0. NoAnswer.code = "none"
  BY IdleFacts
<1>1. control.kind = "CONFIG" /\ device.stage = "Loading" /\ device.session = 0
  BY DEF ConfigAnswered, Answered, Screens, Channels
<1>2. /\ UNCHANGED <<now, rows, poll, beat, unserved>>
      /\ \/ \E st \in {"Error", "AwaitingUpdate", "Blocked"} :
              device' = [device EXCEPT !.stage = st] /\ control' = Idle
         \/ /\ device' = [device EXCEPT !.stage = "Loading", !.elsewhere = FALSE]
            /\ control' = [Request("SESSION") EXCEPT !.take = FALSE]
  BY DEF ConfigAnswered, SendCreate, Show, Ask
<1>3. /\ device' \in DeviceRow /\ device'.session = 0 /\ device'.match = device.match
      /\ device'.stage \in {"Error", "AwaitingUpdate", "Blocked", "Loading"}
      /\ device'.deadline = device.deadline
      /\ control' # Idle => device'.stage = "Loading"
      /\ device'.elsewhere => device'.stage = "Error"
  <2>1. device \in DeviceRow /\ (device.elsewhere => device.stage = "Error")
    BY OldRequests DEF Screens, Channels
  <2>2. CASE \E st \in {"Error", "AwaitingUpdate", "Blocked"} :
              device' = [device EXCEPT !.stage = st] /\ control' = Idle
    BY <1>1, <2>1, <2>2 DEF DeviceRow, Stages
  <2>3. CASE device' = [device EXCEPT !.stage = "Loading", !.elsewhere = FALSE]
    BY <1>1, <2>1, <2>3 DEF DeviceRow, Stages
  <2>4. QED
    BY <1>2, <2>2, <2>3
<1>4. /\ control' \in RequestRow /\ control'.kind \in {"none", "SESSION"}
      /\ control'.phase = "none" => control'.kind = "none"
      /\ control'.session <= issued /\ control'.sentAt <= now /\ control'.answer = NoAnswer
      /\ control'.kind = "SESSION" => control' # Idle
  <2> DEFINE q == [Request("SESSION") EXCEPT !.take = FALSE]
  <2>1. /\ q \in RequestRow /\ q.kind = "SESSION" /\ q.phase = "sent"
        /\ q.session = device.session /\ q.sentAt <= now /\ q.answer = NoAnswer
    BY SessionRequest, OldRequests
  <2>2. control' = Idle \/ control' = q
    BY <1>2
  <2> HIDE DEF q
  <2>3. QED
    BY <1>1, <2>1, <2>2, IdleFacts, OldRequests
<1>5. Shapes' /\ Channels'
  BY <1>1, <1>2, <1>3, <1>4 DEF Screens, Shapes, Channels
<1>6. Known'
  BY <1>0, <1>2, <1>3, <1>4 DEF Screens, Known, rows
<1>7. Leases'
  BY <1>0, <1>1, <1>2, <1>3, <1>4, LeasesKeep, OldRequests DEF Left
<1>8. QED
  BY <1>5, <1>6, <1>7 DEF Screens

LEMMA RecheckKeeps ==
  ASSUME Rows, Screens, Recheck
  PROVE  Screens'
<1>0. NoAnswer.code = "none"
  BY IdleFacts
<1> DEFINE c == [Idle EXCEPT !.kind = "CONFIG", !.phase = "done"]
<1>1. /\ c \in RequestRow /\ c.kind = "CONFIG" /\ c.phase = "done"
      /\ c.session = 0 /\ c.sentAt = 0 /\ c.answer = NoAnswer
  BY ForeignRequest
<1>2. /\ device.stage = "Blocked" /\ UNCHANGED <<now, rows, poll, beat, unserved>>
      /\ \/ /\ device.session = 0 /\ Free(control) /\ control' = c
            /\ device' = [device EXCEPT !.stage = "Loading"]
         \/ /\ device.session # 0 /\ UNCHANGED control
            /\ device' = [device EXCEPT !.stage = IF device.match = 0 THEN "Ready" ELSE "Matched"]
  BY DEF Recheck, Show, Ask
<1> HIDE DEF c
<1>3. /\ device \in DeviceRow /\ device.elsewhere = FALSE
      /\ control.kind = "none" /\ poll.kind # "QUEUE"
  BY <1>2, OldRequests DEF Screens, Channels, DeviceRow
<1>4. /\ device' \in DeviceRow /\ device'.session = device.session
      /\ device'.deadline = device.deadline /\ device'.match = device.match
      /\ device'.elsewhere = FALSE
      /\ device'.stage = "Matched" => device.match # 0
      /\ control' # control => device'.stage = "Loading"
  BY <1>2, <1>3 DEF DeviceRow, Stages
<1>5. control' = control \/ (control' = c /\ device.session = 0)
  BY <1>2
<1>6. Shapes' /\ Channels'
  BY <1>1, <1>2, <1>3, <1>4, <1>5 DEF Screens, Shapes, Channels
<1>7. Known'
  BY <1>0, <1>1, <1>2, <1>4, <1>5 DEF Screens, Known, rows
<1>8. Leases'
  BY <1>0, <1>1, <1>2, <1>4, <1>5, LeasesKeep, OldRequests DEF Left
<1>9. QED
  BY <1>6, <1>7, <1>8 DEF Screens

LEMMA TakeOverKeeps ==
  ASSUME Rows, Screens, TakeOver
  PROVE  Screens'
<1>0. NoAnswer.code = "none"
  BY IdleFacts
<1> DEFINE q == [Request("SESSION") EXCEPT !.take = TRUE]
<1>1. /\ q \in RequestRow /\ q.kind = "SESSION" /\ q.phase = "sent"
      /\ q.session = device.session /\ q.sentAt <= now /\ q.answer = NoAnswer
  BY SessionRequest, OldRequests
<1>2. /\ device.elsewhere /\ control' = q /\ UNCHANGED <<now, rows, poll, beat, unserved>>
      /\ device' = [device EXCEPT !.stage = "Loading", !.elsewhere = FALSE]
  BY DEF TakeOver, SendCreate, Show, Ask
<1> HIDE DEF q
<1>3. device \in DeviceRow /\ device.stage = "Error" /\ device.session = 0 /\ poll.kind # "QUEUE"
  BY <1>2, OldRequests DEF Screens, Channels
<1>4. /\ device' \in DeviceRow /\ device'.session = 0 /\ device'.match = device.match
      /\ device'.stage = "Loading" /\ device'.elsewhere = FALSE
  BY <1>2, <1>3 DEF DeviceRow, Stages
<1>5. Shapes' /\ Channels'
  BY <1>1, <1>2, <1>3, <1>4 DEF Screens, Shapes, Channels
<1>6. Known'
  BY <1>0, <1>1, <1>2, <1>4 DEF Screens, Known, rows
<1>7. Leases'
  BY <1>0, <1>1, <1>2, <1>3, <1>4, LeasesKeep, OldRequests DEF Left
<1>8. QED
  BY <1>5, <1>6, <1>7 DEF Screens

(* What an answer carries. *)
LEMMA AnswerFacts ==
  ASSUME NEW a \in Answer
  PROVE  /\ a.code = "SESSION" => a.session \in Nat /\ a.active \in BOOLEAN
         /\ a.code = "MATCHED" => a.match \in Nat /\ a.token \in Nat
         /\ a.code = "STATE" => a.match \in Nat /\ a.state \in States /\ a.ver \in Nat
  BY DEF Answer

(* The session that the device now holds was granted after its request was sent. *)
LEMMA SessionAnsweredKeeps ==
  ASSUME Rows, Screens, SessionAnswered
  PROVE  Screens'
<1> DEFINE a == control.answer
<1>0. NoAnswer.code = "none"
  BY IdleFacts
<1>1. /\ control.kind = "SESSION" /\ device.stage = "Loading" /\ device.session = 0
      /\ device \in DeviceRow /\ device.elsewhere = FALSE /\ poll.kind # "QUEUE"
      /\ beat.kind = "none" /\ control \in RequestRow /\ a \in Answer
      /\ UNCHANGED <<now, rows, beat, unserved>>
  BY OldRequests DEF SessionAnswered, Answered, Screens, Channels, DeviceRow, RequestRow
<1>2. CASE a.code # "SESSION"
  <2>1. /\ device' = [device EXCEPT !.stage = "Error", !.elsewhere = (a.code = "ELSEWHERE")]
        /\ control' = Idle /\ UNCHANGED poll
    BY <1>2 DEF SessionAnswered, Show
  <2>2. PICK b \in BOOLEAN : b = (a.code = "ELSEWHERE")
    OBVIOUS
  <2>3. device' = [device EXCEPT !.stage = "Error", !.elsewhere = b]
    BY <2>1, <2>2
  <2>4. /\ device' \in DeviceRow /\ device'.session = 0 /\ device'.match = device.match
        /\ device'.stage = "Error"
    BY <1>1, <2>3 DEF DeviceRow, Stages
  <2>5. Shapes' /\ Channels'
    BY <1>1, <2>1, <2>4, IdleFacts DEF Screens, Shapes, Channels
  <2>6. Known'
    BY <1>0, <1>1, <2>1, <2>4, IdleFacts DEF Screens, Known, rows
  <2>7. Leases'
    BY <1>0, <1>1, <2>1, <2>4, LeasesKeep, IdleFacts, OldRequests DEF Left
  <2>8. QED
    BY <2>5, <2>6, <2>7 DEF Screens
<1>3. CASE a.code = "SESSION"
  <2>a. /\ a.session \in Nat /\ a.active \in BOOLEAN /\ a.session \in 1..issued
        /\ Covers(a.session, control.sentAt) /\ control.sentAt \in Nat /\ control.sentAt <= now
        /\ \A r \in unserved : r.kind = "CLOSE" => r.session < a.session
    BY <1>1, <1>3, AnswerFacts DEF Screens, Leases, RequestRow
  <2> DEFINE n == a.session
             until == control.sentAt + SessionLease
             v == [device EXCEPT !.session = n, !.deadline = until]
             w == [v EXCEPT !.stage = "Queued", !.recovering = TRUE]
             p == [Request("QUEUE") EXCEPT !.session = n]
             c == [Idle EXCEPT !.kind = "PLACEMENT", !.phase = "done"]
  <2>1. \/ a.active /\ device' = w /\ poll' = p /\ control' = Idle
        \/ ~a.active /\ device' = v /\ UNCHANGED poll /\ control' = c
    BY <1>3 DEF SessionAnswered, Show, Ask
  <2>2. n \in Nat /\ until \in Nat /\ until - SessionLease = control.sentAt
        /\ until <= now + SessionLease /\ SessionLease \in Nat /\ n # 0
    BY <2>a, OldRequests, AdmissionBounds
  <2>3. /\ p \in RequestRow /\ p.kind = "QUEUE" /\ p.phase = "sent"
        /\ p.session = n /\ p.sentAt <= now /\ p.answer = NoAnswer
    BY <2>2, FirstQueueRequest, OldRequests
  <2>4. /\ c \in RequestRow /\ c.kind = "PLACEMENT" /\ c.phase = "done"
        /\ c.session = 0 /\ c.sentAt = 0 /\ c.answer = NoAnswer
    BY ForeignRequest
  <2> HIDE DEF n, until, p, c
  <2>5. /\ v \in DeviceRow /\ v.session = n /\ v.deadline = until /\ v.stage = "Loading"
        /\ v.elsewhere = FALSE /\ v.match = device.match
    BY <1>1, <2>2 DEF DeviceRow
  <2> HIDE DEF v
  <2>6. /\ w \in DeviceRow /\ w.session = n /\ w.deadline = until /\ w.stage = "Queued"
        /\ w.elsewhere = FALSE /\ w.match = device.match
    BY <2>5 DEF DeviceRow, Stages
  <2> HIDE DEF w
  <2>7. /\ device' \in DeviceRow /\ device'.session = n /\ device'.deadline = until
        /\ device'.elsewhere = FALSE /\ device'.match = device.match
        /\ device'.stage \in {"Loading", "Queued"}
        /\ control' \in {Idle, c} /\ poll' \in {poll, p}
        /\ control' = Idle \/ device'.stage = "Loading"
        /\ poll' = poll \/ device'.stage = "Queued"
    BY <2>1, <2>5, <2>6
  <2>8. Shapes' /\ Channels'
    BY <1>1, <2>2, <2>3, <2>4, <2>7, IdleFacts DEF Screens, Shapes, Channels
  <2>9. Known'
    BY <1>0, <1>1, <2>3, <2>4, <2>7, IdleFacts DEF Screens, Known, rows
  <2>10. Leases'
    <3>1. \A r \in {control', poll', beat'} \cup unserved' : r.session <= issued /\ r.sentAt <= now
      BY <1>1, <2>a, <2>3, <2>4, <2>7, IdleFacts, OldRequests DEF Screens, Leases, n
    <3>2. Covers(n, device'.deadline - SessionLease)
      BY <2>a, <2>2, <2>7 DEF n
    <3>3. /\ device'.session <= issued /\ device'.session # 0
          /\ device'.deadline <= now + SessionLease
          /\ \A r \in unserved' : r.kind = "CLOSE" => r.session < device'.session
      BY <1>1, <2>a, <2>2, <2>7 DEF n
    <3>4. control'.answer.code # "SESSION"
      BY <1>0, <2>4, <2>7, IdleFacts
    <3>5. beat'.answer.code = "OK" => beat'.kind = "BEAT" /\ Covers(beat'.session, beat'.sentAt)
      BY <1>1 DEF Screens, Leases
    <3>6. UNCHANGED <<now, live, issued>>
      BY <1>1 DEF rows
    <3>7. QED
      BY <2>7, <3>1, <3>2, <3>3, <3>4, <3>5, <3>6 DEF Leases, Covers, OwnIsLive
  <2>11. QED
    BY <2>8, <2>9, <2>10 DEF Screens
<1>4. QED
  BY <1>2, <1>3

LEMMA PlacementKeeps ==
  ASSUME Rows, Screens, PlacementAnswered
  PROVE  Screens'
<1>0. NoAnswer.code = "none"
  BY IdleFacts
<1>1. /\ control.kind = "PLACEMENT" /\ device.stage = "Loading" /\ device \in DeviceRow
      /\ device.elsewhere = FALSE /\ poll.kind # "QUEUE" /\ control' = Idle
      /\ UNCHANGED <<now, rows, poll, beat, unserved>>
  BY OldRequests DEF PlacementAnswered, Answered, Screens, Channels, DeviceRow
<1>2. PICK st \in {"Error", "Ready"} : device' = [device EXCEPT !.stage = st]
  BY DEF PlacementAnswered, Show
<1>3. /\ device' \in DeviceRow /\ device'.session = device.session
      /\ device'.deadline = device.deadline /\ device'.match = device.match
      /\ device'.elsewhere = FALSE /\ device'.stage \in {"Error", "Ready"}
  BY <1>1, <1>2 DEF DeviceRow, Stages
<1>4. Shapes' /\ Channels'
  BY <1>1, <1>3, IdleFacts DEF Screens, Shapes, Channels
<1>5. Known'
  BY <1>0, <1>1, <1>3, IdleFacts DEF Screens, Known, rows
<1>6. Leases'
  BY <1>0, <1>1, <1>3, LeasesKeep, IdleFacts, OldRequests DEF Left
<1>7. QED
  BY <1>4, <1>5, <1>6 DEF Screens

(* The device asks to be let into the queue, from the view v. *)
LEMMA SendJoinKeeps ==
  ASSUME Rows, Screens, NEW v \in DeviceRow, v.session = device.session,
         v.deadline = device.deadline, v.match \in {0, device.match}, v.elsewhere = FALSE,
         device.stage \in {"Ready", "Matched"}, Free(control), SendJoin(v),
         UNCHANGED <<now, rows, beat>>
  PROVE  Screens'
<1>0. NoAnswer.code = "none"
  BY IdleFacts
<1>1. control.kind = "none" /\ poll.kind # "QUEUE"
  BY DEF Free, Screens, Channels
<1> DEFINE q == Request("JOIN")
<1>2. /\ q \in RequestRow /\ q.kind = "JOIN" /\ q.phase = "sent"
      /\ q.session = device.session /\ q.sentAt <= now /\ q.answer = NoAnswer
  BY RequestFacts, OldRequests
<1>3. \/ /\ device' = [v EXCEPT !.stage = "JoiningQueue"] /\ control' = q
         /\ unserved' = unserved \cup Orphans({poll}) /\ poll' = Idle
      \/ device' = [v EXCEPT !.stage = "Blocked"] /\ UNCHANGED <<control, unserved, poll>>
  BY DEF SendJoin, Show, Ask
<1> HIDE DEF q
<1>4. /\ device' \in DeviceRow /\ device'.session = device.session
      /\ device'.deadline = device.deadline /\ device'.match \in {0, device.match}
      /\ device'.elsewhere = FALSE /\ device'.stage \in {"JoiningQueue", "Blocked"}
      /\ control' = control \/ (control' = q /\ device'.stage = "JoiningQueue")
      /\ poll' \in {poll, Idle}
  BY <1>3 DEF DeviceRow, Stages
<1>5. Left
  BY <1>3 DEF Left
<1>6. Shapes' /\ Channels'
  BY <1>1, <1>2, <1>4, <1>5, LeftFacts, IdleFacts DEF Screens, Shapes, Channels
<1>7. Known'
  BY <1>0, <1>2, <1>4, IdleFacts DEF Screens, Known, rows
<1>8. Leases'
  BY <1>0, <1>2, <1>4, <1>5, LeasesKeep, IdleFacts, OldRequests
<1>9. QED
  BY <1>6, <1>7, <1>8 DEF Screens

LEMMA DismissedFacts ==
  ASSUME device \in DeviceRow
  PROVE  LET v == Dismissed(device) IN
         /\ v \in DeviceRow /\ v.session = device.session /\ v.deadline = device.deadline
         /\ v.match = 0 /\ v.elsewhere = device.elsewhere /\ v.stage = "Ready"
  BY DEF Dismissed, DeviceRow, Stages, States

LEMMA JoinsKeep ==
  ASSUME Rows, Screens, JoinQueue \/ QueueAgain
  PROVE  Screens'
<1>1. /\ device \in DeviceRow /\ Free(control) /\ device.stage \in {"Ready", "Matched"}
      /\ device.elsewhere = FALSE /\ UNCHANGED <<now, rows, beat>>
  BY OldRequests DEF JoinQueue, QueueAgain, Screens, Channels, DeviceRow
<1>2. CASE JoinQueue
  BY <1>1, <1>2, SendJoinKeeps DEF JoinQueue
<1>3. CASE QueueAgain
  <2> DEFINE v == Dismissed(device)
  <2>1. SendJoin(v)
    BY <1>3 DEF QueueAgain
  <2>2. /\ v \in DeviceRow /\ v.session = device.session /\ v.deadline = device.deadline
        /\ v.match = 0 /\ v.elsewhere = FALSE
    BY <1>1, DismissedFacts
  <2> HIDE DEF v
  <2>3. QED
    BY <1>1, <2>1, <2>2, SendJoinKeeps
<1>4. QED
  BY <1>2, <1>3

LEMMA JoinAnsweredKeeps ==
  ASSUME Rows, Screens, JoinAnswered
  PROVE  Screens'
<1>0. NoAnswer.code = "none"
  BY IdleFacts
<1> DEFINE q == Request("QUEUE")
<1>1. /\ control.kind = "JOIN" /\ device.stage = "JoiningQueue" /\ device \in DeviceRow
      /\ device.elsewhere = FALSE /\ poll.kind # "QUEUE" /\ control' = Idle
      /\ UNCHANGED <<now, rows, beat, unserved>>
  BY OldRequests DEF JoinAnswered, Answered, Screens, Channels, DeviceRow
<1>2. /\ q \in RequestRow /\ q.kind = "QUEUE" /\ q.phase = "sent"
      /\ q.session = device.session /\ q.sentAt <= now /\ q.answer = NoAnswer
  BY RequestFacts, OldRequests
<1>3. \/ device' = [device EXCEPT !.stage = "Queued"] /\ poll' \in {q, poll}
      \/ device' = [device EXCEPT !.stage = "Ready"] /\ UNCHANGED poll
  BY DEF JoinAnswered, Show
<1> HIDE DEF q
<1>4. /\ device' \in DeviceRow /\ device'.session = device.session
      /\ device'.deadline = device.deadline /\ device'.match = device.match
      /\ device'.elsewhere = FALSE /\ device'.stage \in {"Queued", "Ready"}
      /\ poll' = poll \/ (poll' = q /\ device'.stage = "Queued")
  BY <1>1, <1>3 DEF DeviceRow, Stages
<1>5. Shapes' /\ Channels'
  BY <1>1, <1>2, <1>4, IdleFacts DEF Screens, Shapes, Channels
<1>6. Known'
  BY <1>0, <1>1, <1>2, <1>4, IdleFacts DEF Screens, Known, rows
<1>7. Leases'
  BY <1>0, <1>1, <1>2, <1>4, LeasesKeep, IdleFacts, OldRequests DEF Left
<1>8. QED
  BY <1>5, <1>6, <1>7 DEF Screens

LEMMA LeaveKeeps ==
  ASSUME Rows, Screens, LeaveQueue \/ LeaveAnswered
  PROVE  Screens'
<1>0. NoAnswer.code = "none"
  BY IdleFacts
<1>1. CASE LeaveQueue
  <2> DEFINE q == Request("LEAVE")
  <2>1. /\ q \in RequestRow /\ q.kind = "LEAVE" /\ q.phase = "sent"
        /\ q.session = device.session /\ q.sentAt <= now /\ q.answer = NoAnswer
    BY RequestFacts, OldRequests
  <2>2. /\ device' = [device EXCEPT !.stage = "JoiningQueue"] /\ control' = q
        /\ unserved' = unserved \cup Orphans({poll}) /\ poll' = Idle
        /\ device.stage = "Queued" /\ UNCHANGED <<now, rows, beat>>
    BY <1>1 DEF LeaveQueue, Show, Ask
  <2> HIDE DEF q
  <2>3. device \in DeviceRow /\ device.elsewhere = FALSE
    BY <2>2, OldRequests DEF Screens, Channels, DeviceRow
  <2>4. /\ device' \in DeviceRow /\ device'.session = device.session
        /\ device'.deadline = device.deadline /\ device'.match = device.match
        /\ device'.elsewhere = FALSE /\ device'.stage = "JoiningQueue"
    BY <2>2, <2>3 DEF DeviceRow, Stages
  <2>5. Left
    BY <2>2 DEF Left
  <2>6. Shapes' /\ Channels'
    BY <2>1, <2>2, <2>4, <2>5, LeftFacts, IdleFacts DEF Screens, Shapes, Channels
  <2>7. Known'
    BY <1>0, <2>1, <2>2, <2>4, IdleFacts DEF Screens, Known, rows
  <2>8. Leases'
    BY <1>0, <2>1, <2>2, <2>4, <2>5, LeasesKeep, IdleFacts, OldRequests
  <2>9. QED
    BY <2>6, <2>7, <2>8 DEF Screens
<1>2. CASE LeaveAnswered
  <2>1. /\ control.kind = "LEAVE" /\ device.stage = "JoiningQueue" /\ device \in DeviceRow
        /\ device.elsewhere = FALSE /\ poll.kind # "QUEUE" /\ control' = Idle
        /\ UNCHANGED <<now, rows, poll, beat, unserved>>
    BY <1>2, OldRequests DEF LeaveAnswered, Answered, Screens, Channels, DeviceRow
  <2>2. \E st \in {"Ready", "Queued"} : device' = [device EXCEPT !.stage = st]
    BY <1>2 DEF LeaveAnswered, Show
  <2>3. /\ device' \in DeviceRow /\ device'.session = device.session
        /\ device'.deadline = device.deadline /\ device'.match = device.match
        /\ device'.elsewhere = FALSE /\ device'.stage \in {"Queued", "Ready"}
    BY <2>1, <2>2 DEF DeviceRow, Stages
  <2>4. Shapes' /\ Channels'
    BY <2>1, <2>3, IdleFacts DEF Screens, Shapes, Channels
  <2>5. Known'
    BY <1>0, <2>1, <2>3, IdleFacts DEF Screens, Known, rows
  <2>6. Leases'
    BY <1>0, <2>1, <2>3, LeasesKeep, IdleFacts, OldRequests DEF Left
  <2>7. QED
    BY <2>4, <2>5, <2>6 DEF Screens
<1>3. QED
  BY <1>1, <1>2

(* The requests the device sends by its own clock. *)
LEMMA TimersKeep ==
  ASSUME Rows, Screens, SendBeat \/ PollQueue \/ PollMatch
  PROVE  Screens'
<1>0. NoAnswer.code = "none" /\ device.session # 0
  BY IdleFacts DEF SendBeat, PollQueue, PollMatch, Connected
<1>1. CASE SendBeat
  <2> DEFINE q == Request("BEAT")
  <2>1. /\ q \in RequestRow /\ q.kind = "BEAT" /\ q.phase = "sent"
        /\ q.session = device.session /\ q.sentAt <= now /\ q.answer = NoAnswer
    BY RequestFacts, OldRequests
  <2>2. beat' = q /\ UNCHANGED <<now, rows, device, control, poll, unserved>>
    BY <1>1 DEF SendBeat
  <2> HIDE DEF q
  <2>3. Shapes' /\ Channels'
    BY <1>0, <2>1, <2>2 DEF Screens, Shapes, Channels
  <2>4. Known'
    BY <2>2 DEF Screens, Known, rows
  <2>5. Leases'
    BY <1>0, <2>1, <2>2, LeasesKeep, OldRequests DEF Left
  <2>6. QED
    BY <2>3, <2>4, <2>5 DEF Screens
<1>2. CASE PollQueue \/ PollMatch
  <2>1. PICK k \in {"QUEUE", "MATCH"} :
          /\ poll' = Request(k) /\ (k = "QUEUE" => device.stage = "Queued")
          /\ (k = "MATCH" => device.match # 0)
          /\ UNCHANGED <<now, rows, device, control, beat, unserved>>
    BY <1>2 DEF PollQueue, PollMatch
  <2>2. /\ poll' \in RequestRow /\ poll'.kind = k /\ poll'.phase = "sent"
        /\ poll'.session = device.session /\ (k = "MATCH" => poll'.match = device.match)
        /\ poll'.sentAt <= now /\ poll'.answer = NoAnswer
    BY <2>1, RequestFacts, OldRequests DEF AboutMatch
  <2>3. Shapes' /\ Channels'
    BY <2>1, <2>2 DEF Screens, Shapes, Channels
  <2>4. Known'
    BY <1>0, <2>1, <2>2, OldRequests DEF Screens, Known, rows
  <2>5. Leases'
    BY <2>1, <2>2, LeasesKeep, OldRequests DEF Left
  <2>6. QED
    BY <2>3, <2>4, <2>5 DEF Screens
<1>3. QED
  BY <1>1, <1>2

(* The queue names a match, or nothing that the device waits for. *)
LEMMA QueueAnsweredKeeps ==
  ASSUME Rows, Screens, QueueAnswered
  PROVE  Screens'
<1> DEFINE a == poll.answer
           c == [Idle EXCEPT !.kind = "PLACEMENT", !.phase = "done"]
<1>0. NoAnswer.code = "none"
  BY IdleFacts
<1>1. /\ poll.kind = "QUEUE" /\ device.stage = "Queued" /\ device \in DeviceRow
      /\ device.elsewhere = FALSE /\ control.kind = "none" /\ a \in Answer
      /\ UNCHANGED <<now, rows, beat, unserved>>
  BY OldRequests DEF QueueAnswered, Answered, Screens, Channels, DeviceRow, RequestRow
<1>2. CASE a.code = "MATCHED"
  <2> DEFINE m == a.match
             t == a.token
             q == [Request("MATCH") EXCEPT !.match = m, !.token = t]
  <2>1. /\ device' = [device EXCEPT !.stage = "Matched", !.match = m, !.token = t,
                                    !.recovering = FALSE]
        /\ poll' = q /\ UNCHANGED control
    BY <1>2 DEF QueueAnswered, Show
  <2>2. m \in Nat /\ t \in Nat /\ m \in 1..Len(matches)
    BY <1>1, <1>2, AnswerFacts DEF Screens, Known
  <2>3. /\ q \in RequestRow /\ q.kind = "MATCH" /\ q.phase = "sent" /\ q.session = device.session
        /\ q.match = m /\ q.sentAt <= now /\ q.answer = NoAnswer
    BY <2>2, FirstMatchRequest, OldRequests
  <2> HIDE DEF m, t, q
  <2>4. /\ device' \in DeviceRow /\ device'.session = device.session
        /\ device'.deadline = device.deadline /\ device'.match = m
        /\ device'.elsewhere = FALSE /\ device'.stage = "Matched"
    BY <1>1, <2>1, <2>2 DEF DeviceRow, Stages
  <2>5. Shapes' /\ Channels'
    BY <1>1, <2>1, <2>3, <2>4 DEF Screens, Shapes, Channels
  <2>6. Known'
    BY <1>0, <1>1, <2>1, <2>2, <2>3, <2>4, OldRequests DEF Screens, Known, rows
  <2>7. Leases'
    BY <1>1, <2>1, <2>3, <2>4, LeasesKeep, OldRequests DEF Left
  <2>8. QED
    BY <2>5, <2>6, <2>7 DEF Screens
<1>3. CASE a.code # "MATCHED"
  <2>1. /\ c \in RequestRow /\ c.kind = "PLACEMENT" /\ c.phase = "done"
        /\ c.session = 0 /\ c.sentAt = 0 /\ c.answer = NoAnswer
    BY ForeignRequest
  <2>2. /\ poll' = Idle
        /\ \/ /\ device' = [device EXCEPT !.stage = "Loading", !.recovering = FALSE]
              /\ control' = c
           \/ device' = [device EXCEPT !.recovering = FALSE] /\ UNCHANGED control
           \/ UNCHANGED <<device, control>>
    BY <1>3 DEF QueueAnswered, Show, Ask
  <2> HIDE DEF c
  <2>3. /\ device' \in DeviceRow /\ device'.session = device.session
        /\ device'.deadline = device.deadline /\ device'.match = device.match
        /\ device'.elsewhere = FALSE /\ device'.stage \in {"Loading", "Queued"}
        /\ control' = control \/ (control' = c /\ device'.stage = "Loading")
    BY <1>1, <2>2 DEF DeviceRow, Stages
  <2>4. Shapes' /\ Channels'
    BY <1>1, <2>1, <2>2, <2>3, IdleFacts DEF Screens, Shapes, Channels
  <2>5. Known'
    BY <1>0, <1>1, <2>1, <2>2, <2>3, IdleFacts DEF Screens, Known, rows
  <2>6. Leases'
    BY <1>0, <1>1, <2>1, <2>2, <2>3, LeasesKeep, IdleFacts, OldRequests DEF Left
  <2>7. QED
    BY <2>4, <2>5, <2>6 DEF Screens
<1>4. QED
  BY <1>2, <1>3

(* What is shown of a match changes its state and version only. *)
LEMMA ApplyFacts ==
  ASSUME device \in DeviceRow, NEW a \in Answer, a.code = "STATE"
  PROVE  LET v == Apply(device, a) IN
         /\ v \in DeviceRow /\ v.session = device.session /\ v.deadline = device.deadline
         /\ v.match = device.match /\ v.stage = device.stage /\ v.elsewhere = device.elsewhere
         /\ a.match = device.match => v.ver >= device.ver
<1>1. PICK s \in States, n \in Nat : a.state = s /\ a.ver = n
  BY AnswerFacts
<1> DEFINE w == [device EXCEPT !.state = s, !.ver = n]
<1>2. /\ w \in DeviceRow /\ w.session = device.session /\ w.deadline = device.deadline
      /\ w.match = device.match /\ w.stage = device.stage /\ w.elsewhere = device.elsewhere
      /\ w.ver = n /\ device.ver \in Nat
  BY DEF DeviceRow
<1>3. Apply(device, a) = IF a.match = device.match /\ n < device.ver THEN device ELSE w
  BY <1>1 DEF Apply
<1> HIDE DEF w
<1>4. QED
  BY <1>2, <1>3

(* The state of the match arrives, by the poll or as the answer to Ready. *)
LEMMA StateAnsweredKeeps ==
  ASSUME Rows, Screens, MatchAnswered \/ ReadyAnswered
  PROVE  Screens'
<1>0. NoAnswer.code = "none"
  BY IdleFacts
<1>1. /\ device \in DeviceRow /\ control.answer \in Answer /\ poll.answer \in Answer
      /\ UNCHANGED <<now, rows, beat, unserved>>
  BY OldRequests DEF MatchAnswered, ReadyAnswered, RequestRow
<1>2. \/ poll' = Idle /\ UNCHANGED control
      \/ control' = Idle /\ UNCHANGED poll
  BY DEF MatchAnswered, ReadyAnswered
<1>3. \/ device' = device
      \/ \E a \in {poll.answer, control.answer} :
           a.code = "STATE" /\ device' = Apply(device, a)
  BY DEF MatchAnswered, ReadyAnswered, Show
<1>4. /\ device' \in DeviceRow /\ device'.session = device.session
      /\ device'.deadline = device.deadline /\ device'.match = device.match
      /\ device'.stage = device.stage /\ device'.elsewhere = device.elsewhere
  BY <1>1, <1>3, ApplyFacts
<1>5. Shapes' /\ Channels'
  BY <1>1, <1>2, <1>4, IdleFacts DEF Screens, Shapes, Channels
<1>6. Known'
  BY <1>0, <1>1, <1>2, <1>4, IdleFacts DEF Screens, Known, rows
<1>7. Leases'
  BY <1>0, <1>1, <1>2, <1>4, LeasesKeep, IdleFacts, OldRequests DEF Left
<1>8. QED
  BY <1>5, <1>6, <1>7 DEF Screens

LEMMA ReadyKeeps ==
  ASSUME Rows, Screens, SubmitReady
  PROVE  Screens'
<1> DEFINE q == Request("READY")
<1>0. NoAnswer.code = "none"
  BY IdleFacts
<1>1. /\ q \in RequestRow /\ q.kind = "READY" /\ q.phase = "sent"
      /\ q.session = device.session /\ q.match = device.match
      /\ q.sentAt <= now /\ q.answer = NoAnswer
  BY RequestFacts, OldRequests DEF AboutMatch
<1>2. /\ device.stage = "Matched" /\ control' = q
      /\ UNCHANGED <<now, rows, device, poll, beat, unserved>>
  BY DEF SubmitReady, Ask
<1> HIDE DEF q
<1>3. device.match \in 1..Len(matches)
  BY <1>2, OldRequests DEF Screens, Known
<1>4. Shapes' /\ Channels'
  BY <1>1, <1>2 DEF Screens, Shapes, Channels
<1>5. Known'
  BY <1>0, <1>1, <1>2, <1>3 DEF Screens, Known, rows
<1>6. Leases'
  BY <1>0, <1>1, <1>2, LeasesKeep, OldRequests DEF Left
<1>7. QED
  BY <1>4, <1>5, <1>6 DEF Screens

LEMMA DismissKeeps ==
  ASSUME Rows, Screens, DismissMatch
  PROVE  Screens'
<1> DEFINE v == Dismissed(device)
<1>0. NoAnswer.code = "none"
  BY IdleFacts
<1>1. /\ v \in DeviceRow /\ v.session = device.session /\ v.deadline = device.deadline
      /\ v.match = 0 /\ v.elsewhere = device.elsewhere /\ v.stage = "Ready"
  BY DismissedFacts, OldRequests
<1>2. /\ device.stage = "Matched" /\ device' = v /\ poll' = Idle
      /\ unserved' = unserved \cup Orphans({poll}) /\ UNCHANGED <<now, rows, control, beat>>
  BY DEF DismissMatch, Show
<1> HIDE DEF v
<1>3. Left
  BY <1>2 DEF Left
<1>4. control.kind \in {"none", "READY"} /\ device.elsewhere = FALSE
  BY <1>2, OldRequests DEF Screens, Channels, DeviceRow
<1>5. Shapes' /\ Channels'
  BY <1>1, <1>2, <1>3, <1>4, LeftFacts, IdleFacts DEF Screens, Shapes, Channels
<1>6. Known'
  BY <1>0, <1>1, <1>2, OldRequests, IdleFacts DEF Screens, Known, rows
<1>7. Leases'
  BY <1>0, <1>1, <1>2, <1>3, LeasesKeep, IdleFacts, OldRequests
<1>8. QED
  BY <1>5, <1>6, <1>7 DEF Screens

(* The session is given up: nothing is counted on any more. *)
LEMMA DisconnectKeeps ==
  ASSUME Rows, Screens, NEW st \in {"Error", "Idle"}, Disconnect(st), UNCHANGED <<now, rows>>,
         device.session # 0
  PROVE  Screens'
<1> DEFINE q == Request("CLOSE")
<1>0. NoAnswer.code = "none"
  BY IdleFacts
<1>1. /\ q \in RequestRow /\ q.kind = "CLOSE" /\ q.phase = "sent"
      /\ q.session = device.session /\ q.sentAt <= now /\ q.answer = NoAnswer
  BY RequestFacts, OldRequests
<1>2. /\ device' = [device EXCEPT !.stage = st, !.session = 0, !.deadline = 0]
      /\ unserved' = unserved \cup Orphans({control, poll, beat}) \cup {q}
      /\ control' = Idle /\ poll' = Idle /\ beat' = Idle
  BY DEF Disconnect, Show
<1> HIDE DEF q
<1>3. /\ device' \in DeviceRow /\ device'.session = 0 /\ device'.match = device.match
      /\ device'.stage = st /\ device'.elsewhere = device.elsewhere
  BY <1>2, OldRequests DEF DeviceRow, Stages
<1>4. ~device.elsewhere
  BY DEF Screens, Channels
<1>5. ASSUME NEW r \in unserved'
      PROVE  /\ r \in RequestRow /\ r.kind \in {"SESSION", "JOIN", "LEAVE", "CLOSE"}
             /\ r.session <= issued /\ r.sentAt <= now
  <2>1. CASE r \in unserved
    BY <2>1 DEF Screens, Shapes, Channels, Leases
  <2>2. CASE r \in Orphans({control, poll, beat})
    <3>1. {control, poll, beat} \in SUBSET RequestRow
      BY OldRequests
    <3>2. QED
      BY <2>2, <3>1, OrphanFacts, OldRequests
  <2>3. CASE r = q
    BY <1>1, <2>3, OldRequests
  <2>4. QED
    BY <1>2, <2>1, <2>2, <2>3
<1>6. Shapes'
  BY <1>2, <1>3, <1>5, IdleFacts DEF Shapes
<1>7. ~device'.elsewhere
  BY <1>3, <1>4
<1>8. Channels'
  BY <1>2, <1>3, <1>5, <1>7, IdleFacts DEF Channels
<1>9. Known'
  BY <1>0, <1>2, <1>3, IdleFacts DEF Screens, Known, rows
<1>10. Leases'
  BY <1>0, <1>2, <1>3, <1>5, IdleFacts, OldRequests DEF Leases, rows
<1>11. QED
  BY <1>6, <1>8, <1>9, <1>10 DEF Screens

(* The heartbeat is answered: the lease counts from the moment it was sent. *)
LEMMA BeatAnsweredKeeps ==
  ASSUME Rows, Screens, BeatAnswered
  PROVE  Screens'
<1> DEFINE until == beat.sentAt + SessionLease
<1>0. NoAnswer.code = "none"
  BY IdleFacts
<1>1. /\ beat.kind = "BEAT" /\ beat.session = device.session /\ device.session # 0
      /\ UNCHANGED <<now, rows>> /\ device \in DeviceRow
      /\ beat.sentAt \in Nat /\ beat.sentAt <= now
  BY OldRequests DEF BeatAnswered, Answered, Screens, Channels, RequestRow
<1>2. CASE beat.answer.code = "UNAUTHORIZED"
  BY <1>1, <1>2, DisconnectKeeps DEF BeatAnswered
<1>3. CASE beat.answer.code # "UNAUTHORIZED"
  <2>1. /\ beat' = Idle /\ UNCHANGED <<control, poll, unserved>>
        /\ \/ beat.answer.code = "OK" /\ device' = [device EXCEPT !.deadline = until]
           \/ beat.answer.code # "OK" /\ UNCHANGED device
    BY <1>3 DEF BeatAnswered, Show
  <2>2. /\ until \in Nat /\ until - SessionLease = beat.sentAt
        /\ until <= now + SessionLease
    BY <1>1, OldRequests, AdmissionBounds
  <2> HIDE DEF until
  <2>3. /\ device' \in DeviceRow /\ device'.session = device.session
        /\ device'.match = device.match /\ device'.stage = device.stage
        /\ device'.elsewhere = device.elsewhere
        /\ \/ beat.answer.code = "OK" /\ device'.deadline = until
           \/ device'.deadline = device.deadline
    BY <1>1, <2>1, <2>2 DEF DeviceRow
  <2>4. Shapes' /\ Channels'
    BY <2>1, <2>3, IdleFacts DEF Screens, Shapes, Channels
  <2>5. Known'
    BY <1>1, <2>1, <2>3 DEF Screens, Known, rows
  <2>6. Leases'
    <3>1. \A r \in {control', poll', beat'} \cup unserved' : r.session <= issued /\ r.sentAt <= now
      BY <2>1, OldRequests DEF Screens, Leases
    <3>2. /\ Covers(device'.session, device'.deadline - SessionLease)
          /\ device'.deadline <= now + SessionLease
      BY <1>1, <2>2, <2>3 DEF Screens, Leases
    <3>3. \A r \in unserved' : r.kind = "CLOSE" => r.session < device'.session
      BY <1>1, <2>1, <2>3 DEF Screens, Leases
    <3>4. control'.answer.code = "SESSION" =>
            /\ control'.kind = "SESSION" /\ control'.answer.session \in 1..issued
            /\ Covers(control'.answer.session, control'.sentAt)
            /\ \A r \in unserved' : r.kind = "CLOSE" => r.session < control'.answer.session
      BY <2>1 DEF Screens, Leases
    <3>5. beat'.answer.code # "OK" /\ device'.session <= issued
      BY <1>0, <2>1, <2>3, IdleFacts, OldRequests
    <3>6. UNCHANGED <<now, live, issued>>
      BY <1>1 DEF rows
    <3>7. QED
      BY <3>1, <3>2, <3>3, <3>4, <3>5, <3>6 DEF Leases, Covers, OwnIsLive
  <2>7. QED
    BY <2>4, <2>5, <2>6 DEF Screens
<1>4. QED
  BY <1>2, <1>3

LEMMA LeavesKeep ==
  ASSUME Rows, Screens, LeaseRunsOut \/ LeaveRanked
  PROVE  Screens'
  BY DisconnectKeeps DEF LeaseRunsOut, LeaveRanked

(* The transport fails: the request is over, and what it asked may still be served. *)
LEMMA FaultKeeps ==
  ASSUME Rows, Screens, Fault
  PROVE  Screens'
<1> DEFINE f == [code |-> "FAULT"]
           cut(r) == Done(r, f)
<1>0. NoAnswer.code = "none" /\ f \in Answer /\ f.code = "FAULT"
  BY IdleFacts DEF Answer
<1>1. /\ UNCHANGED <<now, rows, device>>
      /\ \/ control' = cut(control) /\ UNCHANGED <<poll, beat>> /\ control.phase # "none"
         \/ poll' = cut(poll) /\ UNCHANGED <<control, beat>> /\ poll.phase # "none"
         \/ beat' = cut(beat) /\ UNCHANGED <<control, poll>> /\ beat.phase # "none"
      /\ Left
  BY DEF Fault, Left, Done
<1> HIDE DEF f
<1>2. \A r \in RequestRow :
        /\ cut(r) \in RequestRow /\ cut(r).kind = r.kind /\ cut(r).session = r.session
        /\ cut(r).match = r.match /\ cut(r).sentAt = r.sentAt /\ cut(r).answer = f
        /\ cut(r).phase = "done"
  BY <1>0, DoneFacts
<1> HIDE DEF cut
<1>3. \A r \in {control', poll', beat'} : r.session <= issued /\ r.sentAt <= now
  BY <1>1, <1>2, OldRequests
<1>4. Shapes' /\ Channels'
  BY <1>1, <1>2, LeftFacts, OldRequests DEF Screens, Shapes, Channels
<1>5. Known'
  BY <1>0, <1>1, <1>2, OldRequests DEF Screens, Known, rows
<1>6. Leases'
  BY <1>0, <1>1, <1>2, <1>3, LeasesKeep, OldRequests
<1>7. QED
  BY <1>4, <1>5, <1>6 DEF Screens

(* A step of the device keeps what its screen relies on. *)
LEMMA DeviceKeeps ==
  ASSUME Rows, Screens, Callback \/ Timer \/ Player \/ Fault
  PROVE  Screens'
<1>1. CASE Callback
  BY <1>1, ConfigKeeps, SessionAnsweredKeeps, PlacementKeeps, JoinAnsweredKeeps, LeaveKeeps,
     QueueAnsweredKeeps, StateAnsweredKeeps, BeatAnsweredKeeps DEF Callback
<1>2. CASE Timer
  BY <1>2, TimersKeep, LeavesKeep DEF Timer
<1>3. CASE Player
  BY <1>3, BeginKeeps, RecheckKeeps, TakeOverKeeps, JoinsKeep, LeaveKeeps, ReadyKeeps,
     DismissKeeps, LeavesKeep DEF Player
<1>4. QED
  BY <1>1, <1>2, <1>3, FaultKeeps

-----------------------------------------------------------------------------
(* The device: what the server's steps leave of it *)

(* No match is forgotten. *)
LEMMA MatchesGrow ==
  ASSUME Rows, Rows',
         \/ DOMAIN matches' = DOMAIN matches
         \/ \E row \in MatchRow : matches' = Append(matches, row)
  PROVE  Len(matches) \in Nat /\ Len(matches') \in Nat /\ Len(matches) <= Len(matches')
<1>1. matches \in Seq(MatchRow) /\ matches' \in Seq(MatchRow)
  BY DEF Rows
<1>2. CASE DOMAIN matches' = DOMAIN matches
  <2>1. /\ Len(matches) \in Nat /\ Len(matches') \in Nat
        /\ 1..Len(matches') = 1..Len(matches)
    BY <1>1, <1>2
  <2>2. Len(matches) \in 1..Len(matches) \/ Len(matches) = 0
    BY <2>1
  <2>3. QED
    BY <2>1, <2>2
<1>3. CASE \E row \in MatchRow : matches' = Append(matches, row)
  BY <1>1, <1>3, AppendProperties
<1>4. QED
  BY <1>2, <1>3

LEMMA PairGrows ==
  ASSUME NEW e \in EntryRow, Pair(e)
  PROVE  \E row \in MatchRow : matches' = Append(matches, row)
<1> DEFINE row == [state |-> "MATCHED", ver |-> 1, token |-> e.session]
<1>1. row \in MatchRow
  BY DEF EntryRow, MatchRow
<1>2. matches' = Append(matches, row)
  BY DEF Pair
<1>3. QED
  BY <1>1, <1>2

(* How a step changes who is let in. *)
Renewed == /\ live.id # 0 /\ issued' = issued /\ live' = [live EXCEPT !.seen = now]
Granted(dev) ==
  issued' = issued + 1 /\ live' = [id |-> issued', dev |-> dev, seen |-> now,
                   expires |-> now + SessionSeconds]
GivenUp ==
  /\ live.id # 0 /\ issued' = issued /\ live' = NoSession
  /\ live.dev = "other" \/ \E r \in unserved : r.kind = "CLOSE" /\ r.session = live.id
Seats ==
  \/ UNCHANGED <<live, issued>>
  \/ Renewed
  \/ Granted("own")
  \/ Granted("other")
  \/ GivenUp

(* What the device counts on survives each of them, but for a Close of its own. *)
LEMMA CoversKeep ==
  ASSUME Rows, Seats, NEW s \in Nat, NEW t \in Int, s <= issued, t <= now, Covers(s, t),
         \A r \in unserved : r.kind = "CLOSE" => r.session < s
  PROVE  Covers(s, t)'
<1>1. /\ issued \in Nat /\ now \in Nat
      /\ live \in [id : {0, issued}, dev : {"own", "other"}, seen : Nat, expires : Nat]
  BY DEF Rows
<1>2. CASE UNCHANGED <<live, issued>>
  BY <1>2 DEF Covers, OwnIsLive
<1>3. CASE Renewed
  <2>1. live'.id = live.id /\ live'.dev = live.dev /\ live'.seen = now /\ issued' = issued
    BY <1>1, <1>3 DEF Renewed
  <2>2. QED
    BY <1>1, <2>1 DEF Covers, OwnIsLive
<1>4. CASE Granted("own")
  <2>1. live'.id = issued' /\ live'.dev = "own" /\ live'.seen = now /\ issued' = issued + 1
    BY <1>4 DEF Granted
  <2>2. QED
    BY <1>1, <2>1 DEF Covers, OwnIsLive
<1>5. CASE Granted("other")
  <2>1. live'.id = issued' /\ live'.dev = "other" /\ issued' = issued + 1
    BY <1>5 DEF Granted
  <2>2. s # issued' /\ ~OwnIsLive'
    BY <1>1, <2>1 DEF OwnIsLive
  <2>3. QED
    BY <2>2 DEF Covers
<1>6. CASE GivenUp
  <2>1. live'.id = 0 /\ issued' = issued /\ live.id = issued
    BY <1>1, <1>6 DEF GivenUp, NoSession
  <2>2. s # issued
    BY <1>1, <1>6, <2>1 DEF GivenUp, Covers, OwnIsLive
  <2>3. QED
    BY <2>1, <2>2 DEF Covers, OwnIsLive
<1>7. QED
  BY <1>2, <1>3, <1>4, <1>5, <1>6 DEF Seats

(* The request q is the request r after a step of the server. *)
Carried(r, q) ==
  /\ q \in RequestRow /\ q.kind = r.kind /\ q.session = r.session /\ q.match = r.match
  /\ q.sentAt = r.sentAt /\ (q.phase = "none" => r.phase = "none")

(* The answers that let the device count on a session. *)
SessionSaid(r, q) ==
  \/ q.answer = r.answer
  \/ q.answer.code # "SESSION"
  \/ r.kind = "SESSION" /\ q.answer.session = issued' /\ Granted("own")
RenewalSaid(r, q) ==
  \/ q.answer = r.answer
  \/ q.answer.code # "OK"
  \/ r.kind = "BEAT" /\ r.session = live.id /\ Renewed

(* A step of the server or of the world leaves the device counting on no more
   than it has been granted. *)
LEMMA LeasesStand ==
  ASSUME Rows, Rows', Screens, Seats, UNCHANGED <<now, device>>,
         Carried(control, control'), Carried(poll, poll'), Carried(beat, beat'),
         \A q \in unserved' : \E r \in unserved : Carried(r, q),
         SessionSaid(control, control'), RenewalSaid(beat, beat')
  PROVE  Leases'
<1>1. /\ issued \in Nat /\ now \in Nat /\ issued' \in Nat /\ issued <= issued'
  BY DEF Rows, Seats, Renewed, Granted, GivenUp
<1>2. \A r \in {control', poll', beat'} \cup unserved' : r.session <= issued' /\ r.sentAt <= now'
  <2>1. ASSUME NEW q \in {control', poll', beat'} \cup unserved'
        PROVE  \E r \in {control, poll, beat} \cup unserved : Carried(r, q)
    OBVIOUS
  <2>2. ASSUME NEW r \in {control, poll, beat} \cup unserved
        PROVE  r.session \in Nat /\ r.session <= issued /\ r.sentAt <= now
    BY DEF Screens, Leases, Shapes, RequestRow
  <2>3. QED
    BY <1>1, <2>1, <2>2 DEF Carried
<1>3. \A s : (\A r \in unserved : r.kind = "CLOSE" => r.session < s)
              => \A r \in unserved' : r.kind = "CLOSE" => r.session < s
  BY DEF Carried
<1>4. device'.session <= issued'
  BY <1>1, OldRequests DEF DeviceRow
<1>5. device'.session # 0 =>
        /\ Covers(device.session, device.deadline - SessionLease)'
        /\ device'.deadline <= now' + SessionLease
        /\ \A r \in unserved' : r.kind = "CLOSE" => r.session < device'.session
  <2> SUFFICES ASSUME device.session # 0
               PROVE  /\ Covers(device.session, device.deadline - SessionLease)'
                      /\ device.deadline <= now + SessionLease
                      /\ \A r \in unserved' : r.kind = "CLOSE" => r.session < device.session
    OBVIOUS
  <2>1. /\ Covers(device.session, device.deadline - SessionLease)
        /\ device.deadline <= now + SessionLease
        /\ \A r \in unserved : r.kind = "CLOSE" => r.session < device.session
    BY DEF Screens, Leases
  <2>2. /\ device.session \in Nat /\ device.session <= issued
        /\ device.deadline - SessionLease \in Int /\ device.deadline - SessionLease <= now
    BY <1>1, <2>1, OldRequests, AdmissionBounds DEF DeviceRow
  <2> DEFINE t == device.deadline - SessionLease
  <2>3. t \in Int /\ t <= now /\ Covers(device.session, t)
    BY <2>1, <2>2
  <2>4. t' = t
    OBVIOUS
  <2> HIDE DEF t
  <2>5. PICK s \in Nat : s = device.session
    BY <2>2
  <2>6. PICK u \in Int : u = t
    BY <2>3
  <2>7. Covers(s, u)'
    BY <2>1, <2>2, <2>3, <2>5, <2>6, CoversKeep
  <2>8. Covers(device.session, t)'
    BY <2>4, <2>5, <2>6, <2>7 DEF Covers, OwnIsLive
  <2>9. QED
    BY <1>3, <2>1, <2>8 DEF t
<1>6. control'.answer.code = "SESSION" =>
        /\ control'.kind = "SESSION" /\ control'.answer.session \in 1..issued'
        /\ Covers(control.answer.session, control.sentAt)'
        /\ \A r \in unserved' : r.kind = "CLOSE" => r.session < control'.answer.session
  <2> SUFFICES ASSUME control'.answer.code = "SESSION"
               PROVE  /\ control'.kind = "SESSION" /\ control'.answer.session \in 1..issued'
                      /\ Covers(control.answer.session, control.sentAt)'
                      /\ \A r \in unserved' : r.kind = "CLOSE" => r.session < control'.answer.session
    OBVIOUS
  <2>0. PICK u \in Nat : u = control.sentAt /\ u = control'.sentAt /\ u <= now
    BY OldRequests DEF Carried, RequestRow
  <2>1. CASE control'.answer = control.answer
    <3>1. /\ control.kind = "SESSION" /\ control.answer.session \in 1..issued
          /\ Covers(control.answer.session, control.sentAt)
          /\ \A r \in unserved : r.kind = "CLOSE" => r.session < control.answer.session
      BY <2>1 DEF Screens, Leases
    <3>2. PICK s \in Nat : s = control.answer.session
      BY <3>1
    <3>3. Covers(s, u)'
      BY <1>1, <2>0, <3>1, <3>2, CoversKeep
    <3>4. Covers(control.answer.session, control.sentAt)'
      BY <2>0, <2>1, <3>2, <3>3 DEF Covers, OwnIsLive
    <3>5. QED
      BY <1>1, <1>3, <2>1, <3>1, <3>4 DEF Carried
  <2>2. CASE control.kind = "SESSION" /\ control'.answer.session = issued' /\ Granted("own")
    <3>1. /\ issued' = issued + 1 /\ live'.id = issued' /\ live'.dev = "own" /\ live'.seen = now
      BY <2>2 DEF Granted
    <3>2. Covers(control.answer.session, control.sentAt)'
      BY <1>1, <2>0, <3>1 DEF Covers, OwnIsLive
    <3>3. \A r \in unserved : r.session \in Nat /\ r.session < issued'
      BY <1>1, <3>1 DEF Screens, Leases, Shapes, RequestRow
    <3>4. QED
      BY <1>1, <2>2, <3>1, <3>2, <3>3 DEF Carried
  <2>3. QED
    BY <2>1, <2>2 DEF SessionSaid
<1>7. beat'.answer.code = "OK" => beat'.kind = "BEAT" /\ Covers(beat.session, beat.sentAt)'
  <2> SUFFICES ASSUME beat'.answer.code = "OK"
               PROVE  beat'.kind = "BEAT" /\ Covers(beat.session, beat.sentAt)'
    OBVIOUS
  <2>0. PICK u \in Nat : u = beat.sentAt /\ u = beat'.sentAt /\ u <= now
    BY OldRequests DEF Carried, RequestRow
  <2>1. PICK s \in Nat : s = beat.session /\ s = beat'.session /\ s <= issued
    BY OldRequests DEF Carried, RequestRow
  <2>2. beat.kind = "BEAT" /\ (beat'.answer = beat.answer \/ (s = live.id /\ Renewed))
    BY <2>1 DEF RenewalSaid, Screens, Leases
  <2>3. s = device.session /\ s # 0
    BY <2>1, <2>2 DEF Screens, Channels
  <2>4. CASE beat'.answer = beat.answer
    <3>1. Covers(s, u) /\ \A r \in unserved : r.kind = "CLOSE" => r.session < s
      BY <2>0, <2>1, <2>3, <2>4 DEF Screens, Leases
    <3>2. Covers(s, u)'
      BY <1>1, <2>0, <2>1, <3>1, CoversKeep
    <3>3. QED
      BY <2>0, <2>1, <2>2, <3>2 DEF Covers, OwnIsLive, Carried
  <2>5. CASE s = live.id /\ Renewed
    <3>1. live.id = issued /\ live \in [id : {0, issued}, dev : {"own", "other"}, seen : Nat, expires : Nat]
      BY <2>3, <2>5 DEF Rows
    <3>2. OwnIsLive
      BY <2>3, <2>5, <3>1 DEF Screens, Leases, Covers
    <3>3. live'.id = live.id /\ live'.dev = live.dev /\ live'.seen = now
      BY <2>5, <3>1 DEF Renewed
    <3>4. QED
      BY <1>1, <2>0, <2>1, <2>2, <3>2, <3>3 DEF Covers, OwnIsLive, Carried
  <2>6. QED
    BY <2>2, <2>4, <2>5
<1>8. QED
  BY <1>2, <1>4, <1>5, <1>6, <1>7 DEF Leases, Covers, OwnIsLive

(* A transaction seats somebody new, renews or gives up a seat, or leaves it. *)
LEMMA TransactionSeats ==
  ASSUME Rows, NEW r, Transaction(r),
         r.kind = "CLOSE" => \E q \in unserved : q.kind = "CLOSE" /\ q.session = r.session
  PROVE  /\ Seats
         /\ r.kind = "SESSION" => Elsewhere("own", r.take) \/ Granted("own")
         /\ r.kind = "BEAT" => ~Alive(r.session) \/ (r.session = live.id /\ Renewed)
<1>1. CASE r.kind = "SESSION" /\ Create("own", r.take)
  BY <1>1 DEF Create, rows, Seats, Granted
<1>2. CASE r.kind = "BEAT" /\ Heartbeat(r)
  BY <1>2 DEF Heartbeat, Alive, Seats, Renewed
<1>3. CASE r.kind = "CLOSE" /\ Close(r)
  BY <1>3 DEF Close, Alive, rows, Seats, GivenUp
<1>4. CASE r.kind \in {"JOIN", "LEAVE", "QUEUE", "MATCH", "READY"} /\ UNCHANGED <<live, issued>>
  BY <1>4 DEF Seats
<1>5. QED
  BY <1>1, <1>2, <1>3, <1>4 DEF Transaction, Join, Leave, QueueStatus, MatchCall

LEMMA TransactionGrows ==
  ASSUME Rows, Rows', NEW r \in RequestRow, Transaction(r)
  PROVE  Len(matches) \in Nat /\ Len(matches') \in Nat /\ Len(matches) <= Len(matches')
<1>1. CASE Join(r)
  <2> DEFINE own == [status |-> "QUEUED", session |-> r.session, seen |-> now, match |-> 0]
  <2>1. Pair(own) \/ UNCHANGED matches
    BY <1>1 DEF Join
  <2>2. own \in EntryRow
    BY DEF EntryRow, RequestRow, Rows
  <2> HIDE DEF own
  <2>3. QED
    BY <2>1, <2>2, PairGrows, MatchesGrow
<1>2. CASE ~Join(r)
  <2>1. DOMAIN matches' = DOMAIN matches
    BY <1>2 DEF Transaction, Create, Heartbeat, Close, Leave, QueueStatus, MatchCall, rows
  <2>2. QED
    BY <2>1, MatchesGrow
<1>3. QED
  BY <1>1, <1>2

(* What a transaction answers. *)
LEMMA ReplyFacts ==
  ASSUME Rows, Rows', NEW r \in RequestRow, Transaction(r),
         r.kind \in {"MATCH", "READY"} => r.match \in 1..Len(matches)
  PROVE  LET a == Reply(r) IN
         /\ a \in Answer
         /\ a.code = "MATCHED" => a.match \in 1..Len(matches)
         /\ a.code = "STATE" => a.match = r.match
         /\ a.code = "SESSION" => /\ r.kind = "SESSION" /\ a.session = issued'
                                  /\ ~Elsewhere("own", r.take)
         /\ a.code = "OK" /\ r.kind = "BEAT" => Alive(r.session)
<1>1. CASE r.kind = "SESSION"
  <2>1. issued' \in Nat
    BY DEF Rows
  <2>2. PICK b \in BOOLEAN : b = (Ongoing # {})
    OBVIOUS
  <2>3. Reply(r) = IF Elsewhere("own", r.take) THEN [code |-> "ELSEWHERE"]
                   ELSE [code |-> "SESSION", session |-> issued', active |-> b]
    BY <1>1, <2>2 DEF Reply
  <2>4. QED
    BY <1>1, <2>1, <2>3 DEF Answer
<1>2. CASE r.kind = "JOIN"
  <2>1. Reply(r) = [code |-> JoinVerdict(r.session)]
    BY <1>2 DEF Reply
  <2>2. JoinVerdict(r.session) \in {"OK", "UNAUTHORIZED", "CONFLICT"}
    BY DEF JoinVerdict
  <2>3. QED
    BY <1>2, <2>1, <2>2 DEF Answer
<1>3. CASE r.kind \in {"MATCH", "READY"} /\ Authorized(r)
  <2>1. /\ matches \in Seq(MatchRow) /\ matches' \in Seq(MatchRow)
        /\ r.match \in 1..Len(matches) /\ r.match \in Nat
        /\ r.match \in 1..Len(matches')
    BY <1>3, TransactionGrows DEF Rows, RequestRow
  <2>2. PICK row \in MatchRow : row = matches'[r.match]
    BY <2>1
  <2>3. Reply(r) = [code |-> "STATE", match |-> r.match, state |-> row.state, ver |-> row.ver]
    BY <1>3, <2>2 DEF Reply
  <2>4. row.state \in States /\ row.ver \in Nat
    BY DEF MatchRow, States
  <2>5. QED
    BY <1>3, <2>1, <2>3, <2>4 DEF Answer
<1>4. CASE r.kind \in {"MATCH", "READY"} /\ ~Authorized(r)
  <2>1. Reply(r) = [code |-> "UNAUTHORIZED"]
    BY <1>4 DEF Reply
  <2>2. QED
    BY <1>4, <2>1 DEF Answer
<1>5. CASE r.kind = "QUEUE" /\ Alive(r.session)
  <2>1. Reply(r) = QueueReply(r)
    BY <1>5 DEF Reply
  <2>2. CASE ~HasEntry(r.session)
    <3>1. Reply(r) = [code |-> "NOT_QUEUED"]
      BY <2>1, <2>2 DEF QueueReply
    <3>2. QED
      BY <1>5, <3>1 DEF Answer
  <2>3. CASE HasEntry(r.session) /\ entry.status = "MATCHED"
    <3>1. /\ entry.match \in Nat /\ entry.session \in Nat /\ entry.match \in 1..Len(matches)
      BY <2>3 DEF Rows, Assigned, EntryRow
    <3>2. Reply(r) = [code |-> "MATCHED", match |-> entry.match, token |-> entry.session]
      BY <2>1, <2>3 DEF QueueReply
    <3>3. QED
      BY <1>5, <3>1, <3>2 DEF Answer
  <2>4. CASE HasEntry(r.session) /\ entry.status # "MATCHED"
    <3>1. Reply(r) = [code |-> entry.status] /\ entry.status \in {"QUEUED", "LEFT", "EXPIRED"}
      BY <2>1, <2>4 DEF QueueReply, HasEntry, Rows, EntryRow
    <3>2. QED
      BY <1>5, <3>1 DEF Answer
  <2>5. QED
    BY <2>2, <2>3, <2>4
<1>6. CASE /\ r.kind \notin {"SESSION", "JOIN", "MATCH", "READY"}
           /\ ~(r.kind = "QUEUE" /\ Alive(r.session))
  <2>1. Reply(r) = [code |-> IF Alive(r.session) THEN "OK" ELSE "UNAUTHORIZED"]
    BY <1>6 DEF Reply
  <2>2. QED
    BY <1>6, <2>1 DEF Answer
<1>7. QED
  BY <1>1, <1>2, <1>3, <1>4, <1>5, <1>6

(* One step of the server for the request r of a channel. *)
LEMMA ServeFacts ==
  ASSUME Rows, UNCHANGED now, NEW r \in RequestRow, NEW q, Serve(r, q), r.kind # "CLOSE",
         r.kind \in {"MATCH", "READY"} => r.match \in 1..Len(matches)
  PROVE  /\ Rows' /\ Seats /\ Carried(r, q)
         /\ Len(matches) \in Nat /\ Len(matches') \in Nat /\ Len(matches) <= Len(matches')
         /\ SessionSaid(r, q) /\ r.kind # "none" /\ (r.kind = "BEAT" => RenewalSaid(r, q))
         /\ \/ q.answer = r.answer
            \/ /\ q.answer.code = "MATCHED" => q.answer.match \in 1..Len(matches)
               /\ q.answer.code = "STATE" => q.answer.match = r.match
<1>1. CASE UNCHANGED rows /\ r.kind \in Guarded /\ q = [r EXCEPT !.phase = "admitted"]
  <2>1. Rows'
    BY <1>1 DEF rows, Rows, Assigned, Ongoing
  <2>2. q \in RequestRow /\ Carried(r, q) /\ q.answer = r.answer
    BY <1>1 DEF RequestRow, Carried
  <2>3. QED
    BY <1>1, <2>1, <2>2, MatchesGrow DEF rows, Seats, SessionSaid, RenewalSaid, Guarded
<1>2. CASE UNCHANGED rows /\ r.kind \in Guarded /\ q = Done(r, [code |-> "UNAUTHORIZED"])
  <2> DEFINE a == [code |-> "UNAUTHORIZED"]
  <2>1. Rows'
    BY <1>2 DEF rows, Rows, Assigned, Ongoing
  <2>2. a \in Answer /\ a.code = "UNAUTHORIZED"
    BY DEF Answer
  <2> HIDE DEF a
  <2>3. q \in RequestRow /\ Carried(r, q) /\ q.answer = a
    BY <1>2, <2>2, DoneFacts DEF Carried, a
  <2>4. QED
    BY <1>2, <2>1, <2>2, <2>3, MatchesGrow DEF rows, Seats, SessionSaid, RenewalSaid, Guarded
<1>3. CASE Transaction(r) /\ q = Done(r, Reply(r))
  <2> DEFINE a == Reply(r)
  <2>1. Rows'
    BY <1>3, TransactionKeeps
  <2>2. /\ a \in Answer
        /\ a.code = "MATCHED" => a.match \in 1..Len(matches)
        /\ a.code = "STATE" => a.match = r.match
        /\ a.code = "SESSION" => /\ r.kind = "SESSION" /\ a.session = issued'
                                 /\ ~Elsewhere("own", r.take)
        /\ a.code = "OK" /\ r.kind = "BEAT" => Alive(r.session)
    BY <1>3, <2>1, ReplyFacts
  <2>3. q = Done(r, a)
    BY <1>3
  <2> HIDE DEF a
  <2>4. Carried(r, q) /\ q.answer = a
    BY <2>2, <2>3, DoneFacts DEF Carried
  <2>5. /\ Seats
        /\ r.kind = "SESSION" => Elsewhere("own", r.take) \/ Granted("own")
        /\ r.kind = "BEAT" => ~Alive(r.session) \/ (r.session = live.id /\ Renewed)
    BY <1>3, TransactionSeats
  <2>6. Len(matches) \in Nat /\ Len(matches') \in Nat /\ Len(matches) <= Len(matches')
    BY <1>3, <2>1, TransactionGrows
  <2>7. SessionSaid(r, q)
    BY <2>2, <2>4, <2>5 DEF SessionSaid
  <2>8. (r.kind = "BEAT" => RenewalSaid(r, q)) /\ r.kind # "none"
    BY <1>3, <2>2, <2>4, <2>5 DEF RenewalSaid, Transaction
  <2>9. QED
    BY <2>1, <2>2, <2>4, <2>5, <2>6, <2>7, <2>8
<1>4. QED
  BY <1>1, <1>2, <1>3 DEF Serve

(* The server answers a request of the device. *)
LEMMA ServesKeep ==
  ASSUME Rows, Screens, ServerStep
  PROVE  Screens'
<1>0. /\ Shapes /\ Channels /\ Known
      /\ Carried(control, control) /\ Carried(poll, poll) /\ Carried(beat, beat)
      /\ \A r \in unserved : Carried(r, r)
  BY DEF Screens, Shapes, Carried
<1>1. CASE ServeControl
  <2>1. Serve(control, control') /\ UNCHANGED <<now, device, poll, beat, unserved>>
    BY <1>1 DEF ServeControl
  <2>2. /\ Rows' /\ Seats /\ Carried(control, control')
        /\ Len(matches) \in Nat /\ Len(matches') \in Nat /\ Len(matches) <= Len(matches')
        /\ SessionSaid(control, control')
        /\ \/ control'.answer = control.answer
           \/ /\ control'.answer.code = "MATCHED" => control'.answer.match \in 1..Len(matches)
              /\ control'.answer.code = "STATE" => control'.answer.match = control.match
    BY <1>0, <2>1, ServeFacts DEF Shapes, Channels, Known
  <2>3. Shapes' /\ Channels'
    BY <1>0, <2>1, <2>2 DEF Shapes, Channels, Carried
  <2>4. Known'
    BY <1>0, <2>1, <2>2, OldRequests DEF Known, Carried, DeviceRow
  <2>5. Leases'
    BY <1>0, <2>1, <2>2, LeasesStand DEF RenewalSaid
  <2>6. QED
    BY <2>3, <2>4, <2>5 DEF Screens
<1>2. CASE ServePoll
  <2>1. Serve(poll, poll') /\ UNCHANGED <<now, device, control, beat, unserved>>
    BY <1>2 DEF ServePoll
  <2>2. /\ Rows' /\ Seats /\ Carried(poll, poll')
        /\ Len(matches) \in Nat /\ Len(matches') \in Nat /\ Len(matches) <= Len(matches')
        /\ \/ poll'.answer = poll.answer
           \/ /\ poll'.answer.code = "MATCHED" => poll'.answer.match \in 1..Len(matches)
              /\ poll'.answer.code = "STATE" => poll'.answer.match = poll.match
    BY <1>0, <2>1, ServeFacts DEF Shapes, Channels, Known
  <2>3. Shapes' /\ Channels'
    BY <1>0, <2>1, <2>2 DEF Shapes, Channels, Carried
  <2>4. Known'
    BY <1>0, <2>1, <2>2, OldRequests DEF Known, Carried, DeviceRow
  <2>5. Leases'
    BY <1>0, <2>1, <2>2, LeasesStand DEF RenewalSaid, SessionSaid
  <2>6. QED
    BY <2>3, <2>4, <2>5 DEF Screens
<1>3. CASE ServeBeat
  <2>1. Serve(beat, beat') /\ UNCHANGED <<now, device, control, poll, unserved>>
    BY <1>3 DEF ServeBeat
  <2>2. /\ Rows' /\ Seats /\ Carried(beat, beat') /\ RenewalSaid(beat, beat')
        /\ Len(matches) \in Nat /\ Len(matches') \in Nat /\ Len(matches) <= Len(matches')
    BY <1>0, <2>1, ServeFacts DEF Shapes, Channels
  <2>3. Shapes' /\ Channels'
    BY <1>0, <2>1, <2>2 DEF Shapes, Channels, Carried
  <2>4. Known'
    BY <1>0, <2>1, <2>2, OldRequests DEF Known, DeviceRow
  <2>5. Leases'
    BY <1>0, <2>1, <2>2, LeasesStand DEF SessionSaid
  <2>6. QED
    BY <2>3, <2>4, <2>5 DEF Screens
<1>4. QED
  BY <1>1, <1>2, <1>3 DEF ServerStep

(* A step that changes neither the screen nor a channel of the device. *)
LEMMA ElsewhereKeeps ==
  ASSUME Rows, Rows', Screens, Seats, UNCHANGED <<now, channels>>,
         Len(matches) <= Len(matches'),
         \A q \in unserved' : \E r \in unserved : Carried(r, q)
  PROVE  Screens'
<1>1. /\ Carried(control, control') /\ Carried(poll, poll') /\ Carried(beat, beat')
      /\ UNCHANGED <<device, control, poll, beat>>
      /\ Len(matches) \in Nat /\ Len(matches') \in Nat
  BY DEF Screens, Shapes, Carried, channels, Rows
<1>2. Shapes' /\ Channels'
  BY <1>1 DEF Screens, Shapes, Channels, Carried
<1>3. Known'
  BY <1>1, OldRequests DEF Screens, Known, DeviceRow
<1>4. Leases'
  BY <1>1, LeasesStand DEF SessionSaid, RenewalSaid
<1>5. QED
  BY <1>2, <1>3, <1>4 DEF Screens

(* A request that nobody waits for is served after all. *)
LEMMA LateKeeps ==
  ASSUME Rows, Screens, ServeLate
  PROVE  Screens'
<1>1. unserved \subseteq RequestRow /\ \A r \in unserved : Carried(r, r)
  BY DEF Screens, Shapes, Carried
<1>2. PICK r \in unserved :
        \/ /\ UNCHANGED rows
           /\ unserved' = (unserved \ {r}) \union
                 (IF Alive(r.session) THEN {[r EXCEPT !.phase = "admitted"]} ELSE {})
        \/ Transaction(r) /\ unserved' = unserved \ {r}
  BY DEF ServeLate
<1>3. UNCHANGED <<now, channels>>
  BY DEF ServeLate
<1>4. CASE UNCHANGED rows
  <2>1. Rows' /\ Seats
    BY <1>3, <1>4 DEF rows, Rows, Assigned, Ongoing, Seats
  <2>2. Carried(r, [r EXCEPT !.phase = "admitted"])
    BY <1>1 DEF Carried, RequestRow
  <2>3. \A q \in unserved' : \E p \in unserved : Carried(p, q)
    BY <1>1, <1>2, <2>2
  <2>4. Len(matches) <= Len(matches')
    BY <1>4, <2>1, MatchesGrow DEF rows
  <2>5. QED
    BY <1>3, <2>1, <2>3, <2>4, ElsewhereKeeps
<1>5. CASE Transaction(r) /\ unserved' = unserved \ {r}
  <2>1. Rows' /\ Seats
    BY <1>3, <1>5, TransactionKeeps, TransactionSeats DEF ServeLate
  <2>2. Len(matches) <= Len(matches')
    BY <1>1, <1>5, <2>1, TransactionGrows
  <2>3. QED
    BY <1>1, <1>3, <1>5, <2>1, <2>2, ElsewhereKeeps
<1>6. QED
  BY <1>2, <1>4, <1>5

(* The rest of the world moves on. *)
LEMMA WorldKeepsScreens ==
  ASSUME Rows, Rows', Screens,
         \/ RivalArrives \/ RivalGoes \/ MatchEnds \/ OtherBeats \/ OtherLeaves
         \/ \E take \in BOOLEAN : OtherEnters(take)
  PROVE  Screens'
<1>1. UNCHANGED <<now, channels, unserved>>
  BY DEF RivalArrives, RivalGoes, MatchEnds, OtherBeats, OtherLeaves, OtherEnters
<1>2. Seats
  BY DEF RivalArrives, RivalGoes, MatchEnds, OtherBeats, OtherLeaves, OtherEnters,
         Create, Close, Alive, rows, Seats, Renewed, Granted, GivenUp
<1>3. Len(matches) <= Len(matches')
  <2>1. CASE RivalArrives
    <3> DEFINE e == IF entry.status = "QUEUED" /\ entry.seen + QueueLease <= now
                    THEN [entry EXCEPT !.status = "EXPIRED"] ELSE entry
    <3>1. Pair(e) \/ UNCHANGED matches
      BY <2>1 DEF RivalArrives
    <3>2. e \in EntryRow
      BY DEF Rows, EntryRow
    <3> HIDE DEF e
    <3>3. QED
      BY <3>1, <3>2, PairGrows, MatchesGrow
  <2>2. CASE ~RivalArrives
    <3>1. DOMAIN matches' = DOMAIN matches
      BY <2>2 DEF RivalGoes, MatchEnds, OtherBeats, OtherLeaves, OtherEnters, Create, Close, rows
    <3>2. QED
      BY <3>1, MatchesGrow
  <2>3. QED
    BY <2>1, <2>2
<1>4. \A q \in unserved' : \E r \in unserved : Carried(r, q)
  BY <1>1 DEF Screens, Shapes, Carried
<1>5. QED
  BY <1>1, <1>2, <1>3, <1>4, ElsewhereKeeps

LEMMA TimeKeepsScreens ==
  ASSUME Rows, Screens, TimePasses
  PROVE  Screens'
<1>1. now' = now + 1 /\ UNCHANGED <<rows, channels, unserved>>
  BY DEF TimePasses
<1>2. now \in Nat
  BY DEF Rows
<1>3. UNCHANGED <<live, issued, matches, device, control, poll, beat, unserved>>
  BY <1>1 DEF rows, channels
<1>4. Shapes' /\ Channels' /\ Known'
  BY <1>3 DEF Screens, Shapes, Channels, Known
<1>5. Leases'
  <2>1. \A r \in {control, poll, beat} \cup unserved : r.sentAt \in Nat
    BY DEF Screens, Shapes, RequestRow
  <2>2. \A r \in {control, poll, beat} \cup unserved : r.session <= issued /\ r.sentAt <= now + 1
    BY <1>2, <2>1 DEF Screens, Leases
  <2>3. device.session # 0 => device.deadline <= now + 1 + SessionLease
    BY <1>2, OldRequests, AdmissionBounds DEF Screens, Leases, DeviceRow
  <2>4. QED
    BY <1>1, <1>3, <2>2, <2>3 DEF Screens, Leases, Covers, OwnIsLive
<1>6. QED
  BY <1>4, <1>5 DEF Screens

-----------------------------------------------------------------------------
(* The device and the tables together *)

LEMMA ScreensInit == AdmissionInit => Screens
<1> SUFFICES ASSUME AdmissionInit PROVE Screens
  OBVIOUS
<1>1. /\ device = Out /\ control = Idle /\ poll = Idle /\ beat = Idle /\ unserved = {}
      /\ now = 0 /\ issued = 0 /\ matches = <<>> /\ Len(matches) = 0
  BY DEF AdmissionInit
<1>2. /\ Out \in DeviceRow /\ Out.session = 0 /\ Out.match = 0 /\ Out.stage = "Idle"
      /\ Out.elsewhere = FALSE
  BY DEF Out, DeviceRow, Stages, States
<1>3. Shapes /\ Channels
  BY <1>1, <1>2, IdleFacts DEF Shapes, Channels
<1>4. Known
  BY <1>1, <1>2, IdleFacts DEF Known
<1>5. Leases
  BY <1>1, <1>2, IdleFacts DEF Leases
<1>6. QED
  BY <1>3, <1>4, <1>5 DEF Screens

LEMMA ScreensStep == Rows /\ Screens /\ [AdmissionNext]_admissionVars => Screens'
<1> SUFFICES ASSUME Rows, Screens, [AdmissionNext]_admissionVars PROVE Screens'
  OBVIOUS
<1>1. Rows'
  BY RowsStep
<1>2. CASE UNCHANGED admissionVars
  BY <1>2 DEF admissionVars, rows, channels, Screens, Shapes, Channels, Known, Leases, Covers,
              OwnIsLive
<1>3. CASE ServerStep \/ ServeLate
  BY <1>3, ServesKeep, LateKeeps
<1>4. CASE Callback \/ Timer \/ Player \/ Fault
  BY <1>4, DeviceKeeps
<1>5. CASE \/ RivalArrives \/ RivalGoes \/ MatchEnds \/ OtherBeats \/ OtherLeaves
           \/ \E take \in BOOLEAN : OtherEnters(take)
  BY <1>1, <1>5, WorldKeepsScreens
<1>6. CASE TimePasses
  BY <1>6, TimeKeepsScreens
<1>7. QED
  BY <1>2, <1>3, <1>4, <1>5, <1>6 DEF AdmissionNext

(* What the device shows, and the lease it counts on, agrees with the tables of
   the server, whatever is cancelled, lost, served late or taken over
   (RankedRuntime.cpp, session.service.ts). *)
THEOREM AdmissionInvariant == AdmissionSpec => [](Rows /\ Screens)
<1>1. AdmissionInit => Rows /\ Screens
  BY RowsInit, ScreensInit
<1>2. (Rows /\ Screens) /\ [AdmissionNext]_admissionVars => (Rows /\ Screens)'
  BY RowsStep, ScreensStep
<1>3. QED
  BY <1>1, <1>2, PTL DEF AdmissionSpec

(* The server lets the other device in without a take-over while the device let
   in last counts itself connected only when the token of that one has ended, and
   even then what it counts on is within the lease that it was granted
   (SessionService.create against the deadline of updateSessionHeartbeat): the
   lease began on the server when its request was served, the device counts it
   from the sending. *)
THEOREM AdmittedAfterLease == AdmissionSpec => AdmittedOnlyAfterLease
<1> DEFINE Kept == OtherEnters(FALSE) /\ issued' # issued /\ NewestIsOwn /\ Connected
                     => TokenOver /\ ~Silent /\ device.deadline <= live.seen + SessionLease
<1>1. Rows /\ Screens => Kept
  <2> SUFFICES ASSUME Rows, Screens, OtherEnters(FALSE), issued' # issued, NewestIsOwn, Connected
               PROVE  TokenOver /\ ~Silent /\ device.deadline <= live.seen + SessionLease
    OBVIOUS
  <2>1. /\ now \in Nat /\ issued \in Nat /\ live.seen \in Nat
    BY DEF Rows
  <2>2. /\ device.session # 0 /\ now < device.deadline /\ device.deadline \in Nat
        /\ Covers(device.session, device.deadline - SessionLease)
    BY OldRequests DEF Connected, Screens, Leases, DeviceRow
  <2>3. OwnIsLive /\ live.seen >= device.deadline - SessionLease
    BY <2>2 DEF NewestIsOwn, Covers, OwnIsLive
  <2>4. device.deadline <= live.seen + SessionLease
    BY <2>1, <2>2, <2>3, AdmissionBounds
  <2>5. ~Silent
    BY <2>1, <2>2, <2>4, AdmissionBounds DEF Silent
  <2>6. ~Elsewhere("other", FALSE)
    BY DEF OtherEnters, Create, rows
  <2>7. TokenOver
    BY <2>3, <2>5, <2>6 DEF Elsewhere, Alive, OwnIsLive
  <2>8. QED
    BY <2>4, <2>5, <2>7
<1>2. (Rows /\ Screens) /\ [AdmissionNext]_admissionVars => [Kept]_admissionVars
  BY <1>1
<1>3. AdmittedOnlyAfterLease <=> [][Kept]_admissionVars
  BY DEF AdmittedOnlyAfterLease
<1> HIDE DEF Kept
<1>4. QED
  BY <1>2, <1>3, AdmissionInvariant, PTL DEF AdmissionSpec

(* What a device shows of a match is never taken back by a late answer
   (parseMatchState), whether it answers the poll or the Ready. *)
THEOREM ShownNeverGoesBack == AdmissionSpec => ShownMatchNeverGoesBack
<1> DEFINE Kept == device'.match = device.match /\ device.match # 0 => device'.ver >= device.ver
<1>1. Rows /\ Screens /\ [AdmissionNext]_admissionVars => Kept
  <2> SUFFICES ASSUME Rows, Screens, [AdmissionNext]_admissionVars,
                      device'.match = device.match, device.match # 0
               PROVE  device'.ver >= device.ver
    OBVIOUS
  <2>0. device \in DeviceRow /\ device.ver \in Nat
    BY OldRequests DEF DeviceRow
  <2>1. CASE UNCHANGED device
    BY <2>0, <2>1
  <2>2. CASE ~UNCHANGED device
    <3>1. Callback \/ Timer \/ Player
      BY <2>2 DEF AdmissionNext, admissionVars, channels, ServerStep, ServeControl, ServePoll,
            ServeBeat, Fault, OtherEnters, OtherBeats, OtherLeaves, ServeLate, RivalArrives,
            RivalGoes, MatchEnds, TimePasses
    <3>2. CASE MatchAnswered
      BY <2>0, <2>2, <3>2, ApplyFacts, OldRequests DEF MatchAnswered, Show, RequestRow
    <3>3. CASE ReadyAnswered
      <4>1. /\ control.answer.code = "STATE" /\ device' = Apply(device, control.answer)
            /\ control.kind = "READY" /\ control.answer \in Answer
        BY <2>2, <3>3, OldRequests DEF ReadyAnswered, Answered, Show, RequestRow
      <4>2. control.answer.match = device.match
        BY <4>1 DEF Screens, Channels, Known
      <4>3. QED
        BY <2>0, <4>1, <4>2, ApplyFacts
    <3>4. CASE ~MatchAnswered /\ ~ReadyAnswered
      <4> SUFFICES device'.ver = device.ver
        BY <2>0
      <4>1. ~Begin /\ ~DismissMatch /\ ~QueueAgain
        <5>1. Out.match = 0 /\ [Out EXCEPT !.stage = "Loading"].match = 0
          BY DEF Out
        <5>2. PICK v : v = Dismissed(device)
          OBVIOUS
        <5>3. v \in DeviceRow /\ v.match = 0
          BY <2>0, <5>2, DismissedFacts
        <5>4. \A s \in Stages : [v EXCEPT !.stage = s].match = 0
          BY <5>3 DEF DeviceRow, Stages, States
        <5>5. ~Begin
          BY <5>1 DEF Begin, Show
        <5>6. ~DismissMatch
          BY <5>2, <5>3 DEF DismissMatch, Show
        <5>7. ~QueueAgain
          BY <5>2, <5>4 DEF QueueAgain, SendJoin, Show, Stages
        <5>8. QED
          BY <5>5, <5>6, <5>7
      <4>2. CASE Callback
        <5>1. CASE ConfigAnswered \/ PlacementAnswered \/ JoinAnswered \/ LeaveAnswered
          <6>1. \/ \E s \in Stages : device' = [device EXCEPT !.stage = s]
                \/ device' = [device EXCEPT !.stage = "Loading", !.elsewhere = FALSE]
            BY <5>1 DEF ConfigAnswered, PlacementAnswered, JoinAnswered, LeaveAnswered,
                        SendCreate, Show, Stages
          <6>2. QED
            BY <2>0, <6>1 DEF DeviceRow, Stages, States
        <5>2. CASE SessionAnswered
          <6>1. PICK b \in BOOLEAN : b = (control.answer.code = "ELSEWHERE")
            OBVIOUS
          <6>2. PICK n : n = control.answer.session
            OBVIOUS
          <6>3. PICK d : d = control.sentAt + SessionLease
            OBVIOUS
          <6>4. PICK v : v = [device EXCEPT !.session = n, !.deadline = d]
            OBVIOUS
          <6>5. \/ device' = [device EXCEPT !.stage = "Error", !.elsewhere = b]
                \/ device' = [v EXCEPT !.stage = "Queued", !.recovering = TRUE]
                \/ device' = v
            BY <5>2, <6>1, <6>2, <6>3, <6>4 DEF SessionAnswered, Show
          <6>6. v.ver = device.ver /\ DOMAIN v = DOMAIN device
            BY <2>0, <6>4 DEF DeviceRow, Stages, States
          <6>7. QED
            BY <2>0, <6>4, <6>5, <6>6 DEF DeviceRow, Stages, States
        <5>3. CASE QueueAnswered
          <6>1. PICK m, n : m = poll.answer.match /\ n = poll.answer.token
            OBVIOUS
          <6>2. \/ device' = [device EXCEPT !.stage = "Matched", !.match = m, !.token = n,
                                            !.recovering = FALSE]
                \/ device' = [device EXCEPT !.stage = "Loading", !.recovering = FALSE]
                \/ device' = [device EXCEPT !.recovering = FALSE]
            BY <2>2, <5>3, <6>1 DEF QueueAnswered, Show
          <6>3. QED
            BY <2>0, <6>2 DEF DeviceRow, Stages, States
        <5>4. CASE BeatAnswered
          <6>1. PICK d : d = beat.sentAt + SessionLease
            OBVIOUS
          <6>2. \/ device' = [device EXCEPT !.stage = "Error", !.session = 0, !.deadline = 0]
                \/ device' = [device EXCEPT !.deadline = d]
            BY <2>2, <5>4, <6>1 DEF BeatAnswered, Disconnect, Show
          <6>3. QED
            BY <2>0, <6>2 DEF DeviceRow, Stages, States
        <5>5. QED
          BY <3>4, <4>2, <5>1, <5>2, <5>3, <5>4 DEF Callback
      <4>3. CASE Timer \/ Player
        <5>1. \/ \E s \in Stages : device' = [device EXCEPT !.stage = s]
              \/ device' = [device EXCEPT !.stage = "Loading", !.elsewhere = FALSE]
              \/ device' = [device EXCEPT !.stage = "Error", !.session = 0, !.deadline = 0]
              \/ device' = [device EXCEPT !.stage = "Idle", !.session = 0, !.deadline = 0]
          <6>1. CASE LeaseRunsOut \/ LeaveRanked
            BY <6>1 DEF LeaseRunsOut, LeaveRanked, Disconnect, Show
          <6>2. CASE Recheck \/ TakeOver \/ JoinQueue \/ LeaveQueue
            BY <2>2, <6>2 DEF Recheck, TakeOver, SendCreate, JoinQueue, SendJoin, LeaveQueue,
                              Show, Stages
          <6>3. QED
            BY <2>2, <4>1, <4>3, <6>1, <6>2 DEF Timer, Player, SendBeat, PollQueue, PollMatch,
                              SubmitReady
        <5>2. QED
          BY <2>0, <5>1 DEF DeviceRow, Stages, States
      <4>4. QED
        BY <3>1, <4>2, <4>3
    <3>5. QED
      BY <3>2, <3>3, <3>4
  <2>3. QED
    BY <2>1, <2>2
<1>2. ShownMatchNeverGoesBack <=> [][Kept]_admissionVars
  BY DEF ShownMatchNeverGoesBack
<1> HIDE DEF Kept
<1>3. QED
  BY <1>1, <1>2, AdmissionInvariant, PTL DEF AdmissionSpec

-----------------------------------------------------------------------------
(* The bounds of admission *)

(* The entry names a session and a match that there have been. *)
EntryNames == entry.session <= issued /\ entry.match <= Len(matches)

Limits ==
  now <= MaxTime /\ issued <= MaxSessions /\ faults \in 0..MaxFaults /\ acts \in 0..MaxActs

(* An entry that is changed keeps its session and its match, or has none, or is of
   the session that was live. *)
LEMMA EntryKept ==
  ASSUME Rows, Rows', EntryNames, issued <= issued', Len(matches) <= Len(matches'),
         \/ entry'.session = entry.session /\ entry'.match = entry.match
         \/ entry' = NoEntry
         \/ entry'.session \in {live.id, entry.session, issued'}
            /\ entry'.match \in {0} \cup DOMAIN matches'
  PROVE  EntryNames'
<1>1. /\ issued \in Nat /\ issued' \in Nat /\ matches \in Seq(MatchRow)
      /\ matches' \in Seq(MatchRow) /\ live.id \in {0, issued}
      /\ entry.session \in Nat /\ entry.match \in Nat
  BY DEF Rows, EntryRow
<1>2. /\ Len(matches) \in Nat /\ Len(matches') \in Nat /\ DOMAIN matches' = 1..Len(matches')
  BY <1>1
<1>3. NoEntry.session = 0 /\ NoEntry.match = 0
  BY DEF NoEntry
<1>4. CASE entry'.session = entry.session /\ entry'.match = entry.match
  BY <1>1, <1>2, <1>4 DEF EntryNames
<1>5. CASE entry' = NoEntry
  BY <1>1, <1>2, <1>3, <1>5 DEF EntryNames
<1>6. CASE /\ entry'.session \in {live.id, entry.session, issued'}
           /\ entry'.match \in {0} \cup DOMAIN matches'
  BY <1>1, <1>2, <1>6 DEF EntryNames
<1>7. QED
  BY <1>4, <1>5, <1>6

(* How a step may change the entry, and how many sessions there are. *)
EntryMoves ==
  \/ entry'.session = entry.session /\ entry'.match = entry.match
  \/ entry' = NoEntry
  \/ entry'.session \in {live.id, entry.session, issued'}
     /\ entry'.match \in {0} \cup DOMAIN matches'
Issues == issued' = issued \/ (issued < MaxSessions /\ issued' = issued + 1)

LEMMA CreateMoves ==
  ASSUME Rows, NEW dev, NEW take, Create(dev, take)
  PROVE  EntryMoves /\ Issues
<1>1. CASE UNCHANGED rows
  BY <1>1 DEF rows, EntryMoves, Issues
<1>2. CASE ~UNCHANGED rows
  <2> DEFINE m == TheMatch(Ongoing)
  <2>1. /\ issued < MaxSessions /\ issued' = issued + 1
        /\ entry' = IF m = 0 THEN NoEntry
                    ELSE [status |-> "MATCHED", session |-> issued', seen |-> now, match |-> m]
        /\ matches' = IF m = 0 THEN matches ELSE [matches EXCEPT ![m].token = issued']
    BY <1>2 DEF Create
  <2>2. m # 0 => m \in DOMAIN matches
    BY OngoingFacts DEF Rows, Ongoing
  <2>3. DOMAIN matches' = DOMAIN matches
    BY <2>1
  <2> HIDE DEF m
  <2>4. QED
    BY <2>1, <2>2, <2>3 DEF EntryMoves, Issues
<1>3. QED
  BY <1>1, <1>2

LEMMA PairMoves ==
  ASSUME Rows, Ongoing = {}, NEW e \in EntryRow, Pair(e), e.session \in {live.id, entry.session}
  PROVE  EntryMoves
<1>1. /\ entry'.session = e.session /\ matches' \in Seq(MatchRow)
      /\ entry'.match \in 1..Len(matches')
  BY PairFacts DEF Rows
<1>2. DOMAIN matches' = 1..Len(matches')
  BY <1>1
<1>3. QED
  BY <1>1, <1>2 DEF EntryMoves

LEMMA TransactionMoves ==
  ASSUME Rows, NEW r \in RequestRow, Transaction(r)
  PROVE  EntryMoves /\ Issues
<1>1. CASE Create("own", r.take)
  BY <1>1, CreateMoves
<1>2. CASE Join(r)
  <2> DEFINE own == [status |-> "QUEUED", session |-> r.session, seen |-> now, match |-> 0]
  <2>1. UNCHANGED <<live, issued>>
    BY <1>2 DEF Join
  <2>2. own \in EntryRow
    BY DEF EntryRow, RequestRow, Rows
  <2>3. own.session = r.session /\ own.match = 0
    OBVIOUS
  <2>4. \/ UNCHANGED entry
        \/ JoinVerdict(r.session) = "OK" /\ (Pair(own) \/ entry' = own)
    BY <1>2 DEF Join
  <2> HIDE DEF own
  <2>5. JoinVerdict(r.session) = "OK" => r.session = live.id /\ Ongoing = {}
    BY DEF JoinVerdict, Alive
  <2>6. EntryMoves
    BY <2>2, <2>3, <2>4, <2>5, PairMoves DEF EntryMoves
  <2>7. QED
    BY <2>1, <2>6 DEF Issues
<1>3. CASE Leave(r)
  <2>1. entry' = entry \/ entry' = [entry EXCEPT !.status = "LEFT"]
    BY <1>3 DEF Leave
  <2>2. QED
    BY <1>3, <2>1 DEF Leave, Rows, EntryRow, EntryMoves, Issues
<1>4. CASE QueueStatus(r)
  <2>1. entry' = entry \/ entry' = [entry EXCEPT !.seen = now]
    BY <1>4 DEF QueueStatus
  <2>2. QED
    BY <1>4, <2>1 DEF QueueStatus, Rows, EntryRow, EntryMoves, Issues
<1>5. CASE Heartbeat(r) \/ Close(r) \/ MatchCall(r)
  BY <1>5 DEF Heartbeat, Close, MatchCall, rows, EntryMoves, Issues
<1>6. QED
  BY <1>1, <1>2, <1>3, <1>4, <1>5 DEF Transaction

LEMMA WorldMoves ==
  ASSUME Rows, Rows',
         \/ RivalArrives \/ RivalGoes \/ MatchEnds \/ OtherBeats \/ OtherLeaves
         \/ \E take \in BOOLEAN : OtherEnters(take)
  PROVE  EntryMoves /\ Issues /\ Len(matches) <= Len(matches')
<1>1. CASE RivalArrives
  <2> DEFINE e == IF entry.status = "QUEUED" /\ entry.seen + QueueLease <= now
                  THEN [entry EXCEPT !.status = "EXPIRED"] ELSE entry
  <2>1. /\ UNCHANGED <<now, live, issued>>
        /\ \/ e.status = "QUEUED" /\ Pair(e)
           \/ entry' = e /\ UNCHANGED matches
    BY <1>1 DEF RivalArrives
  <2>2. /\ e \in EntryRow /\ (e.status = "QUEUED" => e = entry)
        /\ e.session = entry.session /\ e.match = entry.match
    BY DEF Rows, EntryRow
  <2> HIDE DEF e
  <2>3. e.status = "QUEUED" => Ongoing = {}
    BY <2>2 DEF Rows, Assigned
  <2>4. EntryMoves
    BY <2>1, <2>2, <2>3, PairMoves DEF EntryMoves
  <2>5. Len(matches) <= Len(matches')
    BY <2>1, <2>2, PairGrows, MatchesGrow
  <2>6. QED
    BY <2>1, <2>4, <2>5 DEF Issues
<1>2. CASE RivalGoes \/ MatchEnds \/ OtherBeats
  <2>1. DOMAIN matches' = DOMAIN matches
    BY <1>2 DEF RivalGoes, MatchEnds, OtherBeats
  <2>2. UNCHANGED <<entry, issued>>
    BY <1>2 DEF RivalGoes, MatchEnds, OtherBeats
  <2>3. QED
    BY <2>1, <2>2, MatchesGrow DEF EntryMoves, Issues
<1>3. CASE OtherLeaves
  <2>1. DOMAIN matches' = DOMAIN matches /\ issued' = issued /\ entry' \in {entry, NoEntry}
    BY <1>3 DEF OtherLeaves, Close, rows
  <2>2. QED
    BY <2>1, MatchesGrow DEF EntryMoves, Issues
<1>4. ASSUME NEW take \in BOOLEAN, OtherEnters(take)
      PROVE  EntryMoves /\ Issues /\ Len(matches) <= Len(matches')
  <2>1. DOMAIN matches' = DOMAIN matches
    BY <1>4 DEF OtherEnters, Create, rows
  <2>2. QED
    BY <1>4, <2>1, MatchesGrow, CreateMoves DEF OtherEnters
<1>5. QED
  BY <1>1, <1>2, <1>3, <1>4

(* The budgets of the faults and of the player are counted where they are spent. *)
LEMMA DeviceLimits ==
  ASSUME Limits, Callback \/ Timer \/ Player \/ Fault
  PROVE  faults' \in 0..MaxFaults /\ acts' \in 0..MaxActs
<1>1. faults' = faults \/ (faults < MaxFaults /\ faults' = faults + 1)
  BY DEF Callback, Timer, Player, Fault, ConfigAnswered, SessionAnswered, PlacementAnswered,
         JoinAnswered, LeaveAnswered, QueueAnswered, MatchAnswered, ReadyAnswered,
         BeatAnswered, SendBeat, PollQueue, PollMatch, LeaseRunsOut, Begin, Recheck,
         TakeOver, JoinQueue, LeaveQueue, SubmitReady, DismissMatch, QueueAgain, LeaveRanked
<1>2. acts' = acts \/ (acts < MaxActs /\ acts' = acts + 1)
  BY DEF Callback, Timer, Player, Fault, ConfigAnswered, SessionAnswered, PlacementAnswered,
         JoinAnswered, LeaveAnswered, QueueAnswered, MatchAnswered, ReadyAnswered,
         BeatAnswered, SendBeat, PollQueue, PollMatch, LeaseRunsOut, Begin, Recheck,
         TakeOver, JoinQueue, LeaveQueue, SubmitReady, DismissMatch, QueueAgain, LeaveRanked,
         Act
<1>3. QED
  BY <1>1, <1>2, AdmissionBounds DEF Limits

LEMMA MovesKeep ==
  ASSUME Rows, Rows', EntryNames, Limits, EntryMoves, Issues, Len(matches) <= Len(matches')
  PROVE  EntryNames' /\ issued' <= MaxSessions
<1>1. issued \in Nat /\ MaxSessions \in Nat
  BY AdmissionBounds DEF Rows
<1>2. issued <= issued' /\ issued' <= MaxSessions
  BY <1>1 DEF Issues, Limits
<1>3. QED
  BY <1>2, EntryKept DEF EntryMoves

LEMMA LimitsStep ==
  Rows /\ Screens /\ Limits /\ EntryNames /\ [AdmissionNext]_admissionVars
    => (Limits /\ EntryNames)'
<1> SUFFICES ASSUME Rows, Screens, Limits, EntryNames, [AdmissionNext]_admissionVars
             PROVE  (Limits /\ EntryNames)'
  OBVIOUS
<1>0. Rows'
  BY RowsStep
<1>n. /\ now \in Nat /\ issued \in Nat
      /\ {MaxSessions, MaxMatches, MaxTime, MaxFaults, MaxActs} \subseteq Nat
  BY AdmissionBounds DEF Rows
<1>1. CASE UNCHANGED <<now, rows>> /\ faults' \in 0..MaxFaults /\ acts' \in 0..MaxActs
  BY <1>1 DEF rows, Limits, EntryNames
<1>2. ASSUME NEW r \in RequestRow, Transaction(r), UNCHANGED <<now, faults, acts>>
      PROVE  (Limits /\ EntryNames)'
  <2>1. EntryMoves /\ Issues /\ Len(matches) <= Len(matches')
    BY <1>0, <1>2, TransactionMoves, TransactionGrows
  <2>2. EntryNames' /\ issued' <= MaxSessions
    BY <1>0, <2>1, MovesKeep
  <2>3. QED
    BY <1>2, <2>2 DEF Limits
<1>3. CASE ServerStep \/ ServeLate
  <2>1. UNCHANGED <<now, faults, acts>>
    BY <1>3 DEF ServerStep, ServeLate, ServeControl, ServePoll, ServeBeat
  <2>2. UNCHANGED rows \/ \E r \in {control, poll, beat} \cup unserved : Transaction(r)
    BY <1>3 DEF ServerStep, ServeLate, ServeControl, ServePoll, ServeBeat, Serve
  <2>3. {control, poll, beat} \cup unserved \subseteq RequestRow
    BY DEF Screens, Shapes
  <2>4. CASE UNCHANGED rows
    BY <1>1, <2>1, <2>4 DEF Limits
  <2>5. CASE \E r \in RequestRow : Transaction(r)
    BY <1>2, <2>1, <2>5
  <2>6. QED
    BY <2>2, <2>3, <2>4, <2>5
<1>4. CASE Callback \/ Timer \/ Player \/ Fault
  BY <1>1, <1>4, DeviceLeavesRows, DeviceLimits
<1>5. CASE \/ RivalArrives \/ RivalGoes \/ MatchEnds \/ OtherBeats \/ OtherLeaves
           \/ \E take \in BOOLEAN : OtherEnters(take)
  <2>1. UNCHANGED <<now, faults, acts>>
    BY <1>5 DEF RivalArrives, RivalGoes, MatchEnds, OtherBeats, OtherLeaves, OtherEnters
  <2>2. EntryNames' /\ issued' <= MaxSessions
    BY <1>0, <1>5, WorldMoves, MovesKeep
  <2>3. QED
    BY <2>1, <2>2 DEF Limits
<1>6. CASE TimePasses
  <2>1. now < MaxTime /\ now' = now + 1 /\ UNCHANGED <<rows, faults, acts>>
    BY <1>6 DEF TimePasses
  <2>2. QED
    BY <1>n, <2>1 DEF rows, Limits, EntryNames
<1>7. CASE UNCHANGED admissionVars
  BY <1>1, <1>7 DEF admissionVars, Limits
<1>8. QED
  BY <1>3, <1>4, <1>5, <1>6, <1>7 DEF AdmissionNext

(* The tables and the device keep their shape, and the entry names a session and
   a match that there have been (ranked_queue_entries, RankedRuntime). *)
THEOREM AdmissionTypes == AdmissionSpec => []AdmissionTypeOK
<1>1. AdmissionInit => Rows /\ Screens /\ Limits /\ EntryNames
  BY RowsInit, ScreensInit, AdmissionBounds
     DEF AdmissionInit, Limits, EntryNames, NoEntry
<1>2. (Rows /\ Screens /\ Limits /\ EntryNames) /\ [AdmissionNext]_admissionVars
        => (Rows /\ Screens /\ Limits /\ EntryNames)'
  BY RowsStep, ScreensStep, LimitsStep
<1>3. Rows /\ Screens /\ Limits /\ EntryNames => AdmissionTypeOK
  <2> SUFFICES ASSUME Rows, Screens, Limits, EntryNames PROVE AdmissionTypeOK
    OBVIOUS
  <2>1. /\ now \in Nat /\ issued \in Nat /\ MaxTime \in Nat /\ MaxSessions \in Nat
        /\ live.id \in {0, issued} /\ rival \in BOOLEAN /\ matches \in Seq(MatchRow)
        /\ entry \in EntryRow
    BY AdmissionBounds DEF Rows
  <2>2. Len(matches) \in Nat /\ DOMAIN matches = 1..Len(matches)
    BY <2>1
  <2>3. /\ entry.status \in {"NONE", "QUEUED", "MATCHED", "LEFT", "EXPIRED"}
        /\ entry.session \in 0..issued /\ entry.match \in 0..Len(matches)
    BY <2>1, <2>2 DEF EntryRow, EntryNames
  <2>4. \A m \in DOMAIN matches : matches[m].state \in States \ {"none"}
    <3>1. \A m \in 1..Len(matches) : matches[m] \in MatchRow
      BY <2>1
    <3>2. QED
      BY <2>2, <3>1 DEF MatchRow, States
  <2>5. device.stage \in Stages /\ device.state \in States
    BY DEF Screens, Shapes, DeviceRow
  <2>6. QED
    BY <2>1, <2>3, <2>4, <2>5 DEF AdmissionTypeOK, Limits
<1>4. QED
  BY <1>1, <1>2, <1>3, PTL DEF AdmissionSpec

-----------------------------------------------------------------------------
(* The two together *)

LEMMA PartsAreTheirSpecs == PartsSpec => Spec /\ AdmissionSpec
<1>1. PartsInit => Init /\ AdmissionInit
  BY DEF PartsInit
<1>2. [PartsNext]_<<part, vars, admissionVars>> => [Next]_vars /\ [AdmissionNext]_admissionVars
  BY DEF PartsNext
<1>3. QED
  BY <1>1, <1>2, PTL DEF PartsSpec, Spec, AdmissionSpec

(* Whichever of the two a behaviour exercises, everything that is kept about the
   player's requests keeps its shape (MatchPauseState, ranked_sessions,
   ranked_queue_entries). *)
THEOREM RequestTypes == PartsSpec => []TypesOK
<1>1. TypeOK /\ AdmissionTypeOK => TypesOK
  BY DEF TypesOK
<1>2. QED
  BY <1>1, PartsAreTheirSpecs, PauseTypes, AdmissionTypes, PTL
=============================================================================
