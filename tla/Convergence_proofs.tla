-------------------------- MODULE Convergence_proofs --------------------------
(***************************************************************************)
(* What holds of the outbox and of the live picture, for any number of     *)
(* events, crashes, attempts, pictures and losses and any bounds of the    *)
(* claims, a queue, a batch and a page; and the types of all five parts    *)
(* that MCConvergence puts together.                                       *)
(*                                                                         *)
(* Every generation of the publisher's stream has one origin: the attempt   *)
(* it is of, and how far its pictures are numbered ahead of its packets.    *)
(* Along says that everything of a generation that is queued, under way,    *)
(* kept by the relay or shown to the viewer is of that origin, and so is    *)
(* the publisher's next picture.                                            *)
(***************************************************************************)
EXTENDS MCConvergence, AttemptTransport_proofs, RoundPreparation_proofs,
        SequenceTheorems, WellFoundedInduction, TLAPS

-----------------------------------------------------------------------------
(* The outbox and its worker *)

OutboxRow == [state : {"absent", "waiting", "delivered", "abandoned"},
              tries : 0 .. MaxAttempts, leased : BOOLEAN]
WorkerRow == [started : BOOLEAN, timer : BOOLEAN, woken : BOOLEAN, more : BOOLEAN,
              at : {"idle", "claim", "deliver", "ask", "settle"}, batch : SUBSET Events]

(* A worker w that will look at the table before it may fall asleep for good. *)
WillLook(w) == w.timer /\ (w.at = "settle" => w.more \/ w.woken)

(* What a running worker owes to the table: every row that it may take is of a
   commit that is about to signal it, or it will look before it sleeps. *)
Watched(due, pending, w) == w.started => due \subseteq pending \/ WillLook(w)

(* What is kept of the rows and the worker: the timer runs during a pass, and
   what the worker holds has neither been delivered nor given up. *)
OutboxInv ==
  /\ rows \in [Events -> OutboxRow] /\ signals \subseteq Events /\ worker \in WorkerRow
  /\ worker.at # "idle" => worker.timer
  /\ worker.timer => worker.started
  /\ \A e \in worker.batch : rows[e].state = "waiting"
  /\ worker.at # "deliver" => worker.batch = {}
  /\ Watched(Due, signals, worker)

\* No row is forgotten: while the worker runs, a row that it may take is of a
\* commit whose signal is under way, or the worker has yet to look at the table
\* before its timer stops, whatever else commits, fails or crashes meanwhile
\* (the generation that DemandWorker.cycle compares, database-work.ts).
NothingForgotten == Watched(Due, signals, worker)

(* Nothing is owed before the first commit. *)
LEMMA OutboxInvInit == OutboxInit => OutboxInv
<1> SUFFICES ASSUME OutboxInit PROVE OutboxInv
  OBVIOUS
<1>1. rows \in [Events -> OutboxRow]
  BY OutboxBounds DEF OutboxInit, NoRow, OutboxRow
<1>2. worker \in WorkerRow
  BY DEF OutboxInit, Asleep, WorkerRow
<1>3. QED
  BY <1>1, <1>2 DEF OutboxInit, OutboxInv, Watched, Asleep

(* The worker is woken: it will look, whatever it is at. *)
LEMMA WokenLooks ==
  ASSUME NEW w \in WorkerRow, w.at # "idle" => w.timer, w.timer => w.started
  PROVE  /\ Woken(w) \in WorkerRow /\ Woken(w).started = w.started
         /\ Woken(w).batch = w.batch
         /\ w.started => WillLook(Woken(w))
         /\ Woken(w).at # "idle" => Woken(w).timer
         /\ Woken(w).timer => w.started
         /\ Woken(w).at = IF w.started /\ w.at = "idle" THEN "claim" ELSE w.at
BY DEF Woken, WorkerRow, WillLook

(* At the end of a pass the timer is kept for what is left and for a signal. *)
LEMMA SettledKeeps ==
  ASSUME NEW w \in WorkerRow, w.at = "settle", w.timer
  PROVE  /\ Settled(w) \in WorkerRow /\ Settled(w).started = w.started
         /\ Settled(w).at = "idle" /\ Settled(w).batch = w.batch
         /\ WillLook(w) => WillLook(Settled(w))
BY DEF Settled, WorkerRow, WillLook

(* On to the next row, or to the query whether anything is left. *)
LEMMA LeaveKeeps ==
  ASSUME worker \in WorkerRow, worker.timer, NEW B \in SUBSET Events
  PROVE  /\ Leave(B) \in WorkerRow /\ Leave(B).started = worker.started
         /\ Leave(B).timer /\ Leave(B).batch = B
         /\ Leave(B).at = IF B = {} THEN "ask" ELSE "deliver"
BY DEF Leave, WorkerRow

(* A commit and its signal. *)
LEMMA CommitKeeps ==
  ASSUME OutboxInv, NEW e \in Events, Commit(e) \/ CommitReturns(e) \/ LeaseEnds(e)
  PROVE  OutboxInv'
<1>1. CASE Commit(e)
  <2>1. rows' \in [Events -> OutboxRow]
    BY <1>1 DEF Commit, OutboxInv, OutboxRow
  <2>2. \A x \in Events \ {e} : rows'[x] = rows[x]
    BY <1>1 DEF Commit, OutboxInv
  <2>3. Due' \subseteq Due \cup {e} /\ signals' = signals \cup {e}
    BY <1>1, <2>2 DEF Commit, Due
  <2>4. \A x \in worker.batch : x # e /\ x \in Events
    BY <1>1 DEF Commit, OutboxInv, WorkerRow
  <2>5. QED
    BY <1>1, <2>1, <2>2, <2>3, <2>4 DEF Commit, OutboxInv, Watched
<1>2. CASE CommitReturns(e)
  <2>1. Due' = Due /\ rows' = rows /\ signals' \subseteq signals /\ worker' = Woken(worker)
    BY <1>2 DEF CommitReturns, Due
  <2>2. /\ worker' \in WorkerRow /\ worker'.started = worker.started
        /\ worker'.batch = worker.batch
        /\ worker.started => WillLook(worker')
        /\ worker'.at # "idle" => worker'.timer
        /\ worker'.timer => worker.started
        /\ worker'.at = IF worker.started /\ worker.at = "idle" THEN "claim" ELSE worker.at
    BY <2>1, WokenLooks DEF OutboxInv
  <2>3. worker'.at # "deliver" => worker'.batch = {}
    BY <2>2 DEF OutboxInv
  <2>4. QED
    BY <2>1, <2>2, <2>3 DEF OutboxInv, Watched
<1>3. CASE LeaseEnds(e)
  <2>1. rows' \in [Events -> OutboxRow]
    BY <1>3 DEF LeaseEnds, OutboxInv, OutboxRow
  <2>2. \A x \in Events : rows'[x].state = rows[x].state /\ rows'[x].tries = rows[x].tries
    BY <1>3 DEF LeaseEnds, OutboxInv, OutboxRow
  <2>3. Due' = Due
    BY <2>2 DEF Due
  <2>4. \A x \in worker.batch : rows'[x].state = "waiting"
    BY <2>2 DEF OutboxInv, WorkerRow
  <2>5. QED
    BY <1>3, <2>1, <2>3, <2>4 DEF LeaseEnds, OutboxInv
<1>4. QED
  BY <1>1, <1>2, <1>3

(* A claim, and what becomes of the rows it took. *)
LEMMA PassKeeps ==
  ASSUME OutboxInv, Claim \/ ClaimFails \/ Deliver
  PROVE  OutboxInv'
<1>1. CASE Claim
  <2> DEFINE free == {e \in Due : ~rows[e].leased}
  <2>1. PICK B \in SUBSET free :
          /\ rows' = [e \in Events |-> IF e \in B
                        THEN [rows[e] EXCEPT !.tries = @ + 1, !.leased = TRUE] ELSE rows[e]]
          /\ worker' = [worker EXCEPT !.at = IF B = {} THEN "ask" ELSE "deliver", !.batch = B]
    BY <1>1 DEF Claim
  <2>2. B \subseteq Due /\ B \subseteq Events
    BY DEF Due
  <2> HIDE DEF free
  <2>3. /\ worker' \in WorkerRow /\ worker'.started = worker.started /\ worker'.timer
        /\ worker'.started /\ worker'.batch = B
        /\ worker'.at = IF B = {} THEN "ask" ELSE "deliver"
    BY <1>1, <2>1, <2>2 DEF Claim, OutboxInv, WorkerRow
  <2>4. ASSUME NEW e \in Events
        PROVE  rows'[e] \in OutboxRow /\ rows'[e].state = rows[e].state
    <3>1. rows[e] \in OutboxRow /\ MaxAttempts \in Nat
      BY OutboxBounds DEF OutboxInv
    <3>2. CASE e \in B
      <4>1. rows[e].tries + 1 \in 0 .. MaxAttempts
        BY <2>2, <3>1, <3>2 DEF Due, OutboxRow
      <4>2. rows'[e] = [rows[e] EXCEPT !.tries = @ + 1, !.leased = TRUE]
        BY <2>1, <3>2
      <4>3. QED
        BY <3>1, <4>1, <4>2 DEF OutboxRow
    <3>3. CASE e \notin B
      BY <2>1, <3>1, <3>3
    <3>4. QED
      BY <3>2, <3>3
  <2>5. rows' \in [Events -> OutboxRow]
    BY <2>1, <2>4
  <2>6. \A e \in worker'.batch : rows'[e].state = "waiting"
    BY <2>2, <2>3, <2>4 DEF Due
  <2>7. WillLook(worker')
    BY <2>3 DEF WillLook
  <2>8. signals' \subseteq Events
    BY <1>1 DEF Claim, OutboxInv
  <2>9. QED
    BY <2>3, <2>5, <2>6, <2>7, <2>8 DEF OutboxInv, Watched
<1>2. CASE ClaimFails
  <2>1. rows' = rows /\ signals' = signals /\ worker' = Leave({}) /\ worker.timer
        /\ worker.started
    BY <1>2 DEF ClaimFails, OutboxInv
  <2>2. QED
    BY <2>1, LeaveKeeps DEF OutboxInv, Watched, WillLook
<1>3. CASE Deliver
  <2>1. PICK e \in worker.batch, B \in SUBSET worker.batch :
          /\ e \notin B \/ rows' = rows
          /\ worker' = Leave(B)
          /\ \/ rows' = rows
             \/ \E s \in {"waiting", "delivered", "abandoned"} : rows' = [rows EXCEPT ![e].state = s]
    <3>1. PICK e \in worker.batch :
       \/ /\ rows' = [rows EXCEPT ![e].state = "delivered"]
          /\ worker' = Leave(worker.batch \ {e})
       \/ /\ rows' = [rows EXCEPT ![e].state =
                        IF rows[e].tries >= MaxAttempts THEN "abandoned" ELSE @]
          /\ worker' = Leave(worker.batch \ {e})
       \/ UNCHANGED rows /\ worker' = Leave({})
      BY <1>3 DEF Deliver
    <3>2. rows[e].state = "waiting"
      BY DEF OutboxInv
    <3>3. QED
      BY <3>1, <3>2
  <2>2. worker \in WorkerRow /\ worker.timer /\ worker.started /\ B \in SUBSET Events
        /\ e \in Events /\ rows[e].state = "waiting"
    BY <1>3 DEF Deliver, OutboxInv, WorkerRow
  <2>3. /\ worker' \in WorkerRow /\ worker'.timer /\ worker'.started /\ worker'.batch = B
        /\ worker'.at = IF B = {} THEN "ask" ELSE "deliver"
    BY <2>1, <2>2, LeaveKeeps
  <2>4. /\ rows' \in [Events -> OutboxRow]
        /\ \A x \in Events \ {e} : rows'[x] = rows[x]
    BY <2>1, <2>2 DEF OutboxInv, OutboxRow
  <2>5. \A x \in worker'.batch : rows'[x].state = "waiting"
    BY <2>1, <2>2, <2>3, <2>4 DEF OutboxInv
  <2>6. WillLook(worker') /\ signals' \subseteq Events
    BY <1>3, <2>3 DEF WillLook, Deliver, OutboxInv
  <2>7. QED
    BY <2>3, <2>4, <2>5, <2>6 DEF OutboxInv, Watched
<1>4. QED
  BY <1>1, <1>2, <1>3

(* The rest of the worker's life. *)
LEMMA WorkerKeeps ==
  ASSUME OutboxInv, TimerFires \/ Ask \/ AskFails \/ Settle \/ Crash \/ Start
  PROVE  OutboxInv'
<1>1. rows' = rows /\ Due' = Due
  BY DEF TimerFires, Ask, AskFails, Settle, Crash, Start, Due
<1>2. CASE TimerFires
  <2>1. /\ worker' \in WorkerRow /\ worker'.started = worker.started /\ worker'.timer
        /\ worker'.batch = worker.batch /\ worker'.at = "claim"
    BY <1>2 DEF TimerFires, OutboxInv, WorkerRow
  <2>2. worker.started
    BY <1>2 DEF TimerFires, OutboxInv
  <2>3. QED
    BY <1>1, <1>2, <2>1, <2>2 DEF TimerFires, OutboxInv, Watched, WillLook
<1>3. CASE Ask
  <2>1. /\ worker' \in WorkerRow /\ worker'.started = worker.started
        /\ worker'.timer = worker.timer /\ worker'.batch = worker.batch
        /\ worker'.at = "settle" /\ worker'.more = (Due # {})
    BY <1>3 DEF Ask, OutboxInv, WorkerRow
  <2>2. QED
    BY <1>1, <1>3, <2>1 DEF Ask, OutboxInv, Watched, WillLook
<1>4. CASE AskFails
  <2>1. /\ worker' \in WorkerRow /\ worker'.started = worker.started /\ worker'.timer
        /\ worker'.batch = worker.batch /\ worker'.at = "idle"
    BY <1>4 DEF AskFails, OutboxInv, WorkerRow
  <2>2. QED
    BY <1>1, <1>4, <2>1 DEF AskFails, OutboxInv, Watched, WillLook
<1>5. CASE Settle
  <2>1. worker.at = "settle" /\ worker.timer /\ worker' = Settled(worker) /\ signals' = signals
    BY <1>5 DEF Settle, OutboxInv
  <2>2. /\ worker' \in WorkerRow /\ worker'.started = worker.started
        /\ worker'.at = "idle" /\ worker'.batch = worker.batch
        /\ WillLook(worker) => WillLook(worker')
    BY <2>1, SettledKeeps DEF OutboxInv
  <2>3. QED
    BY <1>1, <2>1, <2>2 DEF OutboxInv, Watched
<1>6. CASE Crash
  <2>1. worker' \in WorkerRow /\ ~worker'.started /\ ~worker'.timer /\ worker'.at = "idle" /\ worker'.batch = {}
    BY <1>6 DEF Crash, Asleep, WorkerRow
  <2>2. QED
    BY <1>1, <1>6, <2>1 DEF Crash, OutboxInv, Watched
<1>7. CASE Start
  <2> DEFINE w == [worker EXCEPT !.started = TRUE]
  <2>1. w \in WorkerRow /\ w.started /\ w.at = "idle" /\ w.batch = {}
    BY <1>7 DEF Start, OutboxInv, WorkerRow
  <2>2. worker' = Woken(w) /\ signals' = signals
    BY <1>7 DEF Start
  <2> HIDE DEF w
  <2>3. /\ worker' \in WorkerRow /\ worker'.started /\ worker'.batch = {}
        /\ WillLook(worker')
    BY <2>1, <2>2, WokenLooks
  <2>4. QED
    BY <1>1, <2>2, <2>3 DEF OutboxInv, Watched, WillLook
<1>8. QED
  BY <1>2, <1>3, <1>4, <1>5, <1>6, <1>7

(* Every commit, signal, pass, failure and crash keeps what the worker owes. *)
THEOREM OutboxInvariant == OutboxSpec => []OutboxInv
<1>1. OutboxInv /\ [OutboxNext]_outboxVars => OutboxInv'
  <2> SUFFICES ASSUME OutboxInv, [OutboxNext]_outboxVars PROVE OutboxInv'
    OBVIOUS
  <2>1. CASE \E e \in Events : Commit(e) \/ CommitReturns(e) \/ LeaseEnds(e)
    BY <2>1, CommitKeeps
  <2>2. CASE Claim \/ ClaimFails \/ Deliver
    BY <2>2, PassKeeps
  <2>3. CASE TimerFires \/ Ask \/ AskFails \/ Settle \/ Crash \/ Start
    BY <2>3, WorkerKeeps
  <2>4. CASE UNCHANGED outboxVars
    BY <2>4 DEF outboxVars, OutboxInv, Due
  <2>5. QED
    BY <2>1, <2>2, <2>3, <2>4 DEF OutboxNext, Pass
<1>2. QED
  BY <1>1, OutboxInvInit, PTL DEF OutboxSpec

(* Rows, signals and worker keep their types; no event is tried more often than
   configured (claim, discord-relay.worker.ts). *)
THEOREM OutboxTypes == OutboxSpec => []OutboxTypeOK
<1>1. OutboxInv => OutboxTypeOK
  BY DEF OutboxInv, OutboxTypeOK, OutboxRow, WorkerRow
<1>2. QED
  BY <1>1, OutboxInvariant, PTL

(* The worker never falls asleep over a row that nobody will signal. *)
THEOREM OutboxForgetsNothing == OutboxSpec => []NothingForgotten
<1>1. OutboxInv => NothingForgotten
  BY DEF OutboxInv, NothingForgotten
<1>2. QED
  BY <1>1, OutboxInvariant, PTL

\* What is delivered or given up stays so and is not tried again, and an event
\* is given up only with all its attempts used (claim, deliver).
EventsEndOnce ==
  [][\A e \in Events :
       /\ rows[e].state \in {"delivered", "abandoned"} =>
            rows'[e].state = rows[e].state /\ rows'[e].tries = rows[e].tries
       /\ rows[e].state # "abandoned" /\ rows'[e].state = "abandoned" =>
            rows[e].tries = MaxAttempts]_outboxVars

(* Delivered or given up is for good. *)
THEOREM OutboxEventsEndOnce == OutboxSpec => EventsEndOnce
<1> DEFINE Final(e) ==
      /\ rows[e].state \in {"delivered", "abandoned"} =>
           rows'[e].state = rows[e].state /\ rows'[e].tries = rows[e].tries
      /\ rows[e].state # "abandoned" /\ rows'[e].state = "abandoned" =>
           rows[e].tries = MaxAttempts
<1>1. OutboxInv /\ [OutboxNext]_outboxVars => \A e \in Events : Final(e)
  <2> SUFFICES ASSUME OutboxInv, [OutboxNext]_outboxVars, NEW e \in Events PROVE Final(e)
    OBVIOUS
  <2>1. rows \in [Events -> OutboxRow] /\ MaxAttempts \in Nat
    BY OutboxBounds DEF OutboxInv
  <2>2. CASE rows' = rows
    BY <2>2
  <2>3. CASE \E x \in Events : Commit(x) \/ CommitReturns(x) \/ LeaseEnds(x)
    <3>1. PICK x \in Events : Commit(x) \/ CommitReturns(x) \/ LeaseEnds(x)
      BY <2>3
    <3>2. CASE Commit(x)
      BY <2>1, <3>2 DEF Commit, OutboxRow
    <3>3. CASE CommitReturns(x)
      BY <2>2, <3>3 DEF CommitReturns
    <3>4. CASE LeaseEnds(x)
      BY <2>1, <3>4 DEF LeaseEnds, OutboxRow
    <3>5. QED
      BY <3>1, <3>2, <3>3, <3>4
  <2>4. CASE Claim
    <3>1. PICK B \in SUBSET Due :
            rows' = [x \in Events |-> IF x \in B
                       THEN [rows[x] EXCEPT !.tries = @ + 1, !.leased = TRUE] ELSE rows[x]]
      BY <2>4 DEF Claim
    <3>2. CASE e \in B
      <4>1. rows'[e] = [rows[e] EXCEPT !.tries = @ + 1, !.leased = TRUE]
        BY <3>1, <3>2
      <4>2. rows[e].state = "waiting"
        BY <3>2 DEF Due
      <4>3. rows'[e].state = "waiting"
        BY <2>1, <4>1, <4>2 DEF OutboxRow
      <4>4. QED
        BY <4>2, <4>3
    <3>3. CASE e \notin B
      BY <3>1, <3>3
    <3>4. QED
      BY <3>2, <3>3
  <2>5. CASE Deliver
    <3>1. PICK x \in worker.batch :
            \/ rows' = [rows EXCEPT ![x].state = "delivered"]
            \/ rows' = [rows EXCEPT ![x].state =
                          IF rows[x].tries >= MaxAttempts THEN "abandoned" ELSE @]
            \/ UNCHANGED rows
      BY <2>5 DEF Deliver
    <3>2. rows[x].state = "waiting"
      BY DEF OutboxInv
    <3>3. rows[x].tries >= MaxAttempts => rows[x].tries = MaxAttempts
      BY <2>1 DEF OutboxInv, WorkerRow, OutboxRow
    <3>4. CASE x = e
      BY <2>1, <3>1, <3>2, <3>3, <3>4 DEF OutboxRow
    <3>5. CASE x # e
      <4>1. rows'[e] = rows[e]
        BY <2>1, <3>1, <3>5
      <4>2. QED
        BY <4>1
    <3>6. QED
      BY <3>4, <3>5
  <2>6. QED
    BY <2>2, <2>3, <2>4, <2>5
    DEF OutboxNext, Pass, outboxVars, ClaimFails, Ask, AskFails, Settle, TimerFires, Crash, Start
<1>2. QED
  BY <1>1, OutboxInvariant, PTL DEF OutboxSpec, EventsEndOnce

-----------------------------------------------------------------------------
(* The live picture *)

Pose == [of : Nat, k : Nat]
Packet == [seq : Nat, pose : Pose, end : BOOLEAN]

(* Where a generation of the stream began: the attempt, and how far its
   pictures are numbered ahead of its packets.  The proof chooses an origin for
   every generation, once, when the publisher begins it. *)
Origins == [Nat -> [of : Nat, shift : Int]]
Fits(o, g, n, pose) == pose.of = o[g].of /\ pose.k = n + o[g].shift
Follows(o, g, S) == \A i \in 1..Len(S) : S[i].end \/ Fits(o, g, S[i].seq, S[i].pose)
SameUpTo(o, p, top) == \A g \in 0..top : p[g] = o[g]

PostRow == [phase : {"none", "sent", "ok", "conflict", "error"}, attempt : Nat, gen : Nat,
            packets : Seq(Packet), batched : BOOLEAN]
TerminalRow == [state : {"none", "deferred", "pending"}, pose : Pose, attempt : Nat,
                gen : Nat, seq : Nat]
PublisherRow ==
  [attempt : Nat, gen : Nat, seq : Nat, queue : Seq(Packet), batch : Seq(Packet),
   post : PostRow, terminal : TerminalRow, sending : PostRow, done : Nat,
   loose : SUBSET PostRow]
RelayRow == [attempt : 0..MaxPlays, gen : Nat, packets : Seq(Packet)]
StreamRow ==
  [kind : {"stream"}, attempt : 0..MaxPlays, gen : Nat, reset : BOOLEAN,
   interrupted : BOOLEAN, available : BOOLEAN, head : Int, packets : Seq(Packet),
   caughtUp : BOOLEAN]
ViewRow ==
  [attempt : 0..MaxPlays, gen : Nat, last : Nat \cup {-1}, shown : Seq(Pose),
   over : BOOLEAN, force : BOOLEAN, ended : Nat, restoring : BOOLEAN,
   fails : 0..FailureLimit, rejected : Nat \X Nat]

(* A request of a generation begun so far holds pictures of its origin. *)
OfStream(o, top, b) == b \in PostRow /\ b.gen <= top /\ Follows(o, b.gen, b.packets)

(* The publisher p, while the n-th attempt has k pictures: what it keeps and has
   under way is of its origins, and so is the next picture of that attempt. *)
Publishing(o, p, n, k) ==
  /\ p \in PublisherRow
  /\ Len(p.queue) <= QueueCap /\ Len(p.batch) <= BatchMax
  /\ Follows(o, p.gen, p.queue) /\ Follows(o, p.gen, p.batch)
  /\ OfStream(o, p.gen, p.post) /\ OfStream(o, p.gen, p.sending)
  /\ \A b \in p.loose : OfStream(o, p.gen, b)
  /\ p.terminal.gen <= p.gen
  /\ p.attempt <= n
  /\ p.attempt # 0 /\ p.attempt = n => o[p.gen] = [of |-> n, shift |-> k + 1 - p.seq]

Relayed(o, top, s) ==
  s \in RelayRow /\ s.gen <= top /\ Follows(o, s.gen, s.packets)

Streamed(o, top, r) ==
  /\ r \in StreamRow /\ r.gen <= top /\ Follows(o, r.gen, r.packets)
  /\ r.interrupted => r.packets # <<>>
Asking(o, top, q) ==
  \/ q.phase \in {"none", "sent"}
  \/ q.phase = "answered" /\ (q.r.kind \in {"fallback", "waiting"} \/ Streamed(o, top, q.r))

(* Two pictures that follow one another; the terminal one may follow any. *)
Sequel(v, i) ==
  \/ v.shown[i + 1].of = v.shown[i].of /\ v.shown[i + 1].k = v.shown[i].k + 1
  \/ v.over /\ i + 1 = Len(v.shown)

(* The viewer: what is shown is in order, and the picture shown last is the one
   that the origin of its stream has at the cursor. *)
Watching(o, top, v) ==
  /\ v \in ViewRow /\ v.gen <= top
  /\ v.last = -1 <=> v.shown = <<>>
  /\ v.shown # <<>> /\ ~v.over => Fits(o, v.gen, v.last, v.shown[Len(v.shown)])
  /\ \A i \in 1 .. Len(v.shown) - 1 : Sequel(v, i)

Turns ==
  /\ play \in [begun : 0..MaxPlays, alive : BOOLEAN, k : Nat, started : Nat, closed : Nat]
  /\ play.started <= play.begun
  /\ turn \in [now : 0..MaxPlays, ended : 0..MaxPlays]

Along(o) ==
  /\ o \in Origins /\ Turns
  /\ Publishing(o, pub, play.begun, play.k)
  /\ Relayed(o, pub.gen, relay) /\ Asking(o, pub.gen, ask) /\ Watching(o, pub.gen, view)

(* The inductive invariant. *)
LiveInv == \E o \in Origins : Along(o)

(* T holds packets of S only, and no more of them. *)
PartOf(T, S) ==
  /\ T \in Seq(Packet) /\ Len(T) <= Len(S)
  /\ \A i \in 1..Len(T) : \E j \in 1..Len(S) : T[i] = S[j]

-----------------------------------------------------------------------------
(* Sequences of packets *)

(* Every set of numbers that is not empty has a least one. *)
LEMMA LeastOf ==
  ASSUME NEW T \in SUBSET Nat, T # {}
  PROVE  \E n \in T : \A k \in T : n <= k
<1> DEFINE Less == {e \in Nat \X Nat : e[1] < e[2]}
<1>1. Less = OpToRel(<, Nat)
  BY Zenon DEF OpToRel
<1>2. IsWellFoundedOn(Less, Nat)
  <2> HIDE DEF Less
  <2>1. QED
    BY <1>1, NatLessThanWellFounded, Zenon
<1>3. \A k, n \in Nat : k < n => <<k, n>> \in Less
  OBVIOUS
<1>4. PICK n \in T : \A k \in T : ~(<<k, n>> \in Less)
  <2> HIDE DEF Less
  <2>1. QED
    BY <1>2, WFMin
<1>5. ASSUME NEW k \in T PROVE n <= k
  <2> HIDE DEF Less
  <2>1. ~(k < n)
    BY <1>3, <1>4
  <2>2. QED
    BY <2>1
<1>6. QED
  BY <1>5

(* The first pictures of a sequence, and the last ones. *)
LEMMA OldestIsPart ==
  ASSUME NEW S \in Seq(Packet), NEW n \in Nat
  PROVE  /\ PartOf(Oldest(S, n), S) /\ Len(Oldest(S, n)) <= n
         /\ S # <<>> /\ n # 0 => Oldest(S, n) # <<>>
<1> DEFINE m == IF n < Len(S) THEN n ELSE Len(S)
<1>1. m \in Nat /\ m <= Len(S) /\ m <= n
  OBVIOUS
<1>2. \A i \in 1..m : S[i] \in Packet
  BY <1>1
<1>3. Oldest(S, n) = SubSeq(S, 1, m)
  BY DEF Oldest
<1>4. S # <<>> /\ n # 0 => m # 0
  OBVIOUS
<1> HIDE DEF m
<1>5. /\ SubSeq(S, 1, m) \in Seq(Packet) /\ Len(SubSeq(S, 1, m)) = m
      /\ \A i \in 1..m : SubSeq(S, 1, m)[i] = S[i]
  <2>1. /\ SubSeq(S, 1, m) \in Seq(Packet)
        /\ Len(SubSeq(S, 1, m)) = IF 1 <= m THEN m - 1 + 1 ELSE 0
        /\ \A i \in 1 .. m - 1 + 1 : SubSeq(S, 1, m)[i] = S[1 + i - 1]
    BY <1>1, <1>2, SubSeqProperties
  <2>2. QED
    BY <1>1, <2>1
<1>6. QED
  BY <1>1, <1>3, <1>4, <1>5 DEF PartOf

LEMMA NewestIsPart ==
  ASSUME NEW S \in Seq(Packet), NEW n \in Nat
  PROVE  /\ PartOf(Newest(S, n), S)
         /\ S # <<>> /\ n # 0 => Newest(S, n) # <<>>
<1> DEFINE m == IF n < Len(S) THEN Len(S) - n + 1 ELSE 1
           T == SubSeq(S, m, Len(S))
<1>1. m \in Nat \ {0} /\ m <= Len(S) + 1 /\ Len(S) \in Nat
  OBVIOUS
<1>2. \A i \in m..Len(S) : S[i] \in Packet
  BY <1>1
<1>3. Newest(S, n) = T
  BY DEF Newest
<1>4. S # <<>> /\ n # 0 => m <= Len(S)
  OBVIOUS
<1> HIDE DEF m
<1>5. /\ T \in Seq(Packet)
      /\ Len(T) = IF m <= Len(S) THEN Len(S) - m + 1 ELSE 0
      /\ \A i \in 1 .. Len(S) - m + 1 : T[i] = S[m + i - 1]
  BY <1>1, <1>2, SubSeqProperties
<1> HIDE DEF T
<1>6. Len(T) <= Len(S) /\ (m <= Len(S) => T # <<>>)
  BY <1>1, <1>5
<1>7. ASSUME NEW i \in 1..Len(T) PROVE \E j \in 1..Len(S) : T[i] = S[j]
  <2>1. m <= Len(S) /\ i \in 1 .. Len(S) - m + 1
    BY <1>1, <1>5
  <2>2. m + i - 1 \in 1..Len(S) /\ T[i] = S[m + i - 1]
    BY <1>1, <1>5, <2>1
  <2>3. QED
    BY <2>2
<1>8. QED
  BY <1>3, <1>4, <1>5, <1>6, <1>7 DEF PartOf

(* newer is what After keeps of the first n packets of S, step by step. *)
Newer(newer, S, n, top) ==
  newer = [i \in 0..top |->
            IF i = 0 THEN <<>>
            ELSE IF S[i].seq > n THEN Append(newer[i - 1], S[i]) ELSE newer[i - 1]]

(* It exists: the least length without it would not be 0, and the steps up to
   the one before could be continued. *)
LEMMA NewerExists ==
  ASSUME NEW top \in Nat, NEW S, NEW n
  PROVE  \E newer : Newer(newer, S, n, top)
<1> DEFINE T == {k \in Nat : ~ \E f : Newer(f, S, n, k)}
<1>1. SUFFICES ASSUME T # {} PROVE FALSE
  OBVIOUS
<1>2. PICK k \in T : \A j \in T : k <= j
  <2>1. T \in SUBSET Nat
    OBVIOUS
  <2> HIDE DEF T
  <2>2. QED
    BY <1>1, <2>1, LeastOf
<1>3. k \in Nat /\ ~ \E f : Newer(f, S, n, k)
  OBVIOUS
<1>4. k # 0
  <2>1. SUFFICES ASSUME k = 0 PROVE FALSE
    OBVIOUS
  <2> DEFINE zero == [i \in 0..0 |-> <<>>]
  <2>2. zero = [i \in 0..0 |->
                 IF i = 0 THEN <<>>
                 ELSE IF S[i].seq > n THEN Append(zero[i - 1], S[i]) ELSE zero[i - 1]]
    OBVIOUS
  <2>3. Newer(zero, S, n, k)
    BY <2>1, <2>2 DEF Newer
  <2>4. QED
    BY <1>3, <2>3
<1>5. k - 1 \in Nat /\ k - 1 \notin T
  <2>1. k - 1 \in Nat /\ ~(k <= k - 1)
    BY <1>3, <1>4
  <2> HIDE DEF T
  <2>2. QED
    BY <1>2, <2>1
<1>6. PICK f : Newer(f, S, n, k - 1)
  BY <1>5
<1> DEFINE Step(h, i) == IF i = 0 THEN <<>>
                         ELSE IF S[i].seq > n THEN Append(h[i - 1], S[i]) ELSE h[i - 1]
           g == [i \in 0..k |-> IF i = k THEN Step(f, k) ELSE f[i]]
<1>7. ASSUME NEW i \in 0..k PROVE g[i] = Step(g, i)
  <2>1. \A j \in 0..(k - 1) : g[j] = f[j]
    BY <1>3
  <2>2. g[k] = Step(f, k)
    BY <1>3
  <2>3. i # 0 => i - 1 \in 0..(k - 1)
    BY <1>3
  <2>4. \A j \in 0..(k - 1) : f[j] = Step(f, j)
    BY <1>6, Zenon DEF Newer
  <2>5. g[i] = Step(f, i)
    <3>1. CASE i = k
      BY <2>2, <3>1
    <3>2. CASE i # k
      <4>1. i \in 0..(k - 1)
        BY <1>3, <3>2
      <4> HIDE DEF g, Step
      <4>2. QED
        BY <2>1, <2>4, <4>1
    <3>3. QED
      BY <3>1, <3>2
  <2>6. Step(g, i) = Step(f, i)
    <3> HIDE DEF g
    <3>1. QED
      BY <2>1, <2>3
  <2>7. QED
    BY <2>5, <2>6
<1>8. g = [i \in 0..k |-> g[i]]
  OBVIOUS
<1>9. Newer(g, S, n, k)
  <2> HIDE DEF g
  <2>1. g = [i \in 0..k |-> Step(g, i)]
    <3> HIDE DEF Step
    <3>1. QED
      BY <1>7, <1>8
  <2>2. QED
    BY <2>1 DEF Newer
<1>10. QED
  BY <1>3, <1>9

(* What is newer than the n-th picture is part of the sequence, and there is
   something when there is a picture with a higher number. *)
LEMMA AfterIsPart ==
  ASSUME NEW S \in Seq(Packet), NEW n
  PROVE  /\ PartOf(After(S, n), S)
         /\ (\E j \in 1..Len(S) : S[j].seq > n) => After(S, n) # <<>>
<1> DEFINE top == Len(S)
           f == CHOOSE newer :
                  newer = [i \in 0..Len(S) |->
                            IF i = 0 THEN <<>>
                            ELSE IF S[i].seq > n THEN Append(newer[i - 1], S[i])
                                 ELSE newer[i - 1]]
<1>1. Len(S) \in Nat /\ \A i \in 1..Len(S) : S[i] \in Packet
  OBVIOUS
<1>2. \E newer : newer = [i \in 0..Len(S) |->
                            IF i = 0 THEN <<>>
                            ELSE IF S[i].seq > n THEN Append(newer[i - 1], S[i])
                                 ELSE newer[i - 1]]
  BY <1>1, NewerExists DEF Newer
<1>3. f = [i \in 0..Len(S) |->
            IF i = 0 THEN <<>>
            ELSE IF S[i].seq > n THEN Append(f[i - 1], S[i]) ELSE f[i - 1]]
  BY <1>2, Zenon
<1>4. After(S, n) = f[Len(S)]
  BY DEF After
<1> HIDE DEF f
<1> DEFINE Upto(k) == /\ f[k] \in Seq(Packet) /\ Len(f[k]) <= k
                      /\ \A i \in 1..Len(f[k]) : \E j \in 1..k : f[k][i] = S[j]
                      /\ (\E j \in 1..k : S[j].seq > n) => f[k] # <<>>
           T == {k \in 0..Len(S) : ~Upto(k)}
<1>5. SUFFICES ASSUME T # {} PROVE FALSE
  <2>1. Len(S) \notin T => Upto(Len(S))
    <3> HIDE DEF Upto
    <3>1. QED
      BY <1>1
  <2>2. QED
    BY <1>4, <2>1 DEF PartOf
<1>6. PICK k \in T : \A j \in T : k <= j
  <2>1. T \in SUBSET Nat
    OBVIOUS
  <2> HIDE DEF T
  <2>2. QED
    BY <1>5, <2>1, LeastOf
<1>7. k \in 0..Len(S) /\ ~Upto(k)
  OBVIOUS
<1>8. f[0] = <<>>
  BY <1>1, <1>3
<1>9. k \in 1..Len(S)
  <2>1. Upto(0)
    BY <1>8
  <2> HIDE DEF Upto
  <2>2. QED
    BY <1>1, <1>7, <2>1
<1>10. Upto(k - 1)
  <2>1. k - 1 \in 0..Len(S) /\ ~(k <= k - 1)
    BY <1>1, <1>9
  <2>2. k - 1 \notin T
    <3> HIDE DEF T
    <3>1. QED
      BY <1>6, <2>1
  <2> HIDE DEF Upto
  <2>3. QED
    BY <2>1, <2>2
<1>11. f[k] = IF S[k].seq > n THEN Append(f[k - 1], S[k]) ELSE f[k - 1]
  <2>1. k \in 0..Len(S) /\ k # 0
    BY <1>1, <1>9
  <2>2. f[k] = IF k = 0 THEN <<>>
               ELSE IF S[k].seq > n THEN Append(f[k - 1], S[k]) ELSE f[k - 1]
    BY <1>3, <2>1, Zenon
  <2>3. QED
    BY <2>1, <2>2
<1>12. S[k] \in Packet
  BY <1>1, <1>9
<1>13. Upto(k)
  <2>1. PICK before : before = f[k - 1]
    OBVIOUS
  <2>2. /\ before \in Seq(Packet) /\ Len(before) \in Nat /\ Len(before) <= k - 1
        /\ \A i \in 1..Len(before) : \E j \in 1..(k - 1) : before[i] = S[j]
        /\ (\E j \in 1..(k - 1) : S[j].seq > n) => before # <<>>
    BY <1>10, <2>1
  <2>3. CASE S[k].seq > n
    <3>1. f[k] = Append(before, S[k])
      BY <1>11, <2>1, <2>3
    <3>2. /\ f[k] \in Seq(Packet) /\ f[k] # <<>> /\ Len(f[k]) = Len(before) + 1
          /\ \A i \in 1..Len(before) : f[k][i] = before[i]
          /\ f[k][Len(before) + 1] = S[k]
      BY <1>12, <2>2, <3>1, AppendProperties
    <3>3. ASSUME NEW i \in 1..Len(f[k]) PROVE \E j \in 1..k : f[k][i] = S[j]
      <4>1. CASE i = Len(before) + 1
        BY <1>9, <3>2, <4>1
      <4>2. CASE i # Len(before) + 1
        <5>1. i \in 1..Len(before)
          BY <2>2, <3>2, <4>2
        <5>2. PICK j \in 1..(k - 1) : before[i] = S[j]
          BY <2>2, <5>1
        <5>3. j \in 1..k /\ f[k][i] = S[j]
          BY <1>9, <3>2, <5>1, <5>2
        <5>4. QED
          BY <5>3
      <4>3. QED
        BY <4>1, <4>2
    <3>4. QED
      BY <1>9, <2>2, <3>2, <3>3
  <2>4. CASE ~(S[k].seq > n)
    <3>1. f[k] = before
      BY <1>11, <2>1, <2>4
    <3>2. \A j \in 1..k : S[j].seq > n => j \in 1..(k - 1)
      BY <1>9, <2>4
    <3>3. \A i \in 1..Len(before) : \E j \in 1..k : before[i] = S[j]
      BY <1>9, <2>2
    <3>4. QED
      BY <1>9, <2>2, <3>1, <3>2, <3>3
  <2>5. QED
    BY <2>3, <2>4
<1>14. QED
  BY <1>7, <1>13

-----------------------------------------------------------------------------
(* The viewer *)

LEMMA PartFollows ==
  ASSUME NEW o, NEW g, NEW S, NEW T, PartOf(T, S), Follows(o, g, S)
  PROVE  Follows(o, g, T)
  BY DEF PartOf, Follows

(* Giving an answer up leaves what is shown. *)
LEMMA FailedWatches ==
  ASSUME NEW o, NEW top, NEW v, Watching(o, top, v)
  PROVE  Watching(o, top, Failed(v)) /\ Failed(v).gen = v.gen
<1>1. v \in ViewRow /\ FailureLimit \in Nat
  BY LiveBounds DEF Watching
<1>2. v.fails \in 0..FailureLimit /\ <<v.attempt, v.gen>> \in Nat \X Nat
  BY <1>1, LiveBounds DEF ViewRow
<1>3. /\ Failed(v) \in ViewRow /\ Failed(v).gen = v.gen /\ Failed(v).last = v.last
      /\ Failed(v).shown = v.shown /\ Failed(v).over = v.over
  <2>1. PICK stream : stream = <<v.attempt, v.gen>>
    OBVIOUS
  <2>2. CASE v.fails + 1 >= FailureLimit
    <3>1. Failed(v) = [v EXCEPT !.fails = FailureLimit, !.rejected = stream, !.force = FALSE,
                                !.restoring = FALSE]
      BY <2>1, <2>2 DEF Failed
    <3>2. FailureLimit \in 0..FailureLimit /\ stream \in Nat \X Nat
      BY <1>1, <1>2, <2>1
    <3>3. QED
      BY <1>1, <3>1, <3>2 DEF ViewRow
  <2>3. CASE ~(v.fails + 1 >= FailureLimit)
    <3>1. Failed(v) = [v EXCEPT !.fails = v.fails + 1, !.force = TRUE]
      BY <2>3 DEF Failed
    <3>2. v.fails + 1 \in 0..FailureLimit
      BY <1>1, <1>2, <2>3
    <3>3. QED
      BY <1>1, <3>1, <3>2 DEF ViewRow
  <2>4. QED
    BY <2>2, <2>3
<1>4. QED
  BY <1>3 DEF Watching, Sequel

(* One packet of the stream that is watched. *)
LEMMA TakeWatches ==
  ASSUME NEW o \in Origins, NEW top, NEW w \in [v : ViewRow, stop : BOOLEAN],
         Watching(o, top, w.v), NEW f \in Packet,
         f.end \/ Fits(o, w.v.gen, f.seq, f.pose)
  PROVE  /\ Take(w, f) \in [v : ViewRow, stop : BOOLEAN]
         /\ Watching(o, top, Take(w, f).v) /\ Take(w, f).v.gen = w.v.gen
<1> DEFINE v == w.v
<1>1. v \in ViewRow /\ v.shown \in Seq(Pose) /\ v.last \in Nat \cup {-1}
  BY DEF ViewRow
<1>2. f.seq \in Nat /\ f.pose \in Pose /\ f.end \in BOOLEAN
  BY DEF Packet
<1>3. CASE w.stop \/ f.seq <= w.v.last
  BY <1>3 DEF Take
<1>4. CASE ~(w.stop \/ f.seq <= w.v.last) /\ w.v.ended = w.v.attempt
  <2>1. Take(w, f) = [w EXCEPT !.stop = TRUE]
    BY <1>4 DEF Take
  <2>2. Take(w, f).v = w.v /\ Take(w, f) \in [v : ViewRow, stop : BOOLEAN]
    BY <2>1
  <2>3. QED
    BY <2>2
<1>5. CASE /\ ~(w.stop \/ f.seq <= w.v.last) /\ w.v.ended # w.v.attempt
           /\ ~InOrder(w.v, f) \/ w.v.over
  <2>1. Take(w, f) = [v |-> Failed(w.v), stop |-> TRUE]
    BY <1>5 DEF Take
  <2>2. Watching(o, top, Failed(w.v)) /\ Failed(w.v).gen = w.v.gen /\ Failed(w.v) \in ViewRow
    BY FailedWatches DEF Watching
  <2>3. QED
    BY <2>1, <2>2
<1>6. CASE /\ ~(w.stop \/ f.seq <= w.v.last) /\ w.v.ended # w.v.attempt
           /\ InOrder(w.v, f) /\ ~w.v.over
  <2> DEFINE x == Take(w, f).v
             n == Len(v.shown)
  <2>1. Take(w, f) = [w EXCEPT !.v.last = f.seq, !.v.shown = Append(@, f.pose),
                               !.v.over = f.end, !.v.fails = 0,
                               !.v.ended = IF f.end THEN w.v.attempt ELSE @]
    BY <1>6 DEF Take
  <2>2. Append(v.shown, f.pose) \in Seq(Pose)
    BY <1>1, <1>2, AppendProperties
  <2>3. x = [v EXCEPT !.last = f.seq, !.shown = Append(v.shown, f.pose),
                      !.over = f.end, !.fails = 0,
                      !.ended = IF f.end THEN v.attempt ELSE v.ended]
    BY <2>1 DEF ViewRow
  <2>4. /\ x \in ViewRow /\ x.gen = v.gen /\ x.last = f.seq /\ x.over = f.end
        /\ x.shown = Append(v.shown, f.pose)
    <3> HIDE DEF x, v
    <3>1. PICK longer : longer = Append(v.shown, f.pose)
      OBVIOUS
    <3>2. PICK ended : ended = IF f.end THEN v.attempt ELSE v.ended
      OBVIOUS
    <3>3. longer \in Seq(Pose) /\ 0 \in 0..FailureLimit /\ f.seq \in Nat \cup {-1}
      BY <1>2, <2>2, <3>1, LiveBounds
    <3>4. ended \in Nat
      BY <1>1, <3>2, LiveBounds DEF ViewRow
    <3>5. x = [v EXCEPT !.last = f.seq, !.shown = longer, !.over = f.end, !.fails = 0,
                        !.ended = ended]
      BY <2>3, <3>1, <3>2
    <3>6. QED
      BY <1>1, <1>2, <3>1, <3>3, <3>4, <3>5 DEF ViewRow
  <2>5. Take(w, f) \in [v : ViewRow, stop : BOOLEAN]
    <3>1. Take(w, f) = [v |-> x, stop |-> w.stop]
      BY <2>1
    <3> HIDE DEF x
    <3>2. QED
      BY <2>4, <3>1
  <2>6. /\ n \in Nat /\ Len(x.shown) = n + 1 /\ x.shown # <<>>
        /\ \A i \in 1..n : x.shown[i] = v.shown[i]
        /\ x.shown[n + 1] = f.pose
    <3> HIDE DEF x, v
    <3>1. QED
      BY <1>1, <1>2, <2>4, AppendProperties
  <2>7. n # 0 => /\ v.last \in Nat /\ f.seq = v.last + 1
                 /\ Fits(o, v.gen, v.last, v.shown[n])
    <3>1. n # 0 => v.shown # <<>>
      BY <1>1
    <3>2. v.shown # <<>> => v.last # -1 /\ Fits(o, v.gen, v.last, v.shown[n])
      BY <1>6 DEF Watching
    <3>3. v.last # -1 => v.last >= 0
      BY <1>1
    <3>4. QED
      BY <1>1, <1>6, <3>1, <3>2, <3>3 DEF InOrder
  <2>8. ASSUME NEW i \in 1 .. Len(x.shown) - 1 PROVE Sequel(x, i)
    <3>1. i \in 1..n /\ n # 0
      BY <2>6
    <3>2. CASE i = n
      <4>1. CASE f.end
        BY <2>4, <2>6, <3>2, <4>1 DEF Sequel
      <4>2. CASE ~f.end
        <5>1. Fits(o, v.gen, f.seq, f.pose) /\ Fits(o, v.gen, v.last, v.shown[n])
          BY <2>7, <3>1, <4>2
        <5>2. o[v.gen].shift \in Int
          BY <1>1 DEF Origins, ViewRow
        <5>3. f.pose.of = v.shown[n].of /\ f.pose.k = v.shown[n].k + 1
          <6> HIDE DEF x, v, n
          <6>1. QED
            BY <2>7, <3>1, <5>1, <5>2 DEF Fits
        <5>4. x.shown[i] = v.shown[n] /\ x.shown[i + 1] = f.pose
          BY <2>6, <3>1, <3>2
        <5> HIDE DEF x, v
        <5>5. QED
          BY <5>3, <5>4 DEF Sequel
      <4>3. QED
        BY <4>1, <4>2
    <3>3. CASE i # n
      <4>1. i \in 1 .. Len(v.shown) - 1 /\ i + 1 \in 1..n
        BY <2>6, <3>1, <3>3
      <4>2. Sequel(v, i) /\ ~v.over
        BY <1>6, <4>1 DEF Watching
      <4>3. x.shown[i] = v.shown[i] /\ x.shown[i + 1] = v.shown[i + 1]
        BY <2>6, <3>1, <4>1
      <4> HIDE DEF x, v
      <4>4. QED
        BY <4>2, <4>3 DEF Sequel
    <3>4. QED
      BY <3>2, <3>3
  <2>9. x.shown # <<>> /\ ~x.over => Fits(o, x.gen, x.last, x.shown[Len(x.shown)])
    <3> HIDE DEF x
    <3>1. QED
      BY <2>4, <2>6
  <2>10. v.gen <= top
    BY DEF Watching
  <2> HIDE DEF x, v
  <2>11. x.last # -1
    BY <1>2, <2>4
  <2>12. Watching(o, top, x)
    BY <2>4, <2>6, <2>8, <2>9, <2>10, <2>11 DEF Watching
  <2>13. QED
    BY <2>4, <2>5, <2>12 DEF x, v
<1>7. QED
  BY <1>3, <1>4, <1>5, <1>6

(* w is the viewer's loop over the packets of S, step by step. *)
Loop(w, start, S, n) ==
  w = [i \in 0..n |-> IF i = 0 THEN start ELSE Take(w[i - 1], S[i])]

LEMMA LoopExists ==
  ASSUME NEW n \in Nat, NEW S, NEW start
  PROVE  \E w : Loop(w, start, S, n)
<1> DEFINE T == {k \in Nat : ~ \E f : Loop(f, start, S, k)}
<1>1. SUFFICES ASSUME T # {} PROVE FALSE
  OBVIOUS
<1>2. PICK k \in T : \A j \in T : k <= j
  <2>1. T \in SUBSET Nat
    OBVIOUS
  <2> HIDE DEF T
  <2>2. QED
    BY <1>1, <2>1, LeastOf
<1>3. k \in Nat /\ ~ \E f : Loop(f, start, S, k)
  OBVIOUS
<1>4. k # 0
  <2>1. SUFFICES ASSUME k = 0 PROVE FALSE
    OBVIOUS
  <2> DEFINE zero == [i \in 0..0 |-> start]
  <2>2. zero = [i \in 0..0 |-> IF i = 0 THEN start ELSE Take(zero[i - 1], S[i])]
    OBVIOUS
  <2>3. Loop(zero, start, S, k)
    BY <2>1, <2>2 DEF Loop
  <2>4. QED
    BY <1>3, <2>3
<1>5. k - 1 \in Nat /\ k - 1 \notin T
  <2>1. k - 1 \in Nat /\ ~(k <= k - 1)
    BY <1>3, <1>4
  <2> HIDE DEF T
  <2>2. QED
    BY <1>2, <2>1
<1>6. PICK f : Loop(f, start, S, k - 1)
  BY <1>5
<1> DEFINE Step(h, i) == IF i = 0 THEN start ELSE Take(h[i - 1], S[i])
           g == [i \in 0..k |-> IF i = k THEN Step(f, k) ELSE f[i]]
<1>7. ASSUME NEW i \in 0..k PROVE g[i] = Step(g, i)
  <2>1. \A j \in 0..(k - 1) : g[j] = f[j]
    BY <1>3
  <2>2. g[k] = Step(f, k)
    BY <1>3
  <2>3. i # 0 => i - 1 \in 0..(k - 1)
    BY <1>3
  <2>4. \A j \in 0..(k - 1) : f[j] = Step(f, j)
    BY <1>6, Zenon DEF Loop
  <2>5. g[i] = Step(f, i)
    <3>1. CASE i = k
      BY <2>2, <3>1
    <3>2. CASE i # k
      <4>1. i \in 0..(k - 1)
        BY <1>3, <3>2
      <4> HIDE DEF g, Step
      <4>2. QED
        BY <2>1, <2>4, <4>1
    <3>3. QED
      BY <3>1, <3>2
  <2>6. Step(g, i) = Step(f, i)
    <3> HIDE DEF g
    <3>1. QED
      BY <2>1, <2>3
  <2>7. QED
    BY <2>5, <2>6
<1>8. g = [i \in 0..k |-> g[i]]
  OBVIOUS
<1>9. Loop(g, start, S, k)
  <2> HIDE DEF g
  <2>1. g = [i \in 0..k |-> Step(g, i)]
    <3> HIDE DEF Step
    <3>1. QED
      BY <1>7, <1>8
  <2>2. QED
    BY <2>1 DEF Loop
<1>10. QED
  BY <1>3, <1>9

(* All packets of an answer about the stream that is watched. *)
LEMMA TakenWatches ==
  ASSUME NEW o \in Origins, NEW top, NEW start \in [v : ViewRow, stop : BOOLEAN],
         Watching(o, top, start.v), NEW S \in Seq(Packet), Follows(o, start.v.gen, S)
  PROVE  Watching(o, top, Taken(start, S).v) /\ Taken(start, S).v.gen = start.v.gen
<1> DEFINE f == CHOOSE w : w = [i \in 0..Len(S) |->
                                 IF i = 0 THEN start ELSE Take(w[i - 1], S[i])]
<1>1. Len(S) \in Nat /\ \A i \in 1..Len(S) : S[i] \in Packet
  OBVIOUS
<1>2. \E w : w = [i \in 0..Len(S) |-> IF i = 0 THEN start ELSE Take(w[i - 1], S[i])]
  <2> HIDE DEF f
  <2>1. PICK w : Loop(w, start, S, Len(S))
    BY <1>1, LoopExists
  <2>2. QED
    BY <2>1, Zenon DEF Loop
<1>3. f = [i \in 0..Len(S) |-> IF i = 0 THEN start ELSE Take(f[i - 1], S[i])]
  BY <1>2, Zenon
<1>4. Taken(start, S) = f[Len(S)]
  BY DEF Taken
<1> HIDE DEF f
<1> DEFINE Ok(k) == /\ f[k] \in [v : ViewRow, stop : BOOLEAN]
                    /\ Watching(o, top, f[k].v) /\ f[k].v.gen = start.v.gen
           T == {k \in 0..Len(S) : ~Ok(k)}
<1>5. SUFFICES ASSUME T # {} PROVE FALSE
  <2>1. Len(S) \notin T => Ok(Len(S))
    <3> HIDE DEF Ok
    <3>1. QED
      BY <1>1
  <2>2. QED
    BY <1>4, <2>1
<1>6. PICK k \in T : \A j \in T : k <= j
  <2>1. T \in SUBSET Nat
    OBVIOUS
  <2> HIDE DEF T
  <2>2. QED
    BY <1>5, <2>1, LeastOf
<1>7. k \in 0..Len(S) /\ ~Ok(k)
  OBVIOUS
<1>8. Ok(0)
  <2>1. f[0] = start
    BY <1>1, <1>3
  <2>2. QED
    BY <2>1
<1>9. k \in 1..Len(S)
  <2> HIDE DEF Ok
  <2>1. QED
    BY <1>1, <1>7, <1>8
<1>10. Ok(k - 1)
  <2>1. k - 1 \in 0..Len(S) /\ ~(k <= k - 1)
    BY <1>1, <1>9
  <2>2. k - 1 \notin T
    <3> HIDE DEF T
    <3>1. QED
      BY <1>6, <2>1
  <2> HIDE DEF Ok
  <2>3. QED
    BY <2>1, <2>2
<1>11. f[k] = Take(f[k - 1], S[k])
  <2>1. k \in 0..Len(S) /\ k # 0
    BY <1>1, <1>9
  <2>2. f[k] = IF k = 0 THEN start ELSE Take(f[k - 1], S[k])
    BY <1>3, <2>1, Zenon
  <2>3. QED
    BY <2>1, <2>2
<1>12. S[k] \in Packet /\ (S[k].end \/ Fits(o, start.v.gen, S[k].seq, S[k].pose))
  BY <1>1, <1>9 DEF Follows
<1>13. Ok(k)
  <2>1. PICK b : b = f[k - 1]
    OBVIOUS
  <2>2. /\ b \in [v : ViewRow, stop : BOOLEAN] /\ Watching(o, top, b.v)
        /\ b.v.gen = start.v.gen
    BY <1>10, <2>1
  <2>3. /\ Take(b, S[k]) \in [v : ViewRow, stop : BOOLEAN]
        /\ Watching(o, top, Take(b, S[k]).v) /\ Take(b, S[k]).v.gen = b.v.gen
    <3>1. S[k] \in Packet /\ (S[k].end \/ Fits(o, b.v.gen, S[k].seq, S[k].pose))
      BY <1>12, <2>2
    <3> HIDE DEF Ok, T
    <3>2. QED
      BY <2>2, <3>1, TakeWatches
  <2>4. f[k] = Take(b, S[k])
    BY <1>11, <2>1
  <2>5. QED
    BY <2>2, <2>3, <2>4
<1>14. QED
  BY <1>7, <1>13

(* Whatever answer comes, what is shown stays in order. *)
LEMMA AppliedWatches ==
  ASSUME NEW o \in Origins, NEW top, NEW v, Watching(o, top, v), NEW r,
         r.kind \in {"fallback", "waiting"} \/ Streamed(o, top, r)
  PROVE  Watching(o, top, Applied(v, r))
<1>0. v \in ViewRow
  BY DEF Watching
<1>1. CASE r.kind = "fallback"
  <2>1. Applied(v, r) = Failed(v)
    BY <1>1 DEF Applied
  <2>2. QED
    BY <2>1, FailedWatches
<1>2. CASE r.kind = "waiting"
  <2>1. Applied(v, r) = IF v.restoring THEN [v EXCEPT !.restoring = FALSE, !.force = TRUE]
                        ELSE v
    BY <1>2 DEF Applied
  <2> DEFINE x == [v EXCEPT !.restoring = FALSE, !.force = TRUE]
  <2>2. /\ x \in ViewRow /\ x.gen = v.gen /\ x.last = v.last /\ x.shown = v.shown
        /\ x.over = v.over
    BY <1>0 DEF ViewRow
  <2> HIDE DEF x
  <2>3. Watching(o, top, x)
    BY <2>2 DEF Watching, Sequel
  <2>4. QED
    BY <2>1, <2>3 DEF x
<1>3. CASE Streamed(o, top, r)
  <2> DEFINE changed == r.attempt # v.attempt \/ r.gen # v.gen
             start == [(IF changed \/ r.reset THEN Renewed(v, r) ELSE v) EXCEPT !.force = FALSE]
             w == Taken([v |-> start, stop |-> FALSE], r.packets)
             f == r.packets[Len(r.packets)]
             cut == [v EXCEPT !.shown = <<f.pose>>, !.over = TRUE, !.ended = v.attempt,
                              !.last = f.seq, !.force = FALSE, !.restoring = FALSE]
  <2>1. r \in StreamRow /\ r.kind = "stream"
    BY <1>3 DEF Streamed, StreamRow
  <2>2. Applied(v, r) =
          IF v.rejected = <<r.attempt, r.gen>> THEN v
          ELSE IF ~changed /\ r.interrupted THEN cut
          ELSE IF r.attempt = v.attempt /\ r.gen < v.gen THEN Failed(v)
          ELSE IF w.stop THEN w.v
          ELSE IF w.v.last > r.head \/ r.caughtUp # (w.v.last >= r.head) THEN Failed(w.v)
          ELSE [w.v EXCEPT !.restoring = @ /\ ~r.caughtUp]
    <3>1. r.kind # "fallback" /\ r.kind # "waiting"
      BY <2>1
    <3> HIDE DEF w, changed
    <3>2. QED
      BY <2>1, <3>1 DEF Applied, w, changed
  <2>3. ASSUME ~changed, r.interrupted PROVE Watching(o, top, cut)
    <3>1. f \in Packet
      BY <1>3, <2>1, <2>3 DEF Streamed, StreamRow
    <3>2. f.seq \in Nat /\ f.pose \in Pose
      BY <3>1 DEF Packet
    <3> HIDE DEF f
    <3>3. <<f.pose>> \in Seq(Pose) /\ Len(<<f.pose>>) = 1 /\ <<f.pose>> # <<>>
      BY <3>2
    <3>4. PICK one : one = <<f.pose>>
      OBVIOUS
    <3>5. /\ cut \in ViewRow /\ cut.gen = v.gen /\ cut.last = f.seq /\ cut.over
          /\ cut.shown = one
      <4>1. cut = [v EXCEPT !.shown = one, !.over = TRUE, !.ended = v.attempt,
                            !.last = f.seq, !.force = FALSE, !.restoring = FALSE]
        BY <3>4
      <4>2. one \in Seq(Pose) /\ f.seq \in Nat \cup {-1} /\ v.attempt \in Nat
        BY <1>0, <3>2, <3>3, <3>4, LiveBounds DEF ViewRow
      <4> HIDE DEF cut
      <4>3. QED
        BY <1>0, <4>1, <4>2 DEF ViewRow
    <3>6. v.gen <= top
      BY DEF Watching
    <3> HIDE DEF cut
    <3>7. QED
      BY <3>2, <3>3, <3>4, <3>5, <3>6 DEF Watching
  <2>4. Watching(o, top, start)
    <3>1. CASE changed \/ r.reset
      <4>1. /\ r.attempt \in 0..MaxPlays /\ r.gen \in Nat /\ r.gen <= top /\ r.available \in BOOLEAN
            /\ <<0, 0>> \in Nat \X Nat /\ <<>> \in Seq(Pose)
        BY <1>3, <2>1 DEF Streamed, StreamRow
      <4>2. /\ start \in ViewRow /\ start.gen = r.gen /\ start.last = -1 /\ start.shown = <<>>
        BY <1>0, <3>1, <4>1 DEF Renewed, ViewRow
      <4> HIDE DEF start
      <4>3. QED
        BY <4>1, <4>2 DEF Watching
    <3>2. CASE ~(changed \/ r.reset)
      <4>1. /\ start \in ViewRow /\ start.gen = v.gen /\ start.last = v.last
            /\ start.shown = v.shown /\ start.over = v.over /\ v.gen = r.gen
        BY <1>0, <3>2 DEF ViewRow
      <4> HIDE DEF start
      <4>2. Watching(o, top, start)
        BY <4>1 DEF Watching, Sequel
      <4>3. QED
        BY <4>1, <4>2
    <3>3. QED
      BY <3>1, <3>2
  <2>5. start.gen = r.gen
    <3>1. CASE changed \/ r.reset
      BY <1>0, <3>1 DEF Renewed, ViewRow
    <3>2. CASE ~(changed \/ r.reset)
      BY <1>0, <3>2 DEF ViewRow
    <3>3. QED
      BY <3>1, <3>2
  <2> HIDE DEF start
  <2>6. Watching(o, top, w.v)
    <3>1. r.packets \in Seq(Packet) /\ Follows(o, start.gen, r.packets)
      BY <1>3, <2>1, <2>5 DEF Streamed, StreamRow
    <3>2. start \in ViewRow
      BY <2>4 DEF Watching
    <3>3. PICK s : s = [v |-> start, stop |-> FALSE]
      OBVIOUS
    <3>4. s \in [v : ViewRow, stop : BOOLEAN] /\ s.v = start
      BY <3>2, <3>3
    <3>5. QED
      BY <2>4, <3>1, <3>3, <3>4, TakenWatches
  <2> HIDE DEF w, changed, cut
  <2>7. Watching(o, top, Failed(w.v)) /\ Watching(o, top, Failed(v))
    BY <2>6, FailedWatches
  <2>8. Watching(o, top, [w.v EXCEPT !.restoring = @ /\ ~r.caughtUp])
    <3> DEFINE x == [w.v EXCEPT !.restoring = @ /\ ~r.caughtUp]
    <3>1. w.v \in ViewRow
      BY <2>6 DEF Watching
    <3>2. (w.v.restoring /\ ~r.caughtUp) \in BOOLEAN
      OBVIOUS
    <3>3. /\ x \in ViewRow /\ x.gen = w.v.gen /\ x.last = w.v.last /\ x.shown = w.v.shown
          /\ x.over = w.v.over
      BY <3>1, <3>2 DEF ViewRow
    <3> HIDE DEF x
    <3>4. Watching(o, top, x)
      BY <2>6, <3>3 DEF Watching, Sequel
    <3>5. QED
      BY <3>4 DEF x
  <2>9. QED
    BY <2>2, <2>3, <2>6, <2>7, <2>8
<1>4. QED
  BY <1>1, <1>2, <1>3

-----------------------------------------------------------------------------
(* The relay *)

LEMMA NoStreamRelayed ==
  ASSUME NEW o, NEW top \in Nat
  PROVE  Relayed(o, top, NoStream)
  BY LiveBounds DEF Relayed, RelayRow, NoStream, Follows

LEMMA KeptRelayed ==
  ASSUME NEW o, NEW top \in Nat, Relayed(o, top, relay)
  PROVE  Relayed(o, top, Kept)
  BY NoStreamRelayed DEF Kept

(* What a POST is added to is a stream of its generation. *)
LEMMA BaseRelayed ==
  ASSUME Turns, NEW o, NEW top \in Nat, Relayed(o, top, relay),
         NEW b, OfStream(o, top, b), Base(b) # NoStream
  PROVE  Relayed(o, top, Base(b)) /\ Base(b).gen = b.gen
<1> DEFINE empty == [attempt |-> b.attempt, gen |-> b.gen, packets |-> <<>>]
<1>1. b.attempt \in {turn.now, turn.ended}
  BY DEF Base
<1>2. b.attempt \in 0..MaxPlays /\ b.gen \in Nat /\ b.gen <= top
  BY <1>1 DEF Turns, OfStream, PostRow
<1>3. Relayed(o, top, empty) /\ empty.gen = b.gen
  BY <1>2 DEF Relayed, RelayRow, Follows
<1>4. Base(b) = empty \/ (Base(b) = Kept /\ b.gen = Kept.gen)
  <2> HIDE DEF empty
  <2>1. QED
    BY <1>1 DEF Base, empty
<1> HIDE DEF empty
<1>5. QED
  BY <1>3, <1>4, KeptRelayed

(* A POST that is accepted adds pictures of the origin the stream has. *)
LEMMA ReceiveRelays ==
  ASSUME Turns, NEW o, NEW top \in Nat, Relayed(o, top, relay),
         NEW b, OfStream(o, top, b), Receive(b)
  PROVE  Relayed(o, top, relay)'
<1> DEFINE s == Base(b)
           T == After(b.packets, LastSeq(s.packets))
<1>1. CASE ~Accepts(s, b)
  <2>1. relay' = Kept
    BY <1>1 DEF Receive
  <2>2. QED
    BY <2>1, KeptRelayed DEF Relayed
<1>2. CASE Accepts(s, b)
  <2>1. relay' = [s EXCEPT !.packets = s.packets \o T]
    BY <1>2 DEF Receive, Added
  <2>2. s # NoStream
    BY <1>2 DEF Accepts
  <2>3. Relayed(o, top, s) /\ s.gen = b.gen
    BY <2>2, BaseRelayed
  <2>4. b.packets \in Seq(Packet) /\ Follows(o, s.gen, b.packets)
    BY <2>3 DEF OfStream, PostRow
  <2>5. PartOf(T, b.packets)
    BY <2>4, AfterIsPart
  <2>6. Follows(o, s.gen, T)
    BY <2>4, <2>5, PartFollows
  <2> HIDE DEF s
  <2> HIDE DEF T
  <2>7. /\ s \in RelayRow /\ s.packets \in Seq(Packet) /\ T \in Seq(Packet)
        /\ Follows(o, s.gen, s.packets) /\ s.gen <= top
    BY <2>3, <2>5 DEF Relayed, RelayRow, PartOf
  <2>8. PICK S : S = s.packets \o T
    OBVIOUS
  <2>9. /\ S \in Seq(Packet) /\ Len(S) = Len(s.packets) + Len(T)
        /\ \A i \in 1..Len(S) : S[i] = IF i <= Len(s.packets) THEN s.packets[i]
                                       ELSE T[i - Len(s.packets)]
    BY <2>7, <2>8, ConcatProperties
  <2>10. Follows(o, s.gen, S)
    <3>1. ASSUME NEW i \in 1..Len(S)
          PROVE  S[i].end \/ Fits(o, s.gen, S[i].seq, S[i].pose)
      <4>1. CASE i <= Len(s.packets)
        BY <2>7, <2>9, <4>1 DEF Follows
      <4>2. CASE ~(i <= Len(s.packets))
        <5>1. i - Len(s.packets) \in 1..Len(T) /\ S[i] = T[i - Len(s.packets)]
          BY <2>7, <2>9, <4>2
        <5>2. QED
          BY <2>6, <5>1 DEF Follows
      <4>3. QED
        BY <4>1, <4>2
    <3>2. QED
      BY <3>1 DEF Follows
  <2>11. relay' \in RelayRow /\ relay'.gen = s.gen /\ relay'.packets = S
    BY <2>1, <2>7, <2>8, <2>9 DEF RelayRow
  <2>12. QED
    BY <2>7, <2>10, <2>11 DEF Relayed
<1>3. QED
  BY <1>1, <1>2

(* An answer holds pictures of the stream it names, and at least one when it
   tells that the stream was interrupted. *)
LEMMA ReadStreams ==
  ASSUME NEW o, NEW top \in Nat, NEW s, Relayed(o, top, s), NEW q
  PROVE  Read(s, q).kind = "fallback" \/ Streamed(o, top, Read(s, q))
<1> DEFINE last == LastSeq(s.packets)
           same == q.attempt = s.attempt /\ q.gen = s.gen
           interrupted == same /\ Ends(s.packets) /\ q.after >= 0 /\ last - q.after > Page
           available == ~interrupted /\ s.packets[1].pose.k = 1
           source == IF available THEN s.packets ELSE Newest(s.packets, LateWindow)
           reset == interrupted \/ ~same \/ Missed(s, q, source)
           after == IF reset THEN -1 ELSE q.after
           newer == After(source, after)
           packets == IF available THEN Oldest(newer, Page) ELSE newer
           caughtUp == (IF packets = <<>> THEN after ELSE LastSeq(packets)) >= last
           r == [kind |-> "stream", attempt |-> s.attempt, gen |-> s.gen, reset |-> reset,
                 interrupted |-> interrupted, available |-> available, head |-> last,
                 packets |-> packets, caughtUp |-> caughtUp]
<1>1. Read(s, q).kind = "fallback" \/ Read(s, q) = r
  BY DEF Read
<1>2. /\ s.packets \in Seq(Packet) /\ s.attempt \in 0..MaxPlays /\ s.gen \in Nat
      /\ s.gen <= top /\ Follows(o, s.gen, s.packets)
  BY DEF Relayed, RelayRow
<1>3. LateWindow \in Nat \ {0} /\ Page \in Nat \ {0}
  BY LiveBounds
<1>4. PartOf(source, s.packets) /\ (s.packets # <<>> => source # <<>>)
  <2>1. PartOf(s.packets, s.packets)
    BY <1>2 DEF PartOf
  <2> HIDE DEF available
  <2>2. QED
    BY <1>2, <1>3, <2>1, NewestIsPart
<1>5. interrupted => s.packets # <<>> /\ ~available /\ after = -1
  BY DEF Ends
<1> HIDE DEF reset, after, source, available, interrupted, same
<1>6. PartOf(newer, source) /\ (interrupted => newer # <<>>)
  <2>1. source \in Seq(Packet)
    BY <1>4 DEF PartOf
  <2>2. PartOf(newer, source)
    BY <2>1, AfterIsPart
  <2>3. ASSUME interrupted PROVE newer # <<>>
    <3>1. 1 \in 1..Len(source) /\ source[1] \in Packet
      BY <1>4, <1>5, <2>1, <2>3
    <3>2. source[1].seq > -1
      BY <3>1 DEF Packet
    <3>3. QED
      BY <1>5, <2>1, <2>3, <3>1, <3>2, AfterIsPart
  <2>4. QED
    BY <2>2, <2>3
<1> HIDE DEF newer
<1>7. PartOf(packets, newer) /\ (interrupted => packets # <<>>)
  <2>1. newer \in Seq(Packet)
    BY <1>6 DEF PartOf
  <2>2. PartOf(newer, newer)
    BY <2>1 DEF PartOf
  <2>3. QED
    BY <1>3, <1>5, <1>6, <2>1, <2>2, OldestIsPart
<1> HIDE DEF packets
<1>8. packets \in Seq(Packet) /\ Follows(o, s.gen, packets)
  <2>1. Follows(o, s.gen, source) /\ packets \in Seq(Packet)
    BY <1>2, <1>4, <1>7, PartFollows DEF PartOf
  <2>2. Follows(o, s.gen, newer)
    BY <1>6, <2>1, PartFollows
  <2>3. QED
    BY <1>7, <2>1, <2>2, PartFollows
<1>9. last \in Int
  <2>1. s.packets # <<>> => s.packets[Len(s.packets)] \in Packet
    BY <1>2
  <2>2. QED
    BY <2>1 DEF LastSeq, Packet
<1>10. /\ reset \in BOOLEAN /\ interrupted \in BOOLEAN /\ available \in BOOLEAN
       /\ caughtUp \in BOOLEAN
  BY DEF reset, interrupted, available
<1> HIDE DEF last, caughtUp
<1>11. Streamed(o, top, r)
  <2>1. r \in StreamRow
    BY <1>2, <1>8, <1>9, <1>10 DEF StreamRow
  <2>2. QED
    BY <1>2, <1>7, <1>8, <2>1 DEF Streamed
<1>12. QED
  BY <1>1, <1>11

-----------------------------------------------------------------------------
(* Origins of later generations *)

LEMMA OfStreamLater ==
  ASSUME NEW o, NEW p, NEW top \in Nat, NEW top2 \in Nat, top <= top2,
         SameUpTo(o, p, top), NEW b, OfStream(o, top, b)
  PROVE  OfStream(p, top2, b)
  BY DEF OfStream, PostRow, SameUpTo, Follows, Fits

LEMMA FollowsLater ==
  ASSUME NEW o, NEW p, NEW top \in Nat, SameUpTo(o, p, top), NEW g \in 0..top, NEW S,
         Follows(o, g, S)
  PROVE  Follows(p, g, S)
  BY DEF SameUpTo, Follows, Fits

(* The other parts do not see where later generations begin. *)
LEMMA OthersLater ==
  ASSUME NEW o, NEW p, NEW top \in Nat, NEW top2 \in Nat, top <= top2, SameUpTo(o, p, top),
         Relayed(o, top, relay), Asking(o, top, ask), Watching(o, top, view)
  PROVE  Relayed(p, top2, relay) /\ Asking(p, top2, ask) /\ Watching(p, top2, view)
<1>1. Relayed(p, top2, relay)
  BY FollowsLater DEF Relayed, RelayRow
<1>2. Asking(p, top2, ask)
  <2>1. ASSUME NEW r, Streamed(o, top, r) PROVE Streamed(p, top2, r)
    <3>1. r \in StreamRow /\ r.gen \in 0..top /\ r.gen <= top2
      BY <2>1 DEF Streamed, StreamRow
    <3>2. QED
      BY <2>1, <3>1, FollowsLater DEF Streamed
  <2>2. QED
    BY <2>1 DEF Asking
<1>3. Watching(p, top2, view)
  <2>1. view \in ViewRow /\ view.gen \in 0..top /\ view.gen <= top2
    BY DEF Watching, ViewRow
  <2>2. p[view.gen] = o[view.gen]
    BY <2>1 DEF SameUpTo
  <2>3. view.shown # <<>> /\ ~view.over =>
          Fits(p, view.gen, view.last, view.shown[Len(view.shown)])
    BY <2>2 DEF Watching, Fits
  <2>4. QED
    BY <2>1, <2>3 DEF Watching
<1>4. QED
  BY <1>1, <1>2, <1>3

-----------------------------------------------------------------------------
(* The publisher *)

LEMMA NoPostOfStream ==
  ASSUME NEW o, NEW top \in Nat
  PROVE  OfStream(o, top, NoPost)
  BY DEF OfStream, PostRow, NoPost, Follows

(* What one step of the publisher makes of p: q, with the origin of a
   generation that it may have begun. *)
Goes(o, p, q, n, k) ==
  \E o2 \in Origins : /\ SameUpTo(o, o2, p.gen) /\ p.gen <= q.gen
                      /\ Publishing(o2, q, n, k)

LEMMA GoesSame ==
  ASSUME NEW o \in Origins, NEW p, NEW q, NEW n, NEW k, Publishing(o, q, n, k),
         p.gen = q.gen
  PROVE  Goes(o, p, q, n, k)
<1>1. q.gen \in Nat
  BY DEF Publishing, PublisherRow
<1>2. SameUpTo(o, o, p.gen) /\ p.gen <= q.gen
  BY <1>1 DEF SameUpTo
<1>3. QED
  BY <1>2 DEF Goes

LEMMA ResetKeeps ==
  ASSUME NEW o, NEW p, NEW n \in Nat, NEW k, Publishing(o, p, n, k)
  PROVE  /\ Publishing(o, ResetPublisher(p), n, k) /\ ResetPublisher(p).gen = p.gen
         /\ ResetPublisher(p).attempt = 0 /\ ResetPublisher(p).seq = 0
<1> DEFINE q == ResetPublisher(p)
<1>1. p \in PublisherRow /\ p.gen \in Nat
  BY DEF Publishing, PublisherRow
<1>2. PICK loose : loose = Abandon(p, p.post)
  OBVIOUS
<1>3. loose \in SUBSET PostRow /\ \A b \in loose : OfStream(o, p.gen, b)
  BY <1>1, <1>2 DEF Abandon, Publishing, PublisherRow
<1>4. NoPost \in PostRow /\ <<>> \in Seq(Packet) /\ OfStream(o, p.gen, NoPost)
  BY <1>1, NoPostOfStream DEF NoPost, PostRow
<1>5. q = [p EXCEPT !.attempt = 0, !.seq = 0, !.queue = <<>>, !.batch = <<>>,
                    !.post = NoPost, !.loose = loose]
  BY <1>2 DEF ResetPublisher
<1>6. /\ q \in PublisherRow /\ q.gen = p.gen /\ q.attempt = 0 /\ q.seq = 0
      /\ q.queue = <<>> /\ q.batch = <<>> /\ q.post = NoPost /\ q.loose = loose
      /\ q.terminal = p.terminal /\ q.sending = p.sending /\ q.done = p.done
  <2> HIDE DEF q
  <2>1. QED
    BY <1>1, <1>3, <1>4, <1>5 DEF PublisherRow
<1> HIDE DEF q
<1>7. Follows(o, p.gen, <<>>) /\ Len(<<>>) = 0 /\ QueueCap >= 0 /\ BatchMax >= 0
  BY LiveBounds DEF Follows
<1>8. Publishing(o, q, n, k)
  BY <1>3, <1>4, <1>6, <1>7 DEF Publishing
<1>9. QED
  BY <1>6, <1>8 DEF q

LEMMA PublishKeeps ==
  ASSUME NEW o, NEW p, NEW n, NEW k, Publishing(o, p, n, k)
  PROVE  Publishing(o, Publish(p), n, k) /\ Publish(p).gen = p.gen
<1> DEFINE batch == IF p.batch # <<>> THEN p.batch ELSE Oldest(p.queue, BatchMax)
           post == [phase |-> "sent", attempt |-> p.attempt, gen |-> p.gen,
                    packets |-> batch, batched |-> TRUE]
           q == [p EXCEPT !.batch = batch, !.post = post]
<1>1. Publish(p) = p \/ Publish(p) = q
  BY DEF Publish
<1>2. /\ p \in PublisherRow /\ p.gen \in Nat /\ p.attempt \in Nat
      /\ p.queue \in Seq(Packet) /\ p.batch \in Seq(Packet)
  BY DEF Publishing, PublisherRow
<1>3. batch \in Seq(Packet) /\ Len(batch) <= BatchMax /\ Follows(o, p.gen, batch)
  <2>1. /\ PartOf(Oldest(p.queue, BatchMax), p.queue)
        /\ Len(Oldest(p.queue, BatchMax)) <= BatchMax
    BY <1>2, LiveBounds, OldestIsPart
  <2>2. Follows(o, p.gen, Oldest(p.queue, BatchMax))
    BY <2>1, PartFollows DEF Publishing
  <2>3. QED
    BY <1>2, <2>1, <2>2 DEF Publishing, PartOf
<1> HIDE DEF batch
<1>4. post \in PostRow /\ OfStream(o, p.gen, post)
  BY <1>2, <1>3 DEF OfStream, PostRow
<1> HIDE DEF post
<1>5. /\ q \in PublisherRow /\ q.gen = p.gen /\ q.attempt = p.attempt /\ q.seq = p.seq
      /\ q.queue = p.queue /\ q.batch = batch /\ q.post = post /\ q.loose = p.loose
      /\ q.terminal = p.terminal /\ q.sending = p.sending
  BY <1>2, <1>3, <1>4 DEF PublisherRow
<1> HIDE DEF q
<1>6. Publishing(o, q, n, k)
  BY <1>3, <1>4, <1>5 DEF Publishing
<1>7. QED
  BY <1>1, <1>5, <1>6

(* The next picture of the attempt is the next of the generation's origin. *)
LEMMA CaptureKeeps ==
  ASSUME NEW o \in Origins, NEW p, NEW n \in Nat \ {0}, NEW k \in Nat,
         Publishing(o, p, n, k), Room(p), p.attempt = n
  PROVE  /\ Publishing(o, Capture(p, [of |-> n, k |-> k + 1]), n, k + 1)
         /\ Capture(p, [of |-> n, k |-> k + 1]).gen = p.gen
<1> DEFINE f == [seq |-> p.seq, pose |-> [of |-> n, k |-> k + 1], end |-> FALSE]
           q == [p EXCEPT !.queue = Append(p.queue, f), !.seq = p.seq + 1]
<1>1. /\ p \in PublisherRow /\ p.gen \in Nat /\ p.seq \in Nat /\ p.queue \in Seq(Packet)
  BY DEF Publishing, PublisherRow
<1>2. f \in Packet /\ ~f.end /\ f.seq = p.seq /\ f.pose.of = n /\ f.pose.k = k + 1
  BY <1>1 DEF Packet, Pose
<1>3. Capture(p, [of |-> n, k |-> k + 1]) = q
  BY DEF Capture
<1>4. o[p.gen] = [of |-> n, shift |-> k + 1 - p.seq]
  BY DEF Publishing
<1>5. Fits(o, p.gen, f.seq, f.pose)
  <2> HIDE DEF f
  <2>1. QED
    BY <1>1, <1>2, <1>4 DEF Fits
<1> HIDE DEF f
<1>6. PICK Q : Q = Append(p.queue, f)
  OBVIOUS
<1>7. /\ Q \in Seq(Packet) /\ Len(Q) = Len(p.queue) + 1
      /\ \A i \in 1..Len(p.queue) : Q[i] = p.queue[i]
      /\ Q[Len(p.queue) + 1] = f
  BY <1>1, <1>2, <1>6, AppendProperties
<1>8. Len(Q) <= QueueCap /\ Len(p.queue) \in Nat
  BY <1>1, <1>7, LiveBounds DEF Room
<1>9. Follows(o, p.gen, Q)
  <2>1. ASSUME NEW i \in 1..Len(Q) PROVE Q[i].end \/ Fits(o, p.gen, Q[i].seq, Q[i].pose)
    <3>1. CASE i = Len(p.queue) + 1
      BY <1>5, <1>7, <3>1
    <3>2. CASE i # Len(p.queue) + 1
      <4>1. i \in 1..Len(p.queue)
        BY <1>7, <1>8, <3>2
      <4>2. QED
        BY <1>7, <4>1 DEF Publishing, Follows
    <3>3. QED
      BY <3>1, <3>2
  <2>2. QED
    BY <2>1 DEF Follows
<1>10. /\ q \in PublisherRow /\ q.gen = p.gen /\ q.attempt = p.attempt /\ q.seq = p.seq + 1
       /\ q.queue = Q /\ q.batch = p.batch /\ q.post = p.post /\ q.loose = p.loose
       /\ q.terminal = p.terminal /\ q.sending = p.sending
  <2>1. q = [p EXCEPT !.queue = Q, !.seq = p.seq + 1] /\ p.seq + 1 \in Nat
    BY <1>1, <1>6
  <2> HIDE DEF q
  <2>2. QED
    BY <1>1, <1>7, <2>1 DEF PublisherRow
<1> HIDE DEF q
<1>11. k + 1 - p.seq = (k + 1) + 1 - (p.seq + 1)
  BY <1>1
<1>12. Publishing(o, q, n, k + 1)
  BY <1>4, <1>8, <1>9, <1>10, <1>11 DEF Publishing
<1>13. QED
  BY <1>3, <1>10, <1>12

LEMMA TickTerminalKeeps ==
  ASSUME NEW o, NEW p, NEW n, NEW k, Publishing(o, p, n, k)
  PROVE  Publishing(o, TickTerminal(p), n, k) /\ TickTerminal(p).gen = p.gen
<1> DEFINE t == p.terminal
           f == [seq |-> t.seq, pose |-> t.pose, end |-> TRUE]
           post == [phase |-> "sent", attempt |-> t.attempt, gen |-> t.gen, batched |-> FALSE,
                    packets |-> <<f>>]
           q == [p EXCEPT !.sending = post]
<1>1. p \in PublisherRow /\ p.gen \in Nat /\ t \in TerminalRow /\ t.gen <= p.gen
  BY DEF Publishing, PublisherRow
<1>2. TickTerminal(p) \in {p, Publish(p), q}
  BY DEF TickTerminal
<1>3. f \in Packet /\ f.end
  BY <1>1 DEF TerminalRow, Packet
<1> HIDE DEF f
<1>4. post \in PostRow /\ OfStream(o, p.gen, post)
  <2>1. PICK S : S = <<f>>
    OBVIOUS
  <2>2. S \in Seq(Packet) /\ \A i \in 1..Len(S) : S[i].end
    BY <1>3, <2>1
  <2>3. post = [phase |-> "sent", attempt |-> t.attempt, gen |-> t.gen, batched |-> FALSE,
                packets |-> S]
    BY <2>1
  <2> HIDE DEF post
  <2>4. QED
    BY <1>1, <2>2, <2>3 DEF OfStream, PostRow, TerminalRow, Follows
<1> HIDE DEF post
<1>5. /\ q \in PublisherRow /\ q.gen = p.gen /\ q.attempt = p.attempt /\ q.seq = p.seq
      /\ q.queue = p.queue /\ q.batch = p.batch /\ q.post = p.post /\ q.loose = p.loose
      /\ q.terminal = p.terminal /\ q.sending = post
  BY <1>1, <1>4 DEF PublisherRow
<1> HIDE DEF q
<1>6. Publishing(o, q, n, k)
  BY <1>4, <1>5 DEF Publishing
<1>7. QED
  BY <1>2, <1>5, <1>6, PublishKeeps

LEMMA GoesOn ==
  ASSUME NEW o \in Origins, NEW p, p.gen \in Nat, NEW q, NEW n, NEW k, Goes(o, p, q, n, k),
         NEW r, NEW n2, NEW k2,
         \A o2 \in Origins : Publishing(o2, q, n, k) => Goes(o2, q, r, n2, k2)
  PROVE  Goes(o, p, r, n2, k2)
<1>1. PICK o2 \in Origins : /\ SameUpTo(o, o2, p.gen) /\ p.gen <= q.gen
                            /\ Publishing(o2, q, n, k)
  BY DEF Goes
<1>2. PICK o3 \in Origins : /\ SameUpTo(o2, o3, q.gen) /\ q.gen <= r.gen
                            /\ Publishing(o3, r, n2, k2)
  BY <1>1 DEF Goes
<1>3. q.gen \in Nat /\ r.gen \in Nat
  BY <1>1, <1>2 DEF Publishing, PublisherRow
<1>4. SameUpTo(o, o3, p.gen) /\ p.gen <= r.gen
  BY <1>1, <1>2, <1>3 DEF SameUpTo
<1>5. QED
  BY <1>2, <1>4 DEF Goes

(* A generation begins where the attempt is, with nothing captured. *)
LEMMA NewGenerationGoes ==
  ASSUME NEW o \in Origins, NEW n \in Nat, NEW k \in Nat, NEW p, p.gen \in Nat,
         NEW q \in PublisherRow, q.gen = p.gen + 1, q.queue = <<>>, q.batch = <<>>, q.seq = 0,
         OfStream(o, p.gen, q.post), OfStream(o, p.gen, q.sending),
         \A b \in q.loose : OfStream(o, p.gen, b),
         q.terminal.gen <= q.gen, q.attempt <= n
  PROVE  Goes(o, p, q, n, k)
<1> DEFINE start == [of |-> n, shift |-> k + 1]
           o2 == [o EXCEPT ![p.gen + 1] = start]
<1>1. start \in [of : Nat, shift : Int]
  OBVIOUS
<1>2. o2 \in Origins /\ o2[q.gen] = start /\ SameUpTo(o, o2, p.gen)
  <2> HIDE DEF start
  <2>1. PICK g \in Nat : g = p.gen + 1
    OBVIOUS
  <2>2. o2 = [o EXCEPT ![g] = start] /\ g \notin 0..p.gen
    BY <2>1
  <2> HIDE DEF o2
  <2>3. o2 \in Origins /\ o2[g] = start /\ \A h \in Nat : h # g => o2[h] = o[h]
    BY <1>1, <2>2 DEF Origins
  <2>4. SameUpTo(o, o2, p.gen)
    BY <2>2, <2>3 DEF SameUpTo
  <2>5. QED
    BY <2>1, <2>3, <2>4
<1> HIDE DEF o2
<1>3. q.gen \in Nat /\ p.gen <= q.gen
  OBVIOUS
<1>4. /\ OfStream(o2, q.gen, q.post) /\ OfStream(o2, q.gen, q.sending)
      /\ \A b \in q.loose : OfStream(o2, q.gen, b)
  BY <1>2, <1>3, OfStreamLater
<1>5. Follows(o2, q.gen, <<>>) /\ Len(<<>>) = 0 /\ QueueCap >= 0 /\ BatchMax >= 0
  BY LiveBounds DEF Follows
<1>6. k + 1 - q.seq = k + 1
  OBVIOUS
<1>7. Publishing(o2, q, n, k)
  BY <1>2, <1>4, <1>5, <1>6 DEF Publishing
<1>8. QED
  BY <1>2, <1>3, <1>7 DEF Goes

LEMMA StartGenerationGoes ==
  ASSUME NEW o \in Origins, NEW n \in Nat \ {0}, NEW k \in Nat, NEW p,
         Publishing(o, p, n, k)
  PROVE  Goes(o, p, StartGeneration(p, n), n, k) /\ StartGeneration(p, n).attempt = n
<1>1. CASE p.attempt = n
  BY <1>1, GoesSame DEF StartGeneration
<1>2. CASE p.attempt # n
  <2> DEFINE r == ResetPublisher(p)
             q == [r EXCEPT !.attempt = n, !.gen = r.gen + 1]
  <2>1. StartGeneration(p, n) = q
    BY <1>2 DEF StartGeneration
  <2>2. Publishing(o, r, n, k) /\ r.gen = p.gen /\ r.seq = 0 /\ p.gen \in Nat
    BY ResetKeeps DEF Publishing, PublisherRow
  <2>3. r.queue = <<>> /\ r.batch = <<>>
    BY DEF ResetPublisher, Publishing, PublisherRow
  <2> HIDE DEF r
  <2>4. r \in PublisherRow
    BY <2>2 DEF Publishing
  <2>5. /\ q \in PublisherRow /\ q.gen = p.gen + 1 /\ q.attempt = n /\ q.seq = r.seq
        /\ q.queue = r.queue /\ q.batch = r.batch /\ q.post = r.post /\ q.loose = r.loose
        /\ q.terminal = r.terminal /\ q.sending = r.sending
    <3>1. PICK g : g = r.gen + 1
      OBVIOUS
    <3>2. q = [r EXCEPT !.attempt = n, !.gen = g] /\ g \in Nat /\ g = p.gen + 1
      BY <2>2, <3>1
    <3> HIDE DEF q
    <3>3. QED
      BY <2>4, <3>2 DEF PublisherRow
  <2> HIDE DEF q
  <2>6. q.terminal.gen <= q.gen
    <3>1. r.terminal \in TerminalRow /\ r.terminal.gen <= r.gen
      BY <2>2, <2>4 DEF Publishing, PublisherRow
    <3>2. r.terminal.gen \in Nat
      BY <3>1 DEF TerminalRow
    <3>3. QED
      BY <2>2, <2>5, <3>1, <3>2
  <2>7. Goes(o, p, q, n, k)
    BY <2>2, <2>3, <2>5, <2>6, NewGenerationGoes DEF Publishing
  <2>8. QED
    BY <2>1, <2>5, <2>7
<1>3. QED
  BY <1>1, <1>2

(* 409: the next generation begins where the attempt is, whatever is dropped. *)
LEMMA RefusedGoes ==
  ASSUME NEW o \in Origins, NEW n \in Nat, NEW k \in Nat, NEW p, Publishing(o, p, n, k)
  PROVE  Goes(o, p, Refused(p), n, k)
<1> DEFINE t == IF p.terminal.state = "pending"
                THEN [p.terminal EXCEPT !.gen = p.gen + 1, !.seq = 0] ELSE p.terminal
           q == [p EXCEPT !.gen = p.gen + 1, !.queue = <<>>, !.batch = <<>>, !.seq = 0,
                          !.terminal = t]
<1>1. p \in PublisherRow /\ p.gen \in Nat /\ p.terminal \in TerminalRow
  BY DEF Publishing, PublisherRow
<1>2. Refused(p) = q
  BY <1>1 DEF Refused, PublisherRow
<1>3. t \in TerminalRow /\ t.gen <= p.gen + 1
  <2>1. CASE p.terminal.state = "pending"
    <3>1. t = [p.terminal EXCEPT !.gen = p.gen + 1, !.seq = 0] /\ p.gen + 1 \in Nat
      BY <1>1, <2>1
    <3> HIDE DEF t
    <3>2. t \in TerminalRow /\ t.gen = p.gen + 1
      BY <1>1, <3>1 DEF TerminalRow
    <3>3. QED
      BY <1>1, <3>2
  <2>2. CASE p.terminal.state # "pending"
    <3>1. t = p.terminal /\ p.terminal.gen <= p.gen /\ p.terminal.gen \in Nat
      BY <1>1, <2>2 DEF TerminalRow, Publishing
    <3> HIDE DEF t
    <3>2. QED
      BY <1>1, <3>1
  <2>3. QED
    BY <2>1, <2>2
<1> HIDE DEF t
<1>4. <<>> \in Seq(Packet) /\ p.gen + 1 \in Nat
  BY <1>1
<1>5. /\ q \in PublisherRow /\ q.gen = p.gen + 1 /\ q.attempt = p.attempt /\ q.seq = 0
      /\ q.queue = <<>> /\ q.batch = <<>> /\ q.post = p.post /\ q.loose = p.loose
      /\ q.terminal = t /\ q.sending = p.sending
  BY <1>1, <1>3, <1>4 DEF PublisherRow
<1> HIDE DEF q
<1>6. Goes(o, p, q, n, k)
  BY <1>1, <1>3, <1>5, NewGenerationGoes DEF Publishing
<1>7. QED
  BY <1>2, <1>6

(* The attempt that the publisher may publish is the present one. *)
LEMMA IdIsPresent ==
  ASSUME Turns
  PROVE  /\ play.begun \in Nat /\ play.k \in Nat /\ Id \in Nat
         /\ Id # 0 => Id = play.begun
  BY LiveBounds DEF Turns, Id

(* The terminal record does not matter to what is captured. *)
LEMMA TerminalKeeps ==
  ASSUME NEW o, NEW p, NEW n, NEW k, Publishing(o, p, n, k),
         NEW t \in TerminalRow, t.gen <= p.gen
  PROVE  /\ Publishing(o, [p EXCEPT !.terminal = t], n, k)
         /\ [p EXCEPT !.terminal = t].gen = p.gen
<1> DEFINE q == [p EXCEPT !.terminal = t]
<1>1. /\ q \in PublisherRow /\ q.gen = p.gen /\ q.attempt = p.attempt /\ q.seq = p.seq
      /\ q.queue = p.queue /\ q.batch = p.batch /\ q.post = p.post /\ q.loose = p.loose
      /\ q.terminal = t /\ q.sending = p.sending
  BY DEF Publishing, PublisherRow
<1> HIDE DEF q
<1>2. Publishing(o, q, n, k)
  BY <1>1 DEF Publishing
<1>3. QED
  BY <1>1, <1>2 DEF q

LEMMA PublishTerminalGoes ==
  ASSUME Turns, NEW o \in Origins, NEW p, Publishing(o, p, play.begun, play.k),
         NEW pose \in Pose
  PROVE  Goes(o, p, PublishTerminal(p, pose), play.begun, play.k)
<1>0. p \in PublisherRow /\ p.gen \in Nat /\ NoTerminal \in TerminalRow
  BY DEF Publishing, PublisherRow, NoTerminal, TerminalRow, Pose
<1>1. CASE Id = 0
  <2> DEFINE t == [NoTerminal EXCEPT !.state = "deferred", !.pose = pose]
  <2>1. PublishTerminal(p, pose) = [p EXCEPT !.terminal = t]
    BY <1>1 DEF PublishTerminal
  <2>2. t \in TerminalRow /\ t.gen = 0
    BY <1>0 DEF NoTerminal, TerminalRow
  <2> HIDE DEF t
  <2>3. t.gen <= p.gen
    BY <1>0, <2>2
  <2> DEFINE q == [p EXCEPT !.terminal = t]
  <2>4. Publishing(o, q, play.begun, play.k) /\ q.gen = p.gen
    BY <2>2, <2>3, TerminalKeeps
  <2> HIDE DEF q
  <2>5. Goes(o, p, q, play.begun, play.k)
    BY <2>4, GoesSame
  <2>6. QED
    BY <2>1, <2>5 DEF q
<1>2. CASE Id # 0 /\ Id = p.done
  BY <1>2, GoesSame DEF PublishTerminal
<1>3. CASE Id # 0 /\ Id # p.done
  <2> DEFINE a == play.begun
             q == StartGeneration(p, a)
             t == [state |-> "pending", pose |-> pose, attempt |-> a, gen |-> q.gen,
                   seq |-> q.seq]
             r == [q EXCEPT !.terminal = t, !.done = a, !.sending = NoPost,
                            !.loose = Abandon(q, q.sending)]
  <2>1. Id = a /\ a \in Nat \ {0} /\ play.k \in Nat
    BY <1>3, IdIsPresent
  <2>2. PublishTerminal(p, pose) = TickTerminal(r)
    BY <1>3, <2>1 DEF PublishTerminal
  <2>3. Goes(o, p, q, a, play.k)
    BY <2>1, StartGenerationGoes
  <2> HIDE DEF q, a
  <2>4. ASSUME NEW o2 \in Origins, Publishing(o2, q, a, play.k)
        PROVE  Goes(o2, q, TickTerminal(r), a, play.k)
    <3>1. q \in PublisherRow /\ q.gen \in Nat /\ q.seq \in Nat
      BY <2>4 DEF Publishing, PublisherRow
    <3>2. t \in TerminalRow /\ t.gen = q.gen
      BY <2>1, <3>1 DEF TerminalRow
    <3> HIDE DEF t
    <3>3. PICK loose : loose = Abandon(q, q.sending)
      OBVIOUS
    <3>4. loose \in SUBSET PostRow /\ \A b \in loose : OfStream(o2, q.gen, b)
      BY <2>4, <3>1, <3>3 DEF Abandon, Publishing, PublisherRow
    <3>5. NoPost \in PostRow /\ OfStream(o2, q.gen, NoPost)
      BY <3>1, NoPostOfStream DEF NoPost, PostRow
    <3>6. r = [q EXCEPT !.terminal = t, !.done = a, !.sending = NoPost, !.loose = loose]
      BY <3>3
    <3>7. /\ r \in PublisherRow /\ r.gen = q.gen /\ r.attempt = q.attempt /\ r.seq = q.seq
          /\ r.queue = q.queue /\ r.batch = q.batch /\ r.post = q.post /\ r.loose = loose
          /\ r.terminal = t /\ r.sending = NoPost
      <4> HIDE DEF r
      <4>1. QED
        BY <2>1, <3>1, <3>2, <3>4, <3>5, <3>6 DEF PublisherRow
    <3> HIDE DEF r
    <3>8. t.gen <= r.gen
      BY <3>1, <3>2, <3>7
    <3>9. Publishing(o2, r, a, play.k)
      BY <2>4, <3>4, <3>5, <3>7, <3>8 DEF Publishing
    <3>10. QED
      BY <3>7, <3>9, TickTerminalKeeps, GoesSame
  <2>5. Goes(o, p, TickTerminal(r), a, play.k)
    <3> HIDE DEF r
    <3>1. QED
      BY <1>0, <2>3, <2>4, GoesOn
  <2>6. QED
    BY <2>2, <2>5 DEF a
<1>4. QED
  BY <1>1, <1>2, <1>3

LEMMA DrainDeferredGoes ==
  ASSUME Turns, NEW o \in Origins, NEW p, Publishing(o, p, play.begun, play.k)
  PROVE  Goes(o, p, DrainDeferred(p), play.begun, play.k)
<1>0. p \in PublisherRow /\ p.gen \in Nat /\ NoTerminal \in TerminalRow
  BY DEF Publishing, PublisherRow, NoTerminal, TerminalRow, Pose
<1>1. CASE p.terminal.state = "deferred" /\ Id # 0
  <2> DEFINE q == [p EXCEPT !.terminal = NoTerminal]
             pose == p.terminal.pose
  <2>1. DrainDeferred(p) = PublishTerminal(q, pose)
    BY <1>1 DEF DrainDeferred
  <2>2. pose \in Pose
    BY <1>0 DEF PublisherRow, TerminalRow
  <2>3. Publishing(o, q, play.begun, play.k) /\ q.gen = p.gen
    <3>1. NoTerminal.gen <= p.gen
      BY <1>0 DEF NoTerminal
    <3>2. QED
      BY <1>0, <3>1, TerminalKeeps
  <2> HIDE DEF q, pose
  <2>4. Goes(o, q, PublishTerminal(q, pose), play.begun, play.k)
    BY <2>2, <2>3, PublishTerminalGoes
  <2>5. QED
    BY <2>1, <2>3, <2>4 DEF Goes
<1>2. CASE ~(p.terminal.state = "deferred" /\ Id # 0)
  BY <1>2, TickTerminalKeeps, GoesSame DEF DrainDeferred
<1>3. QED
  BY <1>1, <1>2

-----------------------------------------------------------------------------
(* The steps *)

(* A step of the publisher alone. *)
LEMMA Advance ==
  ASSUME NEW o \in Origins, Along(o), Turns', Goes(o, pub, pub', play'.begun, play'.k),
         UNCHANGED <<relay, view, ask>>
  PROVE  LiveInv'
<1>1. PICK o2 \in Origins : /\ SameUpTo(o, o2, pub.gen) /\ pub.gen <= pub'.gen
                            /\ Publishing(o2, pub', play'.begun, play'.k)
  BY DEF Goes
<1>2. pub.gen \in Nat /\ pub'.gen \in Nat
  BY <1>1 DEF Along, Publishing, PublisherRow
<1>3. /\ Relayed(o2, pub'.gen, relay) /\ Asking(o2, pub'.gen, ask)
      /\ Watching(o2, pub'.gen, view)
  BY <1>1, <1>2, OthersLater DEF Along
<1>4. Along(o2)'
  BY <1>1, <1>3 DEF Along
<1>5. QED
  BY <1>4 DEF LiveInv

(* A frame: the next picture is taken of the attempt that is published. *)
LEMMA FrameAdvances ==
  ASSUME NEW o \in Origins, Along(o), NEW due \in BOOLEAN, Frame(due)
  PROVE  LiveInv'
<1> DEFINE n == play.begun
           k == play.k
           p == DrainDeferred(pub)
           idle == IF p.terminal.state = "pending" THEN p ELSE ResetPublisher(p)
           q == StartGeneration(p, Id)
           takes == /\ due /\ play.alive /\ Id # 0 /\ Id # q.done
                    /\ Room(q) /\ play.k + 1 < MaxPoses[play.begun]
           pose == [of |-> play.begun, k |-> play.k + 1]
           r == IF takes THEN Capture(q, pose) ELSE q
<1>1. /\ Turns /\ Publishing(o, pub, n, k) /\ pub.gen \in Nat
  BY DEF Along, Publishing, PublisherRow
<1>2. n \in Nat /\ k \in Nat /\ Id \in Nat /\ (Id # 0 => Id = n)
  BY <1>1, IdIsPresent
<1>3. Goes(o, pub, p, n, k)
  BY <1>1, DrainDeferredGoes
<1>4. /\ pub' = IF Id = 0 THEN idle ELSE IF Id = q.done THEN q ELSE Publish(r)
      /\ play' = IF takes THEN [play EXCEPT !.k = @ + 1] ELSE play
      /\ UNCHANGED <<turn, relay, view, ask>>
  BY DEF Frame
<1>5. play'.begun = n /\ play'.k = (IF takes THEN k + 1 ELSE k) /\ Turns'
  <2> HIDE DEF takes
  <2>1. QED
    BY <1>1, <1>4 DEF Turns
<1>6. CASE Id = 0
  <2>1. pub' = idle /\ play'.k = k
    BY <1>4, <1>5, <1>6
  <2> HIDE DEF p
  <2>2. ASSUME NEW o2 \in Origins, Publishing(o2, p, n, k) PROVE Goes(o2, p, idle, n, k)
    BY <1>2, <2>2, ResetKeeps, GoesSame
  <2> HIDE DEF idle
  <2>3. Goes(o, pub, idle, n, k)
    BY <1>1, <1>3, <2>2, GoesOn
  <2>4. Goes(o, pub, pub', play'.begun, play'.k)
    BY <1>5, <2>1, <2>3
  <2>5. QED
    BY <1>4, <1>5, <2>4, Advance
<1>7. CASE Id # 0
  <2>1. Id = n /\ n \in Nat \ {0}
    BY <1>2, <1>7
  <2>2. \A o2 \in Origins : Publishing(o2, p, n, k) => Goes(o2, p, q, n, k)
    BY <1>2, <2>1, StartGenerationGoes
  <2>3. Goes(o, pub, q, n, k)
    <3> HIDE DEF p, q
    <3>1. QED
      BY <1>1, <1>3, <2>2, GoesOn
  <2>4. q.attempt = n
    <3>1. PICK o2 \in Origins : Publishing(o2, p, n, k)
      BY <1>3 DEF Goes
    <3>2. QED
      BY <1>2, <2>1, <3>1, StartGenerationGoes
  <2>5. CASE Id = q.done
    <3>1. pub' = q /\ play'.k = k
      BY <1>4, <1>5, <1>7, <2>5
    <3>2. Goes(o, pub, pub', play'.begun, play'.k)
      BY <1>5, <2>3, <3>1
    <3>3. QED
      BY <1>4, <1>5, <3>2, Advance
  <2>6. CASE Id # q.done
    <3> DEFINE k2 == IF takes THEN k + 1 ELSE k
    <3>1. pub' = Publish(r) /\ play'.k = k2
      BY <1>4, <1>5, <1>7, <2>6
    <3> HIDE DEF q, p
    <3>2. ASSUME NEW o2 \in Origins, Publishing(o2, q, n, k)
          PROVE  Publishing(o2, r, n, k2) /\ r.gen = q.gen
      BY <1>2, <2>1, <2>4, <3>2, CaptureKeeps
    <3> HIDE DEF r, k2
    <3>3. ASSUME NEW o2 \in Origins, Publishing(o2, q, n, k)
          PROVE  Goes(o2, q, Publish(r), n, k2)
      BY <3>2, <3>3, PublishKeeps, GoesSame
    <3>4. Goes(o, pub, Publish(r), n, k2)
      BY <1>1, <2>3, <3>3, GoesOn
    <3>5. Goes(o, pub, pub', play'.begun, play'.k)
      BY <1>5, <3>1, <3>4
    <3>6. QED
      BY <1>4, <1>5, <3>5, Advance
  <2>7. QED
    BY <2>5, <2>6
<1>8. QED
  BY <1>6, <1>7

LEMMA DieAdvances ==
  ASSUME NEW o \in Origins, Along(o), Die
  PROVE  LiveInv'
<1> DEFINE pose == [of |-> play.begun, k |-> play.k + 1]
<1>1. Turns /\ Publishing(o, pub, play.begun, play.k)
  BY DEF Along
<1>2. pose \in Pose
  BY <1>1, IdIsPresent DEF Pose
<1>3. Goes(o, pub, PublishTerminal(pub, pose), play.begun, play.k)
  <2> HIDE DEF pose
  <2>1. QED
    BY <1>1, <1>2, PublishTerminalGoes
<1>4. /\ pub' = PublishTerminal(pub, pose) /\ play' = [play EXCEPT !.alive = FALSE]
      /\ UNCHANGED <<turn, relay, view, ask>>
  BY DEF Die
<1>5. Turns' /\ play'.begun = play.begun /\ play'.k = play.k
  BY <1>1, <1>4 DEF Turns
<1>6. QED
  BY <1>3, <1>4, <1>5, Advance

LEMMA PostAnsweredAdvances ==
  ASSUME NEW o \in Origins, Along(o), PostAnswered
  PROVE  LiveInv'
<1> DEFINE p == [pub EXCEPT !.post = NoPost]
           rest == After(pub.queue, LastSeq(pub.batch))
           acked == [p EXCEPT !.batch = <<>>, !.queue = rest]
<1>1. /\ Turns /\ Publishing(o, pub, play.begun, play.k)
      /\ pub \in PublisherRow /\ pub.gen \in Nat
  BY DEF Along, Publishing, PublisherRow
<1>2. play.begun \in Nat /\ play.k \in Nat
  BY <1>1, IdIsPresent
<1>3. /\ p \in PublisherRow /\ p.gen = pub.gen /\ p.attempt = pub.attempt /\ p.seq = pub.seq
      /\ p.queue = pub.queue /\ p.batch = pub.batch /\ p.post = NoPost /\ p.loose = pub.loose
      /\ p.terminal = pub.terminal /\ p.sending = pub.sending
  <2>1. NoPost \in PostRow
    BY DEF NoPost, PostRow
  <2>2. QED
    BY <1>1, <2>1 DEF PublisherRow
<1>4. pub' \in {p, Refused(p), acked}
  BY <1>3 DEF PostAnswered
<1> HIDE DEF p
<1>5. Publishing(o, p, play.begun, play.k)
  BY <1>1, <1>3, NoPostOfStream DEF Publishing
<1>6. Publishing(o, acked, play.begun, play.k) /\ acked.gen = p.gen
  <2>1. PartOf(rest, pub.queue) /\ pub.queue \in Seq(Packet)
    BY <1>1, AfterIsPart DEF PublisherRow
  <2>2. /\ rest \in Seq(Packet) /\ Len(rest) <= QueueCap /\ Follows(o, pub.gen, rest)
        /\ <<>> \in Seq(Packet) /\ Follows(o, pub.gen, <<>>) /\ Len(<<>>) <= BatchMax
    <3>1. Len(rest) <= Len(pub.queue) /\ Len(pub.queue) <= QueueCap /\ rest \in Seq(Packet)
      BY <1>1, <2>1 DEF PartOf, Publishing
    <3>2. Follows(o, pub.gen, rest)
      BY <1>1, <2>1, PartFollows DEF Publishing
    <3>3. Len(rest) <= QueueCap
      BY <2>1, <3>1, LiveBounds
    <3>4. <<>> \in Seq(Packet) /\ Follows(o, pub.gen, <<>>) /\ Len(<<>>) <= BatchMax
      BY LiveBounds DEF Follows
    <3>5. QED
      BY <3>1, <3>2, <3>3, <3>4
  <2> HIDE DEF rest
  <2>3. /\ acked \in PublisherRow /\ acked.gen = p.gen /\ acked.attempt = p.attempt
        /\ acked.seq = p.seq /\ acked.queue = rest /\ acked.batch = <<>>
        /\ acked.post = p.post /\ acked.loose = p.loose
        /\ acked.terminal = p.terminal /\ acked.sending = p.sending
    BY <1>3, <2>2 DEF PublisherRow
  <2> HIDE DEF acked
  <2>4. Publishing(o, acked, play.begun, play.k)
    BY <1>3, <1>5, <2>2, <2>3 DEF Publishing
  <2>5. QED
    BY <2>3, <2>4
<1> HIDE DEF acked
<1>7. Goes(o, p, pub', play.begun, play.k)
  BY <1>2, <1>4, <1>5, <1>6, RefusedGoes, GoesSame
<1>8. Goes(o, pub, pub', play.begun, play.k)
  BY <1>3, <1>7 DEF Goes
<1>9. UNCHANGED <<play, turn, relay, view, ask>>
  BY DEF PostAnswered
<1>10. Turns'
  BY <1>1, <1>9 DEF Turns
<1>11. QED
  BY <1>8, <1>9, <1>10, Advance

(* The phase of a request does not matter to what it holds. *)
LEMMA PhaseKeeps ==
  ASSUME NEW o \in Origins, NEW p, NEW n, NEW k, Publishing(o, p, n, k),
         NEW x \in {"none", "sent", "ok", "conflict", "error"}
  PROVE  /\ Goes(o, p, [p EXCEPT !.post.phase = x], n, k)
         /\ Goes(o, p, [p EXCEPT !.sending.phase = x], n, k)
         /\ [p EXCEPT !.post.phase = x].gen = p.gen
         /\ [p EXCEPT !.sending.phase = x].gen = p.gen
<1> DEFINE q == [p EXCEPT !.post.phase = x]
           r == [p EXCEPT !.sending.phase = x]
<1>1. /\ p \in PublisherRow /\ p.post \in PostRow /\ p.sending \in PostRow
      /\ p.gen \in Nat
  BY DEF Publishing, PublisherRow
<1>2. ASSUME NEW b \in PostRow, OfStream(o, p.gen, b)
      PROVE  [b EXCEPT !.phase = x] \in PostRow /\ OfStream(o, p.gen, [b EXCEPT !.phase = x])
  BY <1>2 DEF OfStream, PostRow
<1>3. PICK post : post = [p.post EXCEPT !.phase = x]
  OBVIOUS
<1>4. PICK sending : sending = [p.sending EXCEPT !.phase = x]
  OBVIOUS
<1>5. /\ post \in PostRow /\ OfStream(o, p.gen, post)
      /\ sending \in PostRow /\ OfStream(o, p.gen, sending)
  BY <1>1, <1>2, <1>3, <1>4 DEF Publishing
<1>6. q = [p EXCEPT !.post = post] /\ r = [p EXCEPT !.sending = sending]
  BY <1>1, <1>3, <1>4 DEF PublisherRow
<1> HIDE DEF q, r
<1>7. /\ q \in PublisherRow /\ q.gen = p.gen /\ q.attempt = p.attempt /\ q.seq = p.seq
      /\ q.queue = p.queue /\ q.batch = p.batch /\ q.post = post /\ q.loose = p.loose
      /\ q.terminal = p.terminal /\ q.sending = p.sending
  BY <1>1, <1>5, <1>6 DEF PublisherRow
<1>8. /\ r \in PublisherRow /\ r.gen = p.gen /\ r.attempt = p.attempt /\ r.seq = p.seq
      /\ r.queue = p.queue /\ r.batch = p.batch /\ r.post = p.post /\ r.loose = p.loose
      /\ r.terminal = p.terminal /\ r.sending = sending
  BY <1>1, <1>5, <1>6 DEF PublisherRow
<1>9. Publishing(o, q, n, k) /\ Publishing(o, r, n, k)
  BY <1>5, <1>7, <1>8 DEF Publishing
<1>10. QED
  BY <1>7, <1>8, <1>9, GoesSame DEF q, r

LEMMA TerminalAnsweredAdvances ==
  ASSUME NEW o \in Origins, Along(o), TerminalAnswered
  PROVE  LiveInv'
<1>1. /\ Turns /\ Publishing(o, pub, play.begun, play.k)
      /\ pub \in PublisherRow /\ pub.gen \in Nat /\ pub.terminal \in TerminalRow
  BY DEF Along, Publishing, PublisherRow
<1>2. PICK t : t = [pub.terminal EXCEPT
                     !.state = IF pub.sending.phase = "ok" THEN "none" ELSE pub.terminal.state]
  OBVIOUS
<1>3. t \in TerminalRow /\ t.gen = pub.terminal.gen
  BY <1>1, <1>2 DEF TerminalRow
<1>4. pub' = [pub EXCEPT !.sending = NoPost, !.terminal = t]
  BY <1>1, <1>2 DEF TerminalAnswered, PublisherRow, TerminalRow
<1>5. NoPost \in PostRow /\ OfStream(o, pub.gen, NoPost)
  BY <1>1, NoPostOfStream DEF OfStream
<1>6. /\ pub' \in PublisherRow /\ pub'.gen = pub.gen /\ pub'.attempt = pub.attempt
      /\ pub'.seq = pub.seq /\ pub'.queue = pub.queue /\ pub'.batch = pub.batch
      /\ pub'.post = pub.post /\ pub'.loose = pub.loose
      /\ pub'.terminal = t /\ pub'.sending = NoPost
  BY <1>1, <1>3, <1>4, <1>5 DEF PublisherRow
<1>7. Publishing(o, pub', play.begun, play.k)
  BY <1>1, <1>3, <1>5, <1>6 DEF Publishing
<1>8. UNCHANGED <<play, turn, relay, view, ask>>
  BY DEF TerminalAnswered
<1>9. Goes(o, pub, pub', play'.begun, play'.k) /\ Turns'
  BY <1>1, <1>6, <1>7, <1>8, GoesSame DEF Turns
<1>10. QED
  BY <1>8, <1>9, Advance

LEMMA TerminalTimesOutAdvances ==
  ASSUME NEW o \in Origins, Along(o), TerminalTimesOut
  PROVE  LiveInv'
<1>1. /\ Turns /\ Publishing(o, pub, play.begun, play.k)
      /\ pub \in PublisherRow /\ pub.gen \in Nat /\ pub.terminal \in TerminalRow
      /\ pub.terminal.gen <= pub.gen
  BY DEF Along, Publishing, PublisherRow
<1>2. PICK t : t = [pub.terminal EXCEPT !.state = "none"]
  OBVIOUS
<1>3. t \in TerminalRow /\ t.gen <= pub.gen
  BY <1>1, <1>2 DEF TerminalRow
<1>4. pub' = [pub EXCEPT !.terminal = t] /\ UNCHANGED <<play, turn, relay, view, ask>>
  BY <1>1, <1>2 DEF TerminalTimesOut, PublisherRow
<1>5. Publishing(o, pub', play.begun, play.k) /\ pub'.gen = pub.gen
  BY <1>1, <1>3, <1>4, TerminalKeeps
<1>6. Goes(o, pub, pub', play'.begun, play'.k) /\ Turns'
  BY <1>1, <1>4, <1>5, GoesSame DEF Turns
<1>7. QED
  BY <1>4, <1>6, Advance

(* A run begins: the publisher is of an attempt before it. *)
LEMMA BeginRunAdvances ==
  ASSUME NEW o \in Origins, Along(o), BeginRun
  PROVE  LiveInv'
<1>1. /\ Turns /\ Publishing(o, pub, play.begun, play.k)
      /\ pub.attempt \in Nat /\ pub.attempt <= play.begun /\ play.begun \in Nat
  BY IdIsPresent DEF Along, Publishing, PublisherRow
<1>2. /\ play' = [play EXCEPT !.begun = play.begun + 1, !.alive = TRUE, !.k = 0]
      /\ play.begun < MaxPlays /\ UNCHANGED <<turn, pub, relay, view, ask>>
  BY DEF BeginRun
<1>3. Turns' /\ play'.begun = play.begun + 1 /\ play'.k = 0
  <2>1. play.begun + 1 \in 0..MaxPlays /\ play.started <= play.begun + 1 /\ 0 \in Nat
    BY <1>1, <1>2, LiveBounds DEF Turns
  <2>2. PICK n : n = play.begun + 1
    OBVIOUS
  <2>3. play' = [play EXCEPT !.begun = n, !.alive = TRUE, !.k = 0]
    BY <1>2, <2>2
  <2>4. /\ play' \in [begun : 0..MaxPlays, alive : BOOLEAN, k : Nat, started : Nat,
                      closed : Nat]
        /\ play'.started = play.started /\ play'.begun = n /\ play'.k = 0
    BY <1>1, <2>1, <2>2, <2>3 DEF Turns
  <2>5. QED
    BY <1>1, <1>2, <2>1, <2>2, <2>4 DEF Turns
<1>4. pub.attempt <= play'.begun /\ pub.attempt # play'.begun
  BY <1>1, <1>3
<1>5. Publishing(o, pub, play'.begun, play'.k)
  BY <1>1, <1>4 DEF Publishing
<1>6. Goes(o, pub, pub', play'.begun, play'.k)
  BY <1>2, <1>5, GoesSame
<1>7. QED
  BY <1>2, <1>3, <1>6, Advance

(* The journal and the server's attempt move on. *)
LEMMA JournalAdvances ==
  ASSUME NEW o \in Origins, Along(o), StartAcked \/ EndHandled \/ EndAcked \/ EndedTimesOut
  PROVE  LiveInv'
<1>1. Turns /\ Publishing(o, pub, play.begun, play.k)
  BY DEF Along
<1>2. UNCHANGED <<pub, relay, view, ask>> /\ play'.begun = play.begun /\ play'.k = play.k
  BY <1>1 DEF StartAcked, EndHandled, EndAcked, EndedTimesOut, Turns
<1>3. Turns'
  <2>1. CASE StartAcked
    <3>1. /\ play' = [play EXCEPT !.started = play.started + 1]
          /\ turn' = [turn EXCEPT !.now = play'.started] /\ play.started < play.begun
      BY <2>1 DEF StartAcked
    <3>2. play.started + 1 \in 0..MaxPlays /\ play.started + 1 <= play.begun
      BY <1>1, <3>1, LiveBounds DEF Turns
    <3>3. /\ play' \in [begun : 0..MaxPlays, alive : BOOLEAN, k : Nat, started : Nat,
                        closed : Nat]
          /\ play'.started = play.started + 1 /\ play'.begun = play.begun
      BY <1>1, <3>1, <3>2 DEF Turns
    <3>4. QED
      BY <1>1, <3>1, <3>2, <3>3 DEF Turns
  <2>2. CASE EndHandled
    <3>1. turn' = [now |-> 0, ended |-> turn.now] /\ UNCHANGED play /\ 0 \in 0..MaxPlays
      BY <2>2, LiveBounds DEF EndHandled
    <3>2. QED
      BY <1>1, <3>1 DEF Turns
  <2>3. CASE EndAcked
    BY <1>1, <2>3 DEF EndAcked, Turns
  <2>4. CASE EndedTimesOut
    <3>1. turn' = [turn EXCEPT !.ended = 0] /\ UNCHANGED play /\ 0 \in 0..MaxPlays
      BY <2>4, LiveBounds DEF EndedTimesOut
    <3>2. QED
      BY <1>1, <3>1 DEF Turns
  <2>5. QED
    BY <2>1, <2>2, <2>3, <2>4
<1>4. Goes(o, pub, pub', play'.begun, play'.k)
  BY <1>1, <1>2, GoesSame
<1>5. QED
  BY <1>2, <1>3, <1>4, Advance

(* A step that begins no generation. *)
LEMMA Stays ==
  ASSUME NEW o \in Origins, Along(o), UNCHANGED <<play, turn>>,
         Goes(o, pub, pub', play.begun, play.k), pub'.gen = pub.gen,
         Relayed(o, pub.gen, relay)' \/ (UNCHANGED relay), 
         Asking(o, pub.gen, ask)' \/ (UNCHANGED ask),
         Watching(o, pub.gen, view)' \/ (UNCHANGED view)
  PROVE  LiveInv'
<1>1. PICK o2 \in Origins : /\ SameUpTo(o, o2, pub.gen)
                            /\ Publishing(o2, pub', play.begun, play.k)
  BY DEF Goes
<1>2. pub.gen \in Nat /\ pub'.gen = pub.gen /\ Turns
  BY DEF Along, Publishing, PublisherRow
<1>3. /\ Relayed(o, pub.gen, relay)' /\ Asking(o, pub.gen, ask)'
      /\ Watching(o, pub.gen, view)'
  BY <1>2 DEF Along
<1>4. /\ Relayed(o2, pub.gen, relay)' /\ Asking(o2, pub.gen, ask)'
      /\ Watching(o2, pub.gen, view)'
  <2>1. Relayed(o2, pub.gen, relay)'
    BY <1>1, <1>2, <1>3, FollowsLater DEF Relayed, RelayRow
  <2>2. Asking(o2, pub.gen, ask)'
    <3>1. ASSUME NEW r, Streamed(o, pub.gen, r) PROVE Streamed(o2, pub.gen, r)
      <4>1. r \in StreamRow /\ r.gen \in 0..pub.gen /\ r.gen <= pub.gen
        BY <1>2, <3>1 DEF Streamed, StreamRow
      <4>2. QED
        BY <1>1, <1>2, <3>1, <4>1, FollowsLater DEF Streamed
    <3>2. QED
      BY <1>2, <1>3, <3>1 DEF Asking
  <2>3. Watching(o2, pub.gen, view)'
    <3>1. view'.gen \in 0..pub.gen
      BY <1>2, <1>3 DEF Watching, ViewRow
    <3>2. o2[view'.gen] = o[view'.gen]
      BY <1>1, <3>1 DEF SameUpTo
    <3>3. QED
      BY <1>3, <3>2 DEF Watching, Fits
  <2>4. QED
    BY <2>1, <2>2, <2>3
<1>5. Along(o2)'
  BY <1>1, <1>2, <1>4 DEF Along, Turns
<1>6. QED
  BY <1>5 DEF LiveInv

(* A POST arrives, or an abandoned one. *)
LEMMA ServeAdvances ==
  ASSUME NEW o \in Origins, Along(o), ServePost \/ ServeTerminal \/ ServeLoose
  PROVE  LiveInv'
<1>1. /\ Turns /\ Publishing(o, pub, play.begun, play.k) /\ Relayed(o, pub.gen, relay)
      /\ pub \in PublisherRow /\ pub.gen \in Nat
  BY DEF Along, Publishing, PublisherRow
<1>2. ASSUME NEW b, OfStream(o, pub.gen, b), Receive(b)
      PROVE  Relayed(o, pub.gen, relay')
  BY <1>1, <1>2, ReceiveRelays
<1>3. CASE ServePost
  <2>1. OfStream(o, pub.gen, pub.post)
    BY <1>1 DEF Publishing
  <2>2. /\ Receive(pub.post) \/ UNCHANGED relay
        /\ \E x \in {"ok", "conflict", "error"} : pub' = [pub EXCEPT !.post.phase = x]
        /\ UNCHANGED <<play, turn, view, ask>>
    BY <1>3 DEF ServePost, PostReply
  <2>3. Goes(o, pub, pub', play.begun, play.k) /\ pub'.gen = pub.gen
    <3>1. PICK x \in {"none", "sent", "ok", "conflict", "error"} :
            pub' = [pub EXCEPT !.post.phase = x]
      BY <2>2
    <3>2. PICK q : q = [pub EXCEPT !.post.phase = x]
      OBVIOUS
    <3>3. Goes(o, pub, q, play.begun, play.k) /\ q.gen = pub.gen
      BY <1>1, <3>2, PhaseKeeps
    <3>4. QED
      BY <3>1, <3>2, <3>3
  <2>4. Relayed(o, pub.gen, relay') \/ UNCHANGED relay
    BY <1>2, <2>1, <2>2
  <2>5. QED
    BY <2>2, <2>3, <2>4, Stays
<1>4. CASE ServeTerminal
  <2>1. OfStream(o, pub.gen, pub.sending)
    BY <1>1 DEF Publishing
  <2>2. /\ Receive(pub.sending) \/ UNCHANGED relay
        /\ \E x \in {"ok", "conflict", "error"} : pub' = [pub EXCEPT !.sending.phase = x]
        /\ UNCHANGED <<play, turn, view, ask>>
    BY <1>4 DEF ServeTerminal, PostReply
  <2>3. Goes(o, pub, pub', play.begun, play.k) /\ pub'.gen = pub.gen
    <3>1. PICK x \in {"none", "sent", "ok", "conflict", "error"} :
            pub' = [pub EXCEPT !.sending.phase = x]
      BY <2>2
    <3>2. PICK q : q = [pub EXCEPT !.sending.phase = x]
      OBVIOUS
    <3>3. Goes(o, pub, q, play.begun, play.k) /\ q.gen = pub.gen
      BY <1>1, <3>2, PhaseKeeps
    <3>4. QED
      BY <3>1, <3>2, <3>3
  <2>4. Relayed(o, pub.gen, relay') \/ UNCHANGED relay
    BY <1>2, <2>1, <2>2
  <2>5. QED
    BY <2>2, <2>3, <2>4, Stays
<1>5. CASE ServeLoose
  <2>1. PICK b \in pub.loose :
          /\ Receive(b) \/ UNCHANGED relay
          /\ pub' = [pub EXCEPT !.loose = pub.loose \ {b}]
    BY <1>5 DEF ServeLoose
  <2>2. OfStream(o, pub.gen, b) /\ pub.loose \in SUBSET PostRow
    BY <1>1 DEF Publishing, PublisherRow
  <2>3. PICK rest : rest = pub.loose \ {b}
    OBVIOUS
  <2>4. rest \in SUBSET PostRow /\ rest \subseteq pub.loose
    BY <2>2, <2>3
  <2>5. /\ pub' \in PublisherRow /\ pub'.gen = pub.gen /\ pub'.attempt = pub.attempt
        /\ pub'.seq = pub.seq /\ pub'.queue = pub.queue /\ pub'.batch = pub.batch
        /\ pub'.post = pub.post /\ pub'.loose = rest
        /\ pub'.terminal = pub.terminal /\ pub'.sending = pub.sending
    BY <1>1, <2>1, <2>3, <2>4 DEF PublisherRow
  <2>6. Publishing(o, pub', play.begun, play.k)
    BY <1>1, <2>4, <2>5 DEF Publishing
  <2>7. Goes(o, pub, pub', play.begun, play.k)
    BY <2>5, <2>6, GoesSame
  <2>8. Relayed(o, pub.gen, relay') \/ UNCHANGED relay
    BY <1>2, <2>1, <2>2
  <2>9. UNCHANGED <<play, turn, view, ask>>
    BY <1>5 DEF ServeLoose
  <2>10. QED
    BY <2>5, <2>7, <2>8, <2>9, Stays
<1>6. QED
  BY <1>3, <1>4, <1>5

(* The server drops a stream, or the viewer asks, is answered or starts over. *)
LEMMA ViewerAdvances ==
  ASSUME NEW o \in Origins, Along(o),
         \/ StreamTimesOut \/ PollStream \/ Answer \/ AnswerLost \/ Apply
         \/ ViewAgain \/ RestoreScene
  PROVE  LiveInv'
<1>1. /\ Turns /\ Publishing(o, pub, play.begun, play.k) /\ pub.gen \in Nat
      /\ Relayed(o, pub.gen, relay) /\ Asking(o, pub.gen, ask) /\ Watching(o, pub.gen, view)
  BY DEF Along, Publishing, PublisherRow
<1>2. UNCHANGED <<play, turn, pub>>
  BY DEF StreamTimesOut, PollStream, Answer, AnswerLost, Apply, ViewAgain, RestoreScene
<1>3. Goes(o, pub, pub', play.begun, play.k) /\ pub'.gen = pub.gen
  BY <1>1, <1>2, GoesSame
<1>4. Asking(o, pub.gen, NoAsk)
  BY DEF Asking, NoAsk
<1>5. CASE StreamTimesOut
  <2>1. Relayed(o, pub.gen, relay') /\ UNCHANGED <<view, ask>>
    BY <1>1, <1>5, NoStreamRelayed DEF StreamTimesOut
  <2>2. QED
    BY <1>2, <1>3, <2>1, Stays
<1>6. CASE PollStream
  <2>1. Asking(o, pub.gen, ask') /\ UNCHANGED <<relay, view>>
    BY <1>6 DEF PollStream, Asking, NoAsk
  <2>2. QED
    BY <1>2, <1>3, <2>1, Stays
<1>7. CASE Answer
  <2>1. /\ relay' = Left /\ UNCHANGED view
        /\ ask' = [phase |-> "answered", r |-> Subscribe(ask)]
    BY <1>7 DEF Answer
  <2>2. Relayed(o, pub.gen, relay')
    BY <1>1, <2>1, NoStreamRelayed, KeptRelayed DEF Left
  <2>3. Subscribe(ask).kind \in {"fallback", "waiting"} \/ Streamed(o, pub.gen, Subscribe(ask))
    BY <1>1, ReadStreams DEF Subscribe
  <2>4. Asking(o, pub.gen, ask')
    BY <2>1, <2>3 DEF Asking
  <2>5. QED
    BY <1>2, <1>3, <2>1, <2>2, <2>4, Stays
<1>8. CASE AnswerLost
  <2>1. Asking(o, pub.gen, ask') /\ UNCHANGED <<relay, view>>
    BY <1>4, <1>8 DEF AnswerLost
  <2>2. QED
    BY <1>2, <1>3, <2>1, Stays
<1>9. CASE Apply
  <2>1. /\ ask.phase = "answered" /\ view' = Applied(view, ask.r) /\ ask' = NoAsk
        /\ UNCHANGED relay
    BY <1>9 DEF Apply
  <2>2. ask.r.kind \in {"fallback", "waiting"} \/ Streamed(o, pub.gen, ask.r)
    BY <1>1, <2>1 DEF Asking
  <2>3. Watching(o, pub.gen, view') /\ Asking(o, pub.gen, ask')
    BY <1>1, <1>4, <2>1, <2>2, AppliedWatches
  <2>4. QED
    BY <1>2, <1>3, <2>1, <2>3, Stays
<1>10. CASE ViewAgain
  <2>1. view' = NoView /\ ask' = NoAsk /\ UNCHANGED relay
    BY <1>10 DEF ViewAgain
  <2>2. Watching(o, pub.gen, NoView)
    BY <1>1, LiveBounds DEF Watching, ViewRow, NoView
  <2>3. Watching(o, pub.gen, view') /\ Asking(o, pub.gen, ask')
    BY <1>4, <2>1, <2>2
  <2>4. QED
    BY <1>2, <1>3, <2>1, <2>3, Stays
<1>11. CASE RestoreScene
  <2>1. view' = [view EXCEPT !.force = TRUE, !.fails = 0] /\ UNCHANGED <<relay, ask>>
    BY <1>11 DEF RestoreScene
  <2>2. view \in ViewRow /\ 0 \in 0..FailureLimit
    BY <1>1, LiveBounds DEF Watching
  <2>3. /\ view' \in ViewRow /\ view'.gen = view.gen /\ view'.last = view.last
        /\ view'.shown = view.shown /\ view'.over = view.over
    BY <2>1, <2>2 DEF ViewRow
  <2>4. Watching(o, pub.gen, view')
    BY <1>1, <2>3 DEF Watching, Sequel
  <2>5. QED
    BY <1>2, <1>3, <2>1, <2>4, Stays
<1>12. QED
  BY <1>5, <1>6, <1>7, <1>8, <1>9, <1>10, <1>11

-----------------------------------------------------------------------------
(* The theorems *)

LEMMA LiveInvInit == LiveInit => LiveInv
<1> SUFFICES ASSUME LiveInit PROVE LiveInv
  OBVIOUS
<1> DEFINE o == [g \in Nat |-> [of |-> 0, shift |-> 0]]
<1>1. o \in Origins
  BY DEF Origins
<1> HIDE DEF o
<1>2. Turns
  BY LiveBounds DEF LiveInit, Turns
<1>3. /\ NoPost \in PostRow /\ NoTerminal \in TerminalRow /\ <<>> \in Seq(Packet)
      /\ OfStream(o, 0, NoPost) /\ Follows(o, 0, <<>>) /\ NoTerminal.gen = 0
      /\ Len(<<>>) <= QueueCap /\ Len(<<>>) <= BatchMax
  BY LiveBounds DEF NoPost, PostRow, NoTerminal, TerminalRow, Pose, OfStream, Follows
<1>4. /\ pub \in PublisherRow /\ pub.gen = 0 /\ pub.attempt = 0 /\ pub.queue = <<>>
      /\ pub.batch = <<>> /\ pub.post = NoPost /\ pub.sending = NoPost /\ pub.loose = {}
      /\ pub.terminal = NoTerminal
  BY <1>3 DEF LiveInit, NewPublisher, PublisherRow
<1>5. play.begun = 0 /\ play.k = 0
  BY DEF LiveInit
<1>6. Publishing(o, pub, play.begun, play.k)
  BY <1>3, <1>4, <1>5 DEF Publishing
<1>7. Relayed(o, pub.gen, relay)
  BY <1>4, NoStreamRelayed DEF LiveInit
<1>8. Asking(o, pub.gen, ask)
  BY DEF LiveInit, Asking, NoAsk
<1>9. Watching(o, pub.gen, view)
  <2>1. view = NoView
    BY DEF LiveInit
  <2>2. Watching(o, 0, NoView)
    BY LiveBounds DEF Watching, ViewRow, NoView
  <2>3. QED
    BY <1>4, <2>1, <2>2
<1>10. QED
  BY <1>1, <1>2, <1>6, <1>7, <1>8, <1>9 DEF LiveInv, Along

(* Every packet under way, held by the relay or shown belongs to a generation,
   and its picture is the one that the origin of that generation has there. *)
THEOREM LiveInvariant == LiveSpec => []LiveInv
<1>1. LiveInv /\ [LiveNext]_liveVars => LiveInv'
  <2> SUFFICES ASSUME LiveInv, [LiveNext]_liveVars PROVE LiveInv'
    OBVIOUS
  <2>1. PICK o \in Origins : Along(o)
    BY DEF LiveInv
  <2>2. CASE \E due \in BOOLEAN : Frame(due)
    BY <2>1, <2>2, FrameAdvances
  <2>3. CASE Die
    BY <2>1, <2>3, DieAdvances
  <2>4. CASE PostAnswered
    BY <2>1, <2>4, PostAnsweredAdvances
  <2>5. CASE TerminalAnswered
    BY <2>1, <2>5, TerminalAnsweredAdvances
  <2>6. CASE BeginRun
    BY <2>1, <2>6, BeginRunAdvances
  <2>7. CASE StartAcked \/ EndHandled \/ EndAcked \/ EndedTimesOut
    BY <2>1, <2>7, JournalAdvances
  <2>8. CASE ServePost \/ ServeTerminal \/ ServeLoose
    BY <2>1, <2>8, ServeAdvances
  <2>9. CASE TerminalTimesOut
    BY <2>1, <2>9, TerminalTimesOutAdvances
  <2>10. CASE \/ StreamTimesOut \/ PollStream \/ Answer \/ AnswerLost \/ Apply
              \/ ViewAgain \/ RestoreScene
    BY <2>1, <2>10, ViewerAdvances
  <2>11. CASE UNCHANGED liveVars
    <3>1. UNCHANGED <<play, turn, pub, relay, view, ask>>
      BY <2>11 DEF liveVars
    <3>2. Along(o)'
      BY <2>1, <3>1 DEF Along, Turns
    <3>3. QED
      BY <3>2 DEF LiveInv
  <2>12. QED
    BY <2>2, <2>3, <2>4, <2>5, <2>6, <2>7, <2>8, <2>9, <2>10, <2>11 DEF LiveNext
<1>2. QED
  BY <1>1, LiveInvInit, PTL DEF LiveSpec

(* What a viewer is shown of one stream are the pictures of one attempt as they
   were taken, whatever is lost, repeated, abandoned or begun anew
   (SpectatorLiveRuntime.cpp, spectator-live.service.ts, spectator-relay.ts). *)
THEOREM LiveInOrder == LiveSpec => []PresentedInOrder
<1>1. LiveInv => PresentedInOrder
  BY DEF LiveInv, Along, Watching, Sequel, PresentedInOrder
<1>2. QED
  BY <1>1, LiveInvariant, PTL

(* The publisher's queue and batch, the relay's stream and the viewer keep
   their bounds. *)
THEOREM LiveTypes == LiveSpec => []LiveTypeOK
<1>1. LiveInv => LiveTypeOK
  <2> SUFFICES ASSUME NEW o \in Origins, Along(o) PROVE LiveTypeOK
    BY DEF LiveInv
  <2>1. Len(pub.queue) <= QueueCap /\ Len(pub.batch) <= BatchMax
    BY DEF Along, Publishing
  <2>2. pub.terminal.state \in {"none", "deferred", "pending"}
    BY DEF Along, Publishing, PublisherRow, TerminalRow
  <2>3. turn.now \in 0 .. MaxPlays /\ turn.ended \in 0 .. MaxPlays
    BY DEF Along, Turns
  <2>4. relay.attempt \in 0 .. MaxPlays
    BY DEF Along, Relayed, RelayRow
  <2>5. view.attempt \in 0 .. MaxPlays /\ view.fails \in 0 .. FailureLimit
    BY DEF Along, Watching, ViewRow
  <2>6. ask.phase \in {"none", "sent", "answered"}
    BY DEF Along, Asking
  <2>7. QED
    BY <2>1, <2>2, <2>3, <2>4, <2>5, <2>6 DEF LiveTypeOK
<1>2. QED
  BY <1>1, LiveInvariant, PTL

-----------------------------------------------------------------------------
(* The parts together *)

\* A behaviour exercises one part, and the others stutter.
LEMMA PartsAreTheirSpecs ==
  PartsSpec => Spec /\ PrepSpec /\ OutboxSpec /\ LiveSpec /\ Survival!Spec
<1>1. Init_ => Init /\ PrepInit /\ OutboxInit /\ LiveInit /\ Survival!Init
  BY DEF Init_
<1>2. survivalVars = Survival!vars /\ survivalVars' = Survival!vars'
  BY DEF survivalVars, Survival!vars
<1>3. [Next_]_<<part, vars, prepVars, outboxVars, liveVars, survivalVars>> =>
        /\ [Next]_vars /\ [PrepNext]_prepVars /\ [OutboxNext]_outboxVars
        /\ [LiveNext]_liveVars /\ [Survival!Next]_Survival!vars
  BY <1>2 DEF Next_
<1>4. QED
  BY <1>1, <1>3, PTL DEF PartsSpec, Spec, PrepSpec, OutboxSpec, LiveSpec, Survival!Spec

\* Whichever part a behaviour exercises, the state of every part keeps its shape
\* (RankedRuntime::QueuedAttempt, RoundState, RankedRoundPreparation,
\* ranked_outbox_events, SpectatorLiveRuntime, SurvivalMatch).
THEOREM PartsTypes == PartsSpec => []TypesOK
<1>1. Survival!Spec => []Survival!SurvivalTypeOK
  BY Survival!SurvivalTypes, SurvivalBounds, PTL
<1>2. TypeOK /\ PrepTypeOK /\ OutboxTypeOK /\ LiveTypeOK /\ Survival!SurvivalTypeOK => TypesOK
  BY DEF TypesOK
<1>3. QED
  BY <1>1, <1>2, PartsAreTheirSpecs, TransportTypes, PreparationTypes, OutboxTypes, LiveTypes, PTL

=============================================================================
