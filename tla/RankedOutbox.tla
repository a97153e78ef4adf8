---------------------------- MODULE RankedOutbox ----------------------------
(***************************************************************************)
(* The outbox of match events and the worker that relays them: enqueue      *)
(* (outbox.service.ts) inside a transaction of the match, the signal after  *)
(* its commit (database.service.ts, database-work.ts), the DemandWorker     *)
(* that sleeps until it is signalled, and the claims and deliveries of      *)
(* discord-relay.worker.ts.  A step ends where the code awaits.  The        *)
(* process may crash at any step; the rows of the table survive.            *)
(***************************************************************************)
EXTENDS Integers, FiniteSets

CONSTANTS
  Events,        \* the deduplication keys of the events
  MaxAttempts,   \* config.maximumAttempts
  BatchSize,     \* config.batchSize
  MaxCrashes     \* bound: crashes of the process

ASSUME OutboxBounds == {MaxAttempts, BatchSize, MaxCrashes} \subseteq Nat

VARIABLES
  rows,      \* ranked_outbox_events, by deduplication key
  signals,   \* commits whose transaction has not called its listeners yet
  worker,    \* the DemandWorker and the pass it is in
  crashes

outboxVars == <<rows, signals, worker, crashes>>

NoRow == [state |-> "absent", tries |-> 0, leased |-> FALSE]
\* woken: the generation has changed since the pass took its copy of it.
Asleep == [started |-> FALSE, timer |-> FALSE, at |-> "idle", woken |-> FALSE,
           batch |-> {}, more |-> FALSE]

OutboxTypeOK ==
  /\ rows \in [Events -> [state : {"absent", "waiting", "delivered", "abandoned"},
                          tries : 0 .. MaxAttempts, leased : BOOLEAN]]
  /\ worker.at \in {"idle", "claim", "deliver", "ask", "settle"}
  /\ worker.batch \subseteq Events /\ signals \subseteq Events

\* Rows that a claim may take once their lease is over, and that keep the
\* worker awake.
Due == {e \in Events : rows[e].state = "waiting" /\ rows[e].tries < MaxAttempts}

-----------------------------------------------------------------------------
(* The transactions of the matches. *)

\* DemandWorker.wake: the timer keeps it awake, and a pass begins if none runs.
Woken(w) ==
  IF ~w.started THEN w
  ELSE IF w.at = "idle" THEN [w EXCEPT !.timer = TRUE, !.at = "claim", !.woken = FALSE]
  ELSE [w EXCEPT !.timer = TRUE, !.woken = TRUE]

\* COMMIT takes effect; ON CONFLICT DO NOTHING for an event that is there.
Commit(e) ==
  /\ rows[e].state = "absent" /\ e \notin signals
  /\ rows' = [rows EXCEPT ![e].state = "waiting"] /\ signals' = signals \union {e}
  /\ UNCHANGED <<worker, crashes>>
\* The commit is acknowledged: afterCommit; or its acknowledgement is lost:
\* reconcile.  Both wake the worker.
CommitReturns(e) ==
  /\ e \in signals /\ signals' = signals \ {e} /\ worker' = Woken(worker)
  /\ UNCHANGED <<rows, crashes>>

-----------------------------------------------------------------------------
(* The worker. *)

TimerFires ==
  /\ worker.timer /\ worker.at = "idle"
  /\ worker' = [worker EXCEPT !.at = "claim", !.woken = FALSE]
  /\ UNCHANGED <<rows, signals, crashes>>

\* claim: one attempt is counted and the row leased before anything is sent.
Claim ==
  /\ worker.at = "claim" /\ UNCHANGED <<signals, crashes>>
  /\ LET free == {e \in Due : ~rows[e].leased} IN
     \E B \in SUBSET free :
       /\ Cardinality(B) = IF Cardinality(free) < BatchSize THEN Cardinality(free)
                           ELSE BatchSize
       /\ rows' = [e \in Events |-> IF e \in B
                     THEN [rows[e] EXCEPT !.tries = @ + 1, !.leased = TRUE] ELSE rows[e]]
       /\ worker' = [worker EXCEPT !.at = IF B = {} THEN "ask" ELSE "deliver", !.batch = B]

\* Without a row to send, or when the database fails: on to the next query.
Leave(B) == [worker EXCEPT !.batch = B, !.at = IF B = {} THEN "ask" ELSE "deliver"]
ClaimFails == /\ worker.at = "claim" /\ worker' = Leave({}) /\ UNCHANGED <<rows, signals, crashes>>

\* deliver: sent and marked; or not sent, or sent and the mark refused, with a
\* delay, and given up after the last attempt; or the database takes neither
\* mark, which ends the pass over the batch.
Deliver ==
  /\ worker.at = "deliver" /\ UNCHANGED <<signals, crashes>>
  /\ \E e \in worker.batch :
       \/ /\ rows' = [rows EXCEPT ![e].state = "delivered"]
          /\ worker' = Leave(worker.batch \ {e})
       \/ /\ rows' = [rows EXCEPT ![e].state =
                        IF rows[e].tries >= MaxAttempts THEN "abandoned" ELSE @]
          /\ worker' = Leave(worker.batch \ {e})
       \/ UNCHANGED rows /\ worker' = Leave({})

\* available_at passes, of a lease or of a delay.
LeaseEnds(e) ==
  /\ rows[e].leased /\ rows' = [rows EXCEPT ![e].leased = FALSE]
  /\ UNCHANGED <<signals, worker, crashes>>

\* The query whether anything is left; when it fails the timer is armed again.
Ask ==
  /\ worker.at = "ask" /\ UNCHANGED <<rows, signals, crashes>>
  /\ worker' = [worker EXCEPT !.at = "settle", !.more = Due # {}]
AskFails ==
  /\ worker.at = "ask" /\ UNCHANGED <<rows, signals, crashes>>
  /\ worker' = [worker EXCEPT !.at = "idle", !.timer = TRUE]

\* Bug: the wake-up that came during the pass is not looked at.
BugSettled(w) == [w EXCEPT !.at = "idle", !.timer = @ /\ w.more]

\* cycle's then: the timer stops only when nothing is left and nobody signalled.
Settled(w) ==
  [w EXCEPT !.at = "idle", !.timer = @ /\ (w.more \/ w.woken)]
Settle == /\ worker.at = "settle" /\ worker' = Settled(worker)
          /\ UNCHANGED <<rows, signals, crashes>>

Crash ==
  /\ crashes < MaxCrashes /\ crashes' = crashes + 1 /\ worker.started
  /\ worker' = Asleep /\ signals' = {} /\ UNCHANGED rows
\* onApplicationBootstrap: started, and woken once for what is in the table.
Start ==
  /\ ~worker.started /\ worker' = Woken([worker EXCEPT !.started = TRUE])
  /\ UNCHANGED <<rows, signals, crashes>>

-----------------------------------------------------------------------------
OutboxInit ==
  /\ rows = [e \in Events |-> NoRow] /\ signals = {} /\ worker = Asleep /\ crashes = 0

Pass == Claim \/ Deliver \/ Ask \/ Settle
OutboxNext ==
  \/ (\E e \in Events : Commit(e) \/ CommitReturns(e) \/ LeaseEnds(e))
  \/ Pass \/ ClaimFails \/ AskFails \/ TimerFires \/ Crash \/ Start

OutboxSpec == OutboxInit /\ [][OutboxNext]_outboxVars

\* Queries return, timers fire, leases end, and the process is started again;
\* the database does not fail for ever.
OutboxFairness ==
  /\ WF_outboxVars(Start) /\ WF_outboxVars(TimerFires) /\ WF_outboxVars(Pass)
  /\ SF_outboxVars(Claim) /\ SF_outboxVars(Ask)
  /\ \A e \in Events : WF_outboxVars(CommitReturns(e)) /\ SF_outboxVars(LeaseEnds(e))
FairOutboxSpec == OutboxSpec /\ OutboxFairness

-----------------------------------------------------------------------------
\* No committed event is forgotten: whatever the moment of its commit, of the
\* signal and of a crash, a row with an attempt left is tried until it is
\* delivered or its attempts are used up (generation fencing in DemandWorker,
\* reconcile after a lost COMMIT, the pass at start-up).
EventsAreTried == \A e \in Events : e \in Due ~> e \notin Due
=============================================================================
