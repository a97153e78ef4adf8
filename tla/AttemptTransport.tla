-------------------------- MODULE AttemptTransport --------------------------
(***************************************************************************)
(* How the runs of two players reach the round: the client's journal of     *)
(* Starts and Ends (corum-ranked-mod RankedRuntime), its start intents, and *)
(* the handlers of match.service.ts that turn them into operations of the   *)
(* round under the lock of the match row.                                   *)
(*                                                                         *)
(* A client journals each visual run as a Start and an End and sends them   *)
(* one at a time, the next only after an answer.  The intent of a run       *)
(* bypasses the journal.  A request that was sent once may be handled at    *)
(* any later time, any number of times or never: the client retries what    *)
(* was not answered, and a cancelled request may still arrive.  A handler   *)
(* reads the clock before it waits for the lock, so its time may be late.   *)
(* The clocks of the clients agree with the server's.                       *)
(***************************************************************************)
EXTENDS RoundRules

CONSTANTS
  Reports,         (* what a run may end with: records [percent, cleared]   *)
  TransportGrace,  (* ATTEMPT_TRANSPORT_GRACE_MS                            *)
  LeaseTtl,        (* ATTEMPT_START_INTENT_HARD_TTL_MS                      *)
  HandlerLag,      (* bound: how long a handler may wait for the lock       *)
  Present,         (* the sides whose client never leaves                   *)
  MaxRuns,         (* bound: the visual runs of each side                   *)
  MaxClock         (* bound: the last server time considered                *)

ASSUME TransportAssumption ==
  /\ Reports \subseteq {p \in [percent : 0..100, cleared : BOOLEAN] :
                          p.cleared => p.percent = 100}
  /\ TransportGrace \in Nat /\ LeaseTtl \in Nat \ {0} /\ HandlerLag \in Nat
  /\ Present \subseteq Side
  /\ MaxRuns \in [Side -> Nat] /\ MaxClock \in Nat

RunIds(s) == 1..MaxRuns[s]

VARIABLES
  clock,   (* the server's clock                                           *)
  server,  (* what the database keeps of the round                         *)
  runs,    (* the visual runs of each player, in order                     *)
  head     (* the run each journal is delivering                           *)

vars == <<clock, server, runs, head>>

NoReport == [percent |-> 0, cleared |-> FALSE]

(* attempt is the id that the accepted Start returned, 0 before; a run whose
   Start was rejected is DROPPED from the journal. *)
Run == [startedAt : Nat, status : {"RUNNING", "ENDED", "DROPPED"},
        report : Reports \cup {NoReport}, attempt : Nat]

Lease == [status : {"NONE", "PENDING", "CONSUMED", "INVALIDATED"},
          startedAt : Nat, observedAt : Nat]

NoLease == [status |-> "NONE", startedAt |-> 0, observedAt |-> 0]

(* server.starts[s][i] is the run whose Start event created attempt i. *)
Init ==
  /\ clock = 0
  /\ server = [round |-> CreateRound(0),
               leases |-> [s \in Side |-> [e \in RunIds(s) |-> NoLease]],
               starts |-> [s \in Side |-> <<>>]]
  /\ runs = [s \in Side |-> <<>>]
  /\ head = [s \in Side |-> 1]

-----------------------------------------------------------------------------
(* Start leases *)

Started(srv, s, e) == \E i \in DOMAIN srv.starts[s] : srv.starts[s][i] = e

(* Bug: a lease has no time to live. *)
BugLeaseForever(srv, s, e, now) ==
  IF srv.leases[s][e].status = "PENDING" /\ Started(srv, s, e)
  THEN [srv.leases[s][e] EXCEPT !.status = "CONSUMED"] ELSE srv.leases[s][e]

(* What hasPendingStartLease makes of a lease. *)
Swept(srv, s, e, now) ==
  LET r == srv.round
      lease == srv.leases[s][e]
  IN IF lease.status # "PENDING" THEN lease
     ELSE IF Started(srv, s, e) THEN [lease EXCEPT !.status = "CONSUMED"]
     ELSE IF \/ now - lease.observedAt >= LeaseTtl
             \/ lease.startedAt >= StartDeadline(r)
             \/ HasWindow(r) /\ s # Target(r)
     THEN [lease EXCEPT !.status = "INVALIDATED"]
     ELSE lease

SweepLeases(srv, now) ==
  [srv EXCEPT !.leases =
     [s \in Side |-> [e \in RunIds(s) |-> Swept(srv, s, e, now)]]]

SetLease(srv, s, e, status) == [srv EXCEPT !.leases[s][e].status = status]

(* consumeStartLeaseByIdentity *)
ConsumeLease(srv, s, e) ==
  IF srv.leases[s][e].status = "PENDING" THEN SetLease(srv, s, e, "CONSUMED")
  ELSE srv

Pending(srv) ==
  \E s \in Side : \E e \in RunIds(s) : srv.leases[s][e].status = "PENDING"

(* The round is past its start deadline, but a run that began in time is
   still being delivered. *)
HeldForLease(srv, now) == now >= StartDeadline(srv.round) /\ Pending(srv)

(* shouldHoldRoundForAttemptTransport *)
HeldForTransport(r, now) ==
  /\ \A s \in Side : Active(r, s) = {}
  /\ now >= StartDeadline(r)
  /\ now < StartDeadline(r) + TransportGrace

-----------------------------------------------------------------------------
(* advanceLockedMatch, in the states of a playing round *)

(* A clock that moved without changing the phase is not written back. *)
Written(r, advanced) == IF advanced.phase = r.phase THEN r ELSE advanced

(* Bug: nothing but the grace period holds the round. *)
BugNoLeaseHold(srv, now) ==
  LET swept == SweepLeases(srv, now) IN
  IF Finished(srv.round) THEN srv
  ELSE IF HeldForTransport(srv.round, now) THEN swept
  ELSE [swept EXCEPT !.round = Written(@, AdvanceRoundClock(@, now))]

AdvanceLockedMatch(srv, now) ==
  LET swept == SweepLeases(srv, now) IN
  IF Finished(srv.round) THEN srv
  ELSE IF Decided(srv.round, now)
  THEN [srv EXCEPT !.round = AdvanceRoundClock(@, now)]
  ELSE IF HeldForLease(swept, now) \/ HeldForTransport(srv.round, now) THEN swept
  ELSE [swept EXCEPT !.round = Written(@, AdvanceRoundClock(@, now))]

(* An earlier time than the round's throws, unless the clock is not moved. *)
AdvanceThrows(srv, now) ==
  /\ ~Finished(srv.round)
  /\ ~TimeAccepted(srv.round, now)
  /\ Decided(srv.round, now) \/ ~(\/ HeldForLease(SweepLeases(srv, now), now)
                                  \/ HeldForTransport(srv.round, now))

-----------------------------------------------------------------------------
(* The handlers *)

(* startAttemptIntent *)
HandleIntent(srv, s, e, startedAt, now) ==
  LET r == srv.round IN
  IF Started(srv, s, e) THEN ConsumeLease(srv, s, e)
  ELSE IF /\ ~Finished(r)
          /\ startedAt < StartDeadline(r)
          /\ now <= StartDeadline(r) + TransportGrace
          /\ HasWindow(r) => s = Target(r)
          /\ srv.leases[s][e] = NoLease
  THEN [srv EXCEPT !.leases[s][e] = [status |-> "PENDING", startedAt |-> startedAt,
                                     observedAt |-> now]]
  ELSE srv

(* Bug: the transport grace is granted to the run itself. *)
BugGraceIsPlay(startedAt, now) == now - TransportGrace

(* resolveAttemptStartTime *)
ResolveStartTime(startedAt, now) ==
  IF now - startedAt \in 0..TransportGrace THEN startedAt ELSE now

(* Whatever became of the round, the run is in it if it now has one more. *)
RecordStart(srv, s, e, r) ==
  [srv EXCEPT !.round = r,
              !.starts[s] = IF Len(r.attempts[s]) > Len(@) THEN Append(@, e) ELSE @]

(* Bug: the lease is spent whether its Start was accepted or not. *)
BugAlwaysSpend(srv, s, e, now) ==
  SetLease(RecordStart(srv, s, e,
             StartRoundAttemptFromIntent(srv.round, s, Len(srv.starts[s]) + 1,
                                         srv.leases[s][e].startedAt, now)),
           s, e, "CONSUMED")

StartWithLease(srv, s, e, now) ==
  LET r      == StartRoundAttemptFromIntent(srv.round, s, Len(srv.starts[s]) + 1,
                                            srv.leases[s][e].startedAt, now)
      stored == RecordStart(srv, s, e, r)
  IN IF Started(stored, s, e) THEN SetLease(stored, s, e, "CONSUMED")
     ELSE IF Active(srv.round, s) # {} THEN stored
     ELSE SetLease(stored, s, e, "INVALIDATED")

StartWithoutLease(srv, s, e, startedAt, now) ==
  LET claimed == ResolveStartTime(startedAt, now)
      at      == IF claimed >= srv.round.lastEvaluatedAt THEN claimed
                                                         ELSE srv.round.lastEvaluatedAt
  IN RecordStart(srv, s, e,
                 StartRoundAttempt(srv.round, s, Len(srv.starts[s]) + 1, at))

Leased(srv, s, e) == ~Finished(srv.round) /\ srv.leases[s][e].status = "PENDING"

(* Bug: a repeated Start is taken for a new one. *)
BugStartAgain(srv, s, e, startedAt, now) ==
  IF Leased(srv, s, e) THEN StartWithLease(srv, s, e, now)
  ELSE LET advanced == AdvanceLockedMatch(srv, now)
       IN IF Finished(advanced.round) THEN advanced
          ELSE StartWithoutLease(advanced, s, e, startedAt, now)

(* startAttempt: a lease spares the round the clock until its run is in. *)
HandleStart(srv, s, e, startedAt, now) ==
  IF Started(srv, s, e) THEN ConsumeLease(srv, s, e)
  ELSE IF Leased(srv, s, e) THEN StartWithLease(srv, s, e, now)
  ELSE LET advanced == AdvanceLockedMatch(srv, now)
       IN IF Finished(advanced.round) THEN advanced
          ELSE StartWithoutLease(advanced, s, e, startedAt, now)

StartThrows(srv, s, e, now) ==
  ~Started(srv, s, e) /\ ~Leased(srv, s, e) /\ AdvanceThrows(srv, now)

(* The End of this attempt is already recorded: the repetition is answered
   before the clock moves. *)
EndRecorded(srv, s, i) == srv.round.attempts[s][i].status = "ENDED"

(* Bug: an End ends the newest attempt, whichever it names. *)
BugEndNewest(srv, s, i, report, now) ==
  LET advanced == AdvanceLockedMatch(srv, now) IN
  IF Finished(advanced.round) THEN advanced
  ELSE [advanced EXCEPT !.round =
          EndRoundAttempt(@, s, Len(srv.starts[s]), now, report.percent,
                          report.cleared)]

(* endAttempt *)
HandleEnd(srv, s, i, report, now) ==
  LET advanced == AdvanceLockedMatch(srv, now) IN
  IF EndRecorded(srv, s, i) THEN srv
  ELSE IF Finished(advanced.round) THEN advanced
  ELSE [advanced EXCEPT !.round =
          EndRoundAttempt(@, s, i, now, report.percent, report.cleared)]

EndThrows(srv, s, i, now) ==
  /\ ~EndRecorded(srv, s, i)
  /\ ~Finished(srv.round)
  /\ \/ AdvanceThrows(srv, now)
     \/ ~TimeAccepted(srv.round, now)
     \/ /\ now < srv.round.attempts[s][i].startedAt
        /\ CanEndAttempt(AdvanceRoundClock(srv.round, now), s, i)

-----------------------------------------------------------------------------
(* The players and their clients *)

Playing(s) == runs[s] # <<>> /\ runs[s][Len(runs[s])].status = "RUNNING"

Tick ==
  /\ clock < MaxClock
  /\ clock' = clock + 1
  /\ UNCHANGED <<server, runs, head>>

(* reportAttemptStart *)
Begin(s) ==
  /\ ~Playing(s)
  /\ Len(runs[s]) < MaxRuns[s]
  /\ runs' = [runs EXCEPT ![s] = Append(@, [startedAt |-> clock, status |-> "RUNNING",
                                            report |-> NoReport, attempt |-> 0])]
  /\ UNCHANGED <<clock, server, head>>

(* reportAttemptEnd *)
Finish(s, report) ==
  /\ Playing(s)
  /\ runs' = [runs EXCEPT ![s][Len(runs[s])] = [@ EXCEPT !.status = "ENDED",
                                                         !.report = report]]
  /\ UNCHANGED <<clock, server, head>>

(* The times a handler may have read when it gets the lock. *)
HandlerNow == {now \in (clock - HandlerLag)..clock : now >= 0}

(* The journal is waiting for the answer to the Start, or End, of run e. *)
AwaitsStart(s, e) == head[s] = e /\ runs[s][e].attempt = 0
AwaitsEnd(s, e)   == head[s] = e /\ runs[s][e].attempt # 0

Bodies(s) == DOMAIN runs[s]

ReceiveIntent(s, e, now) ==
  /\ e \in Bodies(s)
  /\ now >= runs[s][e].startedAt
  /\ server' = HandleIntent(server, s, e, runs[s][e].startedAt, now)
  /\ UNCHANGED <<clock, runs, head>>

(* Bug: a rejected Start stays at the head of the journal. *)
BugKeepRejectedStart(s, e, srv) ==
  /\ runs' = [runs EXCEPT ![s][e].attempt =
                IF Started(srv, s, e)
                THEN CHOOSE i \in DOMAIN srv.starts[s] : srv.starts[s][i] = e
                ELSE 0]
  /\ UNCHANGED head

(* Bug: the rejection retires the next entry of the journal as well. *)
BugRetireTwo(s, e, srv) ==
  IF Started(srv, s, e)
  THEN /\ runs' = [runs EXCEPT ![s][e].attempt =
                     CHOOSE i \in DOMAIN srv.starts[s] : srv.starts[s][i] = e]
       /\ UNCHANGED head
  ELSE /\ runs' = [runs EXCEPT ![s][e].status = "DROPPED"]
       /\ head' = [head EXCEPT ![s] = @ + 2]

(* The answer carries the attempt's id, or a rejection that drops the run. *)
StartAnswered(s, e, srv) ==
  IF Started(srv, s, e)
  THEN /\ runs' = [runs EXCEPT ![s][e].attempt =
                     CHOOSE i \in DOMAIN srv.starts[s] : srv.starts[s][i] = e]
       /\ UNCHANGED head
  ELSE /\ runs' = [runs EXCEPT ![s][e].status = "DROPPED"]
       /\ head' = [head EXCEPT ![s] = @ + 1]

ReceiveStart(s, e, now, answered) ==
  /\ e \in Bodies(s) /\ e <= head[s]
  /\ now >= runs[s][e].startedAt
  /\ answered => AwaitsStart(s, e)
  /\ ~StartThrows(server, s, e, now)
  /\ server' = HandleStart(server, s, e, runs[s][e].startedAt, now)
  /\ IF answered THEN StartAnswered(s, e, server')
                 ELSE UNCHANGED <<runs, head>>
  /\ UNCHANGED clock

(* An End is retired by any answer: accepted, repeated or rejected. *)
ReceiveEnd(s, e, now, answered) ==
  /\ e \in Bodies(s)
  /\ runs[s][e].status = "ENDED" /\ runs[s][e].attempt # 0
  /\ answered => AwaitsEnd(s, e)
  /\ ~EndThrows(server, s, runs[s][e].attempt, now)
  /\ server' = HandleEnd(server, s, runs[s][e].attempt, runs[s][e].report, now)
  /\ IF answered THEN head' = [head EXCEPT ![s] = @ + 1]
                 ELSE UNCHANGED head
  /\ UNCHANGED <<clock, runs>>

(* state: the poll of either client *)
Poll(now) ==
  /\ ~AdvanceThrows(server, now)
  /\ server' = AdvanceLockedMatch(server, now)
  /\ UNCHANGED <<clock, runs, head>>

Next ==
  \/ Tick
  \/ \E now \in HandlerNow : Poll(now)
  \/ \E s \in Side :
       \/ Begin(s)
       \/ \E report \in Reports : Finish(s, report)
       \/ \E e \in RunIds(s), now \in HandlerNow :
            \/ ReceiveIntent(s, e, now)
            \/ \E answered \in BOOLEAN : \/ ReceiveStart(s, e, now, answered)
                                         \/ ReceiveEnd(s, e, now, answered)

(* The journal gets an answer to the request at its head. *)
DeliverHead(s) ==
  \E e \in RunIds(s) : \/ ReceiveStart(s, e, clock, TRUE)
                       \/ ReceiveEnd(s, e, clock, TRUE)

(* Time passes and a client polls.  A player who is present ends its runs, and
   its client repeats the request at the head of its journal until it gets an
   answer; the client of the others may stop between any two steps. *)
Fairness ==
  /\ WF_vars(Tick)
  /\ WF_vars(Poll(clock))
  /\ \A s \in Present :
       /\ WF_vars(\E report \in Reports : Finish(s, report))
       /\ WF_vars(DeliverHead(s))

Spec == Init /\ [][Next]_vars

FairSpec == Spec /\ Fairness

-----------------------------------------------------------------------------
(* Properties *)

TypeOK ==
  /\ clock \in 0..MaxClock
  /\ server.round \in Round
  /\ \A s \in Side : /\ server.leases[s] \in [RunIds(s) -> Lease]
                     /\ server.starts[s] \in Seq(RunIds(s))
                     /\ runs[s] \in Seq(Run)
                     /\ head[s] \in 1..(MaxRuns[s] + 1)

(* However often a Start is repeated or delayed, with a lease or without,
   its run enters the round at most once. *)
RunsCountOnce ==
  \A s \in Side :
    /\ Len(server.starts[s]) = Len(server.round.attempts[s])
    /\ \A i, j \in DOMAIN server.starts[s] :
         server.starts[s][i] = server.starts[s][j] => i = j

(* An attempt is scored with the report of the very run that started it,
   whatever came between the run, its Start and its End. *)
ScoredAsPlayed ==
  \A s \in Side : \A i \in DOMAIN server.starts[s] :
    LET attempt == server.round.attempts[s][i]
        run     == runs[s][server.starts[s][i]]
    IN attempt.status = "ENDED" =>
         /\ run.status = "ENDED"
         /\ attempt.cleared = run.report.cleared
         /\ attempt.award = ScoreAttempt(run.report.percent, run.report.cleared)

(* A lease is spent for a run that is in the round, and for nothing else: a
   rejected Start leaves no consumed lease behind. *)
LeaseSpentForItsRun ==
  \A s \in Side : \A e \in RunIds(s) :
    server.leases[s][e].status = "CONSUMED" => Started(server, s, e)

(* attempt-timing.ts: "Transport reconciliation is not extra gameplay time."
   A run is let in only if it began on the screen before the start deadline,
   however late its Start is handled. *)
OnlyTimelyRunsCount ==
  [][\A s \in Side : \A i \in DOMAIN server'.starts[s] \ DOMAIN server.starts[s] :
       runs[s][server'.starts[s][i]].startedAt < StartDeadline(server.round)]_vars

(* The lease of a run that began in time, at the time a result is published. *)
Valid(srv, s, e, now) == Swept(srv, s, e, now).status = "PENDING"

(* The round is settled on the evidence while a valid lease waits for its
   run: the run is lost. *)
LeaseLost(srv) ==
  LET o == srv.round.outcome IN
  /\ o # NoOutcome /\ ~o.decisive
  /\ \E s \in Side : \E e \in RunIds(s) : Valid(srv, s, e, o.settledAt)

(* The poll of a client never settles a round over a valid lease. *)
PollNeverLosesALease ==
  [][(\E now \in HandlerNow : Poll(now)) => (LeaseLost(server') => LeaseLost(server))]_vars

(* match.service.ts: "A valid start-intent must never expire while the player
   is still connected and the authoritative Start packet is catching up." *)
LeaseIsNeverLost == ~LeaseLost(server)

(* A running attempt that no client will end: its client has left, or dropped
   the run when its Start was rejected and a late copy of that Start found the
   run's lease. *)
AbandonedRun ==
  \E s \in Side : \E i \in Active(server.round, s) :
    s \notin Present \/ runs[s][server.starts[s][i]].status = "DROPPED"

(* Only an abandoned run can keep a round open.  In particular the round is
   decided when the Start that a lease waits for never comes: the time to live
   of the lease bounds the wait (ATTEMPT_START_INTENT_HARD_TTL_MS, the "final
   deadlock guard"). *)
RoundIsDecided == []<>(Finished(server.round) \/ AbandonedRun)

(* The journal of a present client runs empty: no lost answer and no rejection
   leaves it repeating a request for ever. *)
JournalsDrain == <>[](\A s \in Present : head[s] > Len(runs[s]))

=============================================================================
