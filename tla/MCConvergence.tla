---------------------------- MODULE MCConvergence ----------------------------
(* The parts that must come to rest by themselves: the transport of a       *)
(* round's runs, the preparation of a round, the outbox, the live picture,  *)
(* and a Survival match.  They share no state, so a behaviour exercises one *)
(* of them, named by part, and the others keep their initial state.         *)
EXTENDS AttemptTransport, RoundPreparation, RankedOutbox, SpectatorLive

MCOneReport == {[percent |-> 60, cleared |-> FALSE]}
MCOneRun == [s \in Side |-> 1]
MCOnlyB == {"B"}
MCPoses == <<2, 3>>
MCNoCut == <<>>

CONSTANTS Humans, Bots, Targets, TiebreakAttempts, MaxRerolls, NoOne, Scores,
          MapFailureLimit, MaxRounds

VARIABLES part, match, audio, job, stray, failures

(* The module with the theorems: they hold of this instance as well. *)
Survival == INSTANCE SurvivalMatch_proofs WITH Reports <- Scores
(* What SurvivalMatch assumes of its constants, here of those of the instance. *)
ASSUME SurvivalBounds ==
  /\ Survival!EntrantsAssumption /\ Survival!FormatAssumption
  /\ Survival!ServiceAssumption

survivalVars == <<match, audio, job, stray, failures>>

Init_ ==
  /\ part \in {"transport", "preparation", "outbox", "live", "survival"}
  /\ Init /\ PrepInit /\ OutboxInit /\ LiveInit /\ Survival!Init

Next_ ==
  /\ UNCHANGED part
  /\ \/ /\ part = "transport" /\ Next
        /\ UNCHANGED <<prepVars, outboxVars, liveVars, survivalVars>>
     \/ /\ part = "preparation" /\ PrepNext
        /\ UNCHANGED <<vars, outboxVars, liveVars, survivalVars>>
     \/ /\ part = "outbox" /\ OutboxNext
        /\ UNCHANGED <<vars, prepVars, liveVars, survivalVars>>
     \/ /\ part = "live" /\ LiveNext
        /\ UNCHANGED <<vars, prepVars, outboxVars, survivalVars>>
     \/ /\ part = "survival" /\ Survival!Next
        /\ UNCHANGED <<vars, prepVars, outboxVars, liveVars>>

PartsSpec == Init_ /\ [][Next_]_<<part, vars, prepVars, outboxVars, liveVars, survivalVars>>

-----------------------------------------------------------------------------
\* The state of every part keeps its shape: the journals and the round
\* (RankedRuntime::QueuedAttempt, RoundState), what RankedRoundPreparation and
\* the outbox keep.
TypesOK == TypeOK /\ PrepTypeOK /\ OutboxTypeOK /\ LiveTypeOK /\ Survival!SurvivalTypeOK

(* The fairness of each part while it is the one that is exercised; the same
   actions as in the Fairness of its module. *)
Of(p, A) == part = p /\ A
TransportFair ==
  /\ WF_vars(Of("transport", Tick)) /\ WF_vars(Of("transport", Poll(clock)))
  /\ \A s \in Present :
       /\ WF_vars(Of("transport", \E report \in Reports : Finish(s, report)))
       /\ WF_vars(Of("transport", DeliverHead(s)))
PreparationFair ==
  /\ WF_prepVars(Of("preparation", Pump))
  /\ WF_prepVars(Of("preparation", LookupEnds)) /\ WF_prepVars(Of("preparation", LookupLost))
  /\ WF_prepVars(Of("preparation", MapArrives)) /\ WF_prepVars(Of("preparation", MapCallback))
  /\ \A k \in Sounds : /\ WF_prepVars(Of("preparation", SoundEnds(k, "arrived")))
                       /\ WF_prepVars(Of("preparation", SoundCallback(k)))
  /\ WF_prepVars(Of("preparation", QueuedReturn)) /\ WF_prepVars(Of("preparation", Released))
OutboxFair ==
  /\ WF_outboxVars(Of("outbox", Start)) /\ WF_outboxVars(Of("outbox", TimerFires))
  /\ WF_outboxVars(Of("outbox", Pass))
  /\ SF_outboxVars(Of("outbox", Claim)) /\ SF_outboxVars(Of("outbox", Ask))
  /\ \A e \in Events : /\ WF_outboxVars(Of("outbox", CommitReturns(e)))
                       /\ SF_outboxVars(Of("outbox", LeaseEnds(e)))
LiveFair ==
  /\ WF_liveVars(Of("live", StartAcked)) /\ WF_liveVars(Of("live", EndHandled))
  /\ WF_liveVars(Of("live", EndAcked)) /\ WF_liveVars(Of("live", Frame(FALSE)))
  /\ WF_liveVars(Of("live", PostAnswered)) /\ WF_liveVars(Of("live", TerminalAnswered))
  /\ WF_liveVars(Of("live", ServePost)) /\ WF_liveVars(Of("live", ServeTerminal))
  /\ WF_liveVars(Of("live", ServeLoose)) /\ WF_liveVars(Of("live", TerminalTimesOut))
  /\ WF_liveVars(Of("live", PollStream)) /\ WF_liveVars(Of("live", Answer))
  /\ WF_liveVars(Of("live", Apply))
SurvivalFair ==
  /\ []<>(~Of("survival", Survival!TickDue))
     \/ []<><<Of("survival", \E gone \in SUBSET Survival!Expected(match) : Survival!Tick(gone))>>_survivalVars
  /\ WF_survivalVars(Of("survival", Survival!Elapse)) /\ WF_survivalVars(Of("survival", Survival!BeginSelection))
  /\ <>[](job = NoOne) \/ []<><<Of("survival", Survival!EndSelection)>>_survivalVars

-----------------------------------------------------------------------------
\* A round is decided whatever its clients lose, unless a run whose client is
\* gone is still in it (advanceLockedMatch, the end of a start lease).
RoundsAreDecided == part = "transport" /\ TransportFair => RoundIsDecided

\* The journal of a client that stays runs empty: no rejected or lost Start or
\* End keeps its head for ever (flushAttemptEvents).
AllJournalsDrain == part = "transport" /\ TransportFair => JournalsDrain

\* A round that stays the same gets ready or shows why not, whatever was under
\* way for earlier rounds or other screens (RankedRoundPreparation::pump).
PreparationsConverge == part = "preparation" /\ PreparationFair => PreparationConverges

\* A native scene that is left is given up in the end (drainNativeReturn).
ScenesComeBack == part = "preparation" /\ PreparationFair => SceneComesBack

\* A committed event is tried until it is delivered or its attempts are used
\* up, through crashes and lost signals (DemandWorker, discord-relay.worker.ts).
AllEventsAreTried == part = "outbox" /\ OutboxFair => EventsAreTried

\* Publisher, relay and viewer come to agree on the newest picture
\* (SpectatorLiveRuntime, spectator-live.service.ts).
PicturesConverge == part = "live" /\ LiveFair => PictureConverges

\* No Survival round is held up for ever by players who are away, late or
\* failed, nor by lost searches for a map (advanceTimers, drive, selectMap).
SurvivalRoundsOpen == part = "survival" /\ SurvivalFair => Survival!RoundOpens
=============================================================================
