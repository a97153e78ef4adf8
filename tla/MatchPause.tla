----------------------------- MODULE MatchPause -----------------------------
(***************************************************************************)
(* The pause budget of a match: match-pause.policy.ts, the pause handler    *)
(* and the expiry check of match.service.ts, and the client that opens and  *)
(* closes its pause over one serialized request (RankedRuntime.cpp,         *)
(* MatchPauseBudget.hpp).  A request that failed at the client may still be *)
(* handled later.                                                          *)
(*                                                                         *)
(* The rest of the match is one switch: the scene that is being played, a   *)
(* round or a deathmatch, ends and the next one begins.  A match that is    *)
(* cancelled by a restart, or ended by an operator, has no use for its      *)
(* pauses any more; that is left to RankedMatch.                            *)
(***************************************************************************)
EXTENDS Naturals, FiniteSets

CONSTANTS
  Budget,       (* MATCH_PAUSE_BUDGET_MS, in ticks                         *)
  MaxPauses,    (* bound: pauses that a side begins                        *)
  MaxClock,     (* bound: the last tick considered                         *)
  RoundScenes,  (* the scenes up to this one are rounds, the rest are      *)
                (* Death Matches                                           *)
  MaxScenes,    (* bound: scenes of the match                              *)
  MaxFailures,  (* bound: requests that fail at the client                 *)
  MaxRestarts   (* bound: clients that lose their memory                   *)

Side == {"A", "B"}

ASSUME BudgetAssumption == Budget \in Nat \ {0}
ASSUME PauseBounds ==
  /\ MaxPauses \in [Side -> Nat]
  /\ {MaxClock, MaxFailures, MaxRestarts, RoundScenes} \subseteq Nat
  /\ MaxScenes \in Nat \ {0}

VARIABLES
  clock,     (* the wall clock                                             *)
  scene,     (* the round or deathmatch: its number, and whether it plays  *)
  lost,      (* the side that lost the whole match, and by what            *)
  pause,     (* pause_state of the match                                   *)
  client,    (* the pause fields of each RankedRuntime                     *)
  request,   (* m_pauseRequest: the one request a client waits for         *)
  late,      (* requests their client gave up that are still under way     *)
  failures, restarts,
  history    (* for the properties: how often each lease was opened, how   *)
             (* long a side's pause has been open, the leases it resumed   *)

server == <<scene, lost, pause>>
vars == <<clock, server, client, request, late, failures, restarts, history>>

None == [none |-> TRUE]
Lease(s) == 1..MaxPauses[s]
Remains == 0..Budget
AtLeastZero(n, m) == IF n > m THEN n - m ELSE 0
Least(n, m) == IF n < m THEN n ELSE m

-----------------------------------------------------------------------------
(* match-pause.policy.ts.  Lease 0 is the empty id. *)

EmptyMatchPause == [used |-> 0, lease |-> 0, open |-> FALSE, startedAt |-> 0,
                    retired |-> {}]

(* Bug: a closed pause goes on counting. *)
BugElapsedWhenClosed(p, now) == AtLeastZero(now, p.startedAt)

Elapsed(p, now) == IF p.open THEN AtLeastZero(now, p.startedAt) ELSE 0

MatchPauseView(p, now) == AtLeastZero(Budget, p.used + Elapsed(p, now))

(* Bug: the leases that were closed are forgotten. *)
BugRetiredForgotten(p, lease, paused) == p.lease = lease <=> paused

(* A repeated Start, a Start of a lease that was closed, an End of another
   lease: nothing to change. *)
Ignored(p, lease, paused) ==
  IF paused THEN p.lease = lease \/ lease \in p.retired
            ELSE p.lease # lease

(* Bug: the lease that a new Start replaces is not charged. *)
BugUnchargedReplacement(p, lease, paused, now) ==
  IF Ignored(p, lease, paused) THEN p
  ELSE [used      |-> IF paused THEN p.used ELSE Least(Budget, p.used + Elapsed(p, now)),
        lease     |-> IF paused THEN lease ELSE p.lease,
        open      |-> paused,
        startedAt |-> IF paused THEN now ELSE 0,
        retired   |-> p.retired \cup (IF p.open THEN {p.lease} ELSE {})]

ChangeMatchPause(p, lease, paused, now) ==
  IF Ignored(p, lease, paused) THEN p
  ELSE [used      |-> Least(Budget, p.used + Elapsed(p, now)),
        lease     |-> IF paused THEN lease ELSE p.lease,
        open      |-> paused,
        startedAt |-> IF paused THEN now ELSE 0,
        retired   |-> p.retired \cup (IF p.open THEN {p.lease} ELSE {})]

Deadline(p) == p.startedAt + AtLeastZero(Budget, p.used)

(* The open lease with the earliest deadline that has passed, A's first. *)
Expired(pauses, now) ==
  {s \in Side :
     /\ pauses[s].open /\ now >= Deadline(pauses[s])
     /\ \A other \in Side \ {s} :
          pauses[other].open =>
            \/ Deadline(pauses[s]) < Deadline(pauses[other])
            \/ Deadline(pauses[s]) = Deadline(pauses[other]) /\ s = "A"}

-----------------------------------------------------------------------------
(* The server *)

Playing == scene.playing

(* advanceLockedMatch: an expired pause costs the match, but only in play. *)
Loser(pauses) == IF Playing THEN Expired(pauses, clock) ELSE {}

(* applyGameplaySurrender for the whole match. *)
LoseMatch(side, by) ==
  /\ lost' = [side |-> side, by |-> by]
  /\ scene' = [scene EXCEPT !.playing = FALSE]

Settle(pauses) ==
  IF Loser(pauses) = {} THEN UNCHANGED <<scene, lost>>
  ELSE \E s \in Loser(pauses) : LoseMatch(s, "PAUSE")

Opens(s) == pause'[s].open /\ pause'[s] # pause[s]

Noted(h, opened, lease, paused) ==
  [opens   |-> [h.opens EXCEPT ![lease] = IF opened THEN @ + 1 ELSE @],
   time    |-> h.time,
   resumed |-> IF paused THEN h.resumed ELSE h.resumed \cup {lease}]

(* Bug: the pause is changed before an exhausted one is settled. *)
BugChangeFirst(r) ==
  LET s       == r.side
      refused == r.paused /\ ~Playing
      changed == [pause EXCEPT ![s] = ChangeMatchPause(@, r.lease, r.paused, clock)]
  IN /\ pause' = IF refused THEN pause ELSE changed
     /\ Settle(pause')
     /\ history' = [history EXCEPT ![s] = Noted(@, Opens(s), r.lease, r.paused)]

(* changePause: the match is advanced before and after the change. *)
HandlePause(r) ==
  LET s       == r.side
      before  == Loser(pause)
      refused == r.paused /\ (~Playing \/ before # {})
      changed == [pause EXCEPT ![s] = ChangeMatchPause(@, r.lease, r.paused, clock)]
  IN /\ pause' = IF refused THEN pause ELSE changed
     /\ IF before # {} THEN Settle(pause) ELSE Settle(pause')
     /\ history' = [history EXCEPT ![s] = Noted(@, Opens(s), r.lease, r.paused)]


-----------------------------------------------------------------------------
(* The client.  It counts its budget down by itself while it is paused, and
   an observation of the server may only reduce it. *)

Fresh(c) == [lease |-> 0, begun |-> c.begun, paused |-> FALSE, sync |-> FALSE,
             remaining |-> Budget, scene |-> 0, playing |-> FALSE, pausedIn |-> 0]

Observed(c, available) == Least(c.remaining, available)

Observe(c, available) == [c EXCEPT !.remaining = Observed(c, available)]

(* flushGameplayControls: what is desired now goes out unless a request is
   still waited for. *)
Flush(s, c) ==
  IF request[s] = None /\ c.sync
  THEN /\ request' = [request EXCEPT ![s] =
                        [lease |-> c.lease, paused |-> c.paused, answer |-> None]]
       /\ client' = [client EXCEPT ![s] = [c EXCEPT !.sync = FALSE]]
  ELSE /\ client' = [client EXCEPT ![s] = c]
       /\ UNCHANGED request

Sent(s) == [side |-> s, lease |-> request[s].lease, paused |-> request[s].paused]

(* beginMatchGameplayPause, which also flushes. *)
BeginPause(s) ==
  LET c == client[s] IN
  /\ c.playing /\ ~c.paused /\ c.begun < MaxPauses[s]
  /\ Flush(s, [c EXCEPT !.begun = @ + 1, !.lease = c.begun + 1, !.paused = TRUE,
                        !.sync = TRUE, !.pausedIn = c.scene])
  /\ UNCHANGED <<clock, server, late, failures, restarts, history>>

(* endMatchGameplayPause: the player resumes, or the pause layer goes. *)
EndPause(s) ==
  LET c == client[s] IN
  /\ c.paused
  /\ Flush(s, [c EXCEPT !.paused = FALSE, !.sync = TRUE])
  /\ UNCHANGED <<clock, server, late, failures, restarts, history>>

FlushAgain(s) ==
  /\ request[s] = None /\ client[s].sync
  /\ Flush(s, client[s])
  /\ UNCHANGED <<clock, server, late, failures, restarts, history>>

(* The server handles the request a client waits for. *)
HandleRequest(s) ==
  /\ request[s] # None /\ request[s].answer = None
  /\ HandlePause(Sent(s))
  /\ request' = [request EXCEPT ![s].answer =
       [remaining |-> MatchPauseView(pause'[s], clock),
        accepted  |-> ~(request[s].paused /\ (~Playing \/ Loser(pause) # {}))]]
  /\ UNCHANGED <<clock, client, late, failures, restarts>>

(* The server handles a request nobody waits for any more. *)
HandleLate(r) ==
  /\ HandlePause(r)
  /\ late' = late \ {r}
  /\ UNCHANGED <<clock, client, request, failures, restarts>>

(* The answer counts for the lease it is about; a refused Start leaves the
   client without budget; a newer wish goes out next. *)
ReceiveAnswer(s) ==
  /\ request[s] # None /\ request[s].answer # None
  /\ LET c    == client[s]
         r    == request[s]
         seen == Observe(c, IF r.answer.accepted THEN r.answer.remaining ELSE 0)
     IN client' = [client EXCEPT ![s] =
          [(IF r.lease = c.lease THEN seen ELSE c) EXCEPT
             !.sync = @ \/ r.lease # c.lease \/ r.paused # c.paused]]
  /\ request' = [request EXCEPT ![s] = None]
  /\ UNCHANGED <<clock, server, late, failures, restarts, history>>

(* A request that nobody waits for is lost or handled later. *)
Abandon(s) ==
  /\ request' = [request EXCEPT ![s] = None]
  /\ IF request[s] # None /\ request[s].answer = None
     THEN late' \in {late, late \cup {Sent(s)}}
     ELSE UNCHANGED late

(* An error or a timeout: the client asks again. *)
FailRequest(s) ==
  /\ request[s] # None /\ failures < MaxFailures
  /\ Abandon(s)
  /\ client' = [client EXCEPT ![s].sync = TRUE]
  /\ failures' = failures + 1
  /\ UNCHANGED <<clock, server, restarts, history>>

(* resetGameplayControls: the game restarts, or the player logs in again. *)
RestartClient(s) ==
  /\ restarts < MaxRestarts /\ client[s].begun > 0
  /\ Abandon(s)
  /\ client' = [client EXCEPT ![s] = Fresh(@)]
  /\ restarts' = restarts + 1
  /\ UNCHANGED <<clock, server, failures, history>>

(* The poll settles an exhausted pause, and tells the client what is left. *)
Poll(s) ==
  /\ Settle(pause)
  /\ client' = [client EXCEPT ![s] =
       [Observe(@, MatchPauseView(pause[s], clock)) EXCEPT
          !.scene = scene'.number, !.playing = scene'.playing]]
  /\ UNCHANGED <<clock, pause, request, late, failures, restarts, history>>

(* watchBudget: a pause without budget concedes the match, if the scene it
   was opened in is still the one that is played. *)
ConcedeMatch(s) ==
  LET c == client[s] IN
  /\ c.paused /\ c.remaining = 0 /\ c.pausedIn = c.scene
  /\ Playing /\ scene.number = c.scene
  /\ IF Loser(pause) # {} THEN Settle(pause) ELSE LoseMatch(s, "SURRENDER")
  /\ UNCHANGED <<clock, pause, client, request, late, failures, restarts, history>>

SceneOver ==
  /\ scene' = [scene EXCEPT !.playing = FALSE]
  /\ UNCHANGED <<clock, lost, pause, client, request, late, failures, restarts, history>>

(* The scene ends, in a handler that has advanced the match and so found no
   exhausted pause. *)
EndScene == Playing /\ Loser(pause) = {} /\ SceneOver

(* startAttempt with a lease does not advance the match: when its own attempt
   comes after the margin was decided, it settles the round without a look at
   the pauses.  A Death Match has no leases. *)
LeasedStartEndsRound == Playing /\ scene.number <= RoundScenes /\ SceneOver

BeginScene ==
  /\ ~Playing /\ lost = None /\ scene.number < MaxScenes
  /\ scene' = [number |-> scene.number + 1, playing |-> TRUE]
  /\ UNCHANGED <<clock, lost, pause, client, request, late, failures, restarts, history>>

Tick ==
  /\ clock < MaxClock /\ lost = None
  /\ clock' = clock + 1
  /\ client' = [s \in Side |-> [client[s] EXCEPT
                  !.remaining = IF client[s].paused THEN AtLeastZero(@, 1) ELSE @]]
  /\ history' = [s \in Side |-> [history[s] EXCEPT
                   !.time = IF pause[s].open THEN @ + 1 ELSE @]]
  /\ UNCHANGED <<server, request, late, failures, restarts>>

Init ==
  /\ clock = 0
  /\ scene = [number |-> 1, playing |-> TRUE]
  /\ lost = None
  /\ pause = [s \in Side |-> EmptyMatchPause]
  /\ client = [s \in Side |-> [Fresh([begun |-> 0]) EXCEPT !.scene = 1, !.playing = TRUE]]
  /\ request = [s \in Side |-> None]
  /\ late = {}
  /\ failures = 0 /\ restarts = 0
  /\ history = [s \in Side |-> [opens |-> [l \in Lease(s) |-> 0], time |-> 0,
                                resumed |-> {}]]

Next ==
  \/ Tick \/ EndScene \/ LeasedStartEndsRound \/ BeginScene
  \/ \E r \in late : HandleLate(r)
  \/ \E s \in Side :
       \/ BeginPause(s) \/ EndPause(s) \/ FlushAgain(s) \/ HandleRequest(s)
       \/ ReceiveAnswer(s) \/ FailRequest(s) \/ RestartClient(s)
       \/ Poll(s) \/ ConcedeMatch(s)

Spec == Init /\ [][Next]_vars

-----------------------------------------------------------------------------
(* Properties *)

PauseRecord(s) ==
  [used : Remains, lease : Lease(s) \cup {0}, open : BOOLEAN,
   startedAt : 0..MaxClock, retired : SUBSET Lease(s)]

ClientRecord(s) ==
  [lease : Lease(s) \cup {0}, begun : 0..MaxPauses[s], paused : BOOLEAN,
   sync : BOOLEAN, remaining : Remains, scene : 0..MaxScenes, playing : BOOLEAN,
   pausedIn : 0..MaxScenes]

(* The pause state of the match and of the clients keep their shape, and a
   lease that is open has an id of a pause that was begun. *)
TypeOK ==
  /\ clock \in 0..MaxClock
  /\ scene \in [number : 1..MaxScenes, playing : BOOLEAN]
  /\ lost = None \/ (lost \in [side : Side, by : {"PAUSE", "SURRENDER"}] /\ ~Playing)
  /\ \A s \in Side :
       /\ pause[s] \in PauseRecord(s) /\ client[s] \in ClientRecord(s)
       /\ pause[s].lease <= client[s].begun
       /\ pause[s].open => pause[s].lease # 0
  /\ failures \in 0..MaxFailures /\ restarts \in 0..MaxRestarts

(* The budget is charged with exactly the time a pause of the side was open:
   no retry, late copy, replaced lease or change of scene charges it twice or
   not at all (changeMatchPause, matchPauseView). *)
OpenTimeIsCharged ==
  \A s \in Side :
    MatchPauseView(pause[s], clock) = AtLeastZero(Budget, history[s].time)

(* A pause lost the match only for a side whose pauses were open for the
   whole budget (expiredMatchPauseSide). *)
ForfeitSpentTheBudget ==
  lost # None /\ lost.by = "PAUSE" => history[lost.side].time >= Budget

(* "A retried Start ACK cannot reopen its finished pause": whatever is
   repeated or late, the server opens a lease at most once. *)
LeaseOpensOnce == \A s \in Side : \A l \in Lease(s) : history[s].opens[l] <= 1

(* "Resume after the deadline cannot erase it", while a scene is played: no
   Resume, replacement or repetition touches an open pause whose budget is
   spent.  Somebody loses the match, or the pause outlives a round that a leased
   Start settles; a Death Match it never outlives (changePause, startAttempt). *)
SpentPauseHeldInPlay ==
  [][\A s \in Side :
       Playing /\ pause[s].open /\ MatchPauseView(pause[s], clock) = 0
         => \/ lost' # None
            \/ /\ pause'[s] = pause[s] /\ scene'.number = scene.number
               /\ Playing' \/ scene.number <= RoundScenes]_vars

-----------------------------------------------------------------------------
(* What the documentation promises beyond that *)

(* gameplay-controls.md: "Serialized requests and retired lease IDs prevent
   delayed Start/End ACKs from reopening a closed pause".  A lease whose
   Resume the server has accepted is not open. *)
ResumedPauseStaysClosed ==
  \A s \in Side : pause[s].open => pause[s].lease \notin history[s].resumed

(* gameplay-controls.md: "Each player has 30,000ms for the entire match".  No
   match is lost by a pause, through the expiry or through the surrender that
   the client sends by itself, before that much time has passed. *)
BudgetIsForTheMatch == lost # None => clock >= Budget
=============================================================================
