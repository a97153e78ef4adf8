--------------------------- MODULE RankedAdmission ---------------------------
(***************************************************************************)
(* How one player gets into a match: the session that a device holds, the  *)
(* queue entry and the match assignment behind it, on both sides of the    *)
(* wire.  The server's half is session.service.ts, session.guard.ts and    *)
(* queue.service.ts, each transaction one step; the device's half is the   *)
(* admission, queue and polling part of RankedRuntime.cpp, each callback   *)
(* one step.  One device of the player is modelled with its client; his    *)
(* "other" device is what the server sees of it, and the other players of  *)
(* the queue are one environment, the rival.                               *)
(*                                                                         *)
(* The device keeps one request per channel (m_controlRequest, m_pollRequest,*)
(* m_sessionHeartbeatRequest).  Cancelling a request drops its answer, not *)
(* the request: the server may still serve it later, from "unserved".          *)
(***************************************************************************)
EXTENDS Integers, Sequences, FiniteSets

CONSTANTS
  MaxSessions,   \* bound: sessions the server creates
  MaxMatches,    \* bound: matches the player is paired into
  MaxTime,       \* bound: the clock
  MaxFaults,     \* bound: requests whose answer the device does not get
  MaxActs,       \* bound: what the player does on the devices
  SessionLease,  \* ticks a session lives without a heartbeat
  SessionSeconds,\* ticks its token lives, whatever heartbeats it sends
  QueueLease     \* ticks a queue entry lives without a status request

ASSUME AdmissionBounds ==
  {MaxSessions, MaxMatches, MaxTime, MaxFaults, MaxActs, SessionLease,
   SessionSeconds, QueueLease} \subseteq Nat

VARIABLES
  now,        \* the clock both sides count by
  live,       \* the session not yet revoked: [id, dev, seen, expires], id 0 when
              \* there is none
  issued,     \* sessions created so far
  entry,      \* the player's row of ranked_queue_entries
  rival,      \* TRUE while somebody else waits in the queue
  matches,    \* the player's matches: [state, ver, token]
  device,     \* what each device's RankedRuntime shows and holds
  control,    \* each device's control request
  poll,       \* each device's poll
  beat,       \* each device's session heartbeat
  unserved,       \* requests nobody waits for any more, not yet served
  faults, acts

rows == <<live, issued, entry, rival, matches>>
channels == <<device, control, poll, beat>>
admissionVars == <<now, rows, channels, unserved, faults, acts>>

NoSession == [id |-> 0, dev |-> "own", seen |-> 0, expires |-> 0]
NoEntry == [status |-> "NONE", session |-> 0, seen |-> 0, match |-> 0]
NoAnswer == [code |-> "none"]
Idle == [kind |-> "none", session |-> 0, match |-> 0,
         token |-> 0, take |-> FALSE, phase |-> "none", sentAt |-> 0,
         answer |-> NoAnswer]
\* Every request names the session; those about the match name it and its token,
\* and of those that a lease answers the device keeps when they were sent.
AboutMatch == {"MATCH", "READY"}
Leased == {"SESSION", "BEAT"}
Request(k) ==
  [Idle EXCEPT !.kind = k, !.session = device.session,
               !.match = IF k \in AboutMatch THEN device.match ELSE 0,
               !.token = IF k \in AboutMatch THEN device.token ELSE 0,
               !.phase = "sent", !.sentAt = IF k \in Leased THEN now ELSE 0]
Out == [stage |-> "Idle", session |-> 0, deadline |-> 0, match |-> 0, state |-> "none",
        ver |-> 0, token |-> 0, recovering |-> FALSE, elsewhere |-> FALSE]

States == {"none", "MATCHED", "LIVE", "OVER"}
Stages == {"Idle", "Loading", "Ready", "JoiningQueue", "Queued", "Matched", "Error",
           "Blocked", "AwaitingUpdate"}

AdmissionTypeOK ==
  /\ now \in 0 .. MaxTime /\ faults \in 0 .. MaxFaults /\ acts \in 0 .. MaxActs
  /\ issued \in 0 .. MaxSessions /\ live.id \in 0 .. issued /\ rival \in BOOLEAN
  /\ entry.status \in {"NONE", "QUEUED", "MATCHED", "LEFT", "EXPIRED"}
  /\ entry.session \in 0 .. issued /\ entry.match \in 0 .. Len(matches)
  /\ \A m \in DOMAIN matches : matches[m].state \in States \ {"none"}
  /\ device.stage \in Stages /\ device.state \in States

-----------------------------------------------------------------------------
(* The server. *)

\* session.guard.ts: the token names a session that is neither revoked nor past
\* its absolute end nor silent.  A match token is made with its session or after
\* it, for as long, so it does not end earlier.
Silent == now >= live.seen + SessionLease
TokenOver == now >= live.expires
Alive(s) == s # 0 /\ s = live.id /\ ~TokenOver /\ ~Silent

Ongoing == {m \in DOMAIN matches : matches[m].state # "OVER"}
TheMatch(S) == IF S = {} THEN 0 ELSE CHOOSE m \in S : TRUE

\* SessionService.create: the player's row is locked, so it runs as one step.
Elsewhere(dev, take) == Alive(live.id) /\ live.dev # dev /\ ~take
Create(dev, take) ==
  \/ Elsewhere(dev, take) /\ UNCHANGED rows
  \/ /\ ~Elsewhere(dev, take)
     /\ issued < MaxSessions /\ issued' = issued + 1
     /\ live' = [id |-> issued', dev |-> dev, seen |-> now, expires |-> now + SessionSeconds]
     /\ LET m == TheMatch(Ongoing) IN
        /\ entry' = IF m = 0 THEN NoEntry
                    ELSE [status |-> "MATCHED", session |-> issued', seen |-> now, match |-> m]
        /\ matches' = IF m = 0 THEN matches ELSE [matches EXCEPT ![m].token = issued']
     /\ UNCHANGED rival

\* SessionService.heartbeat: only a session that is still alive is renewed.
Heartbeat(r) ==
  /\ live' = IF Alive(r.session) THEN [live EXCEPT !.seen = now] ELSE live
  /\ UNCHANGED <<issued, entry, rival, matches>>

\* SessionService.close: the entry of that session goes with it.
Close(r) ==
  \/ ~Alive(r.session) /\ UNCHANGED rows
  \/ /\ Alive(r.session)
     /\ entry' = IF entry.session = r.session THEN NoEntry ELSE entry
     /\ live' = NoSession
     /\ UNCHANGED <<issued, rival, matches>>

\* Bug: the entry points past the match.
BugPairNext(e) ==
  /\ Len(matches) < MaxMatches
  /\ matches' = Append(matches, [state |-> "MATCHED", ver |-> 1, token |-> e.session])
  /\ entry' = [e EXCEPT !.status = "MATCHED", !.match = Len(matches') + 1]

\* A match of the player's entry with somebody who waits, QueueService.createMatch.
Pair(e) ==
  /\ Len(matches) < MaxMatches
  /\ matches' = Append(matches, [state |-> "MATCHED", ver |-> 1, token |-> e.session])
  /\ entry' = [e EXCEPT !.status = "MATCHED", !.match = Len(matches')]

\* Bug: the guard's answer is trusted, the session is not looked at again.
BugReplacedMayJoin(s) == IF Ongoing # {} THEN "CONFLICT" ELSE "OK"

\* Bug: without assertNoActiveMatch.
BugMayJoinInMatch(s) == IF Alive(s) THEN "OK" ELSE "UNAUTHORIZED"

\* lockAdmission, then assertNoActiveMatch, under the player's lock.
JoinVerdict(s) ==
  IF ~Alive(s) THEN "UNAUTHORIZED" ELSE IF Ongoing # {} THEN "CONFLICT" ELSE "OK"

\* QueueService.joinAdmitted
Join(r) ==
  /\ UNCHANGED <<live, issued>>
  /\ LET own == [status |-> "QUEUED", session |-> r.session, seen |-> now, match |-> 0] IN
     \/ JoinVerdict(r.session) # "OK" /\ UNCHANGED <<entry, rival, matches>>
     \/ JoinVerdict(r.session) = "OK" /\ rival /\ Pair(own) /\ rival' = FALSE
     \/ /\ JoinVerdict(r.session) = "OK" /\ entry' = own      \* nobody in range
        /\ UNCHANGED <<rival, matches>>

\* QueueService.leave
Leave(r) ==
  /\ entry' = IF Alive(r.session) /\ entry.status = "QUEUED" /\ entry.session = r.session
              THEN [entry EXCEPT !.status = "LEFT"] ELSE entry
  /\ UNCHANGED <<live, issued, rival, matches>>

\* QueueService.status: the entry of this session; asking keeps it waiting.
HasEntry(s) == entry.session = s /\ entry.status # "NONE"
QueueStatus(r) ==
  /\ entry' = IF Alive(r.session) /\ HasEntry(r.session) /\ entry.status = "QUEUED"
              THEN [entry EXCEPT !.seen = now] ELSE entry
  /\ UNCHANGED <<live, issued, rival, matches>>
QueueReply(r) ==
  IF ~HasEntry(r.session) THEN [code |-> "NOT_QUEUED"]
  ELSE IF entry.status = "MATCHED"
  THEN [code |-> "MATCHED", match |-> entry.match, token |-> entry.session]
  ELSE [code |-> entry.status]

\* The match of a match token: its state, and for "READY" the step it causes.
Authorized(r) == Alive(r.session) /\ matches[r.match].token = r.token
MatchCall(r) ==
  /\ matches' = IF Authorized(r) /\ r.kind = "READY" /\ matches[r.match].state = "MATCHED"
                THEN [matches EXCEPT ![r.match].state = "LIVE", ![r.match].ver = @ + 1]
                ELSE matches
  /\ UNCHANGED <<live, issued, entry, rival>>

Transaction(r) ==
  \/ r.kind = "SESSION" /\ Create("own", r.take)
  \/ r.kind = "BEAT" /\ Heartbeat(r)
  \/ r.kind = "CLOSE" /\ Close(r)
  \/ r.kind = "JOIN" /\ Join(r)
  \/ r.kind = "LEAVE" /\ Leave(r)
  \/ r.kind = "QUEUE" /\ QueueStatus(r)
  \/ r.kind \in {"MATCH", "READY"} /\ MatchCall(r)

\* What the transaction answers; of the state it leaves where that is said.
Reply(r) ==
  CASE r.kind = "SESSION" ->
         IF Elsewhere("own", r.take) THEN [code |-> "ELSEWHERE"]
         ELSE [code |-> "SESSION", session |-> issued', active |-> Ongoing # {}]
    [] r.kind = "JOIN" -> [code |-> JoinVerdict(r.session)]
    [] r.kind \in {"MATCH", "READY"} /\ Authorized(r) ->
         [code |-> "STATE", match |-> r.match, state |-> matches'[r.match].state,
          ver |-> matches'[r.match].ver]
    [] r.kind \in {"MATCH", "READY"} /\ ~Authorized(r) -> [code |-> "UNAUTHORIZED"]
    [] r.kind = "QUEUE" /\ Alive(r.session) -> QueueReply(r)
    [] OTHER -> [code |-> IF Alive(r.session) THEN "OK" ELSE "UNAUTHORIZED"]

\* The guard runs before the transaction.  For a join the two are separate
\* steps: a take-over may come between.  The others name their session in every
\* statement they execute.
Guarded == {"JOIN"}
Done(r, a) == [r EXCEPT !.phase = "done", !.answer = a]

\* One step of the server for request r, which is q afterwards.
Serve(r, q) ==
  \/ /\ r.phase = "sent" /\ r.kind \in Guarded /\ UNCHANGED rows
     /\ q = IF Alive(r.session) THEN [r EXCEPT !.phase = "admitted"]
            ELSE Done(r, [code |-> "UNAUTHORIZED"])
  \/ /\ r.phase = IF r.kind \in Guarded THEN "admitted" ELSE "sent"
     /\ Transaction(r) /\ q = Done(r, Reply(r))

ServeControl ==
  Serve(control, control') /\ UNCHANGED <<now, device, poll, beat, unserved, faults, acts>>
ServePoll ==
  Serve(poll, poll') /\ UNCHANGED <<now, device, control, beat, unserved, faults, acts>>
ServeBeat ==
  Serve(beat, beat') /\ UNCHANGED <<now, device, control, poll, unserved, faults, acts>>
\* A cancelled request reaches the server after all; nobody reads the answer.
ServeLate ==
  /\ \E r \in unserved :
       \/ /\ r.phase = "sent" /\ r.kind \in Guarded /\ UNCHANGED rows
          /\ unserved' = (unserved \ {r}) \union
                      (IF Alive(r.session) THEN {[r EXCEPT !.phase = "admitted"]} ELSE {})
       \/ /\ r.phase = "admitted" \/ r.kind \notin Guarded
          /\ Transaction(r) /\ unserved' = unserved \ {r}
  /\ UNCHANGED <<now, channels, faults, acts>>

\* Another player joins: a silent entry expires first, then the two are paired,
\* or the newcomer waits when the ratings are too far apart.
RivalArrives ==
  /\ ~rival /\ UNCHANGED <<now, live, issued, channels, unserved, faults, acts>>
  /\ LET e == IF entry.status = "QUEUED" /\ entry.seen + QueueLease <= now
              THEN [entry EXCEPT !.status = "EXPIRED"] ELSE entry IN
     \/ e.status = "QUEUED" /\ Pair(e) /\ UNCHANGED rival
     \/ entry' = e /\ rival' = TRUE /\ UNCHANGED matches
RivalGoes ==
  /\ rival /\ rival' = FALSE
  /\ UNCHANGED <<now, live, issued, entry, matches, channels, unserved, faults, acts>>

\* The match is decided or cancelled; what happens in it is RankedMatch.tla.
MatchEnds ==
  /\ \E m \in Ongoing : matches' = [matches EXCEPT ![m].state = "OVER", ![m].ver = @ + 1]
  /\ UNCHANGED <<now, live, issued, entry, rival, channels, unserved, faults, acts>>

\* The player's other device, as the server sees it.
OtherEnters(take) ==
  /\ Create("other", take)
  /\ UNCHANGED <<now, channels, unserved, faults, acts>>
OtherBeats ==
  /\ live.dev = "other" /\ Alive(live.id) /\ live' = [live EXCEPT !.seen = now]
  /\ UNCHANGED <<now, issued, entry, rival, matches, channels, unserved, faults, acts>>
OtherLeaves ==
  /\ live.dev = "other" /\ Alive(live.id)
  /\ Close([session |-> live.id])
  /\ UNCHANGED <<now, channels, unserved, faults, acts>>

TimePasses ==
  /\ now < MaxTime /\ now' = now + 1
  /\ UNCHANGED <<rows, channels, unserved, faults, acts>>

-----------------------------------------------------------------------------
(* The device: RankedRuntime. *)

\* Requests the server still may serve although nobody waits for the answer;
\* of a poll, a heartbeat or a Ready that nobody waits for nothing is left.
Orphans(R) == {[r EXCEPT !.answer = NoAnswer] :
                 r \in {q \in R : q.phase \in {"sent", "admitted"}
                                 /\ q.kind \in {"SESSION", "JOIN", "LEAVE"}}}

Free(ch) == ch.phase = "none"
Answered(ch, k) == ch.phase = "done" /\ ch.kind = k
Act == acts < MaxActs /\ acts' = acts + 1
Show(v) == device' = v
Ask(q) == control' = q

\* The request of a channel fails at the transport; it may have arrived or not.
Fault ==
  /\ faults < MaxFaults /\ faults' = faults + 1
  /\ UNCHANGED <<now, rows, device, acts>>
  /\ LET Lost(r) == [r EXCEPT !.phase = "done", !.answer = [code |-> "FAULT"]]
         Loses(r) == r.phase \in {"sent", "admitted", "done"} /\ r.answer.code # "FAULT" IN
     \/ /\ Loses(control) /\ unserved' \in {unserved, unserved \union Orphans({control})}
        /\ control' = Lost(control) /\ UNCHANGED <<poll, beat>>
     \/ /\ Loses(poll) /\ unserved' \in {unserved, unserved \union Orphans({poll})}
        /\ poll' = Lost(poll) /\ UNCHANGED <<control, beat>>
     \/ /\ Loses(beat) /\ unserved' \in {unserved, unserved \union Orphans({beat})}
        /\ beat' = Lost(beat) /\ UNCHANGED <<control, poll>>

\* begin: everything of an earlier visit goes, then fetchConfig.
Begin ==
  /\ device.stage \notin {"Loading", "JoiningQueue", "Queued", "Matched"} /\ Act
  /\ unserved' = unserved \union Orphans({control, poll, beat})
  /\ Show([Out EXCEPT !.stage = "Loading"])
  /\ Ask([Idle EXCEPT !.kind = "CONFIG", !.phase = "done"])
  /\ poll' = Idle /\ beat' = Idle /\ UNCHANGED <<now, rows, faults>>

\* createSession; the answer's lease counts from the moment it is sent.
SendCreate(take) ==
  /\ Show([device EXCEPT !.stage = "Loading", !.elsewhere = FALSE])
  /\ Ask([Request("SESSION") EXCEPT !.take = take])

\* fetchConfig's answer: refused, held back by the gates, or on to createSession.
ConfigAnswered ==
  /\ Answered(control, "CONFIG") /\ UNCHANGED <<now, rows, poll, beat, unserved, faults, acts>>
  /\ \/ \E s \in {"Error", "AwaitingUpdate", "Blocked"} :
          Show([device EXCEPT !.stage = s]) /\ control' = Idle
     \/ SendCreate(FALSE)

\* recheckEnvironment
Recheck ==
  /\ device.stage = "Blocked" /\ UNCHANGED <<now, rows, poll, beat, unserved, faults, acts>>
  /\ IF device.session = 0
     THEN /\ Free(control) /\ Show([device EXCEPT !.stage = "Loading"])
          /\ Ask([Idle EXCEPT !.kind = "CONFIG", !.phase = "done"])
     ELSE /\ Show([device EXCEPT !.stage =
                        IF device.match = 0 THEN "Ready" ELSE "Matched"])
          /\ UNCHANGED control

TakeOver ==
  /\ device.elsewhere /\ Free(control) /\ Act /\ SendCreate(TRUE)
  /\ UNCHANGED <<now, rows, poll, beat, unserved, faults>>

\* Bug: the lease counts from the answer.
BugLeaseFromAnswer ==
  /\ Answered(control, "SESSION") /\ UNCHANGED <<now, rows, poll, beat, unserved, faults, acts>>
  /\ control' = Idle /\ control.answer.code = "SESSION"
  /\ Show([device EXCEPT !.session = control.answer.session, !.deadline = now + SessionLease])

SessionAnswered ==
  /\ Answered(control, "SESSION") /\ UNCHANGED <<now, rows, beat, unserved, faults, acts>>
  /\ LET a == control.answer
         v == [device EXCEPT !.session = a.session, !.deadline = control.sentAt + SessionLease] IN
     IF a.code # "SESSION"
     THEN /\ Show([device EXCEPT !.stage = "Error", !.elsewhere = a.code = "ELSEWHERE"])
          /\ control' = Idle /\ UNCHANGED poll
     ELSE IF a.active
     THEN /\ Show([v EXCEPT !.stage = "Queued", !.recovering = TRUE])
          /\ poll' = [Request("QUEUE") EXCEPT !.session = a.session]
          /\ control' = Idle
     ELSE /\ Show(v) /\ UNCHANGED poll        \* fetchActivePlacement
          /\ Ask([Idle EXCEPT !.kind = "PLACEMENT", !.phase = "done"])

\* fetchActivePlacement's answer, for a player whose placement is complete.
PlacementAnswered ==
  /\ Answered(control, "PLACEMENT") /\ control' = Idle
  /\ \E s \in {"Error", "Ready"} : Show([device EXCEPT !.stage = s])
  /\ UNCHANGED <<now, rows, poll, beat, unserved, faults, acts>>

\* joinQueue, from the view v
SendJoin(v) ==
  \/ /\ Show([v EXCEPT !.stage = "JoiningQueue"]) /\ Ask(Request("JOIN"))
     /\ unserved' = unserved \union Orphans({poll}) /\ poll' = Idle
  \/ Show([v EXCEPT !.stage = "Blocked"]) /\ UNCHANGED <<control, unserved, poll>>
JoinQueue ==
  /\ device.stage = "Ready" /\ Free(control) /\ device.session # 0 /\ Act
  /\ SendJoin(device) /\ UNCHANGED <<now, rows, beat, faults>>
JoinAnswered ==
  /\ Answered(control, "JOIN") /\ control' = Idle
  /\ IF control.answer.code = "OK"
     THEN /\ Show([device EXCEPT !.stage = "Queued"])
          /\ poll' = IF Free(poll) THEN Request("QUEUE") ELSE poll
     ELSE Show([device EXCEPT !.stage = "Ready"]) /\ UNCHANGED poll
  /\ UNCHANGED <<now, rows, beat, unserved, faults, acts>>

LeaveQueue ==
  /\ device.stage = "Queued" /\ Free(control) /\ device.session # 0 /\ Act
  /\ Show([device EXCEPT !.stage = "JoiningQueue"]) /\ Ask(Request("LEAVE"))
  /\ unserved' = unserved \union Orphans({poll}) /\ poll' = Idle
  /\ UNCHANGED <<now, rows, beat, faults>>
LeaveAnswered ==
  /\ Answered(control, "LEAVE") /\ control' = Idle
  /\ Show([device EXCEPT !.stage = IF control.answer.code = "OK" THEN "Ready" ELSE "Queued"])
  /\ UNCHANGED <<now, rows, poll, beat, unserved, faults, acts>>

\* tick: the lease is looked at first, then the heartbeat and the polls.
Connected == device.session # 0 /\ now < device.deadline
SendBeat ==
  /\ Connected /\ Free(beat) /\ beat' = Request("BEAT")
  /\ UNCHANGED <<now, rows, device, control, poll, unserved, faults, acts>>
PollQueue ==
  /\ Connected /\ Free(poll) /\ device.stage = "Queued"
  /\ poll' = Request("QUEUE")
  /\ UNCHANGED <<now, rows, device, control, beat, unserved, faults, acts>>
PollMatch ==
  /\ Connected /\ Free(poll) /\ device.stage = "Matched"
  /\ device.token # 0 /\ device.match # 0
  /\ poll' = Request("MATCH")
  /\ UNCHANGED <<now, rows, device, control, beat, unserved, faults, acts>>

QueueAnswered ==
  /\ Answered(poll, "QUEUE") /\ UNCHANGED <<now, rows, beat, unserved, faults, acts>>
  /\ LET a == poll.answer
         found == [device EXCEPT !.stage = "Matched", !.match = a.match, !.token = a.token,
                                    !.recovering = FALSE] IN
     IF a.code = "MATCHED"
     THEN /\ Show(found) /\ UNCHANGED control     \* and pollMatch at once
          /\ poll' = [Request("MATCH") EXCEPT !.match = a.match, !.token = a.token]
     ELSE /\ poll' = Idle
          /\ IF device.recovering /\ a.code = "NOT_QUEUED"
             THEN /\ IF Free(control)
                     THEN /\ Show([device EXCEPT !.stage = "Loading", !.recovering = FALSE])
                          /\ Ask([Idle EXCEPT !.kind = "PLACEMENT", !.phase = "done"])
                     ELSE Show([device EXCEPT !.recovering = FALSE]) /\ UNCHANGED control
             ELSE UNCHANGED <<device, control>>

\* Bug: the version of the answer is not compared.
BugApplyAny(v, a) == [v EXCEPT !.state = a.state, !.ver = a.ver]

\* parseMatchState: an answer about the shown match never takes it back.
Apply(v, a) ==
  IF a.match = v.match /\ a.ver < v.ver THEN v ELSE [v EXCEPT !.state = a.state, !.ver = a.ver]
MatchAnswered ==
  /\ Answered(poll, "MATCH") /\ poll' = Idle
  /\ LET a == poll.answer IN
     Show(IF a.code = "STATE" /\ device.stage = "Matched" /\ device.match = a.match
             THEN Apply(device, a) ELSE device)
  /\ UNCHANGED <<now, rows, control, beat, unserved, faults, acts>>

\* submitReady: its answer is applied to whatever is shown by then.
SubmitReady ==
  /\ device.stage = "Matched" /\ device.state = "MATCHED" /\ Free(control) /\ Act
  /\ Ask(Request("READY"))
  /\ UNCHANGED <<now, rows, device, poll, beat, unserved, faults>>
ReadyAnswered ==
  /\ Answered(control, "READY") /\ control' = Idle
  /\ Show(IF control.answer.code = "STATE" THEN Apply(device, control.answer)
             ELSE device)
  /\ UNCHANGED <<now, rows, poll, beat, unserved, faults, acts>>

\* dismissMatch: the poll is cancelled and the view emptied.
Dismissed(v) == [v EXCEPT !.stage = "Ready", !.match = 0, !.state = "none", !.ver = 0, !.token = 0]
DismissMatch ==
  /\ device.stage = "Matched" /\ device.state = "OVER" /\ Act
  /\ Show(Dismissed(device))
  /\ unserved' = unserved \union Orphans({poll}) /\ poll' = Idle
  /\ UNCHANGED <<now, rows, control, beat, faults>>
QueueAgain ==
  /\ device.stage = "Matched" /\ device.state = "OVER" /\ Act /\ Free(control)
  /\ SendJoin(Dismissed(device)) /\ UNCHANGED <<now, rows, beat, faults>>

\* leaveRanked: every request is cancelled and the session closed without waiting.
Disconnect(stage) ==
  /\ Show([device EXCEPT !.stage = stage, !.session = 0, !.deadline = 0])
  /\ unserved' = unserved \union Orphans({control, poll, beat}) \union {Request("CLOSE")}
  /\ control' = Idle /\ poll' = Idle /\ beat' = Idle

\* updateSessionHeartbeat's callback
BeatAnswered ==
  /\ Answered(beat, "BEAT") /\ UNCHANGED <<now, rows, faults, acts>>
  /\ LET a == beat.answer IN
     IF a.code = "UNAUTHORIZED"
     THEN Disconnect("Error")
     ELSE /\ beat' = Idle /\ UNCHANGED <<control, poll, unserved>>
          /\ Show(IF a.code = "OK" THEN [device EXCEPT !.deadline = beat.sentAt + SessionLease]
                     ELSE device)
LeaseRunsOut ==
  /\ device.session # 0 /\ now >= device.deadline
  /\ Disconnect("Error") /\ UNCHANGED <<now, rows, faults, acts>>
LeaveRanked ==
  /\ device.session # 0 /\ Act /\ Disconnect("Idle") /\ UNCHANGED <<now, rows, faults>>

-----------------------------------------------------------------------------
AdmissionInit ==
  /\ now = 0 /\ live = NoSession /\ issued = 0 /\ entry = NoEntry /\ rival = FALSE
  /\ matches = <<>> /\ unserved = {} /\ faults = 0 /\ acts = 0
  /\ device = Out /\ control = Idle /\ poll = Idle /\ beat = Idle

ServerStep == ServeControl \/ ServePoll \/ ServeBeat
Callback ==
  \/ ConfigAnswered \/ SessionAnswered \/ PlacementAnswered \/ JoinAnswered
  \/ LeaveAnswered \/ QueueAnswered \/ MatchAnswered \/ ReadyAnswered
  \/ BeatAnswered
Timer == SendBeat \/ PollQueue \/ PollMatch \/ LeaseRunsOut
Player ==
  \/ Begin \/ Recheck \/ TakeOver \/ JoinQueue \/ LeaveQueue
  \/ SubmitReady \/ DismissMatch \/ QueueAgain \/ LeaveRanked

AdmissionNext ==
  \/ ServerStep \/ Callback \/ Timer \/ Player \/ Fault
  \/ (\E take \in BOOLEAN : OtherEnters(take)) \/ OtherBeats \/ OtherLeaves
  \/ ServeLate \/ RivalArrives \/ RivalGoes \/ MatchEnds \/ TimePasses

AdmissionSpec == AdmissionInit /\ [][AdmissionNext]_admissionVars

-----------------------------------------------------------------------------
(* What admission promises. *)

\* The place in the queue and the unfinished match belong to the session that
\* is live: a request of a replaced device never owns either (the player's lock
\* in lockAdmission, create and close), and the match token is that session's.
AssignmentFollowsSession ==
  /\ entry.status = "QUEUED" => entry.session = live.id
  /\ \A m \in Ongoing : entry.status = "MATCHED" => /\ entry.match = m
                                                  /\ entry.session = live.id
                                                  /\ matches[m].token = live.id

\* A player is in one unfinished match at most, however his own join, the
\* opponent's join and a take-over interleave (assertNoActiveMatch).
OneUnfinishedMatch == Cardinality(Ongoing) <= 1

\* The device that was let in last is the one modelled with its client.
NewestIsOwn == device.session = issued \/ (live.id # 0 /\ live.dev = "own")

\* The other device is let in without a take-over only after the device that
\* was let in last has passed its own deadline, which counts from the sending of
\* the request, or at the end of its token, of which no answer tells the device:
\* then it may go on counting itself as connected, but for no longer than the
\* lease that its last heartbeat was granted.
AdmittedOnlyAfterLease ==
  [][OtherEnters(FALSE) /\ issued' # issued /\ NewestIsOwn /\ Connected
       => TokenOver /\ ~Silent /\ device.deadline <= live.seen + SessionLease]_admissionVars

\* What a device shows of a match is never taken back by a late answer.
ShownMatchNeverGoesBack ==
  [][device'.match = device.match /\ device.match # 0 => device'.ver >= device.ver]_admissionVars

\* A dismissed match is not shown again: the view stays empty until the queue
\* assigns the next match (the comment in dismissMatch).
DismissedMatchStaysGone ==
  device.match = 0 => device.state = "none"
=============================================================================
