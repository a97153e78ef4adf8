---------------------------- MODULE SpectatorLive ----------------------------
(***************************************************************************)
(* The live picture of an opponent: the publisher in the client of the      *)
(* player (SpectatorLiveRuntime.cpp, SpectatorPublishQueue.hpp), the relay  *)
(* of the server (spectator-live.service.ts, spectator-relay.ts) and the    *)
(* viewer in the client of the opponent.  All three restart independently:  *)
(* a refused batch begins a new generation of the stream, a silent stream   *)
(* is dropped by the relay, a gap makes the viewer ask for the stream anew. *)
(*                                                                         *)
(* One round of a match.  A pose is the k-th picture of the n-th visual     *)
(* attempt; the server's attempt of the n-th visual one is n.  The journal  *)
(* that obtains it is AttemptTransport.tla, here its acknowledgements only. *)
(***************************************************************************)
EXTENDS Integers, Sequences

CONSTANTS
  MaxPlays,      \* bound: attempts of the round
  MaxPoses,      \* bound: pictures captured in an attempt, by attempt, with the terminal one
  QueueCap,      \* SpectatorPublishQueue: captured, not acknowledged
  BatchMax,      \* pictures in one POST
  Page,          \* SPECTATOR_HISTORY_PAGE_PACKETS
  LateWindow,    \* pictures a late viewer is given without a history
  FailureLimit,  \* failed restores in a row before the viewer gives a stream up
  MaxFaults      \* bound: lost answers, time-outs, viewers that start over

ASSUME LiveBounds ==
  /\ {MaxPlays, QueueCap, BatchMax, FailureLimit, MaxFaults} \subseteq Nat
  /\ {Page, LateWindow} \subseteq Nat \ {0}

VARIABLES
  play,     \* the game: attempts begun, the current one, what the journal knows
  turn,     \* attempt in progress and the one that just ended
  pub,      \* the publisher with its two requests
  relay,    \* the stream the server holds
  view,     \* the viewer
  ask,      \* its request
  faults

liveVars == <<play, turn, pub, relay, view, ask, faults>>

NoStream == [attempt |-> 0, gen |-> 0, packets |-> <<>>]
NoPost == [phase |-> "none", attempt |-> 0, gen |-> 0, packets |-> <<>>, batched |-> FALSE]
NoTerminal == [state |-> "none", pose |-> [of |-> 0, k |-> 0], attempt |-> 0, gen |-> 0, seq |-> 0]
NewPublisher == [attempt |-> 0, gen |-> 0, seq |-> 0, queue |-> <<>>, batch |-> <<>>,
          post |-> NoPost, terminal |-> NoTerminal, sending |-> NoPost, done |-> 0,
          loose |-> {}]
NoView == [attempt |-> 0, gen |-> 0, last |-> -1, shown |-> <<>>, over |-> FALSE, force |-> FALSE,
           ended |-> 0, restoring |-> FALSE, fails |-> 0, rejected |-> <<0, 0>>]
NoAsk == [phase |-> "none", attempt |-> 0, gen |-> 0, after |-> -1]

LiveTypeOK ==
  /\ Len(pub.queue) <= QueueCap /\ Len(pub.batch) <= BatchMax
  /\ pub.terminal.state \in {"none", "deferred", "pending"}
  /\ turn.now \in 0 .. MaxPlays /\ turn.ended \in 0 .. MaxPlays
  /\ relay.attempt \in 0 .. MaxPlays /\ view.attempt \in 0 .. MaxPlays
  /\ view.fails \in 0 .. FailureLimit /\ ask.phase \in {"none", "sent", "answered"}

LastSeq(S) == IF S = <<>> THEN -1 ELSE S[Len(S)].seq
Ends(S) == S # <<>> /\ S[Len(S)].end
Oldest(S, n) == SubSeq(S, 1, IF n < Len(S) THEN n ELSE Len(S))
Newest(S, n) == SubSeq(S, IF n < Len(S) THEN Len(S) - n + 1 ELSE 1, Len(S))
\* The pictures after the n-th.
After(S, n) ==
  LET newer[i \in 0 .. Len(S)] ==
        IF i = 0 THEN <<>>
        ELSE IF S[i].seq > n THEN Append(newer[i - 1], S[i]) ELSE newer[i - 1]
  IN newer[Len(S)]

-----------------------------------------------------------------------------
(* The publisher. *)

\* spectatorLiveAttemptId: the attempt of this run, once its Start is acknowledged.
Id == IF play.started = play.begun /\ play.closed < play.started THEN play.started ELSE 0

\* A request that nobody waits for any more may still reach the server.
Abandon(p, post) == IF post.phase = "sent" THEN p.loose \union {post} ELSE p.loose

ResetPublisher(p) ==
  [p EXCEPT !.attempt = 0, !.seq = 0, !.queue = <<>>, !.batch = <<>>,
            !.post = NoPost, !.loose = Abandon(p, p.post)]
\* Bug: what was captured of the attempt before stays in the queue.
BugStartGeneration(p, a) ==
  IF p.attempt = a THEN p ELSE [p EXCEPT !.attempt = a, !.gen = @ + 1]

\* startPublisherGeneration
StartGeneration(p, a) ==
  IF p.attempt = a THEN p
  ELSE [ResetPublisher(p) EXCEPT !.attempt = a, !.gen = @ + 1]

\* One POST at a time: the batch that is not acknowledged yet, or the next one.
Publish(p) ==
  LET batch == IF p.batch # <<>> THEN p.batch ELSE Oldest(p.queue, BatchMax) IN
  IF p.post.phase # "none" \/ p.attempt = 0 \/ batch = <<>> THEN p
  ELSE [p EXCEPT !.batch = batch,
                 !.post = [phase |-> "sent", attempt |-> p.attempt, gen |-> p.gen,
                           packets |-> batch, batched |-> TRUE]]

\* tickTerminal: the pictures before the terminal one first, then its own POST.
TickTerminal(p) ==
  LET t == p.terminal IN
  IF t.state # "pending" \/ p.sending.phase # "none"
     \/ (p.post.phase # "none" /\ p.attempt = p.done) THEN p
  ELSE IF p.queue # <<>> \/ p.batch # <<>> THEN Publish(p)
  ELSE [p EXCEPT !.sending =
         [phase |-> "sent", attempt |-> t.attempt, gen |-> t.gen, batched |-> FALSE,
          packets |-> <<[seq |-> t.seq, pose |-> t.pose, end |-> TRUE]>>]]

\* publishTerminal: taken at once, deferred when the attempt has no id yet.
PublishTerminal(p, pose) ==
  IF Id = 0
  THEN [p EXCEPT !.terminal = [NoTerminal EXCEPT !.state = "deferred", !.pose = pose]]
  ELSE IF Id = p.done THEN p
  ELSE LET q == StartGeneration(p, Id) IN
       TickTerminal([q EXCEPT
         !.terminal = [state |-> "pending", pose |-> pose, attempt |-> Id, gen |-> q.gen,
                       seq |-> q.seq],
         !.done = Id, !.sending = NoPost, !.loose = Abandon(q, q.sending)])

\* The deferred terminal goes out when an id is there.
DrainDeferred(p) ==
  IF p.terminal.state = "deferred" /\ Id # 0
  THEN PublishTerminal([p EXCEPT !.terminal = NoTerminal], p.terminal.pose)
  ELSE TickTerminal(p)

Capture(p, pose) ==
  [p EXCEPT !.queue = Append(@, [seq |-> p.seq, pose |-> pose, end |-> FALSE]), !.seq = @ + 1]

\* SpectatorPublishQueue::full
Room(q) == Len(q.queue) < QueueCap

\* tickPublisher, once a frame; a sample is due or not.
Frame(due) ==
  LET p == DrainDeferred(pub)
      idle == IF p.terminal.state = "pending" THEN p ELSE ResetPublisher(p)
      q == StartGeneration(p, Id)
      takes == /\ due /\ play.alive /\ Id # 0 /\ Id # q.done
               /\ Room(q) /\ play.k + 1 < MaxPoses[play.begun]
      pose == [of |-> play.begun, k |-> play.k + 1] IN
  /\ due => takes
  /\ pub' = IF Id = 0 THEN idle ELSE IF Id = q.done THEN q
            ELSE Publish(IF takes THEN Capture(q, pose) ELSE q)
  /\ play' = IF takes THEN [play EXCEPT !.k = @ + 1] ELSE play
  /\ UNCHANGED <<turn, relay, view, ask, faults>>

\* A confirmed death or clear.
Die ==
  /\ play.alive /\ play' = [play EXCEPT !.alive = FALSE]
  /\ pub' = PublishTerminal(pub, [of |-> play.begun, k |-> play.k + 1])
  /\ UNCHANGED <<turn, relay, view, ask, faults>>

\* Bug: a refused batch is sent again like one that was lost.
BugRefused(p) == p

\* 409: the stream begins again with what is captured next.
Refused(p) ==
  [p EXCEPT !.gen = @ + 1, !.queue = <<>>, !.batch = <<>>, !.seq = 0,
            !.terminal = IF @.state = "pending" THEN [@ EXCEPT !.gen = p.gen + 1, !.seq = 0]
                         ELSE @]
\* The callback of publish.
PostAnswered ==
  LET p == [pub EXCEPT !.post = NoPost] IN
  /\ pub.post.phase \in {"ok", "conflict", "error"}
  /\ pub' = CASE pub.post.phase = "ok" ->
                   [p EXCEPT !.batch = <<>>,
                             !.queue = After(@, LastSeq(pub.batch))]
              [] pub.post.phase = "conflict" -> Refused(p)
              [] OTHER -> p
  /\ UNCHANGED <<play, turn, relay, view, ask, faults>>
\* The callback of the terminal request: only a network error or 409 is retried.
TerminalAnswered ==
  /\ pub.sending.phase \in {"ok", "conflict", "error"}
  /\ pub' = [pub EXCEPT !.sending = NoPost,
                        !.terminal.state = IF pub.sending.phase = "ok" THEN "none" ELSE @]
  /\ UNCHANGED <<play, turn, relay, view, ask, faults>>

-----------------------------------------------------------------------------
(* The game and its journal. *)

BeginRun ==
  /\ ~play.alive /\ play.begun < MaxPlays
  /\ play' = [play EXCEPT !.begun = @ + 1, !.alive = TRUE, !.k = 0]
  /\ UNCHANGED <<turn, pub, relay, view, ask, faults>>
StartAcked ==
  /\ play.started < play.begun /\ play.closed = play.started
  /\ play' = [play EXCEPT !.started = @ + 1] /\ turn' = [turn EXCEPT !.now = play'.started]
  /\ UNCHANGED <<pub, relay, view, ask, faults>>
EndHandled ==
  /\ turn.now # 0 /\ (turn.now < play.begun \/ ~play.alive)
  /\ turn' = [now |-> 0, ended |-> turn.now]
  /\ UNCHANGED <<play, pub, relay, view, ask, faults>>
EndAcked ==
  /\ play.closed < play.started /\ turn.now = 0
  /\ play' = [play EXCEPT !.closed = @ + 1] /\ UNCHANGED <<turn, pub, relay, view, ask, faults>>

-----------------------------------------------------------------------------
(* The relay. *)

\* reconcileStreams: only the attempt in progress or just ended keeps its stream.
Kept == IF relay.attempt \in {turn.now, turn.ended} THEN relay ELSE NoStream

\* What a POST is added to, NoStream when it is refused.
Base(b) ==
  LET first == b.packets[1].seq
      empty == [attempt |-> b.attempt, gen |-> b.gen, packets |-> <<>>] IN
  IF b.attempt \notin {turn.now, turn.ended} THEN NoStream
  ELSE IF Kept.attempt # b.attempt THEN IF first = 0 THEN empty ELSE NoStream
  ELSE IF b.gen > Kept.gen THEN IF first = 0 /\ ~Ends(Kept.packets) THEN empty ELSE NoStream
  ELSE IF b.gen = Kept.gen THEN Kept ELSE NoStream

\* publish: pictures that are there already must be the same, the others follow
\* the last one, and nothing follows the terminal one.
Accepts(s, b) ==
  LET old == {i \in DOMAIN b.packets : b.packets[i].seq <= LastSeq(s.packets)} IN
  /\ s # NoStream
  /\ \A i \in old : /\ \E j \in DOMAIN s.packets : b.packets[i] = s.packets[j]
                    /\ b.batched \/ b.packets[i].end
  /\ old # DOMAIN b.packets => ~Ends(s.packets)
Added(s, b) ==
  [s EXCEPT !.packets = @ \o After(b.packets, LastSeq(s.packets))]

Fault == faults < MaxFaults /\ faults' = faults + 1
Calm == UNCHANGED faults

\* A POST reaches the server; its answer is heard or not.
Receive(b) == relay' = IF Accepts(Base(b), b) THEN Added(Base(b), b) ELSE Kept
PostReply(b) == IF Accepts(Base(b), b) THEN "ok" ELSE "conflict"
ServePost ==
  /\ pub.post.phase = "sent"
  /\ \/ Receive(pub.post) /\ pub' = [pub EXCEPT !.post.phase = PostReply(pub.post)] /\ Calm
     \/ /\ Receive(pub.post) \/ UNCHANGED relay
        /\ pub' = [pub EXCEPT !.post.phase = "error"] /\ Fault
  /\ UNCHANGED <<play, turn, view, ask>>
ServeTerminal ==
  /\ pub.sending.phase = "sent"
  /\ \/ Receive(pub.sending) /\ pub' = [pub EXCEPT !.sending.phase = PostReply(pub.sending)] /\ Calm
     \/ /\ Receive(pub.sending) \/ UNCHANGED relay
        /\ pub' = [pub EXCEPT !.sending.phase = "error"] /\ Fault
  /\ UNCHANGED <<play, turn, view, ask>>
\* A request that was abandoned arrives, or does not.
ServeLoose ==
  /\ \E b \in pub.loose :
       /\ Receive(b) \/ UNCHANGED relay
       /\ pub' = [pub EXCEPT !.loose = @ \ {b}]
  /\ Calm /\ UNCHANGED <<play, turn, view, ask>>

\* SPECTATOR_LIVE_TIMEOUT_MS, of the stream, of the attempt that ended, and of
\* the terminal at the publisher.
StreamTimesOut == /\ relay # NoStream /\ relay' = NoStream /\ Fault
                  /\ UNCHANGED <<play, turn, pub, view, ask>>
EndedTimesOut == /\ turn.ended # 0 /\ turn' = [turn EXCEPT !.ended = 0]
                 /\ UNCHANGED <<play, pub, relay, view, ask, faults>>
TerminalTimesOut ==
  /\ pub.terminal.state # "none" /\ pub' = [pub EXCEPT !.terminal.state = "none"]
  /\ UNCHANGED <<play, turn, relay, view, ask, faults>>

\* The pictures after the viewer's cursor are no longer held.
Missed(s, q, source) ==
  /\ q.after >= 0 /\ LastSeq(s.packets) > q.after /\ source[1].seq > q.after + 1

\* readSpectatorStream; a stream that began with the attempt has its history.
Read(s, q) ==
  LET last == LastSeq(s.packets)
      same == q.attempt = s.attempt /\ q.gen = s.gen
      interrupted == same /\ Ends(s.packets) /\ q.after >= 0 /\ last - q.after > Page
      available == ~interrupted /\ s.packets[1].pose.k = 1
      source == IF available THEN s.packets ELSE Newest(s.packets, LateWindow)
      reset == interrupted \/ ~same \/ Missed(s, q, source)
      after == IF reset THEN -1 ELSE q.after
      newer == After(source, after)
      packets == IF available THEN Oldest(newer, Page) ELSE newer IN
  IF after > last \/ (after >= 0 /\ newer # <<>> /\ newer[1].seq > after + 1)
  THEN [kind |-> "fallback"]
  ELSE [kind |-> "stream", attempt |-> s.attempt, gen |-> s.gen, reset |-> reset,
        interrupted |-> interrupted, available |-> available, head |-> last, packets |-> packets,
        caughtUp |-> (IF packets = <<>> THEN after ELSE LastSeq(packets)) >= last]

\* subscribe: the attempt in progress, or the one just ended with its terminal.
Served ==
  \/ turn.now # 0 /\ relay.attempt = turn.now
  \/ turn.now = 0 /\ relay # NoStream /\ relay.attempt = turn.ended /\ Ends(relay.packets)
Subscribe(q) == IF Served THEN Read(relay, q) ELSE [kind |-> "waiting"]
Left == IF turn.now # 0 /\ relay.attempt # turn.now THEN NoStream ELSE Kept

-----------------------------------------------------------------------------
(* The viewer. *)

PollStream ==
  /\ ask.phase = "none"
  /\ ask' = IF view.force \/ view.attempt = 0 THEN [NoAsk EXCEPT !.phase = "sent"]
            ELSE [phase |-> "sent", attempt |-> view.attempt, gen |-> view.gen,
                  after |-> view.last]
  /\ UNCHANGED <<play, turn, pub, relay, view, faults>>

\* Fallback: what is shown stays; the stream is asked for anew, until it failed
\* too often.
Failed(v) ==
  IF v.fails + 1 >= FailureLimit
  THEN [v EXCEPT !.fails = FailureLimit, !.rejected = <<v.attempt, v.gen>>, !.force = FALSE,
                 !.restoring = FALSE]
  ELSE [v EXCEPT !.fails = @ + 1, !.force = TRUE]

Renewed(v, r) ==
  [v EXCEPT !.attempt = r.attempt, !.gen = r.gen, !.last = -1, !.shown = <<>>, !.over = FALSE,
            !.rejected = <<0, 0>>, !.restoring = r.available]

\* SEQUENCE_GAP, also of the first picture of a history.
InOrder(v, f) == IF v.last >= 0 \/ v.restoring THEN f.seq = v.last + 1 ELSE TRUE

\* One packet of an answer; stop says that the rest is not looked at.
Take(w, f) ==
  IF w.stop \/ f.seq <= w.v.last THEN w
  ELSE IF w.v.ended = w.v.attempt THEN [w EXCEPT !.stop = TRUE]
  ELSE IF ~InOrder(w.v, f) \/ w.v.over THEN [v |-> Failed(w.v), stop |-> TRUE]
  ELSE [w EXCEPT !.v.last = f.seq, !.v.shown = Append(@, f.pose), !.v.over = f.end,
                 !.v.fails = 0, !.v.ended = IF f.end THEN w.v.attempt ELSE @]

\* The packets of an answer in turn.
Taken(start, S) ==
  LET w[i \in 0 .. Len(S)] == IF i = 0 THEN start ELSE Take(w[i - 1], S[i])
  IN w[Len(S)]

\* applyViewerResponse
Applied(v, r) ==
  LET changed == r.attempt # v.attempt \/ r.gen # v.gen
      start == [(IF changed \/ r.reset THEN Renewed(v, r) ELSE v) EXCEPT !.force = FALSE]
      w == Taken([v |-> start, stop |-> FALSE], r.packets) IN
  CASE r.kind = "fallback" -> Failed(v)
    [] r.kind = "waiting" -> IF v.restoring THEN [v EXCEPT !.restoring = FALSE, !.force = TRUE]
                             ELSE v
    [] r.kind = "stream" /\ v.rejected = <<r.attempt, r.gen>> -> v
    [] r.kind = "stream" /\ v.rejected # <<r.attempt, r.gen>> ->
         IF ~changed /\ r.interrupted
         THEN LET f == r.packets[Len(r.packets)] IN
              [v EXCEPT !.shown = <<f.pose>>, !.over = TRUE, !.ended = v.attempt,
                        !.last = f.seq, !.force = FALSE, !.restoring = FALSE]
         ELSE IF r.attempt = v.attempt /\ r.gen < v.gen THEN Failed(v)
         ELSE IF w.stop THEN w.v
         ELSE IF w.v.last > r.head \/ r.caughtUp # (w.v.last >= r.head) THEN Failed(w.v)
         ELSE [w.v EXCEPT !.restoring = @ /\ ~r.caughtUp]

\* The server answers and drops what is obsolete; then the callback.
Answer ==
  /\ ask.phase = "sent" /\ relay' = Left /\ Calm
  /\ ask' = [phase |-> "answered", r |-> Subscribe(ask)]
  /\ UNCHANGED <<play, turn, pub, view>>
AnswerLost == /\ ask.phase = "sent" /\ ask' = NoAsk /\ Fault
              /\ UNCHANGED <<play, turn, pub, relay, view>>
Apply ==
  /\ ask.phase = "answered" /\ view' = Applied(view, ask.r) /\ ask' = NoAsk
  /\ UNCHANGED <<play, turn, pub, relay, faults>>
\* The viewer leaves the scene and comes back: resetViewer, the answer is dropped.
ViewAgain ==
  /\ view # NoView /\ view' = NoView /\ ask' = NoAsk /\ Fault
  /\ UNCHANGED <<play, turn, pub, relay>>
\* requestSceneRestore
RestoreScene ==
  /\ view.attempt # 0 /\ view' = [view EXCEPT !.force = TRUE, !.fails = 0] /\ Fault
  /\ UNCHANGED <<play, turn, pub, relay, ask>>

-----------------------------------------------------------------------------
LiveInit ==
  /\ play = [begun |-> 0, alive |-> FALSE, k |-> 0, started |-> 0, closed |-> 0]
  /\ turn = [now |-> 0, ended |-> 0]
  /\ pub = NewPublisher /\ relay = NoStream /\ view = NoView /\ ask = NoAsk /\ faults = 0

LiveNext ==
  \/ (\E due \in BOOLEAN : Frame(due)) \/ Die \/ PostAnswered \/ TerminalAnswered
  \/ BeginRun \/ StartAcked \/ EndHandled \/ EndAcked
  \/ ServePost \/ ServeTerminal \/ ServeLoose
  \/ StreamTimesOut \/ EndedTimesOut \/ TerminalTimesOut
  \/ PollStream \/ Answer \/ AnswerLost \/ Apply \/ ViewAgain \/ RestoreScene

LiveSpec == LiveInit /\ [][LiveNext]_liveVars

\* Both clients run their frames, requests and journal are answered, deadlines
\* pass.
LiveFairness ==
  /\ WF_liveVars(StartAcked) /\ WF_liveVars(EndHandled) /\ WF_liveVars(EndAcked)
  /\ WF_liveVars(Frame(FALSE)) /\ WF_liveVars(PostAnswered) /\ WF_liveVars(TerminalAnswered)
  /\ WF_liveVars(ServePost) /\ WF_liveVars(ServeTerminal) /\ WF_liveVars(ServeLoose)
  /\ WF_liveVars(TerminalTimesOut)
  /\ WF_liveVars(PollStream) /\ WF_liveVars(Answer) /\ WF_liveVars(Apply)
FairLiveSpec == LiveSpec /\ LiveFairness

-----------------------------------------------------------------------------
\* What a viewer is shown of one stream are the pictures of one attempt as they
\* were taken, none left out or repeated before the terminal one, and nothing
\* after that: through lost answers, abandoned batches that arrive late,
\* generations that begin again and streams the relay dropped.
PresentedInOrder ==
  \A i \in 1 .. Len(view.shown) - 1 :
    LET a == view.shown[i] b == view.shown[i + 1] IN
    \/ b.of = a.of /\ b.k = a.k + 1
    \/ view.over /\ i + 1 = Len(view.shown)

\* In the end every captured picture is acknowledged or given up, and the viewer
\* is at the newest one of the stream it is served, or has seen the end of that
\* attempt: the restarts of the three parts converge.
AtTheHead ==
  Served => \/ view.attempt = relay.attempt /\ view.gen = relay.gen
                 /\ view.last = LastSeq(relay.packets)
            \/ view.ended = relay.attempt
PictureConverges == <>[](AtTheHead /\ pub.queue = <<>> /\ pub.batch = <<>>)
=============================================================================
