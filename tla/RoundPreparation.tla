-------------------------- MODULE RoundPreparation --------------------------
(***************************************************************************)
(* What a client does between the map of a round and the PlayLayer of that  *)
(* round: RankedLevelPreparation looks the level up online and attests its  *)
(* metadata, RankedRoundPreparation downloads the level and its song, then  *)
(* launches the native scene and takes it back.  Both are driven by pump()  *)
(* and by callbacks of the game's managers (GameLevelManager and            *)
(* MusicDownloadManager, external), which carry no request identity: one    *)
(* delegate slot for every download, shared with the rest of the game.      *)
(*                                                                         *)
(* A solo round with one custom song, looked up and downloaded by its id    *)
(* (the content URL of library songs and effects is left out).  The rounds  *)
(* of a match may use the same level, so one level is enough.               *)
(***************************************************************************)
EXTENDS Integers, FiniteSets

CONSTANTS
  Rounds,        \* the contexts: match, round, level
  MaxTries,      \* RoundResourceRetry: requests per resource and context
  Quiet,         \* pumps without native activity before a request counts as over
  MaxChanges,    \* bound: changes of the context
  MaxMishaps     \* bound: failures, foreign downloads, updates of the level

ASSUME PreparationAssumption == MaxTries \in Nat /\ Quiet \in Nat \ {0}

VARIABLES
  context,   \* currentPreparationContext()
  app,       \* both singletons of the mod, and the game's managers in app.gd
  scene,     \* the native scene of the last launch
  changes, mishaps

prepVars == <<context, app, scene, changes, mishaps>>

None == "none"
Sounds == {"info", "file"}    \* RoundResourceKind::SongInfo and Song of the song
NoTicket == [open |-> FALSE, for |-> None, quiet |-> 0, over |-> FALSE,
             dropped |-> FALSE, error |-> "none"]
NoMap == [pending |-> FALSE, done |-> FALSE, dropped |-> FALSE, for |-> None,
          got |-> 0, quiet |-> 0, stale |-> FALSE]
NoLookup == [busy |-> FALSE, for |-> None, dropped |-> FALSE, proof |-> None,
             version |-> 0, held |-> "none", error |-> FALSE]
Managers == [online |-> 1, saved |-> 0, lookup |-> FALSE, delegate |-> "none",
             map |-> "idle", call |-> "none", sound |-> [k \in Sounds |-> "idle"],
             have |-> [k \in Sounds |-> FALSE]]
App == [for |-> None, age |-> 0, mapReady |-> FALSE, audioReady |-> FALSE,
        error |-> "none", tries |-> 0, asked |-> [k \in Sounds |-> 0],
        audioFailure |-> "none", permanent |-> {},
        map |-> NoMap, lookup |-> NoLookup,
        ticket |-> [k \in Sounds |-> NoTicket], gd |-> Managers]
NoPlay == [live |-> FALSE, on |-> FALSE, returning |-> FALSE, popped |-> FALSE]

PrepTypeOK ==
  /\ context \in Rounds \union {None} /\ app.for \in Rounds \union {None}
  /\ app.tries \in 0 .. MaxTries /\ \A k \in Sounds : app.asked[k] \in 0 .. MaxTries
  /\ app.map.quiet < Quiet /\ \A k \in Sounds : app.ticket[k].quiet < Quiet
  /\ app.gd.saved \in 0 .. app.gd.online /\ app.lookup.version \in 0 .. app.gd.online
  /\ scene \in [live : BOOLEAN, on : BOOLEAN, returning : BOOLEAN, popped : BOOLEAN]

-----------------------------------------------------------------------------
(* RankedLevelPreparation: the metadata of the level, attested online. *)

\* The level that is held is an object of the game: a listed one as it was
\* found, or the saved one, which a download may replace under the pointer.
HeldVersion(a) == IF a.lookup.held = "saved" THEN a.gd.saved ELSE a.lookup.version
Authorizes(a, version) ==
  /\ context # None /\ a.lookup.held # "none"
  /\ a.lookup.proof = context /\ a.lookup.version = version
Level(a) == Authorizes(a, HeldVersion(a))

Adopt(a) ==     \* adoptVerifiedSavedLevel
  IF Level(a) /\ a.gd.saved > 0 /\ Authorizes(a, a.gd.saved)
  THEN [a EXCEPT !.lookup.held = "saved"] ELSE a

Forget(l) == [l EXCEPT !.proof = None, !.version = 0, !.held = "none"]
Invalidate(a) ==
  LET l == [a.lookup EXCEPT !.dropped = @ \/ (a.lookup.busy /\ a.lookup.for = context)]
  IN  [a EXCEPT !.lookup = IF l.proof = context THEN Forget(l) ELSE l]

\* observeContext, then the one online query, unless the game runs it already.
PollLookup(a) ==
  LET l == a.lookup
      seen == [l EXCEPT !.dropped = @ \/ (l.busy /\ l.for # context)]
      b == [a EXCEPT !.lookup = IF l.proof # context THEN Forget(seen) ELSE seen] IN
  IF Level(b) \/ l.busy \/ a.gd.lookup THEN b
  ELSE [b EXCEPT !.lookup.busy = TRUE, !.lookup.for = context, !.lookup.dropped = FALSE,
                 !.lookup.held = "none", !.lookup.error = FALSE, !.gd.lookup = TRUE]

\* loadLevelsFinished, loadLevelsFailed, or responseCompleted without either.
LookupAnswered(found) ==
  LET l == app.lookup
      accepted == ~l.dropped /\ l.for = context /\ context # None IN
  /\ l.busy /\ app.gd.lookup
  /\ app' = [app EXCEPT !.gd.lookup = FALSE,
       !.lookup = IF found /\ accepted
                  THEN [l EXCEPT !.busy = FALSE, !.proof = context,
                                 !.version = app.gd.online, !.held = "listed",
                                 !.error = FALSE]
                  ELSE [l EXCEPT !.busy = FALSE, !.error = @ \/ accepted]]
  /\ UNCHANGED <<context, scene, changes>>

-----------------------------------------------------------------------------
(* RankedRoundPreparation::pump, part by part, as functions on app. *)

\* Another context: everything starts over, requests under way are only marked.
Turn(a) ==
  IF a.for = context THEN a
  ELSE [a EXCEPT !.for = context, !.age = 0, !.mapReady = FALSE, !.audioReady = FALSE,
          !.error = "none", !.tries = 0, !.asked = [k \in Sounds |-> 0],
          !.audioFailure = "none", !.permanent = {},
          !.map.dropped = @ \/ a.map.pending,
          !.ticket = [k \in Sounds |-> [a.ticket[k] EXCEPT !.dropped = a.ticket[k].open]]]

\* Bug: the download is over as soon as the game is idle.
BugPumpMapEager(a) ==
  IF ~a.map.pending \/ a.gd.map = "active" THEN a
  ELSE [a EXCEPT !.map = NoMap, !.error = "map",
                 !.gd.delegate = IF @ = "us" THEN "none" ELSE @]

\* Bug: a download of an earlier round is left alone.
BugPumpMapOwn(a) ==
  IF ~a.map.pending \/ a.map.dropped \/ a.gd.map = "active" THEN a
  ELSE IF a.map.quiet + 1 < Quiet THEN [a EXCEPT !.map.quiet = @ + 1]
  ELSE Adopt([a EXCEPT !.map = NoMap, !.gd.delegate = IF @ = "us" THEN "none" ELSE @])

\* pumpMap: a download counts as over after Quiet idle pumps, then its result.
PumpMap(a) ==
  LET m == a.map
      over == [a EXCEPT !.map = NoMap, !.gd.delegate = IF @ = "us" THEN "none" ELSE @]
      good == m.done /\ m.got # 0 IN
  IF ~m.pending THEN a
  ELSE IF a.gd.map = "active" THEN [a EXCEPT !.map.quiet = 0]
  ELSE IF m.quiet + 1 < Quiet THEN [a EXCEPT !.map.quiet = @ + 1]
  ELSE IF m.dropped \/ m.for # context THEN over
  ELSE IF good /\ Authorizes(a, m.got) /\ Adopt(over).lookup.held = "saved"
       THEN [Adopt(over) EXCEPT !.error = "none"]
  ELSE LET b == IF m.got # 0 /\ ~Authorizes(a, m.got) THEN Invalidate(over) ELSE over IN
       IF a.tries >= MaxTries THEN [b EXCEPT !.error = "map"] ELSE b

AudioFailed(a, k, category) ==
  [a EXCEPT !.audioFailure = category, !.error = category,
            !.permanent = IF category = "permanent" THEN @ \union {k} ELSE @ \ {k}]

\* One audio ticket: drained like the map, and judged by the file itself.
Drain(a, k) ==
  LET t == a.ticket[k] IN
  IF ~t.open THEN a
  ELSE IF a.gd.sound[k] = "active" \/ t.quiet + 1 < Quiet
  THEN LET b == [a EXCEPT !.ticket[k].quiet = IF a.gd.sound[k] = "active" THEN 0 ELSE @ + 1]
       IN IF a.age >= 3 /\ ~t.dropped /\ t.for = context
          THEN AudioFailed(b, k, "timeout") ELSE b
  ELSE LET b == [a EXCEPT !.ticket[k] = NoTicket] IN
       IF t.dropped \/ t.for # context \/ a.gd.have[k] THEN b
       ELSE IF t.error = "permanent" THEN AudioFailed(b, k, "permanent")
       ELSE IF a.asked[k] >= MaxTries THEN AudioFailed(b, k, "transient")
       ELSE b

\* Still not downloaded: one request, unless the slot or the key is taken.
Download(a) ==
  IF ~Level(a) \/ a.map.pending \/ a.tries >= MaxTries
     \/ a.gd.delegate # "none" \/ a.gd.map = "active" THEN a
  ELSE [a EXCEPT !.map = [NoMap EXCEPT !.pending = TRUE, !.for = context],
                 !.tries = @ + 1, !.gd.delegate = "us", !.gd.map = "active",
                 !.gd.call = IF @ = "none" THEN "none" ELSE "old"]

RequestSound(a, k) ==
  IF a.ticket[k].open \/ a.gd.sound[k] = "active" \/ k \in a.permanent THEN a
  ELSE IF a.asked[k] >= MaxTries
       THEN IF a.audioFailure = "none" THEN AudioFailed(a, k, "transient") ELSE a
  ELSE [a EXCEPT !.ticket[k] = [NoTicket EXCEPT !.open = TRUE, !.for = context],
                 !.asked[k] = @ + 1, !.gd.sound[k] = "active"]
PumpAudio(a) ==
  LET b == [a EXCEPT !.audioReady = a.gd.have["file"]] IN
  IF b.audioReady THEN [b EXCEPT !.error = "none", !.audioFailure = "none"]
  ELSE IF a.gd.sound["file"] = "active" THEN b
  ELSE RequestSound(b, IF a.gd.have["info"] THEN "file" ELSE "info")

\* What the preparation asks for once the old requests are drained.
Prepared(a) ==
  LET b == [a EXCEPT !.mapReady = Level(a) /\ a.lookup.held = "saved"] IN
  IF b.mapReady THEN PumpAudio(b)
  ELSE Download(IF b.lookup.error THEN [b EXCEPT !.error = "metadata"] ELSE b)

\* pump, in its order; a set of one, so that each part is evaluated once.
Drained(a) ==
  {Drain(c, "file") : c \in {Drain(b, "info") : b \in {PumpMap(t) : t \in {Turn(a)}}}}
Pumped(a) ==
  IF context = None THEN Drained(a)
  ELSE {Prepared(c) : c \in {Adopt(b) : b \in {PollLookup(d) : d \in Drained(a)}}}

\* Bug: the return is given up by the callback that pops, not when it is over.
BugDrainUnpopped(p) ==
  IF p.returning /\ ~p.popped /\ ~p.on /\ ~p.live THEN [p EXCEPT !.returning = FALSE] ELSE p

\* The exact departed scene and its PlayLayer are gone: drainNativeReturn.
DrainReturn(p) ==
  IF p.returning /\ p.popped /\ ~p.on /\ ~p.live
  THEN [p EXCEPT !.returning = FALSE, !.popped = FALSE] ELSE p

\* The game calls back at the latest one pump before the request counts as over.
Late == \/ app.gd.call # "none" /\ app.map.quiet + 1 >= Quiet
        \/ \E k \in Sounds : /\ app.gd.sound[k] \in {"arrived", "failed", "refused"}
                           /\ app.ticket[k].quiet + 1 >= Quiet
Pump ==
  /\ ~Late /\ app' \in Pumped(app) /\ scene' = DrainReturn(scene)
  /\ UNCHANGED <<context, changes, mishaps>>

\* ready(): a song that is merely outstanding is waived after 25 seconds.
Ready(a) ==
  /\ a.for = context /\ a.mapReady /\ a.error = "none"
  /\ a.audioReady \/ (a.audioFailure = "none" /\ a.age >= 1)

\* The context is 25 seconds old, 30 (the report of a map that does not come is
\* the server's business), and 120: the time that a ticket is given.
Age == /\ app.for # None /\ app.age < 3 /\ app' = [app EXCEPT !.age = @ + 1]
       /\ UNCHANGED <<context, scene, changes, mishaps>>

Retry ==
  /\ ~app.map.pending /\ \A k \in Sounds : ~app.ticket[k].open
  /\ app.error # "none"
  /\ app' = [app EXCEPT !.tries = 0, !.asked = [k \in Sounds |-> 0], !.permanent = {},
                        !.audioFailure = "none", !.error = "none", !.age = 0]
  /\ UNCHANGED <<context, scene, changes, mishaps>>

-----------------------------------------------------------------------------
(* The callbacks of the game, external but for what they do to the mod. *)

Mishap == mishaps < MaxMishaps /\ mishaps' = mishaps + 1
Smooth == UNCHANGED mishaps

LookupEnds ==
  \/ LookupAnswered(TRUE) /\ Smooth
  \/ LookupAnswered(FALSE) /\ Mishap
LookupLost == LookupAnswered(FALSE) /\ app.lookup.dropped /\ Smooth

\* The download leaves the game's list; its callback is still to come.
MapArrives ==
  /\ app.gd.map = "active" /\ app.gd.call = "none"
  /\ app' = [app EXCEPT !.gd.map = "idle", !.gd.call = "own", !.gd.saved = app.gd.online]
  /\ UNCHANGED <<context, scene, changes, mishaps>>
MapFails ==
  /\ app.gd.map = "active" /\ app.gd.call = "none" /\ Mishap
  /\ app' = [app EXCEPT !.gd.map = "idle", !.gd.call = "failure"]
  /\ UNCHANGED <<context, scene, changes>>

\* levelDownloadFinished, levelDownloadFailed: latched, when the slot is ours.
MapCallback ==
  /\ app.gd.call # "none" /\ UNCHANGED <<context, scene, changes, mishaps>>
  /\ LET b == [app EXCEPT !.gd.call = "none",
                          !.gd.delegate = IF @ = "foreign" THEN "none" ELSE @] IN
     app' = IF app.gd.delegate = "us" /\ app.map.pending /\ ~app.map.done
            THEN [b EXCEPT !.map.done = TRUE, !.map.stale = app.gd.call = "old",
                           !.map.got = IF app.gd.call = "failure" THEN 0 ELSE app.gd.saved]
            ELSE b

SoundEnds(k, how) ==
  /\ app.gd.sound[k] = "active" /\ IF how = "arrived" THEN Smooth ELSE Mishap
  /\ app' = [app EXCEPT !.gd.sound[k] = how, !.gd.have[k] = @ \/ how = "arrived"]
  /\ UNCHANGED <<context, scene, changes>>
\* complete and fail: the ticket only remembers what the game said.
SoundCallback(k) ==
  LET t == app.ticket[k]
      error == IF app.gd.sound[k] = "refused" THEN "permanent" ELSE t.error IN
  /\ app.gd.sound[k] \in {"arrived", "failed", "refused"}
  /\ app' = [app EXCEPT !.gd.sound[k] = "idle",
       !.ticket[k] = IF ~t.open \/ t.over THEN t
                     ELSE [t EXCEPT !.over = TRUE, !.error = error]]
  /\ UNCHANGED <<context, scene, changes, mishaps>>

\* Another screen takes the delegate slot, with or without a download of its own.
ForeignTakes ==
  /\ app.gd.delegate # "foreign" /\ app.gd.call = "none" /\ Mishap
  /\ app' = [app EXCEPT !.gd.delegate = "foreign", !.gd.map = "active"]
  /\ UNCHANGED <<context, scene, changes>>
\* The creator uploads a new version of the level.
LevelUpdated ==
  /\ app.gd.online = 1 /\ Mishap /\ app' = [app EXCEPT !.gd.online = 2]
  /\ UNCHANGED <<context, scene, changes>>
\* A poll of the match changes what is to be prepared.
ContextChanges ==
  /\ changes < MaxChanges /\ changes' = changes + 1
  /\ context' \in (Rounds \union {None}) \ {context}
  /\ UNCHANGED <<app, scene, mishaps>>

-----------------------------------------------------------------------------
(* The native scene. *)

\* launch's own conditions, with the files looked at once more.
Launchable(a) ==
  /\ Ready(a) /\ Level(a) /\ a.lookup.held = "saved" /\ a.gd.have["file"]
  /\ ~scene.live /\ ~DrainReturn(scene).returning
Launch ==
  \E a \in {app} \union (IF Late THEN {} ELSE Pumped(app)) :
    /\ Launchable(a) /\ UNCHANGED <<context, changes, mishaps>>
    /\ \/ scene' = [NoPlay EXCEPT !.live = TRUE, !.on = TRUE] /\ app' = a
       \/ app' = [a EXCEPT !.error = "native"] /\ scene' = DrainReturn(scene)

\* The vanilla quit, routed to returnFromNativeQuit: the pop is queued.
Quit == /\ scene.on /\ ~scene.returning /\ scene' = [scene EXCEPT !.returning = TRUE]
        /\ UNCHANGED <<context, app, changes, mishaps>>
\* The queued callback pops the departing scene if it is still the running one.
QueuedReturn ==
  /\ scene.returning /\ ~scene.popped
  /\ scene' = [scene EXCEPT !.popped = TRUE, !.on = FALSE]
  /\ UNCHANGED <<context, app, changes, mishaps>>
\* The game releases the PlayLayer of a scene that has left.
Released == /\ scene.live /\ ~scene.on /\ scene' = [scene EXCEPT !.live = FALSE]
            /\ UNCHANGED <<context, app, changes, mishaps>>

-----------------------------------------------------------------------------
PrepInit == /\ context = None /\ app = App /\ scene = NoPlay /\ changes = 0 /\ mishaps = 0

Native == \/ MapArrives \/ MapCallback
          \/ \E k \in Sounds : SoundCallback(k)
PrepNext ==
  \/ Pump \/ Age \/ Retry \/ LookupEnds \/ LookupLost \/ Native \/ MapFails
  \/ (\E k \in Sounds, how \in {"arrived", "failed", "refused"} : SoundEnds(k, how))
  \/ ForeignTakes \/ LevelUpdated \/ ContextChanges
  \/ Launch \/ Quit \/ QueuedReturn \/ Released

PrepSpec == PrepInit /\ [][PrepNext]_prepVars

\* The heartbeat pumps; the game answers every request and runs what is queued.
PrepFairness ==
  /\ WF_prepVars(Pump) /\ WF_prepVars(LookupEnds) /\ WF_prepVars(LookupLost)
  /\ WF_prepVars(MapArrives) /\ WF_prepVars(MapCallback)
  /\ \A k \in Sounds : WF_prepVars(SoundEnds(k, "arrived")) /\ WF_prepVars(SoundCallback(k))
  /\ WF_prepVars(QueuedReturn) /\ WF_prepVars(Released)
FairPrepSpec == PrepSpec /\ PrepFairness

-----------------------------------------------------------------------------
(* What preparation promises. *)

\* The result that is latched for a download is the answer to that download,
\* although callbacks name no request: nothing is asked before the one before
\* it has been quiet (the counts of quiet pumps).
AnswerIsItsOwn == app.map.done => ~app.map.stale

\* Once the round stays the same, its preparation ends: with the level and its
\* song, or with a failure that is shown, whatever was under way for earlier
\* rounds, for other screens, or for an older version of the level.
PreparationConverges ==
  \A c \in Rounds : <>[](context = c) => <>[](Ready(app) \/ app.error # "none")

\* A native scene that was left is given up in the end, and the entry opens
\* again (drainNativeReturn).
SceneComesBack == scene.returning ~> ~scene.returning
=============================================================================
