----------------------- MODULE RoundPreparation_proofs -----------------------
(***************************************************************************)
(* Theorems about RoundPreparation, for any rounds, any number of requests *)
(* and of quiet pumps, and any number of changes and mishaps.              *)
(*                                                                         *)
(* The callbacks of the game name no request, so that a result belongs to  *)
(* its request rests on the slot: Slot says that whatever is under way in  *)
(* the game is ours or another screen's, and that it is not asked again    *)
(* before its callback has come.                                           *)
(***************************************************************************)
EXTENDS RoundPreparation, TLAPS

Contexts == Rounds \union {None}
Tries    == 0 .. MaxTries
Pauses   == 0 .. Quiet - 1
Errors   == {"none", "metadata", "map", "native", "permanent", "transient", "timeout"}

Lookups ==
  [busy : BOOLEAN, for : Contexts, dropped : BOOLEAN, proof : Contexts, version : Nat,
   held : {"none", "listed", "saved"}, error : BOOLEAN]
Downloads ==
  [pending : BOOLEAN, done : BOOLEAN, dropped : BOOLEAN, for : Contexts, got : Nat,
   quiet : Pauses, stale : BOOLEAN]
Tickets ==
  [open : BOOLEAN, for : Contexts, quiet : Pauses, over : BOOLEAN, dropped : BOOLEAN,
   error : {"none", "permanent"}]
Games ==
  [online : Nat, saved : Nat, lookup : BOOLEAN, delegate : {"none", "us", "foreign"},
   map : {"idle", "active"}, call : {"none", "own", "failure", "old"},
   sound : [Sounds -> {"idle", "active", "arrived", "failed", "refused"}],
   have : [Sounds -> BOOLEAN]]
Apps ==
  [for : Contexts, age : Nat, mapReady : BOOLEAN, audioReady : BOOLEAN, error : Errors,
   tries : Tries, asked : [Sounds -> Tries], audioFailure : Errors,
   permanent : SUBSET Sounds, map : Downloads, lookup : Lookups,
   ticket : [Sounds -> Tickets], gd : Games]

(* The versions of the level that are known are versions there are. *)
Versions(a) == a.gd.saved <= a.gd.online /\ a.lookup.version <= a.gd.online

(* What the game has under way is ours or another screen's; before its callback
   has come nothing else is asked. *)
Slot(a) ==
  /\ a.gd.map = "active" \/ a.gd.call # "none" => a.map.pending \/ a.gd.delegate = "foreign"
  /\ a.gd.call # "none" => a.gd.map # "active"

(* No answer of an earlier download is on its way, none was latched. *)
Own(a) == a.gd.call # "old" /\ ~a.map.stale

Sane(a) == a \in Apps /\ Versions(a) /\ Slot(a) /\ Own(a)
Orderly    == Sane(app) /\ context \in Contexts
           /\ scene \in [live : BOOLEAN, on : BOOLEAN, returning : BOOLEAN, popped : BOOLEAN]

(* b differs from a in what the preparation keeps for itself. *)
Beside(a, b) ==
  /\ b \in Apps /\ b.gd = a.gd
  /\ b.map.pending = a.map.pending /\ b.map.quiet = a.map.quiet /\ b.map.stale = a.map.stale
  /\ b.lookup.version \in {a.lookup.version, 0}

-----------------------------------------------------------------------------
(* The parts of pump *)

LEMMA Numbers ==
  /\ 0 \in Tries /\ 0 \in Pauses
  /\ \A n \in Pauses : n \in Nat /\ (n + 1 < Quiet => n + 1 \in Pauses)
                       /\ (n + 1 < Quiet <=> ~(n + 1 >= Quiet))
  /\ \A n \in Tries : n \in Nat /\ (~(n >= MaxTries) => n + 1 \in Tries)
BY PreparationAssumption DEF Tries, Pauses

LEMMA AppParts ==
  ASSUME NEW a \in Apps
  PROVE  /\ a.map \in Downloads /\ a.lookup \in Lookups /\ a.gd \in Games
         /\ a.ticket \in [Sounds -> Tickets] /\ a.for \in Contexts
BY DEF Apps

\* What leaves the game and the download alone keeps the invariant.
LEMMA BesideIsSane ==
  ASSUME NEW a, Sane(a), NEW b, Beside(a, b)
  PROVE  Sane(b)
<1>1. a.gd \in Games
  BY AppParts DEF Sane
<1>2. Versions(b)
  BY <1>1 DEF Sane, Beside, Versions, Games
<1>3. Slot(b) /\ Own(b)
  BY DEF Sane, Beside, Slot, Own
<1>4. QED
  BY <1>2, <1>3 DEF Sane, Beside

LEMMA BesideItself ==
  ASSUME NEW a \in Apps
  PROVE  Beside(a, a)
BY DEF Beside

LEMMA BesideIsTransitive ==
  ASSUME NEW a, NEW b, NEW c, Beside(a, b), Beside(b, c)
  PROVE  Beside(a, c)
BY DEF Beside

LEMMA AdoptBeside ==
  ASSUME NEW a \in Apps
  PROVE  Beside(a, Adopt(a))
<1> DEFINE l == [a.lookup EXCEPT !.held = "saved"]
           b == [a EXCEPT !.lookup = l]
<1>1. l \in Lookups /\ l.version = a.lookup.version
  BY AppParts DEF Lookups
<1>2. Adopt(a) = IF Level(a) /\ a.gd.saved > 0 /\ Authorizes(a, a.gd.saved) THEN b ELSE a
  BY DEF Adopt
<1> HIDE DEF l
<1>3. b \in Apps /\ b.gd = a.gd /\ b.map = a.map /\ b.lookup = l
  BY <1>1 DEF Apps
<1> HIDE DEF b
<1>4. Beside(a, b)
  BY <1>1, <1>3 DEF Beside
<1>5. QED
  BY <1>2, <1>4, BesideItself

LEMMA InvalidateBeside ==
  ASSUME NEW a \in Apps
  PROVE  Beside(a, Invalidate(a))
<1> DEFINE drop == a.lookup.dropped \/ (a.lookup.busy /\ a.lookup.for = context)
           l == [a.lookup EXCEPT !.dropped = drop]
           m == IF l.proof = context THEN Forget(l) ELSE l
           b == [a EXCEPT !.lookup = m]
<1>1. Invalidate(a) = b
  BY DEF Invalidate
<1>2. drop \in BOOLEAN
  OBVIOUS
<1> HIDE DEF drop
<1>3. l \in Lookups /\ l.version = a.lookup.version
  BY <1>2, AppParts DEF Lookups
<1> HIDE DEF l
<1>4. m \in Lookups /\ m.version \in {a.lookup.version, 0}
  BY <1>3 DEF Forget, Lookups, Contexts
<1> HIDE DEF m
<1>5. b \in Apps /\ b.gd = a.gd /\ b.map = a.map /\ b.lookup = m
  BY <1>4 DEF Apps
<1> HIDE DEF b
<1>6. Beside(a, b)
  BY <1>4, <1>5 DEF Beside
<1>7. QED
  BY <1>1, <1>6

\* Another context: what is under way is only marked.
LEMMA TurnBeside ==
  ASSUME NEW a \in Apps, context \in Contexts
  PROVE  Beside(a, Turn(a))
<1> DEFINE drop == a.map.dropped \/ a.map.pending
           d == [a.map EXCEPT !.dropped = drop]
           ticket == [k \in Sounds |-> [a.ticket[k] EXCEPT !.dropped = a.ticket[k].open]]
           b == [a EXCEPT !.for = context, !.age = 0, !.mapReady = FALSE, !.audioReady = FALSE,
                   !.error = "none", !.tries = 0, !.asked = [k \in Sounds |-> 0],
                   !.audioFailure = "none", !.permanent = {}, !.map = d, !.ticket = ticket]
<1>1. Turn(a) = IF a.for = context THEN a ELSE b
  BY DEF Turn
<1>2. drop \in BOOLEAN
  OBVIOUS
<1> HIDE DEF drop
<1>3. d \in Downloads /\ d.pending = a.map.pending /\ d.quiet = a.map.quiet
      /\ d.stale = a.map.stale
  BY <1>2, AppParts DEF Downloads
<1> HIDE DEF d
<1>4. ticket \in [Sounds -> Tickets]
  <2>1. ASSUME NEW k \in Sounds
        PROVE  [a.ticket[k] EXCEPT !.dropped = a.ticket[k].open] \in Tickets
    <3>1. a.ticket[k] \in Tickets
      BY AppParts
    <3>2. QED
      BY <3>1 DEF Tickets
  <2>2. QED
    BY <2>1
<1> HIDE DEF ticket
<1>5. b \in Apps /\ b.gd = a.gd /\ b.map = d /\ b.lookup = a.lookup
  BY <1>3, <1>4, Numbers DEF Apps, Errors
<1> HIDE DEF b
<1>6. Beside(a, b)
  BY <1>3, <1>5 DEF Beside
<1>7. QED
  BY <1>1, <1>6, BesideItself

LEMMA AudioFailedBeside ==
  ASSUME NEW a \in Apps, NEW k \in Sounds, NEW category \in Errors
  PROVE  Beside(a, AudioFailed(a, k, category))
<1> DEFINE permanent == IF category = "permanent" THEN a.permanent \union {k} ELSE a.permanent \ {k}
           b == [a EXCEPT !.audioFailure = category, !.error = category, !.permanent = permanent]
<1>1. AudioFailed(a, k, category) = b
  BY DEF AudioFailed
<1>2. permanent \in SUBSET Sounds
  BY DEF Apps
<1> HIDE DEF permanent
<1>3. b \in Apps /\ b.gd = a.gd /\ b.map = a.map /\ b.lookup = a.lookup
  BY <1>2 DEF Apps
<1> HIDE DEF b
<1>4. QED
  BY <1>1, <1>3 DEF Beside

LEMMA TicketBeside ==
  ASSUME NEW a \in Apps, NEW k \in Sounds, NEW t \in Tickets
  PROVE  Beside(a, [a EXCEPT !.ticket[k] = t])
<1> DEFINE ticket == [a.ticket EXCEPT ![k] = t]
           b == [a EXCEPT !.ticket = ticket]
<1>1. ticket \in [Sounds -> Tickets]
  BY AppParts
<1> HIDE DEF ticket
<1>2. b \in Apps /\ b.gd = a.gd /\ b.map = a.map /\ b.lookup = a.lookup
  BY <1>1 DEF Apps
<1> HIDE DEF b
<1>3. Beside(a, b)
  BY <1>2 DEF Beside
<1>4. QED
  BY <1>3 DEF b, ticket

LEMMA NoTicketIsTicket ==
  NoTicket \in Tickets
BY Numbers DEF NoTicket, Tickets, Contexts

\* An audio ticket is judged without a look at the download of the level.
LEMMA DrainBeside ==
  ASSUME NEW a \in Apps, NEW k \in Sounds
  PROVE  Beside(a, Drain(a, k))
<1> DEFINE t == a.ticket[k]
           quiet == IF a.gd.sound[k] = "active" THEN 0 ELSE t.quiet + 1
           u == [t EXCEPT !.quiet = quiet]
           b == [a EXCEPT !.ticket[k] = u]
           c == [a EXCEPT !.ticket[k] = NoTicket]
           waits == a.gd.sound[k] = "active" \/ t.quiet + 1 < Quiet
<1>0. t \in Tickets
  BY AppParts
<1>1. waits => u \in Tickets
  BY <1>0, Numbers DEF Tickets
<1>2. [a EXCEPT !.ticket[k].quiet = quiet] = b
  OBVIOUS
<1>3. Beside(a, c) /\ c \in Apps
  BY NoTicketIsTicket, TicketBeside DEF Beside
<1>4. waits => Beside(a, b) /\ b \in Apps
  BY <1>1, TicketBeside DEF Beside
<1> HIDE DEF b, c, u
<1>5. Drain(a, k) \in {a, c, AudioFailed(c, k, "permanent"), AudioFailed(c, k, "transient")}
      \/ (waits /\ Drain(a, k) \in {b, AudioFailed(b, k, "timeout")})
  BY <1>2 DEF Drain, b, c, u
<1> HIDE DEF waits
<1>6. Beside(c, AudioFailed(c, k, "permanent")) /\ Beside(c, AudioFailed(c, k, "transient"))
  BY <1>3, AudioFailedBeside DEF Errors
<1>7. waits => Beside(b, AudioFailed(b, k, "timeout"))
  BY <1>4, AudioFailedBeside DEF Errors
<1>8. QED
  BY <1>3, <1>4, <1>5, <1>6, <1>7, BesideItself, BesideIsTransitive

\* The end of a download: the callback of the game has come by then.
LEMMA PumpMapSane ==
  ASSUME NEW a, Sane(a), a.gd.call # "none" => ~(a.map.quiet + 1 >= Quiet)
  PROVE  Sane(PumpMap(a))
<1> DEFINE m == a.map
           delegate == IF a.gd.delegate = "us" THEN "none" ELSE a.gd.delegate
           gd == [a.gd EXCEPT !.delegate = delegate]
           over == [a EXCEPT !.map = NoMap, !.gd = gd]
           still == [a EXCEPT !.map = [m EXCEPT !.quiet = 0]]
           quieter == [a EXCEPT !.map = [m EXCEPT !.quiet = m.quiet + 1]]
           n == IF m.got # 0 /\ ~Authorizes(a, m.got) THEN Invalidate(over) ELSE over
<1>1. a \in Apps /\ m \in Downloads /\ a.gd \in Games
  BY AppParts DEF Sane
<1>2. NoMap \in Downloads /\ NoMap.stale = FALSE
  BY Numbers DEF NoMap, Downloads, Contexts
<1>3. gd \in Games /\ gd.online = a.gd.online /\ gd.saved = a.gd.saved
      /\ gd.map = a.gd.map /\ gd.call = a.gd.call
      /\ (gd.delegate = "foreign" <=> a.gd.delegate = "foreign")
  BY <1>1 DEF Games
<1>4. CASE ~m.pending
  BY <1>4 DEF PumpMap
<1>5. CASE m.pending /\ a.gd.map = "active"
  <2> DEFINE d == [m EXCEPT !.quiet = 0]
  <2>1. PumpMap(a) = still
    BY <1>5 DEF PumpMap
  <2>2. d \in Downloads /\ d.pending = m.pending /\ d.stale = m.stale
    BY <1>1, Numbers DEF Downloads
  <2> HIDE DEF d
  <2>3. still \in Apps /\ still.map = d /\ still.gd = a.gd /\ still.lookup = a.lookup
    BY <1>1, <2>2 DEF Apps, d
  <2> HIDE DEF still
  <2>4. Sane(still)
    BY <2>2, <2>3 DEF Sane, Versions, Slot, Own
  <2>5. QED
    BY <2>1, <2>4
<1>6. CASE m.pending /\ a.gd.map # "active" /\ m.quiet + 1 < Quiet
  <2> DEFINE d == [m EXCEPT !.quiet = m.quiet + 1]
  <2>1. PumpMap(a) = quieter
    BY <1>6 DEF PumpMap
  <2>2. d \in Downloads /\ d.pending = m.pending /\ d.stale = m.stale
    BY <1>1, <1>6, Numbers DEF Downloads
  <2> HIDE DEF d
  <2>3. quieter \in Apps /\ quieter.map = d /\ quieter.gd = a.gd /\ quieter.lookup = a.lookup
    BY <1>1, <2>2 DEF Apps, d
  <2> HIDE DEF quieter
  <2>4. Sane(quieter)
    BY <2>2, <2>3 DEF Sane, Versions, Slot, Own
  <2>5. QED
    BY <2>1, <2>4
<1>7. CASE m.pending /\ a.gd.map # "active" /\ ~(m.quiet + 1 < Quiet)
  <2>1. a.gd.call = "none"
    BY <1>1, <1>7, Numbers DEF Downloads
  <2>2. /\ PumpMap(a) \in {over, n, [n EXCEPT !.error = "map"]}
           \/ PumpMap(a) = [Adopt(over) EXCEPT !.error = "none"]
    BY <1>7 DEF PumpMap
  <2> HIDE DEF gd
  <2>3. over \in Apps /\ over.map = NoMap /\ over.gd = gd /\ over.lookup = a.lookup
    BY <1>1, <1>2, <1>3 DEF Apps
  <2> HIDE DEF over
  <2>4. Sane(over)
    BY <1>2, <1>3, <1>7, <2>1, <2>3 DEF Sane, Versions, Slot, Own
  <2>5. Sane(n) /\ Sane(Adopt(over))
    BY <2>3, <2>4, AdoptBeside, InvalidateBeside, BesideIsSane
  <2> HIDE DEF n
  <2>6. ASSUME NEW b, Sane(b), NEW error \in Errors
        PROVE  Sane([b EXCEPT !.error = error])
    <3> DEFINE c == [b EXCEPT !.error = error]
    <3>1. c \in Apps /\ c.gd = b.gd /\ c.map = b.map /\ c.lookup = b.lookup
      BY <2>6 DEF Sane, Apps
    <3> HIDE DEF c
    <3>2. Beside(b, c)
      BY <3>1 DEF Beside
    <3>3. QED
      BY <2>6, <3>2, BesideIsSane DEF c
  <2>7. QED
    BY <2>2, <2>4, <2>5, <2>6 DEF Errors
<1>8. QED
  BY <1>4, <1>5, <1>6, <1>7

\* A change of the app's own flags.
LEMMA FlagsBeside ==
  ASSUME NEW a \in Apps, NEW mapReady \in BOOLEAN, NEW audioReady \in BOOLEAN,
         NEW error \in Errors
  PROVE  /\ Beside(a, [a EXCEPT !.mapReady = mapReady])
         /\ Beside(a, [a EXCEPT !.audioReady = audioReady])
         /\ Beside(a, [a EXCEPT !.error = error])
         /\ Beside(a, [a EXCEPT !.error = error, !.audioFailure = error])
<1> DEFINE b == [a EXCEPT !.mapReady = mapReady]
           c == [a EXCEPT !.audioReady = audioReady]
           d == [a EXCEPT !.error = error]
           e == [a EXCEPT !.error = error, !.audioFailure = error]
<1>1. b \in Apps /\ b.gd = a.gd /\ b.map = a.map /\ b.lookup = a.lookup
  BY DEF Apps
<1>2. c \in Apps /\ c.gd = a.gd /\ c.map = a.map /\ c.lookup = a.lookup
  BY DEF Apps
<1>3. d \in Apps /\ d.gd = a.gd /\ d.map = a.map /\ d.lookup = a.lookup
  BY DEF Apps
<1>4. e \in Apps /\ e.gd = a.gd /\ e.map = a.map /\ e.lookup = a.lookup
  BY DEF Apps
<1> HIDE DEF b, c, d, e
<1>5. QED
  BY <1>1, <1>2, <1>3, <1>4 DEF Beside, b, c, d, e

\* The one query for the metadata of the level.
LEMMA PollLookupSane ==
  ASSUME NEW a, Sane(a), context \in Contexts
  PROVE  Sane(PollLookup(a))
<1> DEFINE l == a.lookup
           drop == l.dropped \/ (l.busy /\ l.for # context)
           seen == [l EXCEPT !.dropped = drop]
           known == IF l.proof # context THEN Forget(seen) ELSE seen
           b == [a EXCEPT !.lookup = known]
           asked == [known EXCEPT !.busy = TRUE, !.for = context, !.dropped = FALSE,
                                  !.held = "none", !.error = FALSE]
           gd == [a.gd EXCEPT !.lookup = TRUE]
           c == [a EXCEPT !.lookup = asked, !.gd = gd]
<1>1. a \in Apps /\ l \in Lookups /\ a.gd \in Games
  BY AppParts DEF Sane
<1>2. drop \in BOOLEAN
  OBVIOUS
<1>3. [b EXCEPT !.lookup.busy = TRUE, !.lookup.for = context, !.lookup.dropped = FALSE,
                !.lookup.held = "none", !.lookup.error = FALSE, !.gd.lookup = TRUE] = c
  BY <1>1 DEF Apps
<1>4. PollLookup(a) = IF Level(b) \/ l.busy \/ a.gd.lookup THEN b ELSE c
  BY <1>3 DEF PollLookup
<1> HIDE DEF drop, c
<1>5. seen \in Lookups /\ seen.version = l.version
  BY <1>1, <1>2 DEF Lookups
<1> HIDE DEF seen
<1>6. known \in Lookups /\ known.version \in {l.version, 0}
  BY <1>5 DEF Forget, Lookups, Contexts
<1> HIDE DEF known
<1>7. asked \in Lookups /\ asked.version = known.version
  BY <1>6 DEF Lookups
<1>8. gd \in Games /\ gd.online = a.gd.online /\ gd.saved = a.gd.saved
      /\ gd.map = a.gd.map /\ gd.call = a.gd.call /\ gd.delegate = a.gd.delegate
  BY <1>1 DEF Games
<1> HIDE DEF asked, gd
<1>9. b \in Apps /\ b.gd = a.gd /\ b.map = a.map /\ b.lookup = known
  BY <1>1, <1>6 DEF Apps
<1>10. c \in Apps /\ c.gd = gd /\ c.map = a.map /\ c.lookup = asked
  BY <1>1, <1>7, <1>8 DEF Apps, c
<1> HIDE DEF b
<1>11. Beside(a, b)
  BY <1>6, <1>9 DEF Beside
<1>12. Versions(c)
  BY <1>1, <1>6, <1>7, <1>8, <1>10 DEF Sane, Versions, Games, Lookups
<1>13. Slot(c) /\ Own(c)
  BY <1>8, <1>10 DEF Sane, Slot, Own
<1>14. QED
  BY <1>4, <1>10, <1>11, <1>12, <1>13, BesideIsSane DEF Sane

\* A download is asked for in an idle slot, whose last callback has come.
LEMMA DownloadSane ==
  ASSUME NEW a, Sane(a), context \in Contexts
  PROVE  Sane(Download(a))
<1> DEFINE d == [NoMap EXCEPT !.pending = TRUE, !.for = context]
           call == IF a.gd.call = "none" THEN "none" ELSE "old"
           gd == [a.gd EXCEPT !.delegate = "us", !.map = "active", !.call = call]
           b == [a EXCEPT !.map = d, !.tries = a.tries + 1, !.gd = gd]
           refuses == \/ ~Level(a) \/ a.map.pending \/ a.tries >= MaxTries
                      \/ a.gd.delegate # "none" \/ a.gd.map = "active"
<1>1. a \in Apps /\ a.gd \in Games
  BY AppParts DEF Sane
<1>2. Download(a) = IF refuses THEN a ELSE b
  BY DEF Download
<1>3. ~refuses => /\ ~a.map.pending /\ a.gd.delegate = "none" /\ ~(a.tries >= MaxTries)
  OBVIOUS
<1> HIDE DEF refuses
<1>4. CASE refuses
  BY <1>2, <1>4
<1>5. CASE ~refuses
  <2>1. a.gd.call = "none"
    BY <1>3, <1>5 DEF Sane, Slot
  <2>2. a.tries + 1 \in Tries
    BY <1>1, <1>3, <1>5, Numbers DEF Apps
  <2>3. d \in Downloads /\ d.pending = TRUE /\ d.stale = FALSE
    BY Numbers DEF NoMap, Downloads
  <2>4. gd \in Games /\ gd.online = a.gd.online /\ gd.saved = a.gd.saved
        /\ gd.map = "active" /\ gd.call = "none" /\ gd.delegate = "us"
    BY <1>1, <2>1 DEF Games
  <2> HIDE DEF d, gd
  <2>5. b \in Apps /\ b.gd = gd /\ b.map = d /\ b.lookup = a.lookup
    BY <1>1, <2>2, <2>3, <2>4 DEF Apps
  <2> HIDE DEF b
  <2>6. Sane(b)
    BY <2>3, <2>4, <2>5 DEF Sane, Versions, Slot, Own
  <2>7. QED
    BY <1>2, <1>5, <2>6
<1>6. QED
  BY <1>4, <1>5

\* One request of the song or of its info.
LEMMA RequestSoundSane ==
  ASSUME NEW a, Sane(a), NEW k \in Sounds, context \in Contexts
  PROVE  Sane(RequestSound(a, k))
<1> DEFINE t == [NoTicket EXCEPT !.open = TRUE, !.for = context]
           ticket == [a.ticket EXCEPT ![k] = t]
           asked == [a.asked EXCEPT ![k] = a.asked[k] + 1]
           sound == [a.gd.sound EXCEPT ![k] = "active"]
           gd == [a.gd EXCEPT !.sound = sound]
           b == [a EXCEPT !.ticket = ticket, !.asked = asked, !.gd = gd]
<1>1. a \in Apps /\ a.gd \in Games /\ a.ticket \in [Sounds -> Tickets]
  BY AppParts DEF Sane
<1>2. RequestSound(a, k) \in {a, AudioFailed(a, k, "transient")}
      \/ (~(a.asked[k] >= MaxTries) /\ RequestSound(a, k) = b)
  BY DEF RequestSound
<1>3. Sane(AudioFailed(a, k, "transient"))
  BY <1>1, AudioFailedBeside, BesideIsSane DEF Errors
<1>4. ASSUME ~(a.asked[k] >= MaxTries)
      PROVE  Sane(b)
  <2>1. t \in Tickets
    BY NoTicketIsTicket DEF Tickets
  <2> HIDE DEF t
  <2>2. ticket \in [Sounds -> Tickets]
    BY <1>1, <2>1
  <2>3. a.asked \in [Sounds -> Tries]
    BY <1>1 DEF Apps
  <2>4. asked \in [Sounds -> Tries]
    BY <1>4, <2>3, Numbers
  <2>5. sound \in [Sounds -> {"idle", "active", "arrived", "failed", "refused"}]
    BY <1>1 DEF Games
  <2> HIDE DEF ticket, asked, sound
  <2>6. gd \in Games /\ gd.online = a.gd.online /\ gd.saved = a.gd.saved
        /\ gd.map = a.gd.map /\ gd.call = a.gd.call /\ gd.delegate = a.gd.delegate
    BY <1>1, <2>5 DEF Games
  <2> HIDE DEF gd
  <2>7. b \in Apps /\ b.gd = gd /\ b.map = a.map /\ b.lookup = a.lookup
    BY <1>1, <2>2, <2>4, <2>6 DEF Apps
  <2> HIDE DEF b
  <2>8. QED
    BY <2>6, <2>7 DEF Sane, Versions, Slot, Own
<1>5. QED
  BY <1>2, <1>3, <1>4

LEMMA PumpAudioSane ==
  ASSUME NEW a, Sane(a), context \in Contexts
  PROVE  Sane(PumpAudio(a))
<1> DEFINE b == [a EXCEPT !.audioReady = a.gd.have["file"]]
           c == [b EXCEPT !.error = "none", !.audioFailure = "none"]
<1>1. a \in Apps /\ "file" \in Sounds /\ "info" \in Sounds
  BY DEF Sane, Sounds
<1>2. a.gd.have["file"] \in BOOLEAN
  BY <1>1, AppParts DEF Games
<1>3. Sane(b)
  BY <1>1, <1>2, FlagsBeside, BesideIsSane DEF Errors
<1>4. PumpAudio(a) \in {b, c, RequestSound(b, "file"), RequestSound(b, "info")}
  BY DEF PumpAudio
<1> HIDE DEF b
<1>5. Sane(c)
  BY <1>3, FlagsBeside, BesideIsSane DEF Errors, Sane
<1> HIDE DEF c
<1>6. Sane(RequestSound(b, "file")) /\ Sane(RequestSound(b, "info"))
  BY <1>1, <1>3, RequestSoundSane
<1>7. QED
  BY <1>3, <1>4, <1>5, <1>6

LEMMA PreparedSane ==
  ASSUME NEW a, Sane(a), context \in Contexts
  PROVE  Sane(Prepared(a))
<1> DEFINE ready == Level(a) /\ a.lookup.held = "saved"
           b == [a EXCEPT !.mapReady = ready]
           c == IF b.lookup.error THEN [b EXCEPT !.error = "metadata"] ELSE b
<1>1. a \in Apps
  BY DEF Sane
<1>2. ready \in BOOLEAN
  BY DEF Level, Authorizes
<1>3. Prepared(a) = IF b.mapReady THEN PumpAudio(b) ELSE Download(c)
  BY DEF Prepared
<1> HIDE DEF ready
<1>4. Sane(b)
  BY <1>1, <1>2, FlagsBeside, BesideIsSane DEF Errors
<1> HIDE DEF b
<1>5. Sane([b EXCEPT !.error = "metadata"])
  BY <1>4, FlagsBeside, BesideIsSane DEF Errors, Sane
<1>6. Sane(c)
  BY <1>4, <1>5
<1> HIDE DEF c
<1>7. QED
  BY <1>3, <1>4, <1>6, PumpAudioSane, DownloadSane

\* A whole pump, in its order.
LEMMA PumpedSane ==
  ASSUME Orderly, ~Late, NEW f \in Pumped(app)
  PROVE  Sane(f)
<1>1. Sane(app) /\ app \in Apps /\ context \in Contexts
  BY DEF Orderly, Sane
<1>2. \A k \in Sounds : k \in Sounds
  OBVIOUS
<1> DEFINE t == Turn(app)
           p == PumpMap(t)
           q == Drain(p, "info")
           r == Drain(q, "file")
<1>3. Sane(t) /\ t.gd = app.gd /\ t.map.quiet = app.map.quiet
  BY <1>1, TurnBeside, BesideIsSane DEF Beside
<1>4. t.gd.call # "none" => ~(t.map.quiet + 1 >= Quiet)
  BY <1>3 DEF Late
<1> HIDE DEF t
<1>5. Sane(p)
  BY <1>3, <1>4, PumpMapSane
<1> HIDE DEF p
<1>6. Sane(q)
  BY <1>5, DrainBeside, BesideIsSane DEF Sane, Sounds
<1> HIDE DEF q
<1>7. Sane(r)
  BY <1>6, DrainBeside, BesideIsSane DEF Sane, Sounds
<1>8. Drained(app) = {r}
  BY DEF Drained, r, q, p, t
<1> HIDE DEF r
<1> DEFINE l == PollLookup(r)
           a == Adopt(l)
<1>9. Sane(l)
  BY <1>1, <1>7, PollLookupSane
<1>10. Sane(a)
  BY <1>9, AdoptBeside, BesideIsSane DEF Sane
<1>11. Sane(Prepared(a))
  BY <1>1, <1>10, PreparedSane
<1>12. Pumped(app) = IF context = None THEN {r} ELSE {Prepared(a)}
  BY <1>8 DEF Pumped
<1>13. QED
  BY <1>7, <1>11, <1>12

-----------------------------------------------------------------------------
(* The steps *)

\* A change of the app beside the context and the scene.
LEMMA StepIsGood ==
  ASSUME Orderly, Sane(app'), UNCHANGED <<context, scene>>
  PROVE  Orderly'
BY DEF Orderly, Sane, Versions, Slot, Own

Scenes == [live : BOOLEAN, on : BOOLEAN, returning : BOOLEAN, popped : BOOLEAN]

LEMMA SceneIsGood ==
  ASSUME Orderly, UNCHANGED <<context, app>>, scene' \in Scenes
  PROVE  Orderly'
BY DEF Orderly, Scenes

LEMMA DrainReturnIsScene ==
  ASSUME Orderly
  PROVE  DrainReturn(scene) \in Scenes
BY DEF Orderly, DrainReturn, Scenes

LEMMA PumpIsGood ==
  ASSUME Orderly, Pump
  PROVE  Orderly'
<1>1. Sane(app') /\ scene' \in Scenes /\ UNCHANGED context
  BY PumpedSane, DrainReturnIsScene DEF Pump
<1>2. QED
  BY <1>1 DEF Orderly, Scenes, Sane, Versions, Slot, Own

LEMMA LaunchIsGood ==
  ASSUME Orderly, Launch
  PROVE  Orderly'
<1>1. PICK a \in {app} \union (IF Late THEN {} ELSE Pumped(app)) :
        /\ UNCHANGED context
        /\ \/ scene' = [NoPlay EXCEPT !.live = TRUE, !.on = TRUE] /\ app' = a
           \/ app' = [a EXCEPT !.error = "native"] /\ scene' = DrainReturn(scene)
  BY DEF Launch
<1>2. Sane(a) /\ a \in Apps
  BY PumpedSane DEF Orderly, Sane
<1>3. Sane([a EXCEPT !.error = "native"])
  BY <1>2, FlagsBeside, BesideIsSane DEF Errors
<1>4. [NoPlay EXCEPT !.live = TRUE, !.on = TRUE] \in Scenes
  BY DEF NoPlay, Scenes
<1>5. Sane(app') /\ scene' \in Scenes
  BY <1>1, <1>2, <1>3, <1>4, DrainReturnIsScene
<1>6. QED
  BY <1>1, <1>5 DEF Orderly, Scenes, Sane, Versions, Slot, Own

LEMMA RetryIsGood ==
  ASSUME Orderly, Retry
  PROVE  Orderly'
<1>1. app \in Apps
  BY DEF Orderly, Sane
<1>2. app' = [app EXCEPT !.tries = 0, !.asked = [k \in Sounds |-> 0], !.permanent = {},
                         !.audioFailure = "none", !.error = "none", !.age = 0]
  BY DEF Retry
<1>3. app' \in Apps /\ app'.gd = app.gd /\ app'.map = app.map /\ app'.lookup = app.lookup
  BY <1>1, <1>2, Numbers DEF Apps, Errors
<1>4. Beside(app, app')
  BY <1>3 DEF Beside
<1>5. Sane(app')
  BY <1>4, BesideIsSane DEF Orderly
<1>6. QED
  BY <1>5, StepIsGood DEF Retry

LEMMA AgeIsGood ==
  ASSUME Orderly, Age
  PROVE  Orderly'
<1>1. app \in Apps
  BY DEF Orderly, Sane
<1>2. app' = [app EXCEPT !.age = app.age + 1]
  BY DEF Age
<1>3. app' \in Apps /\ app'.gd = app.gd /\ app'.map = app.map /\ app'.lookup = app.lookup
  BY <1>1, <1>2 DEF Apps
<1>4. Beside(app, app')
  BY <1>3 DEF Beside
<1>5. Sane(app')
  BY <1>4, BesideIsSane DEF Orderly
<1>6. QED
  BY <1>5, StepIsGood DEF Age

\* The query is answered with the version there is by then.
LEMMA LookupIsGood ==
  ASSUME Orderly, NEW found \in BOOLEAN, LookupAnswered(found)
  PROVE  Orderly'
<1> DEFINE l == app.lookup
           accepted == ~l.dropped /\ l.for = context /\ context # None
           gd == [app.gd EXCEPT !.lookup = FALSE]
           known == [l EXCEPT !.busy = FALSE, !.proof = context, !.version = app.gd.online,
                              !.held = "listed", !.error = FALSE]
           none == [l EXCEPT !.busy = FALSE, !.error = l.error \/ accepted]
           lookup == IF found /\ accepted THEN known ELSE none
<1>1. Sane(app) /\ app \in Apps /\ l \in Lookups /\ app.gd \in Games /\ context \in Contexts
  BY AppParts DEF Orderly, Sane
<1>2. accepted \in BOOLEAN /\ (l.error \/ accepted) \in BOOLEAN
  OBVIOUS
<1>3. app' = [app EXCEPT !.gd = gd, !.lookup = lookup]
  BY DEF LookupAnswered
<1> HIDE DEF accepted
<1>4. known \in Lookups /\ known.version = app.gd.online
  BY <1>1 DEF Lookups, Games
<1>5. none \in Lookups /\ none.version = l.version
  BY <1>1, <1>2 DEF Lookups
<1>6. gd \in Games /\ gd.online = app.gd.online /\ gd.saved = app.gd.saved
      /\ gd.map = app.gd.map /\ gd.call = app.gd.call /\ gd.delegate = app.gd.delegate
  BY <1>1 DEF Games
<1> HIDE DEF known, none, gd
<1>7. lookup \in Lookups /\ lookup.version \in {app.gd.online, l.version}
  BY <1>4, <1>5
<1> HIDE DEF lookup
<1>8. app' \in Apps /\ app'.gd = gd /\ app'.map = app.map /\ app'.lookup = lookup
  BY <1>1, <1>3, <1>6, <1>7 DEF Apps
<1>9. Versions(app')
  BY <1>1, <1>6, <1>7, <1>8 DEF Sane, Versions, Games
<1>10. Slot(app') /\ Own(app')
  BY <1>1, <1>6, <1>8 DEF Sane, Slot, Own
<1>11. QED
  BY <1>8, <1>9, <1>10, StepIsGood DEF Sane, LookupAnswered

\* What the game does with its own record.
LEMMA GameIsGood ==
  ASSUME Orderly, NEW gd \in Games, app' = [app EXCEPT !.gd = gd], UNCHANGED <<context, scene>>,
         gd.call # "old", gd.saved <= gd.online, app.gd.online <= gd.online,
         gd.map = "active" \/ gd.call # "none" => app.map.pending \/ gd.delegate = "foreign",
         gd.call # "none" => gd.map # "active"
  PROVE  Orderly'
<1>1. Sane(app) /\ app \in Apps /\ app.gd \in Games /\ app.lookup \in Lookups
  BY AppParts DEF Orderly, Sane
<1>2. app' \in Apps /\ app'.gd = gd /\ app'.map = app.map /\ app'.lookup = app.lookup
  BY <1>1 DEF Apps
<1>3. Sane(app')
  BY <1>1, <1>2 DEF Sane, Versions, Slot, Own, Games, Lookups
<1>4. QED
  BY <1>3, StepIsGood

LEMMA MapEndsIsGood ==
  ASSUME Orderly, MapArrives \/ MapFails \/ ForeignTakes \/ LevelUpdated
  PROVE  Orderly'
<1>1. Sane(app) /\ app \in Apps /\ app.gd \in Games
  BY AppParts DEF Orderly, Sane
<1>2. CASE MapArrives
  <2> DEFINE gd == [app.gd EXCEPT !.map = "idle", !.call = "own", !.saved = app.gd.online]
  <2>1. gd \in Games /\ gd.online = app.gd.online /\ gd.saved = app.gd.online
        /\ gd.map = "idle" /\ gd.call = "own" /\ gd.delegate = app.gd.delegate
    BY <1>1 DEF Games
  <2>2. app' = [app EXCEPT !.gd = gd] /\ UNCHANGED <<context, scene>>
        /\ app.gd.map = "active"
    BY <1>2 DEF MapArrives
  <2> HIDE DEF gd
  <2>3. gd.saved <= gd.online /\ app.gd.online <= gd.online
    BY <2>1 DEF Games
  <2>4. QED
    BY <1>1, <2>1, <2>2, <2>3, GameIsGood DEF Sane, Slot
<1>3. CASE MapFails
  <2> DEFINE gd == [app.gd EXCEPT !.map = "idle", !.call = "failure"]
  <2>1. gd \in Games /\ gd.online = app.gd.online /\ gd.saved = app.gd.saved
        /\ gd.map = "idle" /\ gd.call = "failure" /\ gd.delegate = app.gd.delegate
    BY <1>1 DEF Games
  <2>2. app' = [app EXCEPT !.gd = gd] /\ UNCHANGED <<context, scene>>
        /\ app.gd.map = "active"
    BY <1>3 DEF MapFails
  <2> HIDE DEF gd
  <2>3. gd.saved <= gd.online /\ app.gd.online <= gd.online
    BY <1>1, <2>1 DEF Games, Sane, Versions
  <2>4. QED
    BY <1>1, <2>1, <2>2, <2>3, GameIsGood DEF Sane, Slot
<1>4. CASE ForeignTakes
  <2> DEFINE gd == [app.gd EXCEPT !.delegate = "foreign", !.map = "active"]
  <2>1. gd \in Games /\ gd.online = app.gd.online /\ gd.saved = app.gd.saved
        /\ gd.map = "active" /\ gd.call = app.gd.call /\ gd.delegate = "foreign"
    BY <1>1 DEF Games
  <2>2. app' = [app EXCEPT !.gd = gd] /\ UNCHANGED <<context, scene>>
        /\ app.gd.call = "none"
    BY <1>4 DEF ForeignTakes
  <2> HIDE DEF gd
  <2>3. gd.saved <= gd.online /\ app.gd.online <= gd.online
    BY <1>1, <2>1 DEF Games, Sane, Versions
  <2>4. QED
    BY <1>1, <2>1, <2>2, <2>3, GameIsGood
<1>5. CASE LevelUpdated
  <2> DEFINE gd == [app.gd EXCEPT !.online = 2]
  <2>1. gd \in Games /\ gd.online = 2 /\ gd.saved = app.gd.saved
        /\ gd.map = app.gd.map /\ gd.call = app.gd.call /\ gd.delegate = app.gd.delegate
    BY <1>1 DEF Games
  <2>2. app' = [app EXCEPT !.gd = gd] /\ UNCHANGED <<context, scene>>
        /\ app.gd.online = 1
    BY <1>5 DEF LevelUpdated
  <2> HIDE DEF gd
  <2>3. gd.saved <= gd.online /\ app.gd.online <= gd.online
    BY <1>1, <2>1, <2>2 DEF Games, Sane, Versions
  <2>4. QED
    BY <1>1, <2>1, <2>2, <2>3, GameIsGood DEF Sane, Slot, Own
<1>6. QED
  BY <1>2, <1>3, <1>4, <1>5

\* The callback of a download: ours is the answer to the one that is pending.
LEMMA MapCallbackIsGood ==
  ASSUME Orderly, MapCallback
  PROVE  Orderly'
<1> DEFINE delegate == IF app.gd.delegate = "foreign" THEN "none" ELSE app.gd.delegate
           gd == [app.gd EXCEPT !.call = "none", !.delegate = delegate]
           got == IF app.gd.call = "failure" THEN 0 ELSE app.gd.saved
           old == app.gd.call = "old"
           d == [app.map EXCEPT !.done = TRUE, !.stale = old, !.got = got]
           b == [app EXCEPT !.gd = gd]
           c == [app EXCEPT !.gd = gd, !.map = d]
<1>1. Sane(app) /\ app \in Apps /\ app.gd \in Games /\ app.map \in Downloads
  BY AppParts DEF Orderly, Sane
<1>2. app.gd.call # "none" /\ UNCHANGED <<context, scene>> /\ app' \in {b, c}
  BY DEF MapCallback
<1>3. app.gd.map # "active" /\ old = FALSE
  BY <1>1, <1>2 DEF Sane, Slot, Own
<1> HIDE DEF old
<1>4. gd \in Games /\ gd.online = app.gd.online /\ gd.saved = app.gd.saved
      /\ gd.map = app.gd.map /\ gd.call = "none"
  BY <1>1 DEF Games
<1>5. got \in Nat
  BY <1>1 DEF Games
<1> HIDE DEF gd, got
<1>6. d \in Downloads /\ d.stale = FALSE /\ d.pending = app.map.pending
  BY <1>1, <1>3, <1>5 DEF Downloads
<1> HIDE DEF d
<1>7. b \in Apps /\ b.gd = gd /\ b.map = app.map /\ b.lookup = app.lookup
  BY <1>1, <1>4 DEF Apps
<1>8. c \in Apps /\ c.gd = gd /\ c.map = d /\ c.lookup = app.lookup
  BY <1>1, <1>4, <1>6 DEF Apps
<1> HIDE DEF b, c
<1>9. Sane(b) /\ Sane(c)
  BY <1>1, <1>3, <1>4, <1>6, <1>7, <1>8 DEF Sane, Versions, Slot, Own
<1>10. QED
  BY <1>2, <1>9, StepIsGood

\* A song arrives, fails or is refused, and its ticket is told.
LEMMA SoundIsGood ==
  ASSUME Orderly, NEW k \in Sounds,
         SoundCallback(k)
         \/ \E how \in {"arrived", "failed", "refused"} : SoundEnds(k, how)
  PROVE  Orderly'
<1> DEFINE States == {"idle", "active", "arrived", "failed", "refused"}
<1>1. Sane(app) /\ app \in Apps /\ app.gd \in Games /\ app.ticket \in [Sounds -> Tickets]
  BY AppParts DEF Orderly, Sane
<1>2. app.gd.sound \in [Sounds -> States] /\ app.gd.have \in [Sounds -> BOOLEAN]
  BY <1>1 DEF Games
<1>3. ASSUME NEW how \in {"arrived", "failed", "refused"}, SoundEnds(k, how)
      PROVE  Orderly'
  <2> DEFINE there == app.gd.have[k] \/ how = "arrived"
             sound == [app.gd.sound EXCEPT ![k] = how]
             have == [app.gd.have EXCEPT ![k] = there]
             gd == [app.gd EXCEPT !.sound = sound, !.have = have]
  <2>1. app' = [app EXCEPT !.gd = gd] /\ UNCHANGED <<context, scene>>
    BY <1>1, <1>3 DEF SoundEnds, Apps, Games
  <2>2. there \in BOOLEAN
    OBVIOUS
  <2> HIDE DEF there
  <2>3. sound \in [Sounds -> States] /\ have \in [Sounds -> BOOLEAN]
    BY <1>2, <2>2
  <2> HIDE DEF sound, have
  <2>4. gd \in Games /\ gd.online = app.gd.online /\ gd.saved = app.gd.saved
        /\ gd.map = app.gd.map /\ gd.call = app.gd.call /\ gd.delegate = app.gd.delegate
    BY <1>1, <2>3 DEF Games
  <2> HIDE DEF gd
  <2>5. gd.saved <= gd.online /\ app.gd.online <= gd.online
    BY <1>1, <2>4 DEF Games, Sane, Versions
  <2>6. QED
    BY <1>1, <2>1, <2>4, <2>5, GameIsGood DEF Sane, Slot, Own
<1>4. CASE SoundCallback(k)
  <2> DEFINE u == app.ticket[k]
             error == IF app.gd.sound[k] = "refused" THEN "permanent" ELSE u.error
             t == IF ~u.open \/ u.over THEN u ELSE [u EXCEPT !.over = TRUE, !.error = error]
             sound == [app.gd.sound EXCEPT ![k] = "idle"]
             gd == [app.gd EXCEPT !.sound = sound]
             ticket == [app.ticket EXCEPT ![k] = t]
  <2>1. app' = [app EXCEPT !.gd = gd, !.ticket = ticket] /\ UNCHANGED <<context, scene>>
    BY <1>1, <1>4 DEF SoundCallback, Apps, Games
  <2>2. t \in Tickets
    <3>1. u \in Tickets
      BY <1>1
    <3> HIDE DEF u
    <3>2. error \in {"none", "permanent"}
      BY <3>1 DEF Tickets
    <3> HIDE DEF error
    <3>3. QED
      BY <3>1, <3>2 DEF Tickets
  <2> HIDE DEF t
  <2>3. sound \in [Sounds -> States] /\ ticket \in [Sounds -> Tickets]
    BY <1>1, <1>2, <2>2
  <2> HIDE DEF sound, ticket
  <2>4. gd \in Games /\ gd.online = app.gd.online /\ gd.saved = app.gd.saved
        /\ gd.map = app.gd.map /\ gd.call = app.gd.call /\ gd.delegate = app.gd.delegate
    BY <1>1, <2>3 DEF Games
  <2> HIDE DEF gd
  <2>5. app' \in Apps /\ app'.gd = gd /\ app'.map = app.map /\ app'.lookup = app.lookup
    BY <1>1, <2>1, <2>3, <2>4 DEF Apps
  <2>6. Sane(app')
    BY <1>1, <2>4, <2>5 DEF Sane, Versions, Slot, Own
  <2>7. QED
    BY <2>1, <2>6, StepIsGood
<1>5. QED
  BY <1>3, <1>4

-----------------------------------------------------------------------------
(* Theorems *)

\* Whatever the game has under way is ours or another screen's, and its last
\* callback has come before anything else is asked (pump, pumpMap, download).
THEOREM PreparationInvariant == PrepSpec => []Orderly
<1>1. PrepInit => Orderly
  <2>1. NoLookup \in Lookups /\ NoMap \in Downloads /\ NoTicket \in Tickets
        /\ Managers \in Games
    BY Numbers DEF NoLookup, NoMap, NoTicket, Managers, Lookups, Downloads, Tickets, Games,
                   Contexts
  <2>2. App \in Apps
    BY <2>1, Numbers DEF App, Apps, Contexts, Errors
  <2>3. App.gd = Managers /\ App.map = NoMap /\ App.lookup = NoLookup
    BY DEF App
  <2>4. Versions(App) /\ Slot(App) /\ Own(App)
    BY <2>3 DEF Versions, Slot, Own, Managers, NoMap, NoLookup
  <2>5. QED
    BY <2>2, <2>4 DEF PrepInit, Orderly, Sane, NoPlay, Contexts
<1>2. Orderly /\ [PrepNext]_prepVars => Orderly'
  <2> SUFFICES ASSUME Orderly, [PrepNext]_prepVars PROVE Orderly'
    OBVIOUS
  <2>1. CASE Pump \/ Launch
    BY <2>1, PumpIsGood, LaunchIsGood
  <2>2. CASE Age \/ Retry
    BY <2>2, AgeIsGood, RetryIsGood
  <2>3. CASE LookupEnds \/ LookupLost
    BY <2>3, LookupIsGood DEF LookupEnds, LookupLost
  <2>4. CASE Native
    BY <2>4, MapEndsIsGood, MapCallbackIsGood, SoundIsGood DEF Native
  <2>5. CASE MapFails \/ ForeignTakes \/ LevelUpdated
    BY <2>5, MapEndsIsGood
  <2>6. ASSUME NEW k \in Sounds, NEW how \in {"arrived", "failed", "refused"},
               SoundEnds(k, how)
        PROVE  Orderly'
    BY <2>6, SoundIsGood
  <2>7. CASE ContextChanges
    BY <2>7 DEF ContextChanges, Orderly, Contexts, Sane, Versions, Slot, Own
  <2>8. CASE Quit \/ QueuedReturn \/ Released
    <3>1. scene' \in Scenes /\ UNCHANGED <<context, app>>
      BY <2>8 DEF Quit, QueuedReturn, Released, Orderly, Scenes
    <3>2. QED
      BY <3>1, SceneIsGood
  <2>9. CASE UNCHANGED prepVars
    BY <2>9, StepIsGood DEF prepVars, Orderly
  <2>10. QED
    BY <2>1, <2>2, <2>3, <2>4, <2>5, <2>6, <2>7, <2>8, <2>9 DEF PrepNext
<1>3. QED
  BY <1>1, <1>2, PTL DEF PrepSpec

\* The requests and their counts keep their bounds, and no version of the level is
\* held that was never there.
THEOREM PreparationTypes == PrepSpec => []PrepTypeOK
<1>1. ASSUME Orderly
      PROVE  PrepTypeOK
  <2>1. app \in Apps /\ app.map \in Downloads /\ app.gd \in Games /\ app.lookup \in Lookups
        /\ app.ticket \in [Sounds -> Tickets] /\ Versions(app)
    BY <1>1, AppParts DEF Orderly, Sane
  <2>2. app.map.quiet < Quiet /\ \A k \in Sounds : app.ticket[k].quiet < Quiet
    BY <2>1, PreparationAssumption DEF Downloads, Tickets, Pauses
  <2>3. app.gd.saved \in 0 .. app.gd.online /\ app.lookup.version \in 0 .. app.gd.online
    BY <2>1 DEF Games, Lookups, Versions
  <2>4. app.for \in Contexts /\ app.tries \in Tries /\ app.asked \in [Sounds -> Tries]
    BY <2>1 DEF Apps
  <2>5. QED
    BY <1>1, <2>2, <2>3, <2>4 DEF PrepTypeOK, Orderly, Contexts, Tries
<1>2. QED
  BY <1>1, PreparationInvariant, PTL

\* The result that is latched for a download answers that very download, for any
\* number of quiet pumps, failures, foreign downloads and changes of the round, as
\* long as the game calls back before the request counts as over (Late).
THEOREM PreparationAnswerIsItsOwn == PrepSpec => []AnswerIsItsOwn
<1>1. Orderly => AnswerIsItsOwn
  BY DEF Orderly, Sane, Own, AnswerIsItsOwn
<1>2. QED
  BY <1>1, PreparationInvariant, PTL

=============================================================================
