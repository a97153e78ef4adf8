----------------------- MODULE AttemptTransport_proofs -----------------------
(***************************************************************************)
(* What the delivery of runs keeps, for any number of runs, any delay of the *)
(* handlers and any lease and grace times.  Good relates what the server     *)
(* holds to the runs that were really played; every handler keeps it, in     *)
(* whatever order and however often its request arrives.                    *)
(***************************************************************************)
EXTENDS AttemptTransport, RoundRules_proofs

Table  == UNION {[RunIds(s) -> Lease] : s \in Side}
Server == [round : Round, leases : [Side -> Table], starts : [Side -> Seq(Nat)]]

(* The attempts of the round are the runs whose Start was accepted, each once. *)
StartsOK(srv, rs) ==
  \A s \in Side :
    /\ Len(srv.starts[s]) = Len(srv.round.attempts[s])
    /\ \A i \in 1..Len(srv.starts[s]) : srv.starts[s][i] \in 1..Len(rs[s])
    /\ \A i, j \in 1..Len(srv.starts[s]) : srv.starts[s][i] = srv.starts[s][j] => i = j

(* A lease is of a run that began when it says. *)
LeasesOK(srv, rs) ==
  \A s \in Side :
    /\ srv.leases[s] \in [RunIds(s) -> Lease]
    /\ \A e \in RunIds(s) :
         /\ srv.leases[s][e].status = "CONSUMED" => Started(srv, s, e)
         /\ srv.leases[s][e].status # "NONE" =>
              e \in 1..Len(rs[s]) /\ srv.leases[s][e].startedAt = rs[s][e].startedAt

Scored(attempt, run) ==
  /\ run.status = "ENDED"
  /\ attempt.cleared = run.report.cleared
  /\ attempt.award = ScoreAttempt(run.report.percent, run.report.cleared)

ScoresOK(srv, rs) ==
  \A s \in Side : \A i \in 1..Len(srv.starts[s]) :
    srv.round.attempts[s][i].status = "ENDED" =>
      Scored(srv.round.attempts[s][i], rs[s][srv.starts[s][i]])

Good(srv, rs) ==
  /\ srv \in Server /\ Consistent(srv.round)
  /\ StartsOK(srv, rs) /\ LeasesOK(srv, rs) /\ ScoresOK(srv, rs)

(* The journals: an attempt that a run knows is its own. *)
Journals(srv, rs, hd) ==
  /\ rs \in [Side -> Seq(Run)] /\ hd \in [Side -> Nat]
  /\ \A s \in Side :
       /\ Len(rs[s]) <= MaxRuns[s]
       /\ hd[s] \in 1..(Len(rs[s]) + 1)
       /\ \A e \in 1..Len(rs[s]) :
            rs[s][e].attempt # 0 => /\ rs[s][e].attempt \in 1..Len(srv.starts[s])
                                    /\ srv.starts[s][rs[s][e].attempt] = e

IInv == clock \in 0..MaxClock /\ Good(server, runs) /\ Journals(server, runs, head)

-----------------------------------------------------------------------------
(* Facts about the server's record *)

LEMMA ServerFacts ==
  ASSUME NEW srv \in Server, NEW s \in Side
  PROVE  /\ srv.round \in Round /\ srv.leases \in [Side -> Table]
         /\ srv.starts \in [Side -> Seq(Nat)] /\ srv.starts[s] \in Seq(Nat)
         /\ Len(srv.starts[s]) \in Nat /\ DOMAIN srv.starts[s] = 1..Len(srv.starts[s])
         /\ \A i \in 1..Len(srv.starts[s]) : srv.starts[s][i] \in Nat
<1>1. srv.starts \in [Side -> Seq(Nat)] /\ srv.leases \in [Side -> Table] /\ srv.round \in Round
  BY DEF Server
<1>2. srv.starts[s] \in Seq(Nat)
  BY <1>1
<1>3. QED
  BY <1>1, <1>2, LenProperties, ElementOfSeq

(* Replacing the round by one with the same runs. *)
LEMMA RoundMovedGood ==
  ASSUME NEW srv, NEW rs, Good(srv, rs), NEW r, Consistent(r), SameRuns(srv.round, r)
  PROVE  LET f == [srv EXCEPT !.round = r] IN
         Good(f, rs) /\ f.round = r /\ f.starts = srv.starts /\ f.leases = srv.leases
<1> DEFINE f == [srv EXCEPT !.round = r]
<1>1. srv \in Server /\ r \in Round
  BY DEF Good, Consistent, Body
<1>2. f \in Server /\ f.round = r /\ f.starts = srv.starts /\ f.leases = srv.leases
  BY <1>1 DEF Server
<1> HIDE DEF f
<1>3. StartsOK(f, rs)
  BY <1>2 DEF Good, StartsOK, SameRuns
<1>4. LeasesOK(f, rs)
  BY <1>2 DEF Good, LeasesOK, Started
<1>5. ScoresOK(f, rs)
  <2>1. SUFFICES ASSUME NEW s \in Side, NEW i \in 1..Len(srv.starts[s]),
                        r.attempts[s][i].status = "ENDED"
                 PROVE  Scored(r.attempts[s][i], rs[s][srv.starts[s][i]])
    BY <1>2 DEF ScoresOK
  <2>2. i \in 1..Len(srv.round.attempts[s])
    BY DEF Good, StartsOK
  <2>3. srv.round.attempts[s][i] \in Attempt
    BY <1>1, <2>2, ServerFacts, AttemptFacts
  <2>4. Cut(srv.round.attempts[s][i], r.attempts[s][i])
    BY <2>2 DEF SameRuns
  <2>5. r.attempts[s][i] = srv.round.attempts[s][i]
    BY <2>1, <2>3, <2>4 DEF Cut, Attempt
  <2>6. QED
    BY <2>1, <2>5 DEF Good, ScoresOK
<1>6. QED
  BY <1>2, <1>3, <1>4, <1>5 DEF Good, f

(* Changing the leases: what a lease becomes. *)
LEMMA LeasesMovedGood ==
  ASSUME NEW srv, NEW rs, Good(srv, rs), NEW table,
         \A s \in Side : table[s] \in [RunIds(s) -> Lease],
         table \in [Side -> Table],
         \A s \in Side : \A e \in RunIds(s) :
           /\ table[s][e].status = "CONSUMED" => Started(srv, s, e)
           /\ table[s][e].status # "NONE" =>
                e \in 1..Len(rs[s]) /\ table[s][e].startedAt = rs[s][e].startedAt
  PROVE  LET f == [srv EXCEPT !.leases = table] IN
         Good(f, rs) /\ f.round = srv.round /\ f.starts = srv.starts /\ f.leases = table
<1> DEFINE f == [srv EXCEPT !.leases = table]
<1>1. srv \in Server
  BY DEF Good
<1>2. f \in Server /\ f.round = srv.round /\ f.starts = srv.starts /\ f.leases = table
  BY <1>1 DEF Server
<1> HIDE DEF f
<1>3. StartsOK(f, rs) /\ ScoresOK(f, rs)
  BY <1>2 DEF Good, StartsOK, ScoresOK
<1>4. LeasesOK(f, rs)
  BY <1>2 DEF LeasesOK, Started
<1>5. QED
  BY <1>2, <1>3, <1>4 DEF Good, f

LEMMA LeaseFacts ==
  ASSUME NEW srv, NEW rs, Good(srv, rs), NEW s \in Side, NEW e \in RunIds(s)
  PROVE  /\ srv.leases[s][e] \in Lease
         /\ srv.leases[s] \in [RunIds(s) -> Lease] /\ srv.leases \in [Side -> Table]
  BY DEF Good, LeasesOK, Server

LEMMA SweepGood ==
  ASSUME NEW srv, NEW rs, Good(srv, rs), NEW now
  PROVE  LET f == SweepLeases(srv, now) IN
         /\ Good(f, rs) /\ f.round = srv.round /\ f.starts = srv.starts
         /\ f.leases = [s \in Side |-> [e \in RunIds(s) |-> Swept(srv, s, e, now)]]
<1> DEFINE table == [s \in Side |-> [e \in RunIds(s) |-> Swept(srv, s, e, now)]]
<1>1. ASSUME NEW s \in Side, NEW e \in RunIds(s)
      PROVE  /\ Swept(srv, s, e, now) \in Lease
             /\ Swept(srv, s, e, now).status = "CONSUMED" => Started(srv, s, e)
             /\ Swept(srv, s, e, now).status # "NONE" =>
                  /\ e \in 1..Len(rs[s])
                  /\ Swept(srv, s, e, now).startedAt = rs[s][e].startedAt
  <2>1. PICK l \in Lease : l = srv.leases[s][e]
    BY LeaseFacts
  <2>2. /\ l.status = "CONSUMED" => Started(srv, s, e)
        /\ l.status # "NONE" => e \in 1..Len(rs[s]) /\ l.startedAt = rs[s][e].startedAt
    BY <2>1 DEF Good, LeasesOK
  <2>3. \/ Swept(srv, s, e, now) = l
        \/ /\ l.status = "PENDING" /\ Started(srv, s, e)
           /\ Swept(srv, s, e, now) = [l EXCEPT !.status = "CONSUMED"]
        \/ /\ l.status = "PENDING"
           /\ Swept(srv, s, e, now) = [l EXCEPT !.status = "INVALIDATED"]
    BY <2>1 DEF Swept
  <2>4. QED
    BY <2>2, <2>3 DEF Lease
<1>2. \A s \in Side : table[s] \in [RunIds(s) -> Lease]
  BY <1>1
<1>3. table \in [Side -> Table]
  BY <1>2 DEF Table
<1>4. \A s \in Side : \A e \in RunIds(s) : table[s][e] = Swept(srv, s, e, now)
  OBVIOUS
<1>5. SweepLeases(srv, now) = [srv EXCEPT !.leases = table]
  BY DEF SweepLeases
<1> HIDE DEF table
<1>6. LET f == [srv EXCEPT !.leases = table] IN
      Good(f, rs) /\ f.round = srv.round /\ f.starts = srv.starts /\ f.leases = table
  BY <1>1, <1>2, <1>3, <1>4, LeasesMovedGood
<1>7. QED
  BY <1>5, <1>6 DEF table

LEMMA SetLeaseGood ==
  ASSUME NEW srv, NEW rs, Good(srv, rs), NEW s \in Side, NEW e \in RunIds(s),
         NEW status \in {"CONSUMED", "INVALIDATED"},
         srv.leases[s][e].status # "NONE",
         status = "CONSUMED" => Started(srv, s, e)
  PROVE  LET f == SetLease(srv, s, e, status) IN
         Good(f, rs) /\ f.round = srv.round /\ f.starts = srv.starts
<1> DEFINE new == [srv.leases[s][e] EXCEPT !.status = status]
           row == [srv.leases[s] EXCEPT ![e] = new]
           table == [srv.leases EXCEPT ![s] = row]
<1>1. PICK l \in Lease : l = srv.leases[s][e]
  BY LeaseFacts
<1>2. /\ new \in Lease /\ new.status = status /\ new.startedAt = l.startedAt
  BY <1>1 DEF Lease
<1>3. SetLease(srv, s, e, status) = [srv EXCEPT !.leases = table]
  BY DEF SetLease, Good, Server
<1>4. /\ e \in 1..Len(rs[s]) /\ l.startedAt = rs[s][e].startedAt
  BY <1>1 DEF Good, LeasesOK
<1> HIDE DEF new
<1>5. row \in [RunIds(s) -> Lease] /\ \A d \in RunIds(s) : row[d] = IF d = e THEN new
                                                           ELSE srv.leases[s][d]
  BY <1>2, LeaseFacts
<1> HIDE DEF row
<1>6. /\ table \in [Side -> Table]
      /\ \A t \in Side : table[t] = IF t = s THEN row ELSE srv.leases[t]
  <2>1. row \in Table
    BY <1>5 DEF Table
  <2>2. QED
    BY <2>1, LeaseFacts
<1> HIDE DEF table
<1>7. \A t \in Side : table[t] \in [RunIds(t) -> Lease]
  BY <1>5, <1>6 DEF Good, LeasesOK
<1>8. ASSUME NEW t \in Side, NEW d \in RunIds(t)
      PROVE  /\ table[t][d].status = "CONSUMED" => Started(srv, t, d)
             /\ table[t][d].status # "NONE" =>
                  d \in 1..Len(rs[t]) /\ table[t][d].startedAt = rs[t][d].startedAt
  <2>1. CASE t = s /\ d = e
    BY <1>2, <1>4, <1>5, <1>6, <2>1
  <2>2. CASE ~(t = s /\ d = e)
    <3>1. table[t][d] = srv.leases[t][d]
      BY <1>5, <1>6, <2>2
    <3>2. QED
      BY <3>1 DEF Good, LeasesOK
  <2>3. QED
    BY <2>1, <2>2
<1>9. QED
  BY <1>3, <1>6, <1>7, <1>8, LeasesMovedGood

LEMMA ConsumeGood ==
  ASSUME NEW srv, NEW rs, Good(srv, rs), NEW s \in Side, NEW e \in RunIds(s),
         Started(srv, s, e)
  PROVE  LET f == ConsumeLease(srv, s, e) IN
         Good(f, rs) /\ f.round = srv.round /\ f.starts = srv.starts
  BY SetLeaseGood DEF ConsumeLease

-----------------------------------------------------------------------------
(* The clock and the handlers *)

LEMMA AdvanceLockedGood ==
  ASSUME NEW srv, NEW rs, Good(srv, rs), NEW now \in Int
  PROVE  LET f == AdvanceLockedMatch(srv, now) IN
         /\ Good(f, rs) /\ f.starts = srv.starts
         /\ StartDeadline(f.round) = StartDeadline(srv.round)
         /\ SameRuns(srv.round, f.round)
<1> DEFINE swept == SweepLeases(srv, now)
           r == srv.round
           adv == AdvanceRoundClock(r, now)
           w == Written(r, adv)
<1>1. Consistent(r) /\ r \in Round
  BY DEF Good, Consistent, Body
<1>2. Good(swept, rs) /\ swept.round = r /\ swept.starts = srv.starts
  BY SweepGood
<1>3. /\ Consistent(adv) /\ StartDeadline(adv) = StartDeadline(r) /\ SameRuns(r, adv)
  BY <1>1, AdvanceConsistent, AdvanceRuns
<1>4. SameRuns(r, r)
  BY SameRunsItself
<1>5. Consistent(w) /\ StartDeadline(w) = StartDeadline(r) /\ SameRuns(r, w)
  BY <1>1, <1>3, <1>4 DEF Written
<1>6. LET f == [srv EXCEPT !.round = adv] IN
      Good(f, rs) /\ f.round = adv /\ f.starts = srv.starts
  BY <1>3, RoundMovedGood
<1>7. LET f == [swept EXCEPT !.round = w] IN
      Good(f, rs) /\ f.round = w /\ f.starts = srv.starts
  BY <1>2, <1>5, RoundMovedGood
<1>8. \/ AdvanceLockedMatch(srv, now) = srv
      \/ AdvanceLockedMatch(srv, now) = [srv EXCEPT !.round = adv]
      \/ AdvanceLockedMatch(srv, now) = swept
      \/ AdvanceLockedMatch(srv, now) = [swept EXCEPT !.round = w]
  BY <1>2 DEF AdvanceLockedMatch
<1> HIDE DEF swept, r, adv, w
<1>9. CASE AdvanceLockedMatch(srv, now) = srv
  BY <1>9, <1>4 DEF r
<1>10. CASE AdvanceLockedMatch(srv, now) = [srv EXCEPT !.round = adv]
  BY <1>10, <1>3, <1>6 DEF r
<1>11. CASE AdvanceLockedMatch(srv, now) = swept
  BY <1>11, <1>2, <1>4 DEF r
<1>12. CASE AdvanceLockedMatch(srv, now) = [swept EXCEPT !.round = w]
  BY <1>12, <1>5, <1>7 DEF r
<1>13. QED
  BY <1>8, <1>9, <1>10, <1>11, <1>12

LEMMA HandleIntentGood ==
  ASSUME NEW srv, NEW rs, Good(srv, rs), NEW s \in Side, NEW e \in RunIds(s),
         e \in 1..Len(rs[s]), rs[s][e].startedAt \in Nat, NEW now \in Nat
  PROVE  LET f == HandleIntent(srv, s, e, rs[s][e].startedAt, now) IN
         Good(f, rs) /\ f.round = srv.round /\ f.starts = srv.starts
<1> DEFINE new == [status |-> "PENDING", startedAt |-> rs[s][e].startedAt, observedAt |-> now]
           row == [srv.leases[s] EXCEPT ![e] = new]
           table == [srv.leases EXCEPT ![s] = row]
           f == HandleIntent(srv, s, e, rs[s][e].startedAt, now)
<1>1. CASE Started(srv, s, e)
  BY <1>1, ConsumeGood DEF HandleIntent
<1>2. CASE f = srv
  BY <1>2
<1>3. CASE f = [srv EXCEPT !.leases = table]
  <2>1. new \in Lease /\ new.status = "PENDING" /\ new.startedAt = rs[s][e].startedAt
    BY DEF Lease
  <2> HIDE DEF new, f
  <2>2. row \in [RunIds(s) -> Lease] /\ \A d \in RunIds(s) : row[d] = IF d = e THEN new
                                                             ELSE srv.leases[s][d]
    BY <2>1, LeaseFacts
  <2> HIDE DEF row
  <2>3. row \in Table
    BY <2>2 DEF Table
  <2>4. /\ table \in [Side -> Table]
        /\ \A t \in Side : table[t] = IF t = s THEN row ELSE srv.leases[t]
    BY <2>3, LeaseFacts
  <2> HIDE DEF table
  <2>5. \A t \in Side : table[t] \in [RunIds(t) -> Lease]
    BY <2>2, <2>4 DEF Good, LeasesOK
  <2>6. ASSUME NEW t \in Side, NEW d \in RunIds(t)
        PROVE  /\ table[t][d].status = "CONSUMED" => Started(srv, t, d)
               /\ table[t][d].status # "NONE" =>
                    d \in 1..Len(rs[t]) /\ table[t][d].startedAt = rs[t][d].startedAt
    <3>1. CASE t = s /\ d = e
      BY <2>1, <2>2, <2>4, <3>1
    <3>2. CASE ~(t = s /\ d = e)
      <4>1. table[t][d] = srv.leases[t][d]
        BY <2>2, <2>4, <3>2
      <4>2. QED
        BY <4>1 DEF Good, LeasesOK
    <3>3. QED
      BY <3>1, <3>2
  <2>7. LET g == [srv EXCEPT !.leases = table] IN
        Good(g, rs) /\ g.round = srv.round /\ g.starts = srv.starts /\ g.leases = table
    BY <2>4, <2>5, <2>6, LeasesMovedGood
  <2>8. QED
    BY <1>3, <2>7 DEF f
<1>4. Started(srv, s, e) \/ f = srv \/ f = [srv EXCEPT !.leases = table]
  BY DEF HandleIntent, Good, Server
<1>5. QED
  BY <1>1, <1>2, <1>3, <1>4

(* Starts grow only by a run that is let in, and only a run that began in time
   is. *)
LetIn(srv, f, rs, s, e) ==
  \/ f.starts = srv.starts
  \/ /\ f.starts = [srv.starts EXCEPT ![s] = Append(@, e)]
     /\ rs[s][e].startedAt < StartDeadline(srv.round)

LEMMA RecordStartGood ==
  ASSUME NEW srv, NEW rs, Good(srv, rs), NEW s \in Side, NEW e \in Nat, e \in 1..Len(rs[s]),
         ~Started(srv, s, e), NEW r, Consistent(r), NEW at,
         \/ SameRuns(srv.round, r)
         \/ OneMoreRun(srv.round, r, s, at) /\ rs[s][e].startedAt < StartDeadline(srv.round)
  PROVE  LET f == RecordStart(srv, s, e, r) IN
         Good(f, rs) /\ f.round = r /\ f.leases = srv.leases /\ LetIn(srv, f, rs, s, e)
<1> DEFINE q == IF Len(r.attempts[s]) > Len(srv.starts[s]) THEN Append(srv.starts[s], e)
                                                           ELSE srv.starts[s]
           starts == [srv.starts EXCEPT ![s] = q]
           g == [srv EXCEPT !.round = r]
           f == [g EXCEPT !.starts = starts]
<1>1. srv \in Server /\ r \in Round /\ srv.round \in Round
  BY DEF Good, Consistent, Body, Server
<1>2. RecordStart(srv, s, e, r) = f
  BY <1>1 DEF RecordStart, Server
<1>3. /\ Len(srv.starts[s]) \in Nat /\ srv.starts[s] \in Seq(Nat)
      /\ Len(srv.round.attempts[s]) = Len(srv.starts[s])
  BY <1>1, ServerFacts DEF Good, StartsOK
<1>4. CASE SameRuns(srv.round, r)
  <2>1. Len(r.attempts[s]) = Len(srv.starts[s])
    BY <1>3, <1>4 DEF SameRuns
  <2>2. q = srv.starts[s]
    BY <1>3, <2>1
  <2>3. starts = srv.starts
    BY <1>1, <2>2 DEF Server
  <2>4. f = g
    BY <1>1, <2>3 DEF Server
  <2> HIDE DEF g, f, starts, q
  <2>5. Good(g, rs) /\ g.round = r /\ g.starts = srv.starts /\ g.leases = srv.leases
    BY <1>4, RoundMovedGood DEF g
  <2>6. QED
    BY <1>2, <2>4, <2>5 DEF LetIn
<1>5. CASE OneMoreRun(srv.round, r, s, at) /\ rs[s][e].startedAt < StartDeadline(srv.round)
  <2>1. Len(r.attempts[s]) = Len(srv.starts[s]) + 1
    BY <1>3, <1>5 DEF OneMoreRun
  <2>2. q = Append(srv.starts[s], e)
    BY <1>3, <2>1
  <2>3. /\ q \in Seq(Nat) /\ Len(q) = Len(srv.starts[s]) + 1
        /\ q[Len(srv.starts[s]) + 1] = e
        /\ \A i \in 1..Len(srv.starts[s]) : q[i] = srv.starts[s][i]
    BY <1>3, <2>2, AppendProperties
  <2> HIDE DEF q
  <2>4. /\ starts \in [Side -> Seq(Nat)]
        /\ \A t \in Side : starts[t] = IF t = s THEN q ELSE srv.starts[t]
    BY <1>1, <2>3 DEF Server
  <2>5. starts = [srv.starts EXCEPT ![s] = Append(@, e)]
    BY <2>2
  <2> HIDE DEF starts
  <2>6. /\ f \in Server /\ f.round = r /\ f.starts = starts /\ f.leases = srv.leases
    BY <1>1, <2>4 DEF Server
  <2> HIDE DEF f
  <2>7. StartsOK(f, rs)
    <3>1. SUFFICES ASSUME NEW t \in Side
                   PROVE  /\ Len(starts[t]) = Len(r.attempts[t])
                          /\ \A i \in 1..Len(starts[t]) : starts[t][i] \in 1..Len(rs[t])
                          /\ \A i, j \in 1..Len(starts[t]) :
                               starts[t][i] = starts[t][j] => i = j
      BY <2>6 DEF StartsOK
    <3>2. CASE t # s
      <4>1. Len(r.attempts[t]) = Len(srv.round.attempts[t]) + (IF t = s THEN 1 ELSE 0)
        BY <1>5 DEF OneMoreRun
      <4>2. Len(r.attempts[t]) = Len(srv.round.attempts[t])
        BY <1>1, <3>2, <4>1, AttemptFacts
      <4>3. QED
        BY <2>4, <3>2, <4>2 DEF Good, StartsOK
    <3>3. CASE t = s
      <4>1. \A i \in 1..Len(srv.starts[s]) : srv.starts[s][i] # e
        BY <1>1, ServerFacts DEF Started
      <4>2. starts[t] = q
        BY <2>4, <3>3
      <4>3. Len(q) = Len(r.attempts[s])
        BY <2>1, <2>3
      <4>4. \A i \in 1..Len(q) : i \in 1..Len(srv.starts[s]) \/ i = Len(srv.starts[s]) + 1
        BY <1>3, <2>3
      <4>5. \A i \in 1..Len(q) : q[i] \in 1..Len(rs[s])
        BY <2>3, <4>4 DEF Good, StartsOK
      <4>6. ASSUME NEW i \in 1..Len(q), NEW j \in 1..Len(q), q[i] = q[j] PROVE i = j
        BY <2>3, <4>1, <4>4, <4>6 DEF Good, StartsOK
      <4>7. QED
        BY <3>3, <4>2, <4>3, <4>5, <4>6
    <3>4. QED
      BY <3>2, <3>3
  <2>8. LeasesOK(f, rs)
    <3>1. ASSUME NEW t \in Side, NEW d, Started(srv, t, d)
          PROVE  Started(f, t, d)
      <4>1. PICK i \in 1..Len(srv.starts[t]) : srv.starts[t][i] = d
        BY <1>1, <3>1, ServerFacts DEF Started
      <4>2. i \in 1..Len(starts[t]) /\ starts[t][i] = d
        <5>1. CASE t = s
          BY <1>3, <2>3, <2>4, <4>1, <5>1
        <5>2. CASE t # s
          BY <2>4, <4>1, <5>2
        <5>3. QED
          BY <5>1, <5>2
      <4>3. QED
        BY <2>6, <4>2, ServerFacts DEF Started
    <3>2. QED
      BY <2>6, <3>1 DEF Good, LeasesOK
  <2>9. ScoresOK(f, rs)
    <3>1. SUFFICES ASSUME NEW t \in Side, NEW i \in 1..Len(starts[t]),
                          r.attempts[t][i].status = "ENDED"
                   PROVE  Scored(r.attempts[t][i], rs[t][starts[t][i]])
      BY <2>6 DEF ScoresOK
    <3>2. i \in 1..Len(srv.starts[t]) /\ starts[t][i] = srv.starts[t][i]
      <4>1. CASE t # s
        BY <2>4, <4>1
      <4>2. CASE t = s
        <5>1. r.attempts[s][Len(srv.starts[s]) + 1].status # "ENDED"
          BY <1>3, <1>5 DEF OneMoreRun
        <5>2. QED
          BY <1>3, <2>3, <2>4, <3>1, <4>2, <5>1
      <4>3. QED
        BY <4>1, <4>2
    <3>3. i \in 1..Len(srv.round.attempts[t])
      BY <3>2 DEF Good, StartsOK
    <3>4. srv.round.attempts[t][i] \in Attempt
      BY <1>1, <3>3, AttemptFacts
    <3>5. Cut(srv.round.attempts[t][i], r.attempts[t][i])
      BY <1>5, <3>3 DEF OneMoreRun
    <3>6. r.attempts[t][i] = srv.round.attempts[t][i]
      BY <3>1, <3>4, <3>5 DEF Cut, Attempt
    <3>7. QED
      BY <3>1, <3>2, <3>6 DEF Good, ScoresOK
  <2>10. QED
    BY <1>2, <1>5, <2>5, <2>6, <2>7, <2>8, <2>9 DEF Good, LetIn
<1>6. QED
  BY <1>4, <1>5

LEMMA StartWithLeaseGood ==
  ASSUME NEW srv, NEW rs, Good(srv, rs), NEW s \in Side, NEW e \in RunIds(s),
         ~Started(srv, s, e), srv.leases[s][e].status = "PENDING", NEW now \in Int
  PROVE  LET f == StartWithLease(srv, s, e, now) IN
         Good(f, rs) /\ LetIn(srv, f, rs, s, e)
<1> DEFINE began == srv.leases[s][e].startedAt
           r == StartRoundAttemptFromIntent(srv.round, s, Len(srv.starts[s]) + 1, began, now)
           stored == RecordStart(srv, s, e, r)
<1>1. Consistent(srv.round) /\ srv.round \in Round
  BY DEF Good, Consistent, Body
<1>2. /\ e \in 1..Len(rs[s]) /\ began = rs[s][e].startedAt /\ began \in Int
  <2>1. began \in Nat
    BY LeaseFacts DEF Lease
  <2>2. QED
    BY <2>1 DEF Good, LeasesOK
<1>3. Consistent(r)
  BY <1>1, <1>2, StartFromIntentConsistent
<1>4. r = srv.round \/ OneMoreRun(srv.round, r, s, began)
  BY <1>1, <1>2, StartFromIntentRuns
<1>7. \/ SameRuns(srv.round, r)
      \/ OneMoreRun(srv.round, r, s, began) /\ rs[s][e].startedAt < StartDeadline(srv.round)
  BY <1>2, <1>4, SameRunsItself DEF OneMoreRun
<1>8. StartWithLease(srv, s, e, now) =
        IF Started(stored, s, e) THEN SetLease(stored, s, e, "CONSUMED")
        ELSE IF Active(srv.round, s) # {} THEN stored
        ELSE SetLease(stored, s, e, "INVALIDATED")
  BY DEF StartWithLease
<1> HIDE DEF r, began
<1>9. /\ Good(stored, rs) /\ stored.round = r /\ stored.leases = srv.leases
      /\ LetIn(srv, stored, rs, s, e)
  <2>1. e \in Nat
    BY DEF RunIds
  <2>2. QED
    BY <1>2, <1>3, <1>7, <2>1, RecordStartGood
<1> HIDE DEF stored
<1>10. stored.leases[s][e].status # "NONE"
  BY <1>9
<1>11. CASE Started(stored, s, e)
  <2>1. LET f == SetLease(stored, s, e, "CONSUMED") IN Good(f, rs) /\ f.starts = stored.starts
    BY <1>9, <1>10, <1>11, SetLeaseGood
  <2>2. QED
    BY <1>8, <1>9, <1>11, <2>1 DEF LetIn
<1>12. CASE ~Started(stored, s, e)
  <2>1. LET f == SetLease(stored, s, e, "INVALIDATED") IN Good(f, rs) /\ f.starts = stored.starts
    BY <1>9, <1>10, SetLeaseGood
  <2>2. QED
    BY <1>8, <1>9, <1>12, <2>1 DEF LetIn
<1>13. QED
  BY <1>11, <1>12

LEMMA StartWithoutLeaseGood ==
  ASSUME NEW srv, NEW rs, Good(srv, rs), NEW s \in Side, NEW e \in Nat, e \in 1..Len(rs[s]),
         ~Started(srv, s, e), rs[s][e].startedAt \in Nat,
         NEW now \in Int, now >= rs[s][e].startedAt
  PROVE  LET f == StartWithoutLease(srv, s, e, rs[s][e].startedAt, now) IN
         Good(f, rs) /\ LetIn(srv, f, rs, s, e)
<1> DEFINE claimed == ResolveStartTime(rs[s][e].startedAt, now)
           at == IF claimed >= srv.round.lastEvaluatedAt THEN claimed
                                                         ELSE srv.round.lastEvaluatedAt
           r == StartRoundAttempt(srv.round, s, Len(srv.starts[s]) + 1, at)
<1>1. Consistent(srv.round) /\ srv.round \in Round
  BY DEF Good, Consistent, Body
<1>2. srv.round.lastEvaluatedAt \in Int
  BY <1>1 DEF Round
<1>3. at \in Int /\ at >= rs[s][e].startedAt
  BY <1>2 DEF ResolveStartTime
<1>4. StartWithoutLease(srv, s, e, rs[s][e].startedAt, now) = RecordStart(srv, s, e, r)
  BY DEF StartWithoutLease
<1> HIDE DEF at, claimed
<1>5. Consistent(r)
  BY <1>1, <1>3, StartConsistent
<1>6. SameRuns(srv.round, r) \/ OneMoreRun(srv.round, r, s, at)
  BY <1>1, <1>3, StartRuns
<1>7. OneMoreRun(srv.round, r, s, at) => rs[s][e].startedAt < StartDeadline(srv.round)
  BY <1>1, <1>3, DeadlineTypes DEF OneMoreRun
<1> HIDE DEF r
<1>8. QED
  BY <1>4, <1>5, <1>6, <1>7, RecordStartGood

LEMMA HandleStartGood ==
  ASSUME NEW srv, NEW rs, Good(srv, rs), NEW s \in Side, NEW e \in RunIds(s),
         e \in 1..Len(rs[s]), rs[s][e].startedAt \in Nat,
         NEW now \in Int, now >= rs[s][e].startedAt
  PROVE  LET f == HandleStart(srv, s, e, rs[s][e].startedAt, now) IN
         Good(f, rs) /\ LetIn(srv, f, rs, s, e)
<1> DEFINE advanced == AdvanceLockedMatch(srv, now)
<1>1. CASE Started(srv, s, e)
  BY <1>1, ConsumeGood DEF HandleStart, LetIn
<1>2. CASE ~Started(srv, s, e) /\ Leased(srv, s, e)
  BY <1>2, StartWithLeaseGood DEF HandleStart, Leased
<1>3. CASE ~Started(srv, s, e) /\ ~Leased(srv, s, e)
  <2>1. /\ Good(advanced, rs) /\ advanced.starts = srv.starts
        /\ StartDeadline(advanced.round) = StartDeadline(srv.round)
    BY AdvanceLockedGood
  <2>2. HandleStart(srv, s, e, rs[s][e].startedAt, now) =
          IF Finished(advanced.round) THEN advanced
          ELSE StartWithoutLease(advanced, s, e, rs[s][e].startedAt, now)
    BY <1>3 DEF HandleStart
  <2> HIDE DEF advanced
  <2>3. ~Started(advanced, s, e) /\ e \in Nat
    BY <1>3, <2>1 DEF Started, RunIds
  <2>4. LET f == StartWithoutLease(advanced, s, e, rs[s][e].startedAt, now) IN
        Good(f, rs) /\ LetIn(advanced, f, rs, s, e)
    BY <2>1, <2>3, StartWithoutLeaseGood
  <2>5. CASE Finished(advanced.round)
    BY <2>1, <2>2, <2>5 DEF LetIn
  <2>6. CASE ~Finished(advanced.round)
    BY <2>1, <2>2, <2>4, <2>6 DEF LetIn
  <2>7. QED
    BY <2>5, <2>6
<1>4. QED
  BY <1>1, <1>2, <1>3

(* Replacing the round by one in which a run of side s is scored. *)
LEMMA RunScoredGood ==
  ASSUME NEW srv, NEW rs, Good(srv, rs), NEW r, Consistent(r), NEW s \in Side, NEW i,
         NEW award, NEW cleared,
         RunScored(srv.round, r, s, i, award, cleared),
         Scored([award |-> award, cleared |-> cleared], rs[s][srv.starts[s][i]])
  PROVE  LET f == [srv EXCEPT !.round = r] IN Good(f, rs) /\ f.starts = srv.starts
<1> DEFINE f == [srv EXCEPT !.round = r]
<1>1. srv \in Server /\ r \in Round /\ srv.round \in Round
  BY DEF Good, Consistent, Body, Server
<1>2. f \in Server /\ f.round = r /\ f.starts = srv.starts /\ f.leases = srv.leases
  BY <1>1 DEF Server
<1> HIDE DEF f
<1>3. StartsOK(f, rs)
  BY <1>2 DEF Good, StartsOK, RunScored
<1>4. LeasesOK(f, rs)
  BY <1>2 DEF Good, LeasesOK, Started
<1>5. ScoresOK(f, rs)
  <2>1. SUFFICES ASSUME NEW t \in Side, NEW j \in 1..Len(srv.starts[t]),
                        r.attempts[t][j].status = "ENDED"
                 PROVE  Scored(r.attempts[t][j], rs[t][srv.starts[t][j]])
    BY <1>2 DEF ScoresOK
  <2>2. j \in 1..Len(srv.round.attempts[t])
    BY DEF Good, StartsOK
  <2>3. srv.round.attempts[t][j] \in Attempt
    BY <1>1, <2>2, AttemptFacts
  <2>4. CASE t = s /\ j = i
    <3>1. r.attempts[t][j] = [srv.round.attempts[t][j] EXCEPT !.status = "ENDED",
                                                            !.award = award, !.cleared = cleared]
      BY <2>4 DEF RunScored
    <3>2. r.attempts[t][j].award = award /\ r.attempts[t][j].cleared = cleared
      BY <2>3, <3>1 DEF Attempt
    <3>3. QED
      BY <2>4, <3>2 DEF Scored
  <2>5. CASE t # s \/ j # i
    <3>1. Cut(srv.round.attempts[t][j], r.attempts[t][j])
      BY <2>2, <2>5 DEF RunScored
    <3>2. r.attempts[t][j] = srv.round.attempts[t][j]
      BY <2>1, <2>3, <3>1 DEF Cut, Attempt
    <3>3. QED
      BY <2>1, <3>2 DEF Good, ScoresOK
  <2>6. QED
    BY <2>4, <2>5
<1>6. QED
  BY <1>2, <1>3, <1>4, <1>5 DEF Good, f

LEMMA ReportedEnd ==
  ASSUME NEW r \in Round, NEW s \in Side, NEW i, NEW at \in Int,
         NEW report \in [percent : 0..100, cleared : BOOLEAN]
  PROVE  LET f == EndRoundAttempt(r, s, i, at, report.percent, report.cleared)
             a == AdvanceRoundClock(r, at)
         IN  \/ SameRuns(r, f)
             \/ /\ SameRuns(r, a)
                /\ RunScored(a, f, s, i, ScoreAttempt(report.percent, report.cleared),
                             report.cleared)
  BY EndRuns

(* What a run may be reported with. *)
Played == [percent : 0..100, cleared : BOOLEAN]

LEMMA HandleEndGood ==
  ASSUME NEW srv, NEW rs, Good(srv, rs), NEW s \in Side, NEW i \in 1..Len(srv.starts[s]),
         NEW run, run = rs[s][srv.starts[s][i]], run.status = "ENDED",
         run.report \in Played,
         NEW now \in Int
  PROVE  LET f == HandleEnd(srv, s, i, run.report, now) IN
         Good(f, rs) /\ f.starts = srv.starts
<1> DEFINE report == run.report
           adv == AdvanceLockedMatch(srv, now)
           a == AdvanceRoundClock(adv.round, now)
           r == EndRoundAttempt(adv.round, s, i, now, report.percent, report.cleared)
           award == ScoreAttempt(report.percent, report.cleared)
           f == [adv EXCEPT !.round = r]
<1>1. /\ Good(adv, rs) /\ adv.starts = srv.starts /\ Consistent(adv.round) /\ adv.round \in Round
  BY AdvanceLockedGood DEF Good, Consistent, Body
<1>2. HandleEnd(srv, s, i, report, now) =
        IF EndRecorded(srv, s, i) THEN srv ELSE IF Finished(adv.round) THEN adv ELSE f
  BY DEF HandleEnd
<1> HIDE DEF adv
<1>3. report.percent \in 0..100 /\ report.cleared \in BOOLEAN
  BY DEF Played
<1>4. /\ Consistent(a) /\ SameRuns(adv.round, a) /\ Consistent(r)
      /\ \/ SameRuns(adv.round, r)
         \/ RunScored(a, r, s, i, award, report.cleared)
  <2> HIDE DEF report
  <2>1. Consistent(a) /\ SameRuns(adv.round, a)
    BY <1>1, AdvanceConsistent, AdvanceRuns
  <2>2. Consistent(r)
    BY <1>1, <1>3, EndConsistent
  <2>3. \/ SameRuns(adv.round, r)
        \/ SameRuns(adv.round, a) /\ RunScored(a, r, s, i, award, report.cleared)
    <3>1. report \in Played
      BY DEF report
    <3>2. QED
      BY <1>1, <3>1, ReportedEnd DEF Played
  <2>4. QED
    BY <2>1, <2>2, <2>3
<1>5. Scored([award |-> award, cleared |-> report.cleared], rs[s][srv.starts[s][i]])
  BY DEF Scored
<1> HIDE DEF a, r, award
<1>6. Good(f, rs) /\ f.starts = srv.starts
  <2>1. CASE SameRuns(adv.round, r)
    BY <1>1, <1>4, <2>1, RoundMovedGood
  <2>2. CASE RunScored(a, r, s, i, award, report.cleared)
    <3> DEFINE m == [adv EXCEPT !.round = a]
    <3>1. Good(m, rs) /\ m.round = a /\ m.starts = srv.starts
      BY <1>1, <1>4, RoundMovedGood
    <3>2. [m EXCEPT !.round = r] = f
      BY <1>1 DEF Good, Server
    <3> HIDE DEF m, f, report
    <3>3. LET g == [m EXCEPT !.round = r] IN Good(g, rs) /\ g.starts = m.starts
      BY <1>4, <1>5, <2>2, <3>1, RunScoredGood
    <3>4. QED
      BY <3>1, <3>2, <3>3
  <2>3. QED
    BY <1>4, <2>1, <2>2
<1> HIDE DEF f
<1>7. QED
  BY <1>1, <1>2, <1>6

-----------------------------------------------------------------------------
(* The runs and the journals *)

LEMMA RunsMovedGood ==
  ASSUME NEW srv, NEW rs, Good(srv, rs), NEW qs,
         \A s \in Side : \A e \in 1..Len(rs[s]) :
           /\ e \in 1..Len(qs[s]) /\ qs[s][e].startedAt = rs[s][e].startedAt
           /\ rs[s][e].status = "ENDED" /\ Started(srv, s, e) =>
                qs[s][e].status = "ENDED" /\ qs[s][e].report = rs[s][e].report
  PROVE  Good(srv, qs)
<1>1. StartsOK(srv, qs)
  BY DEF Good, StartsOK
<1>2. LeasesOK(srv, qs)
  BY DEF Good, LeasesOK
<1>3. ASSUME NEW s \in Side, NEW i \in 1..Len(srv.starts[s]),
             srv.round.attempts[s][i].status = "ENDED"
      PROVE  Scored(srv.round.attempts[s][i], qs[s][srv.starts[s][i]])
  <2>1. Scored(srv.round.attempts[s][i], rs[s][srv.starts[s][i]])
    BY <1>3 DEF Good, ScoresOK
  <2>2. srv.starts[s][i] \in 1..Len(rs[s])
    BY DEF Good, StartsOK
  <2>3. Started(srv, s, srv.starts[s][i])
    BY ServerFacts DEF Good, Started
  <2>4. QED
    BY <2>1, <2>2, <2>3 DEF Scored
<1>4. QED
  BY <1>1, <1>2, <1>3 DEF Good, ScoresOK

LEMMA RunFacts ==
  ASSUME NEW srv, NEW rs, NEW hd, Journals(srv, rs, hd), NEW s \in Side
  PROVE  /\ rs \in [Side -> Seq(Run)] /\ rs[s] \in Seq(Run) /\ Len(rs[s]) \in Nat
         /\ DOMAIN rs[s] = 1..Len(rs[s])
         /\ MaxRuns[s] \in Nat /\ Len(rs[s]) <= MaxRuns[s]
         /\ \A e \in 1..Len(rs[s]) : rs[s][e] \in Run /\ e \in RunIds(s)
<1>1. rs \in [Side -> Seq(Run)] /\ rs[s] \in Seq(Run)
  BY DEF Journals
<1>2. Len(rs[s]) \in Nat /\ DOMAIN rs[s] = 1..Len(rs[s]) /\ \A e \in 1..Len(rs[s]) : rs[s][e] \in Run
  BY <1>1, LenProperties, ElementOfSeq
<1>3. MaxRuns[s] \in Nat /\ Len(rs[s]) <= MaxRuns[s]
  BY TransportAssumption DEF Journals
<1>4. QED
  BY <1>1, <1>2, <1>3 DEF RunIds

(* One run changes its status, its report or its attempt. *)
LEMMA RunUpdated ==
  ASSUME NEW srv, NEW rs, NEW hd, Good(srv, rs), Journals(srv, rs, hd),
         NEW s \in Side, NEW e \in 1..Len(rs[s]), NEW run \in Run,
         run.startedAt = rs[s][e].startedAt,
         rs[s][e].status = "ENDED" /\ Started(srv, s, e) =>
           run.status = "ENDED" /\ run.report = rs[s][e].report,
         run.attempt # 0 => /\ run.attempt \in 1..Len(srv.starts[s])
                            /\ srv.starts[s][run.attempt] = e
  PROVE  LET qs == [rs EXCEPT ![s] = [@ EXCEPT ![e] = run]] IN
         Good(srv, qs) /\ Journals(srv, qs, hd) /\ Len(qs[s]) = Len(rs[s])
<1> DEFINE row == [rs[s] EXCEPT ![e] = run]
           qs == [rs EXCEPT ![s] = row]
<1>1. /\ row \in Seq(Run) /\ Len(row) = Len(rs[s])
      /\ \A d \in 1..Len(rs[s]) : row[d] = IF d = e THEN run ELSE rs[s][d]
  BY RunFacts, ExceptSeq
<1> HIDE DEF row
<1>2. /\ qs \in [Side -> Seq(Run)]
      /\ \A t \in Side : qs[t] = IF t = s THEN row ELSE rs[t]
  BY <1>1, RunFacts
<1> HIDE DEF qs
<1>3. \A t \in Side : Len(qs[t]) = Len(rs[t])
  BY <1>1, <1>2
<1>4. Good(srv, qs)
  <2>1. ASSUME NEW t \in Side, NEW d \in 1..Len(rs[t])
        PROVE  /\ d \in 1..Len(qs[t]) /\ qs[t][d].startedAt = rs[t][d].startedAt
               /\ rs[t][d].status = "ENDED" /\ Started(srv, t, d) =>
                    qs[t][d].status = "ENDED" /\ qs[t][d].report = rs[t][d].report
    <3>1. CASE t = s /\ d = e
      BY <1>1, <1>2, <1>3, <3>1
    <3>2. CASE t # s \/ d # e
      <4>1. qs[t][d] = rs[t][d]
        BY <1>1, <1>2, <3>2
      <4>2. QED
        BY <1>3, <4>1
    <3>3. QED
      BY <3>1, <3>2
  <2>2. QED
    BY <2>1, RunsMovedGood
<1>5. ASSUME NEW t \in Side, NEW d \in 1..Len(qs[t]), qs[t][d].attempt # 0
      PROVE  qs[t][d].attempt \in 1..Len(srv.starts[t]) /\ srv.starts[t][qs[t][d].attempt] = d
  <2>1. CASE t = s /\ d = e
    BY <1>1, <1>2, <1>5, <2>1
  <2>2. CASE t # s \/ d # e
    <3>1. qs[t][d] = rs[t][d]
      BY <1>1, <1>2, <1>3, <2>2
    <3>2. QED
      BY <1>3, <1>5, <3>1 DEF Journals
  <2>3. QED
    BY <2>1, <2>2
<1>6. Journals(srv, qs, hd)
  BY <1>2, <1>3, <1>5 DEF Journals
<1>7. QED
  BY <1>3, <1>4, <1>6 DEF qs, row

(* A new run, whose Start is not yet answered. *)
LEMMA RunAdded ==
  ASSUME NEW srv, NEW rs, NEW hd, Good(srv, rs), Journals(srv, rs, hd),
         NEW s \in Side, Len(rs[s]) < MaxRuns[s], NEW run \in Run, run.attempt = 0
  PROVE  LET qs == [rs EXCEPT ![s] = Append(@, run)] IN
         Good(srv, qs) /\ Journals(srv, qs, hd)
<1> DEFINE row == Append(rs[s], run)
           qs == [rs EXCEPT ![s] = row]
<1>1. /\ row \in Seq(Run) /\ Len(row) = Len(rs[s]) + 1 /\ row[Len(rs[s]) + 1] = run
      /\ \A d \in 1..Len(rs[s]) : row[d] = rs[s][d]
  BY RunFacts, AppendProperties
<1> HIDE DEF row
<1>2. /\ qs \in [Side -> Seq(Run)]
      /\ \A t \in Side : qs[t] = IF t = s THEN row ELSE rs[t]
  BY <1>1, RunFacts
<1> HIDE DEF qs
<1>3. ASSUME NEW t \in Side, NEW d \in 1..Len(rs[t])
      PROVE  d \in 1..Len(qs[t]) /\ qs[t][d] = rs[t][d]
  <2>1. CASE t = s
    BY <1>1, <1>2, <2>1, RunFacts
  <2>2. CASE t # s
    BY <1>2, <2>2
  <2>3. QED
    BY <2>1, <2>2
<1>4. Good(srv, qs)
  BY <1>3, RunsMovedGood
<1>5. ASSUME NEW t \in Side, NEW d \in 1..Len(qs[t]), qs[t][d].attempt # 0
      PROVE  qs[t][d].attempt \in 1..Len(srv.starts[t]) /\ srv.starts[t][qs[t][d].attempt] = d
  <2>1. d \in 1..Len(rs[t])
    <3>1. CASE t = s
      <4>1. d # Len(rs[s]) + 1
        BY <1>1, <1>2, <1>5, <3>1
      <4>2. QED
        BY <1>1, <1>2, <3>1, <4>1, RunFacts
    <3>2. CASE t # s
      BY <1>2, <3>2
    <3>3. QED
      BY <3>1, <3>2
  <2>2. QED
    BY <1>3, <1>5, <2>1 DEF Journals
<1>6. ASSUME NEW t \in Side
      PROVE  Len(qs[t]) <= MaxRuns[t] /\ hd[t] \in 1..(Len(qs[t]) + 1)
  <2>1. hd[t] \in 1..(Len(rs[t]) + 1) /\ hd[t] \in Nat /\ Len(rs[t]) \in Nat /\ MaxRuns[t] \in Nat
    <3>1. hd[t] \in 1..(Len(rs[t]) + 1) /\ hd[t] \in Nat
      BY DEF Journals
    <3>2. Len(rs[t]) \in Nat /\ MaxRuns[t] \in Nat
      BY RunFacts
    <3>3. QED
      BY <3>1, <3>2
  <2>2. Len(rs[t]) <= Len(qs[t]) /\ Len(qs[t]) <= MaxRuns[t] /\ Len(qs[t]) \in Nat
    <3>1. CASE t = s
      BY <1>1, <1>2, <2>1, <3>1
    <3>2. CASE t # s
      BY <1>2, <3>2, RunFacts
    <3>3. QED
      BY <3>1, <3>2
  <2>3. QED
    BY <2>1, <2>2
<1>7. Journals(srv, qs, hd)
  BY <1>2, <1>5, <1>6 DEF Journals
<1>8. QED
  BY <1>4, <1>7 DEF qs, row

LEMMA HeadMoved ==
  ASSUME NEW srv, NEW rs, NEW hd, Journals(srv, rs, hd), NEW s \in Side, hd[s] \in 1..Len(rs[s])
  PROVE  Journals(srv, rs, [hd EXCEPT ![s] = @ + 1])
<1> DEFINE h == [hd EXCEPT ![s] = @ + 1]
<1>1. hd \in [Side -> Nat] /\ \A t \in Side : hd[t] \in 1..(Len(rs[t]) + 1) /\ Len(rs[t]) \in Nat
  BY RunFacts DEF Journals
<1>2. h \in [Side -> Nat] /\ \A t \in Side : h[t] \in 1..(Len(rs[t]) + 1)
  BY <1>1
<1> HIDE DEF h
<1>3. Journals(srv, rs, h)
  BY <1>2 DEF Journals
<1>4. QED
  BY <1>3 DEF h

(* What a run knows stays true as the round takes in more runs. *)
LEMMA ServerMoved ==
  ASSUME NEW srv \in Server, NEW rs, NEW hd, Journals(srv, rs, hd), NEW f, NEW s \in Side,
         NEW e \in Nat, LetIn(srv, f, rs, s, e)
  PROVE  Journals(f, rs, hd)
<1>1. ASSUME NEW t \in Side, NEW i \in 1..Len(srv.starts[t])
      PROVE  i \in 1..Len(f.starts[t]) /\ f.starts[t][i] = srv.starts[t][i]
  <2>1. CASE f.starts = srv.starts
    BY <2>1
  <2>2. CASE f.starts = [srv.starts EXCEPT ![s] = Append(@, e)]
    <3> DEFINE q == Append(srv.starts[s], e)
    <3>1. /\ Len(q) = Len(srv.starts[s]) + 1 /\ Len(srv.starts[s]) \in Nat
          /\ \A j \in 1..Len(srv.starts[s]) : q[j] = srv.starts[s][j]
      BY ServerFacts, AppendProperties
    <3>2. f.starts[t] = IF t = s THEN q ELSE srv.starts[t]
      BY <2>2, ServerFacts
    <3> HIDE DEF q
    <3>3. CASE t = s
      BY <3>1, <3>2, <3>3
    <3>4. CASE t # s
      BY <3>2, <3>4
    <3>5. QED
      BY <3>3, <3>4
  <2>3. QED
    BY <2>1, <2>2 DEF LetIn
<1>2. QED
  BY <1>1 DEF Journals

-----------------------------------------------------------------------------
(* The steps *)

LEMMA InitGood == Init => IInv
<1> SUFFICES ASSUME Init PROVE IInv
  OBVIOUS
<1> DEFINE leases == [s \in Side |-> [e \in RunIds(s) |-> NoLease]]
           starts == [s \in Side |-> <<>>]
<1>1. Consistent(CreateRound(0)) /\ CreateRound(0) \in Round
  BY CreateConsistent DEF Consistent, Body
<1>2. NoLease \in Lease /\ NoLease.status = "NONE"
  BY DEF NoLease, Lease
<1>3. leases \in [Side -> Table] /\ \A s \in Side : leases[s] \in [RunIds(s) -> Lease]
  BY <1>2 DEF Table
<1>4. \A s \in Side : \A e \in RunIds(s) : leases[s][e] = NoLease
  OBVIOUS
<1>5. starts \in [Side -> Seq(Nat)] /\ \A s \in Side : starts[s] = <<>> /\ Len(starts[s]) = 0
  BY EmptySeq
<1> HIDE DEF leases, starts
<1>6. server = [round |-> CreateRound(0), leases |-> leases, starts |-> starts]
  BY DEF Init, leases, starts
<1>7. /\ server.round = CreateRound(0) /\ server.leases = leases /\ server.starts = starts
      /\ server \in Server
  BY <1>1, <1>3, <1>5, <1>6 DEF Server
<1>8. \A s \in Side : Len(server.round.attempts[s]) = 0
  BY <1>7, EmptySeq DEF CreateRound
<1>9. StartsOK(server, runs) /\ ScoresOK(server, runs)
  BY <1>5, <1>7, <1>8 DEF StartsOK, ScoresOK
<1>10. LeasesOK(server, runs)
  BY <1>2, <1>3, <1>4, <1>7 DEF LeasesOK
<1>11. Good(server, runs)
  BY <1>1, <1>7, <1>9, <1>10 DEF Good
<1>12. /\ runs = [s \in Side |-> <<>>] /\ head = [s \in Side |-> 1] /\ clock = 0
  BY DEF Init
<1>13. runs \in [Side -> Seq(Run)] /\ \A s \in Side : runs[s] = <<>> /\ Len(runs[s]) = 0
  BY <1>12, EmptySeq
<1>14. \A s \in Side : MaxRuns[s] \in Nat
  BY TransportAssumption
<1>15. Journals(server, runs, head)
  BY <1>12, <1>13, <1>14 DEF Journals
<1>16. clock \in 0..MaxClock
  BY <1>12, TransportAssumption
<1>17. QED
  BY <1>11, <1>15, <1>16 DEF IInv

LEMMA NowFacts ==
  ASSUME IInv
  PROVE  HandlerNow \subseteq Nat
BY TransportAssumption DEF IInv, HandlerNow

LEMMA TickStep == ASSUME IInv, Tick PROVE IInv'
<1>1. clock' \in 0..MaxClock
  BY TransportAssumption DEF IInv, Tick
<1>2. server' = server /\ runs' = runs /\ head' = head
  BY DEF Tick
<1>3. Good(server, runs)' /\ Journals(server, runs, head)'
  BY <1>2 DEF IInv
<1>4. QED
  BY <1>1, <1>3 DEF IInv

LEMMA BeginStep ==
  ASSUME IInv, NEW s \in Side, Begin(s)
  PROVE  IInv'
<1> DEFINE run == [startedAt |-> clock, status |-> "RUNNING", report |-> NoReport, attempt |-> 0]
           qs == [runs EXCEPT ![s] = Append(@, run)]
<1>1. run \in Run /\ run.attempt = 0
  BY TransportAssumption DEF IInv, Run
<1>2. runs' = qs /\ clock' = clock /\ server' = server /\ head' = head
  BY DEF Begin
<1> HIDE DEF run
<1>3. Good(server, qs) /\ Journals(server, qs, head)
  BY <1>1, RunAdded DEF IInv, Begin
<1> HIDE DEF qs
<1>4. QED
  BY <1>2, <1>3 DEF IInv

LEMMA FinishStep ==
  ASSUME IInv, NEW s \in Side, NEW report \in Reports, Finish(s, report)
  PROVE  IInv'
<1> DEFINE e == Len(runs[s])
           run == [runs[s][e] EXCEPT !.status = "ENDED", !.report = report]
           qs == [runs EXCEPT ![s] = [@ EXCEPT ![e] = run]]
<1>1. /\ runs[s] \in Seq(Run) /\ Len(runs[s]) \in Nat /\ \A d \in 1..Len(runs[s]) : runs[s][d] \in Run
  BY RunFacts DEF IInv
<1>2. e \in 1..Len(runs[s]) /\ runs[s][e].status = "RUNNING"
  BY <1>1, EmptySeq DEF Finish, Playing
<1>3. /\ runs' = qs /\ clock' = clock /\ server' = server /\ head' = head
  BY DEF Finish
<1> HIDE DEF e
<1>4. PICK old \in Run : old = runs[s][e]
  BY <1>1, <1>2
<1>5. run \in Run /\ run.startedAt = old.startedAt /\ run.attempt = old.attempt
  BY <1>4 DEF Run
<1> HIDE DEF run
<1>6. run.attempt # 0 => run.attempt \in 1..Len(server.starts[s]) /\ server.starts[s][run.attempt] = e
  BY <1>2, <1>4, <1>5 DEF IInv, Journals
<1>7. Good(server, qs) /\ Journals(server, qs, head) /\ Len(qs[s]) = Len(runs[s])
  <2>1. Good(server, runs) /\ Journals(server, runs, head)
    BY DEF IInv
  <2>2. run \in Run /\ run.startedAt = runs[s][e].startedAt /\ runs[s][e].status # "ENDED"
    BY <1>2, <1>4, <1>5
  <2>3. QED
    BY <1>2, <1>6, <2>1, <2>2, RunUpdated
<1> HIDE DEF qs
<1>8. QED
  BY <1>3, <1>7 DEF IInv

LEMMA IntentStep ==
  ASSUME IInv, NEW s \in Side, NEW e \in RunIds(s), NEW now \in HandlerNow,
         ReceiveIntent(s, e, now)
  PROVE  IInv' /\ server'.starts = server.starts
<1>1. /\ clock' = clock /\ runs' = runs /\ head' = head
      /\ server' = HandleIntent(server, s, e, runs[s][e].startedAt, now)
  BY DEF ReceiveIntent
<1>2. now \in Nat
  BY NowFacts
<1>3. e \in 1..Len(runs[s]) /\ runs[s][e] \in Run /\ server \in Server
  BY RunFacts DEF IInv, ReceiveIntent, Bodies, Good
<1>4. runs[s][e].startedAt \in Nat
  BY <1>3 DEF Run
<1>5. Good(server', runs) /\ server'.starts = server.starts
  BY <1>1, <1>2, <1>3, <1>4, HandleIntentGood DEF IInv
<1>6. Journals(server', runs, head)
  <2>1. e \in Nat
    BY DEF RunIds
  <2>2. QED
    BY <1>3, <1>5, <2>1, ServerMoved DEF LetIn, IInv
<1>7. QED
  BY <1>1, <1>5, <1>6 DEF IInv

LEMMA PollStep ==
  ASSUME IInv, NEW now \in HandlerNow, Poll(now)
  PROVE  IInv' /\ server'.starts = server.starts
<1>1. /\ clock' = clock /\ runs' = runs /\ head' = head
      /\ server' = AdvanceLockedMatch(server, now)
  BY DEF Poll
<1>2. now \in Int
  BY NowFacts
<1>3. Good(server', runs) /\ server'.starts = server.starts
  BY <1>1, <1>2, AdvanceLockedGood DEF IInv
<1>4. Journals(server', runs, head)
  BY <1>3, ServerMoved DEF LetIn, IInv, Good, Side
<1>5. QED
  BY <1>1, <1>3, <1>4 DEF IInv

(* The answer to a Start, in a server that has handled it. *)
LEMMA AnswerGood ==
  ASSUME NEW srv, Good(srv, runs), Journals(srv, runs, head),
         NEW s \in Side, NEW e \in 1..Len(runs[s]), head[s] = e, StartAnswered(s, e, srv)
  PROVE  Good(srv, runs') /\ Journals(srv, runs', head')
<1>1. /\ runs[s] \in Seq(Run) /\ Len(runs[s]) \in Nat
      /\ runs \in [Side -> Seq(Run)]
  BY RunFacts
<1>2. PICK old \in Run : old = runs[s][e]
  BY RunFacts
<1>3. CASE Started(srv, s, e)
  <2> DEFINE i == CHOOSE i \in DOMAIN srv.starts[s] : srv.starts[s][i] = e
             run == [runs[s][e] EXCEPT !.attempt = i]
             qs == [runs EXCEPT ![s] = [@ EXCEPT ![e] = run]]
  <2>1. i \in DOMAIN srv.starts[s] /\ srv.starts[s][i] = e
    BY <1>3 DEF Started
  <2>2. runs' = qs /\ head' = head
    BY <1>3 DEF StartAnswered
  <2> HIDE DEF i
  <2>3. i \in 1..Len(srv.starts[s]) /\ i \in Nat
    BY <2>1, ServerFacts DEF Good
  <2>4. /\ run \in Run /\ run.startedAt = old.startedAt /\ run.status = old.status
        /\ run.report = old.report /\ run.attempt = i
    BY <1>2, <2>3 DEF Run
  <2> HIDE DEF run
  <2>5. Good(srv, qs) /\ Journals(srv, qs, head) /\ Len(qs[s]) = Len(runs[s])
    BY <1>2, <2>1, <2>3, <2>4, RunUpdated
  <2> HIDE DEF qs
  <2>6. QED
    BY <2>2, <2>5
<1>4. CASE ~Started(srv, s, e)
  <2> DEFINE run == [runs[s][e] EXCEPT !.status = "DROPPED"]
             qs == [runs EXCEPT ![s] = [@ EXCEPT ![e] = run]]
  <2>1. runs' = qs /\ head' = [head EXCEPT ![s] = @ + 1]
    BY <1>4 DEF StartAnswered
  <2>2. run \in Run /\ run.startedAt = old.startedAt /\ run.attempt = old.attempt
    BY <1>2 DEF Run
  <2> HIDE DEF run
  <2>3. run.attempt # 0 => run.attempt \in 1..Len(srv.starts[s]) /\ srv.starts[s][run.attempt] = e
    BY <1>2, <2>2 DEF Journals
  <2>4. Good(srv, qs) /\ Journals(srv, qs, head) /\ Len(qs[s]) = Len(runs[s])
    BY <1>2, <1>4, <2>2, <2>3, RunUpdated
  <2> HIDE DEF qs
  <2>5. Journals(srv, qs, [head EXCEPT ![s] = @ + 1])
    BY <2>4, HeadMoved
  <2>6. QED
    BY <2>1, <2>4, <2>5
<1>5. QED
  BY <1>3, <1>4

LEMMA StartStep ==
  ASSUME IInv, NEW s \in Side, NEW e \in RunIds(s), NEW now \in HandlerNow,
         NEW answered \in BOOLEAN, ReceiveStart(s, e, now, answered)
  PROVE  IInv' /\ LetIn(server, server', runs, s, e)
<1>1. /\ clock' = clock /\ server' = HandleStart(server, s, e, runs[s][e].startedAt, now)
      /\ now >= runs[s][e].startedAt
  BY DEF ReceiveStart
<1>2. now \in Int
  BY NowFacts
<1>3. e \in 1..Len(runs[s]) /\ runs[s][e] \in Run /\ server \in Server
  BY RunFacts DEF IInv, ReceiveStart, Bodies, Good
<1>4. runs[s][e].startedAt \in Nat /\ e \in Nat
  BY <1>3 DEF Run, RunIds
<1>5. Good(server', runs) /\ LetIn(server, server', runs, s, e)
  BY <1>1, <1>2, <1>3, <1>4, HandleStartGood DEF IInv
<1>6. Journals(server', runs, head)
  BY <1>3, <1>4, <1>5, ServerMoved DEF IInv
<1>7. \/ runs' = runs /\ head' = head
      \/ StartAnswered(s, e, server') /\ head[s] = e
  BY DEF ReceiveStart, AwaitsStart
<1>8. Good(server', runs') /\ Journals(server', runs', head')
  <2>1. CASE runs' = runs /\ head' = head
    BY <1>5, <1>6, <2>1
  <2>2. CASE StartAnswered(s, e, server') /\ head[s] = e
    BY <1>3, <1>5, <1>6, <2>2, AnswerGood
  <2>3. QED
    BY <1>7, <2>1, <2>2
<1>9. QED
  BY <1>1, <1>5, <1>8 DEF IInv

LEMMA EndStep ==
  ASSUME IInv, NEW s \in Side, NEW e \in RunIds(s), NEW now \in HandlerNow,
         NEW answered \in BOOLEAN, ReceiveEnd(s, e, now, answered)
  PROVE  IInv' /\ server'.starts = server.starts
<1> DEFINE i == runs[s][e].attempt
<1>1. /\ clock' = clock /\ runs' = runs
      /\ server' = HandleEnd(server, s, i, runs[s][e].report, now)
      /\ runs[s][e].status = "ENDED" /\ i # 0
  BY DEF ReceiveEnd
<1>2. now \in Int
  BY NowFacts
<1>3. e \in 1..Len(runs[s]) /\ runs[s][e] \in Run /\ server \in Server
  BY RunFacts DEF IInv, ReceiveEnd, Bodies, Good
<1>4. i \in 1..Len(server.starts[s]) /\ server.starts[s][i] = e
  BY <1>1, <1>3 DEF IInv, Journals
<1>5. runs[s][e].report \in Played
  <2>1. NoReport \in Played
    BY DEF NoReport, Played
  <2>2. QED
    BY <1>3, <2>1, TransportAssumption DEF Run, Played
<1> HIDE DEF i
<1>6. Good(server', runs) /\ server'.starts = server.starts
  <2> DEFINE run == runs[s][e]
  <2>1. /\ server' = HandleEnd(server, s, i, run.report, now)
        /\ run.status = "ENDED" /\ run.report \in Played
    BY <1>1, <1>5
  <2>2. Good(server, runs)
    BY DEF IInv
  <2>3. i \in 1..Len(server.starts[s]) /\ run = runs[s][server.starts[s][i]]
    BY <1>4
  <2> HIDE DEF run
  <2>4. LET f == HandleEnd(server, s, i, run.report, now) IN
        Good(f, runs) /\ f.starts = server.starts
    BY <1>2, <2>1, <2>2, <2>3, HandleEndGood
  <2>5. QED
    BY <2>1, <2>4
<1>7. Journals(server', runs, head)
  BY <1>3, <1>6, ServerMoved DEF LetIn, IInv, Side
<1>8. \/ head' = head
      \/ head' = [head EXCEPT ![s] = @ + 1] /\ head[s] = e
  BY DEF ReceiveEnd, AwaitsEnd
<1>9. Journals(server', runs, head')
  BY <1>3, <1>7, <1>8, HeadMoved
<1>10. QED
  BY <1>1, <1>6, <1>9 DEF IInv

LEMMA StepGood ==
  ASSUME IInv, [Next]_vars
  PROVE  /\ IInv'
         /\ \/ server'.starts = server.starts
            \/ \E s \in Side : \E e \in RunIds(s) : LetIn(server, server', runs, s, e)
<1>1. CASE Tick
  BY <1>1, TickStep DEF Tick
<1>2. ASSUME NEW now \in HandlerNow, Poll(now)
      PROVE  IInv' /\ server'.starts = server.starts
  BY <1>2, PollStep
<1>3. ASSUME NEW s \in Side, Begin(s)
      PROVE  IInv' /\ server'.starts = server.starts
  BY <1>3, BeginStep DEF Begin
<1>4. ASSUME NEW s \in Side, NEW report \in Reports, Finish(s, report)
      PROVE  IInv' /\ server'.starts = server.starts
  BY <1>4, FinishStep DEF Finish
<1>5. ASSUME NEW s \in Side, NEW e \in RunIds(s), NEW now \in HandlerNow, ReceiveIntent(s, e, now)
      PROVE  IInv' /\ server'.starts = server.starts
  BY <1>5, IntentStep
<1>6. ASSUME NEW s \in Side, NEW e \in RunIds(s), NEW now \in HandlerNow,
             NEW answered \in BOOLEAN, ReceiveStart(s, e, now, answered)
      PROVE  IInv' /\ LetIn(server, server', runs, s, e)
  BY <1>6, StartStep
<1>7. ASSUME NEW s \in Side, NEW e \in RunIds(s), NEW now \in HandlerNow,
             NEW answered \in BOOLEAN, ReceiveEnd(s, e, now, answered)
      PROVE  IInv' /\ server'.starts = server.starts
  BY <1>7, EndStep
<1>8. CASE UNCHANGED vars
  BY <1>8 DEF vars, IInv
<1>9. QED
  BY <1>1, <1>2, <1>3, <1>4, <1>5, <1>6, <1>7, <1>8 DEF Next

-----------------------------------------------------------------------------
(* What follows of every behaviour *)

(* The inductive invariant: what the server holds is what was played. *)
THEOREM TransportInvariant == Spec => []IInv
<1>1. IInv /\ [Next]_vars => IInv'
  BY StepGood
<1>2. QED
  BY <1>1, InitGood, PTL DEF Spec

(* The server's record, the runs and the journals keep their types. *)
THEOREM TransportTypes == Spec => []TypeOK
<1>1. IInv => TypeOK
  <2> SUFFICES ASSUME IInv, NEW s \in Side
               PROVE  /\ clock \in 0..MaxClock /\ server.round \in Round
                      /\ server.leases[s] \in [RunIds(s) -> Lease]
                      /\ server.starts[s] \in Seq(RunIds(s))
                      /\ runs[s] \in Seq(Run)
                      /\ head[s] \in 1..(MaxRuns[s] + 1)
    BY DEF TypeOK, IInv, Good, Server
  <2>1. clock \in 0..MaxClock /\ server.round \in Round /\ server \in Server
    BY DEF IInv, Good, Server
  <2>2. server.leases[s] \in [RunIds(s) -> Lease]
    BY DEF IInv, Good, LeasesOK
  <2>3. server.starts[s] \in Seq(RunIds(s))
    <3>1. server.starts[s] \in Seq(Nat) /\ DOMAIN server.starts[s] = 1..Len(server.starts[s])
          /\ Len(server.starts[s]) \in Nat
      BY <2>1, ServerFacts
    <3>2. \A i \in 1..Len(server.starts[s]) : server.starts[s][i] \in RunIds(s)
      BY RunFacts DEF IInv, Good, StartsOK
    <3>3. server.starts[s] \in [1..Len(server.starts[s]) -> RunIds(s)]
      <4>1. PICK n \in Nat : server.starts[s] \in [1..n -> Nat]
        BY <3>1, SeqDef
      <4>2. QED
        BY <3>1, <3>2, <4>1
    <3> DEFINE n == Len(server.starts[s])
    <3>4. n \in Nat /\ server.starts[s] \in [1..n -> RunIds(s)]
      BY <3>1, <3>3
    <3> HIDE DEF n
    <3>5. server.starts[s] \in UNION {[1..k -> RunIds(s)] : k \in Nat}
      BY <3>4
    <3>6. QED
      BY <3>5, SeqDef
  <2>4. runs[s] \in Seq(Run) /\ head[s] \in 1..(MaxRuns[s] + 1)
    <3>1. /\ runs[s] \in Seq(Run) /\ Len(runs[s]) \in Nat /\ MaxRuns[s] \in Nat
          /\ Len(runs[s]) <= MaxRuns[s]
      BY RunFacts DEF IInv
    <3>2. head[s] \in 1..(Len(runs[s]) + 1)
      BY DEF IInv, Journals
    <3>3. QED
      BY <3>1, <3>2
  <2>5. QED
    BY <2>1, <2>2, <2>3, <2>4
<1>2. QED
  BY <1>1, TransportInvariant, PTL

(* A Start that is repeated or delayed never counts its run twice. *)
THEOREM TransportRunsCountOnce == Spec => []RunsCountOnce
<1>1. IInv => RunsCountOnce
  BY ServerFacts DEF IInv, Good, StartsOK, RunsCountOnce
<1>2. QED
  BY <1>1, TransportInvariant, PTL

(* An attempt is scored with the report of the run that started it. *)
THEOREM TransportScoredAsPlayed == Spec => []ScoredAsPlayed
<1>1. IInv => ScoredAsPlayed
  BY ServerFacts DEF IInv, Good, ScoresOK, Scored, ScoredAsPlayed
<1>2. QED
  BY <1>1, TransportInvariant, PTL

(* A lease is spent for a run that is in the round, and for nothing else. *)
THEOREM TransportLeaseSpentForItsRun == Spec => []LeaseSpentForItsRun
<1>1. IInv => LeaseSpentForItsRun
  BY DEF IInv, Good, LeasesOK, LeaseSpentForItsRun
<1>2. QED
  BY <1>1, TransportInvariant, PTL

(* No run is let in that began at the start deadline or after it, however late
   its Start is handled. *)
THEOREM TransportOnlyTimelyRunsCount == Spec => OnlyTimelyRunsCount
<1> DEFINE Kept ==
      \A s \in Side : \A i \in DOMAIN server'.starts[s] \ DOMAIN server.starts[s] :
        runs[s][server'.starts[s][i]].startedAt < StartDeadline(server.round)
<1>1. IInv /\ [Next]_vars => [Kept]_vars
  <2> SUFFICES ASSUME IInv, [Next]_vars, NEW s \in Side,
                      NEW i \in DOMAIN server'.starts[s] \ DOMAIN server.starts[s]
               PROVE  runs[s][server'.starts[s][i]].startedAt < StartDeadline(server.round)
    OBVIOUS
  <2>0. PICK t \in Side : \E e \in RunIds(t) : LetIn(server, server', runs, t, e)
    BY StepGood
  <2>1. PICK e \in RunIds(t) : LetIn(server, server', runs, t, e)
    BY <2>0
  <2>2. /\ server'.starts = [server.starts EXCEPT ![t] = Append(@, e)]
        /\ runs[t][e].startedAt < StartDeadline(server.round)
    BY <2>1 DEF LetIn
  <2>3. server.starts \in [Side -> Seq(Nat)] /\ server.starts[t] \in Seq(Nat)
    BY ServerFacts DEF IInv, Good
  <2>4. t = s /\ server'.starts[s] = Append(server.starts[s], e)
    BY <2>2, <2>3
  <2>5. e \in Nat
    BY DEF RunIds
  <2>6. i = Len(server.starts[s]) + 1 /\ server'.starts[s][i] = e
    BY <2>3, <2>4, <2>5, AppendProperties, LenProperties
  <2>7. QED
    BY <2>2, <2>4, <2>6
<1>2. OnlyTimelyRunsCount <=> [][Kept]_vars
  BY DEF OnlyTimelyRunsCount
<1> HIDE DEF Kept
<1>3. QED
  BY <1>1, <1>2, TransportInvariant, PTL DEF Spec

(* A poll settles the round on its evidence only when no lease is pending. *)
LEMMA PollKeepsLeases ==
  ASSUME NEW srv, NEW rs, Good(srv, rs), NEW now \in Int,
         LeaseLost(AdvanceLockedMatch(srv, now))
  PROVE  LeaseLost(srv)
<1> DEFINE r == srv.round
           swept == SweepLeases(srv, now)
           adv == AdvanceRoundClock(r, now)
           f == AdvanceLockedMatch(srv, now)
<1>1. /\ srv \in Server /\ Consistent(r) /\ r \in Round
      /\ Good(swept, rs) /\ swept.round = r /\ swept \in Server
  BY SweepGood DEF Good, Consistent, Body
<1>2. CASE Finished(r)
  BY <1>2 DEF AdvanceLockedMatch
<1>3. CASE ~Finished(r) /\ Decided(r, now)
  <2>1. f.round = adv
    BY <1>1, <1>3 DEF AdvanceLockedMatch, Server
  <2>2. adv.outcome.decisive = TRUE
    <3>1. PICK s : adv = FinishDecisiveRound(r, s, now)
      BY <1>3 DEF AdvanceRoundClock
    <3>2. StopRuns(r) \in Round
      BY <1>1, StopRunsType
    <3>3. QED
      BY <3>1, <3>2 DEF FinishDecisiveRound, FinishRound, Round
  <2>3. QED
    BY <2>1, <2>2 DEF LeaseLost
<1>4. CASE ~Finished(r) /\ ~Decided(r, now)
  <2>1. r.outcome = NoOutcome
    BY <1>1, <1>4 DEF Consistent, Verdict
  <2>2. CASE f = swept
    BY <1>1, <2>1, <2>2 DEF LeaseLost
  <2>3. CASE /\ f = [swept EXCEPT !.round = Written(@, AdvanceRoundClock(@, now))]
             /\ ~HeldForLease(swept, now)
    <3>1. f.round = Written(r, adv) /\ f.leases = swept.leases
      BY <1>1, <2>3 DEF Server
    <3>2. Consistent(adv)
      BY <1>1, AdvanceConsistent
    <3>3. Finished(adv) /\ f.round = adv
      <4>1. f.round.outcome # NoOutcome
        BY DEF LeaseLost
      <4>2. f.round = adv
        BY <2>1, <3>1, <4>1 DEF Written
      <4>3. QED
        BY <3>2, <4>1, <4>2 DEF Consistent, Verdict
    <3>4. adv = Expire(r, now) /\ now >= StartDeadline(r)
      <4>1. adv # [r EXCEPT !.phase = OpenPhase(r, now), !.lastEvaluatedAt = now]
        BY <1>1, <3>3 DEF OpenPhase, Finished, Round
      <4>2. adv # [r EXCEPT !.phase = "ROUND_SETTLING", !.lastEvaluatedAt = now]
        BY <1>1, <3>3 DEF Finished, Round
      <4>3. StartDeadline(r) \in Int
        BY <1>1, DeadlineTypes
      <4>4. QED
        BY <1>4, <4>1, <4>2, <4>3 DEF AdvanceRoundClock
    <3>5. ~Pending(swept)
      BY <1>1, <2>3, <3>4 DEF HeldForLease
    <3>6. \A s \in Side : \A e \in RunIds(s) : Swept(f, s, e, now).status # "PENDING"
      <4>1. SUFFICES ASSUME NEW s \in Side, NEW e \in RunIds(s)
                     PROVE  Swept(f, s, e, now).status # "PENDING"
        OBVIOUS
      <4>2. f.leases[s][e] \in Lease /\ f.leases[s][e].status # "PENDING"
        BY <1>1, <3>1, <3>5, LeaseFacts DEF Pending
      <4>3. QED
        BY <4>2 DEF Swept
    <3>7. adv.outcome.settledAt = now
      BY <1>1, <3>4 DEF Expire, FinishByScore, FinishRound, Round
    <3>8. QED
      BY <3>3, <3>6, <3>7 DEF LeaseLost, Valid
  <2>4. f = swept \/ /\ f = [swept EXCEPT !.round = Written(@, AdvanceRoundClock(@, now))]
                     /\ ~HeldForLease(swept, now)
    BY <1>4 DEF AdvanceLockedMatch
  <2>5. QED
    BY <2>2, <2>3, <2>4
<1>5. QED
  BY <1>2, <1>3, <1>4

(* However late it comes, the poll of a client settles no round on its evidence
   while the lease of a run that began in time is still valid. *)
THEOREM TransportPollNeverLosesALease == Spec => PollNeverLosesALease
<1> DEFINE Kept ==
      (\E now \in HandlerNow : Poll(now)) => (LeaseLost(server') => LeaseLost(server))
<1>1. IInv /\ [Next]_vars => [Kept]_vars
  BY PollKeepsLeases, NowFacts DEF IInv, Poll
<1>2. PollNeverLosesALease <=> [][Kept]_vars
  BY DEF PollNeverLosesALease
<1> HIDE DEF Kept
<1>3. QED
  BY <1>1, <1>2, TransportInvariant, PTL DEF Spec
==============================================================================
