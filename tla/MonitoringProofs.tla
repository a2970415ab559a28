-------------------------- MODULE MonitoringProofs --------------------------
(***************************************************************************)
(* Proofs about Monitoring for every number of jobs, workers and operators *)
(* and any thresholds, page sizes and faults.                              *)
(***************************************************************************)
EXTENDS Monitoring, FiniteSetTheorems, WellFoundedInduction, TLAPS

(* What a console shows of an alert. *)
Items == [fingerprint : Fingerprints, row : [status : Statuses, description : Nat, version : Nat]]

(* A running job has been claimed, not after it got to its checkpoint, and  *)
(* that not in the future.                                                  *)
JobInv(j) ==
  /\ jobs[j].state = "RUNNING" => jobs[j].started # None
  /\ jobs[j].started # None => jobs[j].started <= jobs[j].since
  /\ jobs[j].since <= now

Threshold(f) == IF f = Backlog THEN Warning ELSE Stuck

(* What a tick is going to raise had grounds when it read; unless something *)
(* failed in it, what had grounds is there already or going to be raised.   *)
TickInv(w) ==
  /\ tick[w].pc = "ages" =>
       /\ tick[w].backlog >= Warning => <<Backlog, "warning">> \in grounds[w]
       /\ tick[w].backlog >= Critical => <<Backlog, "critical">> \in grounds[w]
       /\ w \notin failed => \A d \in grounds[w] : d[1] = Backlog /\ tick[w].backlog >= Warning
  /\ tick[w].pc = "upsert" =>
       /\ \A a \in tick[w].todo :
            /\ <<a.fingerprint, a.severity>> \in grounds[w]
            /\ a.description >= Threshold(a.fingerprint)
            /\ \A b \in tick[w].todo : a.fingerprint = b.fingerprint => a = b
       /\ w \notin failed =>
            \A d \in grounds[w] : alerts[d[1]] # None \/ \E a \in tick[w].todo : a.fingerprint = d[1]

(* A job that has been at its checkpoint for long has been claimed for long. *)
DueInv(w) == due[w] \subseteq grounds[w]

(* Each tick and each acknowledgement accounts for one version of an alert; *)
(* Pending are the ticks that have theirs still to write.                   *)
Version(f) == IF alerts[f] = None THEN 0 ELSE alerts[f].version

Pending(f) ==
  {w \in Workers : \/ tick[w].pc = "ages"
                   \/ tick[w].pc = "upsert" /\ \E a \in tick[w].todo : a.fingerprint = f}

VersionInv(f) == Version(f) + Cardinality(Pending(f)) <= ticks + acks

(* What an operator was shown is an earlier version of the alert, or says   *)
(* what it says.                                                            *)
RenderedInv(o) ==
  \A k \in DOMAIN console[o].rendered :
    LET item == console[o].rendered[k]
        row  == alerts[item.fingerprint]
    IN /\ row # None
       /\ item.row.version <= row.version
       /\ item.row.version = row.version => item.row = Shown(row)

(* A walk has shown what comes before its cursor; what matched all along    *)
(* and has not been shown comes after it.                                   *)
WalkInv(o) ==
  LET c == console[o] IN
  /\ c.at = "start" => c.rendered = <<>> /\ c.after = None /\ c.steady = {}
  /\ c.at # "start" => c.filter \in Filters
  /\ c.at = "next" => c.after # None /\ \A k \in DOMAIN c.rendered : ~Before(Position(c.rendered[k].fingerprint), c.after)
  /\ \A j, k \in DOMAIN c.rendered : c.rendered[j].fingerprint = c.rendered[k].fingerprint => j = k
  /\ \A f \in c.steady :
       /\ Matches(f, c.filter)
       /\ \/ \E k \in DOMAIN c.rendered : c.rendered[k].fingerprint = f
          \/ c.at = "next" /\ Before(Position(f), c.after)

(* The inductive invariant. *)
MonitoringInv ==
  /\ TypeOK
  /\ \A j \in Jobs : JobInv(j)
  /\ \A w \in Workers : TickInv(w) /\ DueInv(w)
  /\ \A f \in Fingerprints : VersionInv(f)
  /\ \A o \in Operators : RenderedInv(o) /\ WalkInv(o)
  /\ unfounded = {} /\ misled = {}
-----------------------------------------------------------------------------
(* Every set of naturals has a least member (< is well founded) ...         *)
LEMMA Least ==
  ASSUME NEW S, S \subseteq Nat, S # {}
  PROVE  \E x \in S : \A y \in S : x <= y
<1>1. PICK R : R = OpToRel(<, Nat)
  OBVIOUS
<1>2. IsWellFoundedOn(R, Nat)
  BY <1>1, NatLessThanWellFounded
<1>3. PICK x \in S : \A y \in S : ~ (<<y, x>> \in R)
  BY <1>2, WFMin
<1>4. \A y \in Nat : y < x => <<y, x>> \in R
  BY <1>1 DEF OpToRel
<1>5. \A y \in S : ~ (y < x)
  BY <1>3, <1>4
<1>6. x \in Nat
  BY <1>3
<1>7. \A y \in S : x <= y
  BY <1>5, <1>6
<1> QED BY <1>3, <1>7

(* ... and every bounded one a greatest member, which is the Max of the set. *)
LEMMA Greatest ==
  ASSUME NEW n \in Nat, NEW S, S \subseteq 0..n, S # {}
  PROVE  Max(S) \in S /\ \A y \in S : y <= Max(S)
<1>1. \E x \in S : \A y \in S : x >= y
  <2>1. {n - x : x \in S} \subseteq Nat
    OBVIOUS
  <2>2. {n - x : x \in S} # {}
    OBVIOUS
  <2>3. PICK u \in {n - x : x \in S} : \A v \in {n - x : x \in S} : u <= v
    BY <2>1, <2>2, Least
  <2>4. PICK x \in S : u = n - x
    BY <2>3
  <2>5. \A y \in S : n - x <= n - y
    BY <2>3, <2>4
  <2> QED BY <2>5
<1> QED BY <1>1 DEF Max

(* The cursor's order is strict, total up to the id, and the one of the     *)
(* listing read backwards.                                                  *)
LEMMA CursorOrder ==
  /\ \A p, q \in Positions : Newer(p, q) <=> Before(q, p)
  /\ \A p \in Positions : ~Before(p, p)
  /\ \A p, q, r \in Positions : Before(p, q) /\ Before(q, r) => Before(p, r)
BY DEF Newer, Before, Positions

(* Rows, their number and their positions. *)
LEMMA RowFacts ==
  ASSUME TypeOK
  PROVE  /\ IsFiniteSet(Fingerprints) /\ IsFiniteSet(Rows) /\ Rows \subseteq Fingerprints
         /\ \A f \in Rows : alerts[f] \in Alerts /\ Position(f) \in Positions
         /\ \A f \in Fingerprints \ Rows : alerts[f] = None
<1>1. IsFiniteSet(1..LastCheckpoint) /\ IsFiniteSet({Backlog})
  <2>1. 1 \in Int /\ LastCheckpoint \in Int
    BY MonitoringAssumption
  <2>2. IsFiniteSet(1..LastCheckpoint)
    BY <2>1, FS_Interval
  <2> QED BY <2>2, FS_Singleton
<1>2. IsFiniteSet(Fingerprints)
  BY <1>1, FS_Union DEF Fingerprints, Checkpoints
<1>3. Rows \subseteq Fingerprints
  BY DEF Rows
<1>4. IsFiniteSet(Rows)
  BY <1>2, <1>3, FS_Subset
<1>5. \A f \in Rows : alerts[f] \in Alerts /\ Position(f) \in Positions
  BY <1>3 DEF TypeOK, Rows, Position, Positions, Alerts
<1> QED BY <1>2, <1>3, <1>4, <1>5 DEF Rows

(* A sorted listing has every row once, newest first. *)
LEMMA SortedListing ==
  ASSUME TypeOK, NEW S, S \subseteq Rows, NEW items \in Sorted(S)
  PROVE  /\ Cardinality(S) \in Nat /\ items \in [1..Cardinality(S) -> S]
         /\ \A j, k \in 1..Cardinality(S) : items[j] = items[k] => j = k
         /\ \A f \in S : \E k \in 1..Cardinality(S) : items[k] = f
         /\ \A j, k \in 1..Cardinality(S) : j < k => Before(Position(items[k]), Position(items[j]))
<1> DEFINE n == Cardinality(S)
<1>1. IsFiniteSet(S)
  BY RowFacts, FS_Subset
<1>2. n \in Nat
  BY <1>1, FS_CardinalityType
<1>3. items \in [1..n -> S] /\ \A j, k \in 1..n : j # k => items[j] # items[k]
  BY DEF Sorted, SetToSeqs
<1>4. \A f \in S : \E k \in 1..n : items[k] = f
  <2>1. IsFiniteSet(1..n) /\ Cardinality(1..n) = n
    BY <1>2, FS_Interval
  <2>2. items \in Injection(1..n, S)
    BY <1>3 DEF Injection, IsInjective
  <2>3. items \in Surjection(1..n, S)
    BY <1>1, <2>1, <2>2, FS_Injection
  <2> QED BY <2>3 DEF Surjection
<1>5. \A j, k \in 1..n : j < k => Before(Position(items[k]), Position(items[j]))
  <2>1. \A j, k \in 1..n : j < k => Newer(Position(items[j]), Position(items[k]))
    BY <1>3 DEF Sorted
  <2>2. \A j \in 1..n : Position(items[j]) \in Positions
    BY <1>3, RowFacts
  <2> QED BY <2>1, <2>2, CursorOrder
<1> QED BY <1>2, <1>3, <1>4, <1>5

(* Every set of rows can be listed, so the database always has a page to    *)
(* answer with: no two rows share a position, and of any rows one is the    *)
(* oldest and comes last.                                                   *)
LEMMA ListingExists ==
  ASSUME TypeOK
  PROVE  \A S \in SUBSET Rows : Sorted(S) # {}
<1>1. ASSUME NEW S, S \subseteq Rows, S # {}
      PROVE  \E f \in S : \A g \in S \ {f} : Newer(Position(g), Position(f))
  <2>1. \A g \in S : alerts[g] \in Alerts /\ g \in Rows
    BY <1>1, RowFacts
  <2>2. \A g \in S : alerts[g].created \in Nat /\ alerts[g].id \in Nat
    BY <2>1 DEF Alerts
  <2> DEFINE dates == {alerts[g].created : g \in S}
  <2>3. dates \subseteq Nat /\ dates # {}
    BY <1>1, <2>2
  <2>4. PICK c \in dates : \A d \in dates : c <= d
    <3> HIDE DEF dates
    <3> QED BY <2>3, Least
  <2> DEFINE oldest == {g \in S : alerts[g].created = c}
  <2> DEFINE ids == {alerts[g].id : g \in oldest}
  <2>5. ids \subseteq Nat /\ ids # {}
    BY <2>2, <2>4
  <2>6. PICK i \in ids : \A d \in ids : i <= d
    <3> HIDE DEF ids
    <3> QED BY <2>5, Least
  <2>7. PICK f \in S : alerts[f].created = c /\ alerts[f].id = i
    BY <2>6
  <2>8. \A g \in S \ {f} : alerts[g].id # alerts[f].id
    BY <1>1, <2>1 DEF TypeOK
  <2>9. \A g \in S : c <= alerts[g].created /\ (alerts[g].created = c => i <= alerts[g].id)
    BY <2>4, <2>6
  <2> QED BY <2>2, <2>7, <2>8, <2>9 DEF Newer, Position
<1>2. \A S \in SUBSET Rows : IsFiniteSet(S) /\ Cardinality(S) \in Nat
  BY RowFacts, FS_Subset, FS_CardinalityType
<1> SUFFICES ASSUME NEW B \in SUBSET Rows, Sorted(B) = {}
             PROVE  FALSE
  OBVIOUS
<1> DEFINE sizes == {Cardinality(S) : S \in {S \in SUBSET Rows : Sorted(S) = {}}}
<1>3. sizes \subseteq Nat /\ Cardinality(B) \in sizes
  BY <1>2
<1>4. PICK n \in sizes : \A m \in sizes : n <= m
  <2> HIDE DEF sizes
  <2> QED BY <1>3, Least
<1>5. PICK S \in SUBSET Rows : Sorted(S) = {} /\ Cardinality(S) = n
  BY <1>4
<1>6. S # {}
  <2>1. Cardinality({}) = 0
    BY FS_EmptySet
  <2>2. <<>> \in SetToSeqs({})
    <3>1. <<>> \in [1..0 -> {}]
      OBVIOUS
    <3> QED BY <2>1, <3>1 DEF SetToSeqs
  <2>3. <<>> \in Sorted({})
    BY <2>2 DEF Sorted
  <2> QED BY <1>5, <2>3
<1>7. PICK f \in S : \A g \in S \ {f} : Newer(Position(g), Position(f))
  BY <1>1, <1>6
<1> DEFINE T == S \ {f}
<1>8. Cardinality(T) \in Nat /\ n = Cardinality(T) + 1 /\ n \in Nat
  <2>1. IsFiniteSet(S) /\ Cardinality(S) \in Nat /\ Cardinality(T) \in Nat
    BY <1>2
  <2>2. Cardinality(T) = Cardinality(S) - 1
    BY <2>1, FS_RemoveElement
  <2> QED BY <1>5, <2>1, <2>2
<1>9. PICK items : items \in Sorted(T)
  <2>1. Sorted(T) = {} => Cardinality(T) \in sizes
    BY <1>5
  <2>2. Sorted(T) = {} => n <= Cardinality(T)
    BY <1>4, <2>1
  <2> QED BY <1>8, <2>2
<1> DEFINE k == Cardinality(T)
<1>10. /\ items \in [1..k -> T]
       /\ \A i, j \in 1..k : i # j => items[i] # items[j]
       /\ \A i, j \in 1..k : i < j => Newer(Position(items[i]), Position(items[j]))
  <2>1. items \in [1..k -> T] /\ \A i, j \in 1..k : i # j => items[i] # items[j]
    BY <1>9 DEF Sorted, SetToSeqs
  <2> QED BY <1>9, <2>1 DEF Sorted
<1> HIDE DEF k, T
<1> DEFINE all == [i \in 1..n |-> IF i = n THEN f ELSE items[i]]
<1>11. /\ \A i \in 1..n : i = n \/ i \in 1..k
       /\ \A i \in 1..k : i \in 1..n /\ i # n
       /\ n \in 1..n
  BY <1>8 DEF k
<1>12. /\ DOMAIN all = 1..n /\ all[n] = f
       /\ \A i \in 1..k : all[i] = items[i] /\ items[i] \in S \ {f}
  BY <1>10, <1>11 DEF T
<1>13. all \in [1..n -> S]
  BY <1>11, <1>12
<1> HIDE DEF all
<1>14. \A i, j \in 1..n : i # j => all[i] # all[j]
  BY <1>10, <1>11, <1>12
<1>15. \A i, j \in 1..n : i < j => Newer(Position(all[i]), Position(all[j]))
  <2> SUFFICES ASSUME NEW i \in 1..n, NEW j \in 1..n, i < j
               PROVE  Newer(Position(all[i]), Position(all[j]))
    OBVIOUS
  <2>1. i \in 1..k
    BY <1>8, <1>11
  <2> QED BY <1>7, <1>10, <1>11, <1>12, <2>1
<1>16. all \in SetToSeqs(S)
  BY <1>5, <1>13, <1>14 DEF SetToSeqs
<1>17. all \in Sorted(S)
  BY <1>12, <1>15, <1>16 DEF Sorted
<1> QED BY <1>5, <1>17

(* The ticks whose write of an alert is outstanding, as they come and go. *)
LEMMA PendingCounts ==
  ASSUME NEW f, NEW w \in Workers
  PROVE  /\ Cardinality(Pending(f)) \in Nat /\ Cardinality(Pending(f)') \in Nat
         /\ Pending(f)' \subseteq Pending(f) => Cardinality(Pending(f)') <= Cardinality(Pending(f))
         /\ Pending(f)' \subseteq Pending(f) \cup {w} => Cardinality(Pending(f)') <= Cardinality(Pending(f)) + 1
         /\ w \in Pending(f) /\ Pending(f)' \subseteq Pending(f) \ {w} => Cardinality(Pending(f)') <= Cardinality(Pending(f)) - 1
<1> DEFINE P == Pending(f)
<1> DEFINE Q == Pending(f)'
<1>1. P \subseteq Workers /\ Q \subseteq Workers
  BY DEF Pending
<1> HIDE DEF P, Q
<1>2. IsFiniteSet(P) /\ IsFiniteSet(Q)
  BY <1>1, FS_Subset, FiniteAssumption
<1>3. Cardinality(P) \in Nat /\ Cardinality(Q) \in Nat
  BY <1>2, FS_CardinalityType
<1>4. Q \subseteq P => Cardinality(Q) <= Cardinality(P)
  BY <1>2, FS_Subset
<1>5. Q \subseteq P \cup {w} => Cardinality(Q) <= Cardinality(P) + 1
  <2>1. IsFiniteSet(P \cup {w}) /\ Cardinality(P \cup {w}) = IF w \in P THEN Cardinality(P) ELSE Cardinality(P) + 1
    BY <1>2, FS_AddElement
  <2>2. Q \subseteq P \cup {w} => Cardinality(Q) <= Cardinality(P \cup {w})
    BY <2>1, FS_Subset
  <2> QED BY <1>3, <2>1, <2>2
<1>6. w \in P /\ Q \subseteq P \ {w} => Cardinality(Q) <= Cardinality(P) - 1
  <2>1. IsFiniteSet(P \ {w}) /\ Cardinality(P \ {w}) = IF w \in P THEN Cardinality(P) - 1 ELSE Cardinality(P)
    BY <1>2, FS_RemoveElement
  <2>2. Q \subseteq P \ {w} => Cardinality(Q) <= Cardinality(P \ {w})
    BY <2>1, FS_Subset
  <2> QED BY <2>1, <2>2
<1> QED BY <1>3, <1>4, <1>5, <1>6 DEF P, Q
-----------------------------------------------------------------------------
(* What the consoles know stands while no row disappears, moves, changes    *)
(* its status or changes what it says without a new version.                *)
LEMMA ConsolesStand ==
  ASSUME MonitoringInv, TypeOK', UNCHANGED console,
         \A f \in Rows : /\ alerts'[f] # None
                         /\ alerts'[f].id = alerts[f].id /\ alerts'[f].created = alerts[f].created
                         /\ alerts'[f].status = alerts[f].status
                         /\ alerts'[f].version >= alerts[f].version
                         /\ alerts'[f].version = alerts[f].version => Shown(alerts'[f]) = Shown(alerts[f])
  PROVE  \A o \in Operators : RenderedInv(o)' /\ WalkInv(o)'
<1> SUFFICES ASSUME NEW o \in Operators
             PROVE  RenderedInv(o)' /\ WalkInv(o)'
  OBVIOUS
<1> DEFINE rendered == console[o].rendered
<1>1. RenderedInv(o) /\ WalkInv(o)
  BY DEF MonitoringInv
<1>2. \A k \in DOMAIN rendered : /\ rendered[k].fingerprint \in Fingerprints
                                 /\ rendered[k].row.version \in Nat
  <2>1. rendered \in Seq(Items)
    BY DEF MonitoringInv, TypeOK, Items
  <2> HIDE DEF rendered
  <2>2. \A k \in DOMAIN rendered : rendered[k] \in Items
    BY <2>1
  <2> QED BY <2>2 DEF Items
<1>3. \A k \in DOMAIN rendered : rendered[k].fingerprint \in Rows
  BY <1>1, <1>2 DEF RenderedInv, Rows
<1>4. \A f \in Rows : alerts[f].version \in Nat /\ alerts'[f].version \in Nat
  <2>1. \A f \in Rows : alerts[f] \in Alerts /\ f \in Fingerprints
    BY RowFacts DEF MonitoringInv
  <2>2. \A f \in Rows : alerts'[f] \in Alerts
    BY <2>1 DEF TypeOK
  <2> QED BY <2>1, <2>2 DEF Alerts
<1>5. RenderedInv(o)'
  <2> SUFFICES ASSUME NEW k \in DOMAIN rendered
               PROVE  LET item == rendered[k]
                          row  == alerts'[item.fingerprint]
                      IN /\ row # None
                         /\ item.row.version <= row.version
                         /\ item.row.version = row.version => item.row = Shown(row)
    BY DEF RenderedInv
  <2> DEFINE f == rendered[k].fingerprint
  <2>1. f \in Rows
    BY <1>3
  <2>2. /\ rendered[k].row.version <= alerts[f].version
        /\ rendered[k].row.version = alerts[f].version => rendered[k].row = Shown(alerts[f])
    BY <1>1 DEF RenderedInv
  <2>3. rendered[k].row.version \in Nat /\ alerts[f].version \in Nat /\ alerts'[f].version \in Nat
    BY <1>2, <1>4, <2>1
  <2> QED BY <2>1, <2>2, <2>3
<1>6. \A f \in Rows : Position(f)' = Position(f)
  BY DEF Position
<1>7. console[o].steady \subseteq Rows
  BY <1>1 DEF WalkInv, Matches, Rows, MonitoringInv, TypeOK
<1>8. \A filter : \A f \in Rows : Matches(f, filter) => Matches(f, filter)'
  BY DEF Matches
<1>9. WalkInv(o)'
  BY <1>1, <1>3, <1>6, <1>7, <1>8 DEF WalkInv
<1> QED BY <1>5, <1>9

(* The table, the clock and the locals of the ticks stand while the jobs    *)
(* move on.                                                                 *)
LEMMA QueueMoves ==
  ASSUME MonitoringInv, World,
         jobs' \in [Jobs -> [state : JobStates, checkpoint : Checkpoints, started : 0..MaxTime \cup {None}, since : 0..MaxTime]],
         now' \in 0..MaxTime, now <= now',
         \A j \in Jobs : JobInv(j)'
  PROVE  MonitoringInv'
<1> USE DEF MonitoringInv
<1>1. UNCHANGED <<alerts, tick, console, ticks, acks, faults, due, grounds, failed, unfounded, misled>>
  BY DEF World, history, reads
<1>2. TypeOK'
  <2>1. Rows' = Rows
    BY <1>1 DEF Rows
  <2>2. \A f \in Rows : alerts[f].created <= now'
    <3>1. \A f \in Rows : alerts[f] \in Alerts
      BY RowFacts
    <3>2. \A f \in Rows : alerts[f].created \in Nat /\ alerts[f].created <= now
      BY <3>1 DEF TypeOK, Alerts
    <3> QED BY <3>2 DEF TypeOK
  <2> QED BY <1>1, <2>1, <2>2 DEF TypeOK
<1>3. \A w \in Workers : TickInv(w)' /\ DueInv(w)'
  BY <1>1 DEF TickInv, DueInv
<1>4. \A f \in Fingerprints : VersionInv(f)'
  BY <1>1 DEF VersionInv, Version, Pending
<1>5. \A o \in Operators : RenderedInv(o)' /\ WalkInv(o)'
  BY <1>1 DEF RenderedInv, WalkInv, Matches, Position
<1> QED BY <1>1, <1>2, <1>3, <1>4, <1>5

(* A claim dates the job now, if it has no date yet. *)
LEMMA ClaimKeeps ==
  ASSUME MonitoringInv, NEW j \in Jobs, Claim(j)
  PROVE  MonitoringInv'
<1>1. PICK job : /\ job = IF jobs[j].started = None
                          THEN [jobs[j] EXCEPT !.state = "RUNNING", !.started = now, !.since = now]
                          ELSE [jobs[j] EXCEPT !.state = "RUNNING"]
                 /\ jobs' = [jobs EXCEPT ![j] = job] /\ now' = now /\ World
  BY DEF Claim, Set
<1>2. jobs[j] \in [state : JobStates, checkpoint : Checkpoints, started : 0..MaxTime \cup {None}, since : 0..MaxTime]
  BY DEF MonitoringInv, TypeOK
<1>3. /\ job \in [state : JobStates, checkpoint : Checkpoints, started : 0..MaxTime \cup {None}, since : 0..MaxTime]
      /\ job.started # None /\ job.started <= job.since /\ job.since <= now
  <2>1. now \in 0..MaxTime /\ now # None /\ now <= now
    BY NoneAssumption DEF MonitoringInv, TypeOK
  <2>2. (jobs[j].started # None => jobs[j].started <= jobs[j].since) /\ jobs[j].since <= now
    BY DEF MonitoringInv, JobInv
  <2>3. /\ job.started = IF jobs[j].started = None THEN now ELSE jobs[j].started
        /\ job.since = IF jobs[j].started = None THEN now ELSE jobs[j].since
    BY <1>1, <1>2
  <2>4. job \in [state : JobStates, checkpoint : Checkpoints, started : 0..MaxTime \cup {None}, since : 0..MaxTime]
    BY <1>1, <1>2, <2>1 DEF JobStates
  <2> QED BY <2>1, <2>2, <2>3, <2>4
<1>4. jobs' \in [Jobs -> [state : JobStates, checkpoint : Checkpoints, started : 0..MaxTime \cup {None}, since : 0..MaxTime]]
  BY <1>1, <1>3 DEF MonitoringInv, TypeOK
<1>5. \A k \in Jobs : JobInv(k)'
  BY <1>1, <1>3 DEF MonitoringInv, TypeOK, JobInv
<1>6. now' \in 0..MaxTime /\ now <= now'
  BY <1>1 DEF MonitoringInv, TypeOK
<1> QED BY <1>1, <1>4, <1>5, <1>6, QueueMoves

(* A checkpoint leaves a job running since its first claim. *)
LEMMA SaveCheckpointKeeps ==
  ASSUME MonitoringInv, NEW j \in Jobs, SaveCheckpoint(j)
  PROVE  MonitoringInv'
<1>1. PICK job : /\ job = [jobs[j] EXCEPT !.checkpoint = @ + 1, !.since = now]
                 /\ jobs' = [jobs EXCEPT ![j] = job] /\ now' = now /\ World
  BY DEF SaveCheckpoint, Set
<1>2. /\ jobs[j] \in [state : JobStates, checkpoint : Checkpoints, started : 0..MaxTime \cup {None}, since : 0..MaxTime]
      /\ jobs[j].checkpoint < LastCheckpoint
  BY DEF MonitoringInv, TypeOK, SaveCheckpoint
<1>3. /\ job \in [state : JobStates, checkpoint : Checkpoints, started : 0..MaxTime \cup {None}, since : 0..MaxTime]
      /\ job.state = jobs[j].state /\ job.started = jobs[j].started
      /\ (job.started # None => job.started <= job.since) /\ job.since <= now
  <2>1. now \in 0..MaxTime /\ now <= now /\ jobs[j].since \in 0..MaxTime
    BY DEF MonitoringInv, TypeOK
  <2>2. (jobs[j].started # None => jobs[j].started <= jobs[j].since) /\ jobs[j].since <= now
    BY DEF MonitoringInv, JobInv
  <2>3. job.state = jobs[j].state /\ job.started = jobs[j].started /\ job.since = now
    BY <1>1, <1>2
  <2>4. job \in [state : JobStates, checkpoint : Checkpoints, started : 0..MaxTime \cup {None}, since : 0..MaxTime]
    <3>1. jobs[j].checkpoint + 1 \in Checkpoints
      BY <1>2, MonitoringAssumption DEF Checkpoints
    <3>2. job = [jobs[j] EXCEPT !.checkpoint = jobs[j].checkpoint + 1, !.since = now]
      BY <1>1
    <3> QED BY <1>2, <2>1, <3>1, <3>2
  <2>5. job.started # None => job.started <= now
    <3>1. jobs[j].started # None => jobs[j].started \in Nat
      BY <1>2
    <3> QED BY <2>1, <2>2, <2>3, <3>1
  <2> QED BY <2>1, <2>3, <2>4, <2>5
<1>4. jobs' \in [Jobs -> [state : JobStates, checkpoint : Checkpoints, started : 0..MaxTime \cup {None}, since : 0..MaxTime]]
  BY <1>1, <1>3 DEF MonitoringInv, TypeOK
<1>5. \A k \in Jobs : JobInv(k)'
  BY <1>1, <1>3 DEF MonitoringInv, TypeOK, JobInv
<1>6. now' \in 0..MaxTime /\ now <= now'
  BY <1>1 DEF MonitoringInv, TypeOK
<1> QED BY <1>1, <1>4, <1>5, <1>6, QueueMoves

(* A job that leaves its slot keeps its date or has ended. *)
LEMMA LeaveKeeps ==
  ASSUME MonitoringInv, NEW j \in Jobs, Leave(j)
  PROVE  MonitoringInv'
<1>1. PICK job : /\ (\E s \in {"RETRY_WAIT", "FAILED", "QUEUED"} : job = [jobs[j] EXCEPT !.state = s]) \/ job = Ended
                 /\ jobs' = [jobs EXCEPT ![j] = job] /\ now' = now /\ World
  BY DEF Leave, Set
<1>2. jobs[j] \in [state : JobStates, checkpoint : Checkpoints, started : 0..MaxTime \cup {None}, since : 0..MaxTime]
  BY DEF MonitoringInv, TypeOK
<1>3. /\ job \in [state : JobStates, checkpoint : Checkpoints, started : 0..MaxTime \cup {None}, since : 0..MaxTime]
      /\ job.state # "RUNNING" /\ job.since <= now
      /\ job.started # None => job.started <= job.since
  <2>1. (jobs[j].started # None => jobs[j].started <= jobs[j].since) /\ jobs[j].since <= now /\ now \in 0..MaxTime
    BY DEF MonitoringInv, TypeOK, JobInv
  <2>2. CASE \E s \in {"RETRY_WAIT", "FAILED", "QUEUED"} : job = [jobs[j] EXCEPT !.state = s]
    BY <1>2, <2>1, <2>2 DEF JobStates
  <2>3. CASE job = Ended
    BY <2>1, <2>3, MonitoringAssumption DEF Checkpoints, JobStates, Ended
  <2> QED BY <1>1, <2>2, <2>3
<1>4. jobs' \in [Jobs -> [state : JobStates, checkpoint : Checkpoints, started : 0..MaxTime \cup {None}, since : 0..MaxTime]]
  BY <1>1, <1>3 DEF MonitoringInv, TypeOK
<1>5. \A k \in Jobs : JobInv(k)'
  BY <1>1, <1>3 DEF MonitoringInv, TypeOK, JobInv
<1>6. now' \in 0..MaxTime /\ now <= now'
  BY <1>1 DEF MonitoringInv, TypeOK
<1> QED BY <1>1, <1>4, <1>5, <1>6, QueueMoves

(* A requeued job keeps its date and starts anew at its checkpoint. *)
LEMMA RequeueKeeps ==
  ASSUME MonitoringInv, NEW j \in Jobs, Requeue(j)
  PROVE  MonitoringInv'
<1>1. PICK job : /\ job = [jobs[j] EXCEPT !.state = "QUEUED", !.since = IF jobs[j].started = None THEN @ ELSE now]
                 /\ jobs' = [jobs EXCEPT ![j] = job] /\ now' = now /\ World
  BY DEF Requeue, Set
<1>2. jobs[j] \in [state : JobStates, checkpoint : Checkpoints, started : 0..MaxTime \cup {None}, since : 0..MaxTime]
  BY DEF MonitoringInv, TypeOK
<1>3. /\ job \in [state : JobStates, checkpoint : Checkpoints, started : 0..MaxTime \cup {None}, since : 0..MaxTime]
      /\ job.state # "RUNNING" /\ job.since <= now
      /\ job.started # None => job.started <= job.since
  <2>1. /\ (jobs[j].started # None => jobs[j].started <= jobs[j].since) /\ jobs[j].since <= now
        /\ now \in 0..MaxTime /\ now <= now
    BY DEF MonitoringInv, TypeOK, JobInv
  <2>2. /\ job.state = "QUEUED" /\ job.started = jobs[j].started
        /\ job.since = IF jobs[j].started = None THEN jobs[j].since ELSE now
    BY <1>1, <1>2
  <2>3. job \in [state : JobStates, checkpoint : Checkpoints, started : 0..MaxTime \cup {None}, since : 0..MaxTime]
    BY <1>1, <1>2, <2>1 DEF JobStates
  <2>4. job.started # None => job.started <= now
    BY <1>2, <2>1, <2>2
  <2> QED BY <2>1, <2>2, <2>3, <2>4
<1>4. jobs' \in [Jobs -> [state : JobStates, checkpoint : Checkpoints, started : 0..MaxTime \cup {None}, since : 0..MaxTime]]
  BY <1>1, <1>3 DEF MonitoringInv, TypeOK
<1>5. \A k \in Jobs : JobInv(k)'
  BY <1>1, <1>3 DEF MonitoringInv, TypeOK, JobInv
<1>6. now' \in 0..MaxTime /\ now <= now'
  BY <1>1 DEF MonitoringInv, TypeOK
<1> QED BY <1>1, <1>4, <1>5, <1>6, QueueMoves

(* No job was claimed in the future when the clock goes on. *)
LEMMA TimePassesKeeps ==
  ASSUME MonitoringInv, TimePasses
  PROVE  MonitoringInv'
<1>1. now' = now + 1 /\ now' \in 0..MaxTime /\ jobs' = jobs /\ World
  BY MonitoringAssumption DEF MonitoringInv, TypeOK, TimePasses
<1>2. \A j \in Jobs : JobInv(j)'
  <2>1. now \in Nat /\ \A j \in Jobs : jobs[j].since \in Nat
    BY DEF MonitoringInv, TypeOK
  <2> QED BY <1>1, <2>1 DEF MonitoringInv, TypeOK, JobInv
<1>3. jobs' \in [Jobs -> [state : JobStates, checkpoint : Checkpoints, started : 0..MaxTime \cup {None}, since : 0..MaxTime]]
  BY <1>1 DEF MonitoringInv, TypeOK
<1>4. now <= now'
  BY <1>1 DEF MonitoringInv, TypeOK
<1> QED BY <1>1, <1>2, <1>3, <1>4, QueueMoves
-----------------------------------------------------------------------------
(* A step of a tick that leaves the table alone keeps the invariant if what *)
(* is said of the ticks and of their outstanding versions is kept.          *)
LEMMA LoopKeeps ==
  ASSUME MonitoringInv, Loop, UNCHANGED <<alerts, unfounded>>,
         tick' \in [Workers -> [pc : {"idle", "ages", "upsert"}, backlog : Nat,
                            todo : SUBSET [fingerprint : Fingerprints, severity : Severities, description : Nat]]],
         {due', grounds'} \subseteq [Workers -> SUBSET (Fingerprints \X Severities)], failed' \subseteq Workers,
         faults' \in 0..MaxFaults, ticks' \in 0..MaxTicks, ticks <= ticks',
         \A w \in Workers : TickInv(w)' /\ DueInv(w)',
         \A f \in Fingerprints : VersionInv(f)'
  PROVE  MonitoringInv'
<1>1. UNCHANGED <<now, jobs, console, acks, misled>>
  BY DEF Loop
<1>2. TypeOK'
  <2>1. Rows' = Rows
    BY DEF Rows
  <2>2. \A f \in Rows : alerts[f].version <= 1 + ticks' + acks
    <3>1. \A f \in Rows : alerts[f] \in Alerts /\ alerts[f].version <= 1 + ticks + acks
      BY RowFacts DEF MonitoringInv, TypeOK
    <3>2. \A f \in Rows : alerts[f].version \in Nat
      BY <3>1 DEF Alerts
    <3>3. ticks \in Nat /\ ticks' \in Nat /\ acks \in Nat
      BY DEF MonitoringInv, TypeOK
    <3> QED BY <3>1, <3>2, <3>3
  <2> QED BY <1>1, <2>1, <2>2 DEF MonitoringInv, TypeOK
<1>3. \A j \in Jobs : JobInv(j)'
  BY <1>1 DEF MonitoringInv, JobInv
<1>4. \A o \in Operators : RenderedInv(o)' /\ WalkInv(o)'
  BY <1>1 DEF MonitoringInv, RenderedInv, WalkInv, Matches, Position
<1> QED BY <1>1, <1>2, <1>3, <1>4 DEF MonitoringInv

(* The other ticks are as they were, while no row disappears. *)
LEMMA OthersStand ==
  ASSUME MonitoringInv, NEW w \in Workers, NEW t, NEW d,
         tick' = [tick EXCEPT ![w] = t], grounds' = [grounds EXCEPT ![w] = d],
         failed \subseteq failed' \cup {w},
         \A f \in Rows : alerts'[f] # None
  PROVE  /\ \A v \in Workers \ {w} : TickInv(v)'
         /\ \A f \in Fingerprints : Pending(f)' \subseteq Pending(f) \cup {w}
         /\ tick'[w] = t /\ grounds'[w] = d
<1>1. /\ \A v \in Workers \ {w} : tick'[v] = tick[v] /\ grounds'[v] = grounds[v]
      /\ tick'[w] = t /\ grounds'[w] = d
  BY DEF MonitoringInv, TypeOK
<1>2. \A v \in Workers \ {w} : TickInv(v)'
  <2> SUFFICES ASSUME NEW v \in Workers \ {w}
               PROVE  TickInv(v)'
    OBVIOUS
  <2>1. TickInv(v)
    BY DEF MonitoringInv
  <2>2. v \notin failed' => v \notin failed
    OBVIOUS
  <2>3. \A g \in grounds[v] : g[1] \in Fingerprints
    BY DEF MonitoringInv, TypeOK
  <2>4. \A f \in Fingerprints : alerts[f] # None => alerts'[f] # None
    BY DEF Rows
  <2> QED BY <1>1, <2>1, <2>2, <2>3, <2>4 DEF TickInv
<1>3. \A f \in Fingerprints : Pending(f)' \subseteq Pending(f) \cup {w}
  BY <1>1 DEF Pending
<1> QED BY <1>1, <1>2, <1>3

(* The version of a row is a number, 0 if there is no row. *)
LEMMA VersionIsNat ==
  ASSUME TypeOK
  PROVE  \A f \in Fingerprints : Version(f) \in Nat
<1>1. \A f \in Rows : alerts[f] \in Alerts
  BY RowFacts
<1>2. \A f \in Rows : alerts[f].version \in Nat
  BY <1>1 DEF Alerts
<1> QED BY <1>2 DEF Version, Rows

(* A count that misses states is a lower bound of the backlog. *)
LEMMA CountJobsKeeps ==
  ASSUME MonitoringInv, NEW w \in Workers, CountJobs(w)
  PROVE  MonitoringInv'
<1> DEFINE n(read) == Cardinality(InState(read))
<1>1. PICK read \in SUBSET CountedAsBacklog :
        /\ IF read = CountedAsBacklog THEN Works ELSE Fails(w)
        /\ tick' = [tick EXCEPT ![w] = [pc |-> "ages", backlog |-> n(read), todo |-> {}]]
  BY DEF CountJobs
<1>2. /\ tick[w].pc = "idle" /\ ticks < MaxTicks /\ ticks' = ticks + 1
      /\ due' = [due EXCEPT ![w] = DueBacklog] /\ grounds' = [grounds EXCEPT ![w] = DueBacklog]
      /\ UNCHANGED <<alerts, unfounded>> /\ Loop
  BY DEF CountJobs
<1>3. n(read) \in Nat /\ n(Waiting) \in Nat /\ n(read) <= n(Waiting)
  <2>1. InState(read) \subseteq InState(Waiting) /\ InState(Waiting) \subseteq Jobs
    BY DEF InState, Waiting, CountedAsBacklog
  <2>2. IsFiniteSet(InState(read)) /\ IsFiniteSet(InState(Waiting))
    BY <2>1, FS_Subset, FiniteAssumption
  <2> QED BY <2>1, <2>2, FS_Subset, FS_CardinalityType
<1>4. /\ failed' \subseteq Workers /\ faults' \in 0..MaxFaults /\ failed \subseteq failed'
      /\ w \notin failed' => read = CountedAsBacklog
  <2>1. CASE read = CountedAsBacklog
    BY <1>1, <2>1 DEF Works, MonitoringInv, TypeOK
  <2>2. CASE read # CountedAsBacklog
    <3>1. faults < MaxFaults /\ faults' = faults + 1 /\ failed' = failed \cup {w}
      BY <1>1, <2>2 DEF Fails, Fault
    <3> QED BY <3>1, MonitoringAssumption DEF MonitoringInv, TypeOK
  <2> QED BY <2>1, <2>2
<1> DEFINE N == n(read)
<1> DEFINE M == n(Waiting)
<1> HIDE DEF n
<1>5. DueBacklog = (IF M >= Warning THEN {<<Backlog, "warning">>} ELSE {})
                     \cup (IF M >= Critical THEN {<<Backlog, "critical">>} ELSE {})
  BY DEF DueBacklog, n
<1>6. DueBacklog \in SUBSET (Fingerprints \X Severities)
  BY <1>5 DEF Fingerprints, Severities
<1>7. /\ \A v \in Workers \ {w} : TickInv(v)'
      /\ \A f \in Fingerprints : Pending(f)' \subseteq Pending(f) \cup {w}
      /\ tick'[w] = [pc |-> "ages", backlog |-> N, todo |-> {}] /\ grounds'[w] = DueBacklog
  <2>1. \A f \in Rows : alerts'[f] # None
    BY <1>2 DEF Rows
  <2>2. failed \subseteq failed' \cup {w}
    BY <1>4
  <2> HIDE DEF N
  <2>3. tick' = [tick EXCEPT ![w] = [pc |-> "ages", backlog |-> N, todo |-> {}]]
    BY <1>1 DEF N
  <2> QED BY <1>2, <2>1, <2>2, <2>3, OthersStand
<1>8. TickInv(w)'
  <2>1. N \in Nat /\ M \in Nat /\ N <= M /\ Warning \in Nat /\ Critical \in Nat /\ Critical > Warning
    BY <1>3, MonitoringAssumption
  <2>2. w \notin failed' => N = M
    BY <1>4 DEF CountedAsBacklog, Waiting
  <2> HIDE DEF N, M
  <2>3. /\ N >= Warning => <<Backlog, "warning">> \in DueBacklog
        /\ N >= Critical => <<Backlog, "critical">> \in DueBacklog
    BY <1>5, <2>1
  <2>4. w \notin failed' => \A d \in DueBacklog : d[1] = Backlog /\ N >= Warning
    BY <1>5, <2>1, <2>2
  <2> QED BY <1>7, <2>3, <2>4 DEF TickInv
<1>9. ticks' \in 0..MaxTicks /\ ticks <= ticks' /\ ticks \in Nat /\ acks \in Nat
  BY <1>2, MonitoringAssumption DEF MonitoringInv, TypeOK
<1>10. \A f \in Fingerprints : VersionInv(f)'
  <2> SUFFICES ASSUME NEW f \in Fingerprints
               PROVE  VersionInv(f)'
    OBVIOUS
  <2>1. VersionInv(f) /\ Version(f) \in Nat
    BY VersionIsNat DEF MonitoringInv
  <2>2. Version(f)' = Version(f) /\ acks' = acks
    BY <1>2 DEF Version, Loop
  <2>3. /\ Cardinality(Pending(f)') <= Cardinality(Pending(f)) + 1
        /\ Cardinality(Pending(f)) \in Nat /\ Cardinality(Pending(f)') \in Nat
    BY <1>7, PendingCounts
  <2> QED BY <1>2, <1>9, <2>1, <2>2, <2>3 DEF VersionInv
<1>11. tick' \in [Workers -> [pc : {"idle", "ages", "upsert"}, backlog : Nat,
                            todo : SUBSET [fingerprint : Fingerprints, severity : Severities, description : Nat]]]
  <2>1. N \in Nat
    BY <1>3
  <2>2. tick' = [tick EXCEPT ![w] = [pc |-> "ages", backlog |-> N, todo |-> {}]]
    BY <1>1
  <2> HIDE DEF N
  <2> QED BY <2>1, <2>2 DEF MonitoringInv, TypeOK
<1>12. {due', grounds'} \subseteq [Workers -> SUBSET (Fingerprints \X Severities)]
  BY <1>2, <1>6 DEF MonitoringInv, TypeOK
<1>13. \A v \in Workers : TickInv(v)'
  BY <1>7, <1>8
<1>14. \A v \in Workers : DueInv(v)'
  <2> SUFFICES ASSUME NEW v \in Workers
               PROVE  DueInv(v)'
    OBVIOUS
  <2>1. due[v] \subseteq grounds[v]
    BY DEF MonitoringInv, DueInv
  <2>2. /\ due'[v] = IF v = w THEN DueBacklog ELSE due[v]
        /\ grounds'[v] = IF v = w THEN DueBacklog ELSE grounds[v]
    BY <1>2 DEF MonitoringInv, TypeOK
  <2> QED BY <2>1, <2>2 DEF DueInv
<1> QED BY <1>2, <1>4, <1>9, <1>10, <1>11, <1>12, <1>13, <1>14, LoopKeeps

(* A tick that is over, or lost with its worker, owes nothing. *)
LEMMA OverKeeps ==
  ASSUME MonitoringInv, NEW w \in Workers, Over(w), faults' \in 0..MaxFaults
  PROVE  MonitoringInv'
<1>1. /\ tick' = [tick EXCEPT ![w] = NoTick]
      /\ due' = [due EXCEPT ![w] = {}] /\ grounds' = [grounds EXCEPT ![w] = {}]
      /\ failed' = failed \ {w} /\ UNCHANGED <<alerts, ticks, unfounded>> /\ Loop
  BY DEF Over
<1>2. /\ \A v \in Workers \ {w} : TickInv(v)'
      /\ \A f \in Fingerprints : Pending(f)' \subseteq Pending(f) \cup {w}
      /\ tick'[w] = NoTick
  <2>1. \A f \in Rows : alerts'[f] # None
    BY <1>1 DEF Rows
  <2>2. failed \subseteq failed' \cup {w}
    BY <1>1
  <2> QED BY <1>1, <2>1, <2>2, OthersStand
<1>3. TickInv(w)'
  BY <1>2 DEF TickInv, NoTick
<1>4. \A f \in Fingerprints : VersionInv(f)'
  <2> SUFFICES ASSUME NEW f \in Fingerprints
               PROVE  VersionInv(f)'
    OBVIOUS
  <2>1. VersionInv(f) /\ Version(f) \in Nat
    BY VersionIsNat DEF MonitoringInv
  <2>2. Version(f)' = Version(f) /\ acks' = acks /\ ticks' = ticks
    BY <1>1 DEF Version, Loop
  <2>3. Pending(f)' \subseteq Pending(f)
    <3>1. w \notin Pending(f)'
      BY <1>2 DEF Pending, NoTick
    <3> QED BY <1>2, <3>1
  <2>4. /\ Cardinality(Pending(f)') <= Cardinality(Pending(f))
        /\ Cardinality(Pending(f)) \in Nat /\ Cardinality(Pending(f)') \in Nat
    BY <2>3, PendingCounts
  <2>5. ticks \in Nat /\ acks \in Nat
    BY DEF MonitoringInv, TypeOK
  <2> QED BY <2>1, <2>2, <2>4, <2>5 DEF VersionInv
<1>5. tick' \in [Workers -> [pc : {"idle", "ages", "upsert"}, backlog : Nat,
                            todo : SUBSET [fingerprint : Fingerprints, severity : Severities, description : Nat]]]
  <2>1. NoTick \in [pc : {"idle", "ages", "upsert"}, backlog : Nat,
                    todo : SUBSET [fingerprint : Fingerprints, severity : Severities, description : Nat]]
    BY DEF NoTick
  <2> QED BY <1>1, <2>1 DEF MonitoringInv, TypeOK
<1>6. {due', grounds'} \subseteq [Workers -> SUBSET (Fingerprints \X Severities)] /\ failed' \subseteq Workers
  BY <1>1 DEF MonitoringInv, TypeOK
<1>7. ticks' \in 0..MaxTicks /\ ticks <= ticks'
  BY <1>1 DEF MonitoringInv, TypeOK
<1>8. \A v \in Workers : TickInv(v)'
  BY <1>2, <1>3
<1>9. \A v \in Workers : DueInv(v)'
  <2> SUFFICES ASSUME NEW v \in Workers
               PROVE  DueInv(v)'
    OBVIOUS
  <2>1. due[v] \subseteq grounds[v]
    BY DEF MonitoringInv, DueInv
  <2>2. /\ due'[v] = IF v = w THEN {} ELSE due[v]
        /\ grounds'[v] = IF v = w THEN {} ELSE grounds[v]
    BY <1>1 DEF MonitoringInv, TypeOK
  <2> QED BY <2>1, <2>2 DEF DueInv
<1> QED BY <1>1, <1>4, <1>5, <1>6, <1>7, <1>8, <1>9, LoopKeeps

(* The age of a checkpoint is that of one of its running jobs, and no job   *)
(* there is older.                                                          *)
LEMMA AgeOfOldest ==
  ASSUME MonitoringInv, NEW c, \E j \in Measured : jobs[j].checkpoint = c
  PROVE  /\ StateAge(c) \in Nat
         /\ \E j \in Measured : jobs[j].checkpoint = c /\ StateAge(c) = now - jobs[j].started
         /\ \A j \in Measured : jobs[j].checkpoint = c => now - jobs[j].started <= StateAge(c)
<1> DEFINE ages == {now - jobs[j].started : j \in {j \in Measured : jobs[j].checkpoint = c}}
<1>1. \A j \in Measured : jobs[j].started \in Nat /\ jobs[j].started <= now /\ now \in Nat
  <2>1. \A j \in Measured : j \in Jobs /\ jobs[j].started # None
    BY DEF Measured, InState
  <2>2. now \in Nat /\ \A j \in Jobs : jobs[j].started \in 0..MaxTime \cup {None} /\ jobs[j].since \in 0..MaxTime
    BY DEF MonitoringInv, TypeOK
  <2>3. \A j \in Jobs : (jobs[j].started # None => jobs[j].started <= jobs[j].since) /\ jobs[j].since <= now
    BY DEF MonitoringInv, JobInv
  <2>4. \A j \in Measured : jobs[j].started \in Nat /\ jobs[j].since \in Nat
    BY <2>1, <2>2
  <2> QED BY <2>1, <2>2, <2>3, <2>4
<1>2. now \in Nat
  BY DEF MonitoringInv, TypeOK
<1>3. ages \subseteq 0..now /\ ages # {}
  <2>1. \A j \in Measured : now - jobs[j].started \in 0..now
    BY <1>1, <1>2
  <2> QED BY <2>1
<1>4. StateAge(c) = Max(ages)
  BY DEF StateAge
<1>5. \A j \in Measured : jobs[j].checkpoint = c => now - jobs[j].started \in ages
  OBVIOUS
<1>6. \A x \in ages : \E j \in Measured : jobs[j].checkpoint = c /\ x = now - jobs[j].started
  OBVIOUS
<1> HIDE DEF ages
<1>7. StateAge(c) \in ages /\ \A y \in ages : y <= StateAge(c)
  BY <1>2, <1>3, <1>4, Greatest
<1>8. StateAge(c) \in Nat
  <2>1. StateAge(c) \in 0..now
    BY <1>3, <1>7
  <2> QED BY <1>2, <2>1
<1>9. \E j \in Measured : jobs[j].checkpoint = c /\ StateAge(c) = now - jobs[j].started
  BY <1>6, <1>7
<1>10. \A j \in Measured : jobs[j].checkpoint = c => now - jobs[j].started <= StateAge(c)
  BY <1>5, <1>7
<1> QED BY <1>8, <1>9, <1>10

(* What is derived from the ages has its grounds, and all that has grounds  *)
(* is derived if every age was read.                                        *)
LEMMA MeasureAgesKeeps ==
  ASSUME MonitoringInv, NEW w \in Workers, MeasureAges(w)
  PROVE  MonitoringInv'
<1> DEFINE present == {jobs[j].checkpoint : j \in Measured}
<1> DEFINE b == tick[w].backlog
<1>1. PICK read \in SUBSET present :
        /\ IF read = present THEN Works ELSE Fails(w)
        /\ tick' = [tick EXCEPT ![w] = [pc |-> "upsert", backlog |-> 0,
                                        todo |-> DeriveBacklog(b) \cup DeriveStuck(read)]]
  BY DEF MeasureAges
<1> DEFINE todo == DeriveBacklog(b) \cup DeriveStuck(read)
<1>2. /\ tick[w].pc = "ages" /\ due' = [due EXCEPT ![w] = @ \cup DueStuck]
      /\ grounds' = [grounds EXCEPT ![w] = @ \cup LongClaimed]
      /\ UNCHANGED <<alerts, ticks, unfounded>> /\ Loop
  BY DEF MeasureAges
<1>3. /\ failed' \subseteq Workers /\ faults' \in 0..MaxFaults /\ failed \subseteq failed'
      /\ w \notin failed' => read = present /\ w \notin failed
  <2>1. CASE read = present
    BY <1>1, <2>1 DEF Works, MonitoringInv, TypeOK
  <2>2. CASE read # present
    <3>1. faults < MaxFaults /\ faults' = faults + 1 /\ failed' = failed \cup {w}
      BY <1>1, <2>2 DEF Fails, Fault
    <3> QED BY <3>1, MonitoringAssumption DEF MonitoringInv, TypeOK
  <2> QED BY <2>1, <2>2
<1>4. b \in Nat /\ {Warning, Critical, Stuck} \subseteq Nat /\ Critical > Warning /\ Backlog \notin Checkpoints
  BY MonitoringAssumption DEF MonitoringInv, TypeOK, Backlog, Checkpoints
<1>5. \A j \in Measured : j \in Jobs /\ jobs[j].state = "RUNNING" /\ jobs[j].checkpoint \in Checkpoints
  BY DEF Measured, InState, MonitoringInv, TypeOK
<1>6. \A c \in present : /\ c \in Checkpoints /\ StateAge(c) \in Nat
                         /\ \E j \in Measured : jobs[j].checkpoint = c /\ StateAge(c) = now - jobs[j].started
                         /\ \A j \in Measured : jobs[j].checkpoint = c => now - jobs[j].started <= StateAge(c)
  BY <1>5, AgeOfOldest
<1>7. \A j \in InState({"RUNNING"}) : j \in Measured /\ jobs[j].checkpoint \in present
  BY DEF Measured, InState, MonitoringInv, JobInv
<1>8. \A a \in DeriveBacklog(b) : /\ a.fingerprint = Backlog /\ a.description = b /\ b >= Warning
                                  /\ \/ a = Alert(Backlog, "critical", b) /\ b >= Critical
                                     \/ a = Alert(Backlog, "warning", b) /\ b < Critical
  BY <1>4 DEF DeriveBacklog, Alert
<1>9. b >= Warning => \E a \in DeriveBacklog(b) : a.fingerprint = Backlog
  <2>1. CASE b >= Critical
    BY <1>4, <2>1 DEF DeriveBacklog, Alert
  <2>2. CASE b < Critical /\ b >= Warning
    BY <1>4, <2>2 DEF DeriveBacklog, Alert
  <2> QED BY <1>4, <2>1, <2>2
<1>10. \A a \in DeriveStuck(read) : \E c \in read : a = Alert(c, "warning", StateAge(c)) /\ StateAge(c) >= Stuck
  BY DEF DeriveStuck
<1>11. \A c \in read : StateAge(c) >= Stuck => Alert(c, "warning", StateAge(c)) \in DeriveStuck(read)
  BY DEF DeriveStuck
<1>12. \A c \in read : StateAge(c) >= Stuck => <<c, "warning">> \in LongClaimed
  <2> SUFFICES ASSUME NEW c \in read, StateAge(c) >= Stuck
               PROVE  <<c, "warning">> \in LongClaimed
    OBVIOUS
  <2>1. PICK j \in Measured : jobs[j].checkpoint = c /\ StateAge(c) = now - jobs[j].started
    BY <1>6
  <2>2. j \in InState({"RUNNING"})
    BY <2>1 DEF Measured
  <2> QED BY <2>1, <2>2 DEF LongClaimed
<1>13. \A d \in LongClaimed : \E j \in InState({"RUNNING"}) : d = <<jobs[j].checkpoint, "warning">> /\ now - jobs[j].started >= Stuck
  BY DEF LongClaimed
<1>14. LongClaimed \in SUBSET (Fingerprints \X Severities) /\ DueStuck \subseteq LongClaimed
  <2>1. LongClaimed \in SUBSET (Fingerprints \X Severities)
    BY <1>5, <1>7, <1>13 DEF Fingerprints, Severities
  <2>2. \A j \in InState({"RUNNING"}) : now - jobs[j].since >= Stuck => now - jobs[j].started >= Stuck
    <3> SUFFICES ASSUME NEW j \in InState({"RUNNING"}), now - jobs[j].since >= Stuck
                 PROVE  now - jobs[j].started >= Stuck
      OBVIOUS
    <3>1. j \in Jobs /\ jobs[j].started # None
      BY <1>7 DEF Measured, InState
    <3>2. jobs[j].started \in Nat /\ jobs[j].since \in Nat /\ now \in Nat
      BY <3>1 DEF MonitoringInv, TypeOK
    <3>3. jobs[j].started <= jobs[j].since
      BY <3>1 DEF MonitoringInv, JobInv
    <3> QED BY <1>4, <3>2, <3>3
  <2>3. DueStuck \subseteq LongClaimed
    BY <2>2 DEF DueStuck, LongClaimed
  <2> QED BY <2>1, <2>3
<1>15. \A a \in todo : /\ a \in [fingerprint : Fingerprints, severity : Severities, description : Nat]
                       /\ a.description >= Threshold(a.fingerprint)
                       /\ <<a.fingerprint, a.severity>> \in grounds[w] \cup LongClaimed
                       /\ \A e \in todo : a.fingerprint = e.fingerprint => a = e
  <2> SUFFICES ASSUME NEW a \in todo
               PROVE  /\ a \in [fingerprint : Fingerprints, severity : Severities, description : Nat]
                      /\ a.description >= Threshold(a.fingerprint)
                      /\ <<a.fingerprint, a.severity>> \in grounds[w] \cup LongClaimed
                      /\ \A e \in todo : a.fingerprint = e.fingerprint => a = e
    OBVIOUS
  <2>1. \A e \in DeriveStuck(read) : e.fingerprint \in read /\ e = Alert(e.fingerprint, "warning", StateAge(e.fingerprint))
                                     /\ StateAge(e.fingerprint) >= Stuck
    BY <1>10 DEF Alert
  <2>2. \A c \in read : c \in Checkpoints /\ c # Backlog /\ StateAge(c) \in Nat
    BY <1>4, <1>6
  <2>3. TickInv(w)
    BY DEF MonitoringInv
  <2>4. CASE a \in DeriveBacklog(b)
    <3>1. a \in [fingerprint : Fingerprints, severity : Severities, description : Nat]
      BY <1>4, <1>8, <2>4 DEF Alert, Fingerprints, Severities
    <3>2. a.description >= Threshold(a.fingerprint)
      BY <1>8, <2>4 DEF Threshold
    <3>3. <<a.fingerprint, a.severity>> \in grounds[w]
      BY <1>2, <1>8, <2>3, <2>4 DEF TickInv, Alert
    <3>4. \A e \in todo : a.fingerprint = e.fingerprint => a = e
      <4> SUFFICES ASSUME NEW e \in todo, a.fingerprint = e.fingerprint
                   PROVE  a = e
        OBVIOUS
      <4>1. e \in DeriveBacklog(b)
        BY <1>8, <2>1, <2>2, <2>4
      <4> QED BY <1>4, <1>8, <2>4, <4>1
    <3> QED BY <3>1, <3>2, <3>3, <3>4
  <2>5. CASE a \in DeriveStuck(read)
    <3>1. /\ a.fingerprint \in read /\ a = Alert(a.fingerprint, "warning", StateAge(a.fingerprint))
          /\ StateAge(a.fingerprint) >= Stuck /\ a.fingerprint \in Checkpoints /\ a.fingerprint # Backlog
          /\ StateAge(a.fingerprint) \in Nat
      BY <2>1, <2>2, <2>5
    <3>2. a.severity = "warning" /\ a.description = StateAge(a.fingerprint)
      BY <3>1 DEF Alert
    <3>3. a \in [fingerprint : Fingerprints, severity : Severities, description : Nat]
      BY <3>1 DEF Alert, Fingerprints, Severities
    <3>4. a.description >= Threshold(a.fingerprint)
      BY <3>1, <3>2 DEF Threshold
    <3>5. <<a.fingerprint, a.severity>> \in LongClaimed
      BY <1>12, <3>1, <3>2
    <3>6. \A e \in todo : a.fingerprint = e.fingerprint => a = e
      BY <1>8, <2>1, <3>1
    <3> QED BY <3>3, <3>4, <3>5, <3>6
  <2> QED BY <2>4, <2>5
<1>16. w \notin failed' => \A d \in grounds[w] \cup LongClaimed : \E a \in todo : a.fingerprint = d[1]
  <2> SUFFICES ASSUME w \notin failed', NEW d \in grounds[w] \cup LongClaimed
               PROVE  \E a \in todo : a.fingerprint = d[1]
    OBVIOUS
  <2>1. CASE d \in grounds[w]
    <3>1. d[1] = Backlog /\ b >= Warning
      BY <1>2, <1>3, <2>1 DEF MonitoringInv, TickInv
    <3> QED BY <1>9, <3>1
  <2>2. CASE d \in LongClaimed
    <3>1. PICK j \in InState({"RUNNING"}) : d = <<jobs[j].checkpoint, "warning">> /\ now - jobs[j].started >= Stuck
      BY <1>13, <2>2
    <3>2. /\ jobs[j].checkpoint \in present /\ j \in Measured
          /\ StateAge(jobs[j].checkpoint) \in Nat /\ now - jobs[j].started <= StateAge(jobs[j].checkpoint)
      BY <1>6, <1>7
    <3>3. jobs[j].started \in Nat /\ now \in Nat
      <4>1. j \in Jobs /\ jobs[j].started # None
        BY <3>2 DEF Measured, InState
      <4> QED BY <4>1 DEF MonitoringInv, TypeOK
    <3>4. StateAge(jobs[j].checkpoint) >= Stuck
      BY <1>4, <3>1, <3>2, <3>3
    <3>5. Alert(jobs[j].checkpoint, "warning", StateAge(jobs[j].checkpoint)) \in todo
      BY <1>3, <1>11, <3>2, <3>4
    <3> QED BY <3>1, <3>5 DEF Alert
  <2> QED BY <2>1, <2>2
<1>17. tick' = [tick EXCEPT ![w] = [pc |-> "upsert", backlog |-> 0, todo |-> todo]]
  BY <1>1
<1> HIDE DEF todo, present, b
<1>18. /\ \A v \in Workers \ {w} : TickInv(v)'
       /\ \A f \in Fingerprints : Pending(f)' \subseteq Pending(f) \cup {w}
       /\ tick'[w] = [pc |-> "upsert", backlog |-> 0, todo |-> todo] /\ grounds'[w] = grounds[w] \cup LongClaimed
  <2>1. \A f \in Rows : alerts'[f] # None
    BY <1>2 DEF Rows
  <2>2. failed \subseteq failed' \cup {w}
    BY <1>3
  <2>3. PICK t, d : t = [pc |-> "upsert", backlog |-> 0, todo |-> todo] /\ d = grounds[w] \cup LongClaimed
    OBVIOUS
  <2>4. tick' = [tick EXCEPT ![w] = t] /\ grounds' = [grounds EXCEPT ![w] = d]
    BY <1>2, <1>17, <2>3
  <2>5. /\ \A v \in Workers \ {w} : TickInv(v)'
        /\ \A f \in Fingerprints : Pending(f)' \subseteq Pending(f) \cup {w}
        /\ tick'[w] = t /\ grounds'[w] = d
    BY <2>1, <2>2, <2>4, OthersStand
  <2> QED BY <2>3, <2>5
<1>19. TickInv(w)'
  BY <1>15, <1>16, <1>18 DEF TickInv, Threshold
<1>20. \A f \in Fingerprints : VersionInv(f)'
  <2> SUFFICES ASSUME NEW f \in Fingerprints
               PROVE  VersionInv(f)'
    OBVIOUS
  <2>1. VersionInv(f) /\ Version(f) \in Nat
    BY VersionIsNat DEF MonitoringInv
  <2>2. Version(f)' = Version(f) /\ acks' = acks /\ ticks' = ticks
    BY <1>2 DEF Version, Loop
  <2>3. Pending(f)' \subseteq Pending(f)
    BY <1>2, <1>18 DEF Pending
  <2>4. /\ Cardinality(Pending(f)') <= Cardinality(Pending(f))
        /\ Cardinality(Pending(f)) \in Nat /\ Cardinality(Pending(f)') \in Nat
    BY <2>3, PendingCounts
  <2>5. ticks \in Nat /\ acks \in Nat
    BY DEF MonitoringInv, TypeOK
  <2> QED BY <2>1, <2>2, <2>4, <2>5 DEF VersionInv
<1>21. tick' \in [Workers -> [pc : {"idle", "ages", "upsert"}, backlog : Nat,
                            todo : SUBSET [fingerprint : Fingerprints, severity : Severities, description : Nat]]]
  <2>1. todo \subseteq [fingerprint : Fingerprints, severity : Severities, description : Nat]
    BY <1>15
  <2> QED BY <1>17, <2>1 DEF MonitoringInv, TypeOK
<1>22. {due', grounds'} \subseteq [Workers -> SUBSET (Fingerprints \X Severities)]
  BY <1>2, <1>14 DEF MonitoringInv, TypeOK
<1>23. ticks' \in 0..MaxTicks /\ ticks <= ticks'
  BY <1>2 DEF MonitoringInv, TypeOK
<1>24. \A v \in Workers : TickInv(v)'
  BY <1>18, <1>19
<1>25. \A v \in Workers : DueInv(v)'
  <2> SUFFICES ASSUME NEW v \in Workers
               PROVE  DueInv(v)'
    OBVIOUS
  <2>1. due[v] \subseteq grounds[v]
    BY DEF MonitoringInv, DueInv
  <2>2. /\ due'[v] = IF v = w THEN due[v] \cup DueStuck ELSE due[v]
        /\ grounds'[v] = IF v = w THEN grounds[v] \cup LongClaimed ELSE grounds[v]
    BY <1>2 DEF MonitoringInv, TypeOK
  <2> QED BY <1>14, <2>1, <2>2 DEF DueInv
<1> QED BY <1>2, <1>3, <1>20, <1>21, <1>22, <1>23, <1>24, <1>25, LoopKeeps

(* An upsert writes the version its tick owes: the row is made once, with an *)
(* id of its own, and later only described anew.                            *)
LEMMA UpsertKeeps ==
  ASSUME MonitoringInv, NEW w \in Workers, Upsert(w)
  PROVE  MonitoringInv'
<1>1. PICK a \in tick[w].todo :
        /\ tick' = [tick EXCEPT ![w].todo = @ \ {a}]
        /\ \/ /\ \E id \in NewIds \cup {0} :
                   IF alerts[a.fingerprint] = None
                   THEN /\ id # 0
                        /\ alerts' = [alerts EXCEPT ![a.fingerprint] = [id |-> id, created |-> now, status |-> "firing",
                               severity |-> a.severity, description |-> a.description, version |-> 1]]
                   ELSE /\ id = 0
                        /\ alerts' = [alerts EXCEPT ![a.fingerprint].description = a.description,
                                                    ![a.fingerprint].version = Bumped(@)]
              /\ unfounded' = IF alerts[a.fingerprint] = None /\ <<a.fingerprint, a.severity>> \notin grounds[w]
                              THEN unfounded \cup {a.fingerprint} ELSE unfounded
              /\ Works
           \/ Fails(w) /\ UNCHANGED <<alerts, unfounded>>
  BY DEF Upsert
<1> DEFINE f == a.fingerprint
<1>2. tick[w].pc = "upsert" /\ UNCHANGED <<ticks, due, grounds>> /\ Loop
  BY DEF Upsert, reads
<1>3. /\ TickInv(w)
      /\ a \in [fingerprint : Fingerprints, severity : Severities, description : Nat]
      /\ tick[w].todo \subseteq [fingerprint : Fingerprints, severity : Severities, description : Nat]
  BY DEF MonitoringInv, TypeOK
<1>4. /\ a.fingerprint \in Fingerprints /\ a.severity \in Severities /\ a.description \in Nat
      /\ a.description >= Threshold(a.fingerprint)
      /\ <<a.fingerprint, a.severity>> \in grounds[w]
      /\ \A b \in tick[w].todo : a.fingerprint = b.fingerprint => a = b
  BY <1>2, <1>3 DEF TickInv
<1>5. PICK t : t = [tick[w] EXCEPT !.todo = @ \ {a}]
  OBVIOUS
<1>6. /\ t.pc = "upsert" /\ t.todo = tick[w].todo \ {a}
      /\ t \in [pc : {"idle", "ages", "upsert"}, backlog : Nat,
                todo : SUBSET [fingerprint : Fingerprints, severity : Severities, description : Nat]]
      /\ tick' = [tick EXCEPT ![w] = t]
  BY <1>1, <1>2, <1>5 DEF MonitoringInv, TypeOK
<1>7. tick' \in [Workers -> [pc : {"idle", "ages", "upsert"}, backlog : Nat,
                            todo : SUBSET [fingerprint : Fingerprints, severity : Severities, description : Nat]]]
  BY <1>6 DEF MonitoringInv, TypeOK
<1>8. /\ grounds' = [grounds EXCEPT ![w] = grounds[w]] /\ grounds' = grounds
      /\ due' = due /\ \A v \in Workers : DueInv(v)'
  BY <1>2 DEF MonitoringInv, TypeOK, DueInv
<1>9. w \in Pending(f) /\ \A v \in Workers \ {w} : tick'[v] = tick[v]
  BY <1>2, <1>6 DEF Pending, MonitoringInv, TypeOK
<1>10. /\ Pending(f)' \subseteq Pending(f) \ {w}
       /\ \A g \in Fingerprints : Pending(g)' \subseteq Pending(g)
  <2>1. tick'[w] = t
    BY <1>6 DEF MonitoringInv, TypeOK
  <2>2. w \notin Pending(f)'
    BY <1>4, <1>6, <2>1 DEF Pending
  <2>3. \A g \in Fingerprints : w \in Pending(g)' => w \in Pending(g)
    BY <1>2, <1>6, <2>1 DEF Pending
  <2>4. \A g, v : v \in Pending(g)' /\ v # w => v \in Pending(g)
    BY <1>9 DEF Pending
  <2>5. \A g, v : v \in Pending(g)' => v \in Workers
    BY DEF Pending
  <2> QED BY <2>2, <2>3, <2>4, <2>5
<1>11. \A g \in Fingerprints : /\ VersionInv(g) /\ Version(g) \in Nat
                               /\ Cardinality(Pending(g)) \in Nat /\ Cardinality(Pending(g)') \in Nat
                               /\ Cardinality(Pending(g)') <= Cardinality(Pending(g))
  BY <1>10, VersionIsNat, PendingCounts DEF MonitoringInv
<1>12. Cardinality(Pending(f)') <= Cardinality(Pending(f)) - 1
  BY <1>9, <1>10, PendingCounts
<1>13. ticks \in Nat /\ acks \in Nat /\ ticks' = ticks /\ acks' = acks /\ now' = now /\ now \in 0..MaxTime
  BY <1>2 DEF Loop, MonitoringInv, TypeOK
<1>14. CASE Fails(w) /\ UNCHANGED <<alerts, unfounded>>
  <2>1. /\ failed' \subseteq Workers /\ faults' \in 0..MaxFaults /\ failed' = failed \cup {w}
    BY <1>14, MonitoringAssumption DEF Fails, Fault, MonitoringInv, TypeOK
  <2>2. /\ \A v \in Workers \ {w} : TickInv(v)'
        /\ tick'[w] = t /\ grounds'[w] = grounds[w]
    <3>1. \A g \in Rows : alerts'[g] # None
      BY <1>14 DEF Rows
    <3>2. failed \subseteq failed' \cup {w}
      BY <2>1
    <3>3. PICK d : d = grounds[w]
      OBVIOUS
    <3>4. grounds' = [grounds EXCEPT ![w] = d]
      BY <1>8, <3>3
    <3> QED BY <1>6, <3>1, <3>2, <3>3, <3>4, OthersStand
  <2>3. TickInv(w)'
    BY <1>2, <1>3, <1>6, <2>1, <2>2 DEF TickInv, Threshold
  <2>4. \A g \in Fingerprints : VersionInv(g)'
    <3>1. \A g \in Fingerprints : Version(g)' = Version(g)
      BY <1>14 DEF Version
    <3> QED BY <1>11, <1>13, <3>1 DEF VersionInv
  <2>5. {due', grounds'} \subseteq [Workers -> SUBSET (Fingerprints \X Severities)] /\ ticks' \in 0..MaxTicks /\ ticks <= ticks'
    BY <1>8, <1>13 DEF MonitoringInv, TypeOK
  <2>6. \A v \in Workers : TickInv(v)' /\ DueInv(v)'
    BY <1>8, <2>2, <2>3
  <2> QED BY <1>2, <1>7, <1>14, <2>1, <2>4, <2>5, <2>6, LoopKeeps
<1>15. CASE ~ (Fails(w) /\ UNCHANGED <<alerts, unfounded>>)
  <2>1. faults' = faults /\ failed' = failed /\ unfounded' = unfounded
    BY <1>1, <1>4, <1>15 DEF Works
  <2>2. PICK row : /\ alerts' = [alerts EXCEPT ![f] = row]
                   /\ row \in Alerts /\ row.created <= now /\ row.description = a.description
                   /\ row.version = Version(f) + 1
                   /\ \A g \in Rows \ {f} : alerts[g].id # row.id
                   /\ alerts[f] # None => /\ row.id = alerts[f].id /\ row.created = alerts[f].created
                                          /\ row.status = alerts[f].status
    <3>1. PICK id \in NewIds \cup {0} :
                   IF alerts[f] = None
                   THEN /\ id # 0
                        /\ alerts' = [alerts EXCEPT ![f] = [id |-> id, created |-> now, status |-> "firing",
                               severity |-> a.severity, description |-> a.description, version |-> 1]]
                   ELSE /\ id = 0
                        /\ alerts' = [alerts EXCEPT ![f].description = a.description,
                                                    ![f].version = Bumped(@)]
      BY <1>1, <1>15
    <3>2. CASE alerts[f] = None
      <4> DEFINE new == [id |-> id, created |-> now, status |-> "firing",
                         severity |-> a.severity, description |-> a.description, version |-> 1]
      <4>1. id \in 1..Cardinality(Fingerprints) /\ \A g \in Rows : alerts[g].id # id
        BY <3>1, <3>2 DEF NewIds
      <4>2. new \in Alerts
        BY <1>4, <1>13, <4>1 DEF Alerts, Statuses
      <4>3. new.id = id /\ new.created = now /\ new.description = a.description /\ new.version = 1
        OBVIOUS
      <4>4. alerts' = [alerts EXCEPT ![f] = new]
        BY <3>1, <3>2
      <4>5. new.created <= now /\ new.version = Version(f) + 1
        BY <1>13, <3>2, <4>3 DEF Version
      <4> HIDE DEF new
      <4> QED BY <3>2, <4>1, <4>2, <4>3, <4>4, <4>5
    <3>3. CASE alerts[f] # None
      <4> DEFINE new == [alerts[f] EXCEPT !.description = a.description, !.version = Bumped(@)]
      <4>1. f \in Rows /\ alerts[f] \in Alerts
        BY <1>4, <3>3 DEF Rows, MonitoringInv, TypeOK
      <4>2. alerts[f].version \in Nat
        BY <4>1 DEF Alerts
      <4>3. new \in Alerts /\ new.version = alerts[f].version + 1 /\ new.description = a.description
        <5>1. alerts[f].version + 1 \in Nat /\ a.description \in Nat
          BY <1>4, <4>2
        <5>2. new = [alerts[f] EXCEPT !.description = a.description, !.version = alerts[f].version + 1]
          BY DEF Bumped
        <5> HIDE DEF new, f
        <5>3. new \in Alerts
          BY <4>1, <5>1, <5>2 DEF Alerts
        <5>4. new.version = alerts[f].version + 1 /\ new.description = a.description
          BY <4>1, <5>2 DEF Alerts
        <5> QED BY <5>3, <5>4
      <4>4. new.id = alerts[f].id /\ new.created = alerts[f].created /\ new.status = alerts[f].status
        BY <4>1 DEF Alerts
      <4>5. alerts' = [alerts EXCEPT ![f] = new]
        BY <1>4, <3>1, <3>3, <4>1 DEF MonitoringInv, TypeOK, Alerts
      <4>6. alerts[f].created <= now /\ \A g \in Rows \ {f} : alerts[g].id # alerts[f].id
        BY <4>1 DEF MonitoringInv, TypeOK
      <4>7. new.version = Version(f) + 1
        BY <3>3, <4>3 DEF Version
      <4> HIDE DEF new
      <4> QED BY <4>3, <4>4, <4>5, <4>6, <4>7
    <3> QED BY <3>2, <3>3
  <2>3. /\ alerts'[f] = row /\ \A g \in Fingerprints \ {f} : alerts'[g] = alerts[g]
        /\ alerts' \in [Fingerprints -> Alerts \cup {None}] /\ row # None
    BY <1>4, <2>2, NoneAssumption DEF MonitoringInv, TypeOK
  <2>4. /\ Version(f)' = Version(f) + 1 /\ row.version = Version(f) + 1
        /\ \A g \in Fingerprints \ {f} : Version(g)' = Version(g)
    BY <2>2, <2>3 DEF Version
  <2>5. \A g \in Fingerprints : VersionInv(g)'
    <3>1. VersionInv(f)'
      BY <1>4, <1>11, <1>12, <1>13, <2>4 DEF VersionInv
    <3>2. \A g \in Fingerprints \ {f} : VersionInv(g)'
      BY <1>11, <1>13, <2>4 DEF VersionInv
    <3> QED BY <3>1, <3>2
  <2>6. Rows' = Rows \cup {f} /\ Rows' \subseteq Fingerprints
    BY <1>4, <2>3 DEF Rows
  <2>7. TypeOK'
    <3>1. \A g \in Rows' :
             /\ alerts'[g].created <= now
             /\ alerts'[g].description >= IF g = Backlog THEN Warning ELSE Stuck
             /\ alerts'[g].version <= 1 + ticks + acks
             /\ \A h \in Rows' \ {g} : alerts'[h].id # alerts'[g].id
      <4>1. /\ row.created <= now /\ row.description >= Threshold(f) /\ row.version <= 1 + ticks + acks
            /\ \A g \in Rows \ {f} : alerts[g].id # row.id
        BY <1>4, <1>11, <1>13, <2>2, <2>4 DEF VersionInv
      <4>2. \A g \in Rows :
               /\ alerts[g].created <= now /\ alerts[g].description >= Threshold(g)
               /\ alerts[g].version <= 1 + ticks + acks
               /\ \A h \in Rows \ {g} : alerts[h].id # alerts[g].id
        BY DEF MonitoringInv, TypeOK, Threshold
      <4> QED BY <2>3, <2>6, <4>1, <4>2 DEF Threshold
    <3>2. /\ now' \in 0..MaxTime /\ ticks' \in 0..MaxTicks /\ acks' \in 0..MaxAcks /\ faults' \in 0..MaxFaults
          /\ due' = due /\ grounds' = grounds /\ UNCHANGED <<jobs, console, misled>>
      BY <1>2, <1>8, <2>1 DEF Loop, MonitoringInv, TypeOK
    <3> QED BY <1>7, <1>13, <2>1, <2>3, <3>1, <3>2 DEF MonitoringInv, TypeOK
  <2>8. \A g \in Rows : /\ alerts'[g] # None
                        /\ alerts'[g].id = alerts[g].id /\ alerts'[g].created = alerts[g].created
                        /\ alerts'[g].status = alerts[g].status
                        /\ alerts'[g].version >= alerts[g].version
                        /\ alerts'[g].version = alerts[g].version => Shown(alerts'[g]) = Shown(alerts[g])
    <3>1. \A g \in Rows \ {f} : alerts'[g] = alerts[g] /\ g \in Fingerprints /\ alerts[g].version \in Nat
      BY <2>3, RowFacts DEF MonitoringInv, Alerts
    <3>2. f \in Rows => row.version = alerts[f].version + 1 /\ alerts[f].version \in Nat
      BY <1>11, <2>4 DEF Version, Rows
    <3>3. \A g \in Rows : alerts[g] # None
      BY DEF Rows
    <3>4. CASE f \notin Rows
      BY <3>1, <3>3, <3>4
    <3>5. CASE f \in Rows
      <4>1. \A g \in Rows \ {f} : alerts'[g].version >= alerts[g].version
        BY <3>1
      <4>2. alerts'[f].version >= alerts[f].version /\ alerts'[f].version # alerts[f].version
        BY <2>3, <3>2, <3>5
      <4> QED BY <2>2, <2>3, <3>1, <3>3, <3>5, <4>1, <4>2
    <3> QED BY <3>4, <3>5
  <2>9. \A o \in Operators : RenderedInv(o)' /\ WalkInv(o)'
    BY <1>2, <2>7, <2>8, ConsolesStand DEF Loop
  <2>10. /\ \A v \in Workers \ {w} : TickInv(v)'
         /\ tick'[w] = t /\ grounds'[w] = grounds[w]
    <3>1. \A g \in Rows : alerts'[g] # None
      BY <2>8
    <3>2. failed \subseteq failed' \cup {w}
      BY <2>1
    <3>3. PICK d : d = grounds[w]
      OBVIOUS
    <3>4. grounds' = [grounds EXCEPT ![w] = d]
      BY <1>8, <3>3
    <3> QED BY <1>6, <3>1, <3>2, <3>3, <3>4, OthersStand
  <2>11. TickInv(w)'
    <3>1. \A b \in t.todo :
            /\ <<b.fingerprint, b.severity>> \in grounds[w]
            /\ b.description >= Threshold(b.fingerprint)
            /\ \A c \in t.todo : b.fingerprint = c.fingerprint => b = c
      BY <1>2, <1>3, <1>6 DEF TickInv
    <3>2. w \notin failed => \A d \in grounds[w] : alerts'[d[1]] # None \/ \E b \in t.todo : b.fingerprint = d[1]
      <4> SUFFICES ASSUME w \notin failed, NEW d \in grounds[w]
                   PROVE  alerts'[d[1]] # None \/ \E b \in t.todo : b.fingerprint = d[1]
        OBVIOUS
      <4>1. d[1] \in Fingerprints
        BY DEF MonitoringInv, TypeOK
      <4>2. alerts[d[1]] # None \/ \E b \in tick[w].todo : b.fingerprint = d[1]
        BY <1>2, <1>3 DEF TickInv
      <4>3. CASE d[1] = f
        BY <2>3, <4>3
      <4>4. CASE d[1] # f
        BY <1>6, <2>3, <4>1, <4>2, <4>4
      <4> QED BY <4>3, <4>4
    <3> QED BY <1>6, <2>1, <2>10, <3>1, <3>2 DEF TickInv, Threshold
  <2>12. \A j \in Jobs : JobInv(j)'
    BY <1>2 DEF Loop, MonitoringInv, JobInv
  <2>13. \A v \in Workers : TickInv(v)' /\ DueInv(v)'
    BY <1>8, <2>10, <2>11
  <2>14. unfounded' = {} /\ misled' = {}
    BY <1>2, <2>1 DEF Loop, MonitoringInv
  <2> QED BY <2>5, <2>7, <2>9, <2>12, <2>13, <2>14 DEF MonitoringInv
<1> QED BY <1>14, <1>15
-----------------------------------------------------------------------------
(* A page adds rows that come after the cursor and before the new one, each *)
(* once, and leaves what matched and has not been shown after the new one.  *)
LEMMA PageKeeps ==
  ASSUME MonitoringInv, NEW o \in Operators, NEW filter \in Filters, Page(o, filter), Reads,
         console[o].at = "start" \/ (console[o].at = "next" /\ filter = console[o].filter)
  PROVE  MonitoringInv'
<1> DEFINE after == console[o].after
<1> DEFINE found == {f \in Rows : Matches(f, filter) /\ (after # None => Before(Position(f), after))}
<1> DEFINE n == Cardinality(found)
<1>1. PICK items \in Sorted(found) :
        LET page == IF n > Limit THEN SubSeq(items, 1, Limit) ELSE items
        IN console' = [console EXCEPT ![o] =
             [filter   |-> filter,
              after    |-> IF n > Limit THEN Position(page[Limit]) ELSE after,
              rendered |-> @.rendered \o [k \in DOMAIN page |-> [fingerprint |-> page[k], row |-> Shown(alerts[page[k]])]],
              steady   |-> IF after = None THEN {f \in Rows : Matches(f, filter)} ELSE @.steady,
              at       |-> IF n > Limit THEN "next" ELSE "end"]]
  BY DEF Page
<1>2. UNCHANGED <<now, jobs, alerts, tick, ticks, acks, faults, due, grounds, failed, unfounded, misled>>
  BY DEF Reads, history, reads
<1>3. /\ n \in Nat /\ items \in [1..n -> found]
      /\ \A j, k \in 1..n : items[j] = items[k] => j = k
      /\ \A f \in found : \E k \in 1..n : items[k] = f
      /\ \A j, k \in 1..n : j < k => Before(Position(items[k]), Position(items[j]))
  <2>1. found \subseteq Rows
    OBVIOUS
  <2> HIDE DEF found
  <2> QED BY <2>1, SortedListing DEF MonitoringInv
<1>4. /\ console[o] \in [filter : Filters \cup {None}, after : Positions \cup {None}, rendered : Seq(Items),
                         steady : SUBSET Fingerprints, at : {"start", "next", "end"}]
      /\ RenderedInv(o) /\ WalkInv(o) /\ Limit \in Nat \ {0}
  BY MonitoringAssumption DEF MonitoringInv, TypeOK, Items
<1>5. \A f \in found : /\ f \in Rows /\ f \in Fingerprints /\ Matches(f, filter)
                       /\ after # None => Before(Position(f), after)
                       /\ Position(f) \in Positions /\ Position(f) # None
  BY RowFacts, NoneAssumption DEF MonitoringInv
<1>6. \A f \in Rows : Matches(f, filter) /\ (after # None => Before(Position(f), after)) => f \in found
  OBVIOUS
<1> HIDE DEF found, n
<1> DEFINE m == IF n > Limit THEN Limit ELSE n
<1>7. /\ m \in Nat /\ m <= n /\ (n > Limit => m = Limit) /\ (~(n > Limit) => m = n)
      /\ \A k \in 1..m : k \in 1..n
  BY <1>3, <1>4
<1> DEFINE page == IF n > Limit THEN SubSeq(items, 1, Limit) ELSE items
<1> DEFINE shown == [k \in DOMAIN page |-> [fingerprint |-> page[k], row |-> Shown(alerts[page[k]])]]
<1> DEFINE old == console[o].rendered
<1> DEFINE new == [filter   |-> filter,
                   after    |-> IF n > Limit THEN Position(page[Limit]) ELSE after,
                   rendered |-> old \o shown,
                   steady   |-> IF after = None THEN {f \in Rows : Matches(f, filter)} ELSE console[o].steady,
                   at       |-> IF n > Limit THEN "next" ELSE "end"]
<1>8. console' = [console EXCEPT ![o] = new]
  BY <1>1
<1> HIDE DEF m
<1>9. DOMAIN page = 1..m /\ \A k \in 1..m : page[k] = items[k]
  <2>1. DOMAIN items = 1..n
    BY <1>3
  <2>2. CASE n > Limit
    <3>1. Limit \in Nat /\ 1 \in Int
      BY <1>4
    <3>2. page = SubSeq(items, 1, Limit)
      BY <2>2
    <3>3. items \in Seq(found)
      BY <1>3
    <3> HIDE DEF page
    <3>4. DOMAIN SubSeq(items, 1, Limit) = 1..Limit /\ \A k \in 1..Limit : SubSeq(items, 1, Limit)[k] = items[k]
      BY <1>3, <1>7, <2>2, <3>1, <3>3
    <3> QED BY <1>7, <2>2, <3>2, <3>4
  <2>3. CASE ~(n > Limit)
    <3>1. page = items
      BY <2>3
    <3> HIDE DEF page
    <3> QED BY <1>7, <2>1, <2>3, <3>1
  <2> QED BY <2>2, <2>3
<1> HIDE DEF page
<1>10. \A f \in Rows : /\ Shown(alerts[f]) \in [status : Statuses, description : Nat, version : Nat]
                       /\ Shown(alerts[f]).version = alerts[f].version /\ alerts[f].version \in Nat
  <2>1. \A f \in Rows : alerts[f] \in Alerts
    BY RowFacts DEF MonitoringInv
  <2> QED BY <2>1 DEF Alerts, Shown
<1>11. /\ DOMAIN shown = 1..m
       /\ \A k \in 1..m : /\ shown[k] = [fingerprint |-> items[k], row |-> Shown(alerts[items[k]])]
                          /\ shown[k].fingerprint = items[k] /\ shown[k].row = Shown(alerts[items[k]])
                          /\ items[k] \in found
  BY <1>3, <1>7, <1>9
<1>12. shown \in Seq(Items)
  <2>1. \A k \in 1..m : shown[k] \in Items
    <3>1. \A f \in Rows : f \in Fingerprints => [fingerprint |-> f, row |-> Shown(alerts[f])] \in Items
      BY <1>10 DEF Items
    <3> HIDE DEF shown
    <3> QED BY <1>5, <1>11, <3>1
  <2>2. shown = [k \in 1..m |-> shown[k]]
    BY <1>11
  <2> HIDE DEF shown
  <2>3. shown \in [1..m -> Items]
    BY <2>1, <2>2
  <2> QED BY <1>7, <2>3
<1>13. old \in Seq(Items)
  BY <1>4
<1>14. PICK len \in Nat : len = Len(old) /\ DOMAIN old = 1..len
  BY <1>13
<1> HIDE DEF shown, old
<1> DEFINE all == old \o shown
<1>15. /\ all \in Seq(Items) /\ DOMAIN all = 1..(len + m)
       /\ \A k \in 1..len : all[k] = old[k]
       /\ \A k \in 1..m : all[len + k] = shown[k] /\ len + k \in DOMAIN all
  <2>1. Len(shown) = m
    BY <1>7, <1>11, <1>12
  <2> QED BY <1>7, <1>12, <1>13, <1>14, <2>1
<1>16. \A k \in DOMAIN all : \/ k \in 1..len
                             \/ \E i \in 1..m : k = len + i
  <2> SUFFICES ASSUME NEW k \in DOMAIN all, k \notin 1..len
               PROVE  \E i \in 1..m : k = len + i
    OBVIOUS
  <2>1. k \in 1..(len + m)
    BY <1>15
  <2> HIDE DEF all
  <2>2. k - len \in 1..m /\ k = len + (k - len)
    BY <1>7, <2>1
  <2> QED BY <2>2
<1> HIDE DEF all
<1>17. \A p \in Operators \ {o} : console'[p] = console[p]
  BY <1>8 DEF MonitoringInv, TypeOK
<1>18. /\ console'[o].filter = filter
       /\ console'[o].after = IF n > Limit THEN Position(items[Limit]) ELSE after
       /\ console'[o].rendered = all
       /\ console'[o].steady = IF after = None THEN {f \in Rows : Matches(f, filter)} ELSE console[o].steady
       /\ console'[o].at = IF n > Limit THEN "next" ELSE "end"
  <2>1. console'[o] = new
    BY <1>8 DEF MonitoringInv, TypeOK
  <2>2. n > Limit => page[Limit] = items[Limit]
    <3>1. n > Limit => Limit \in 1..m
      BY <1>4, <1>7
    <3> QED BY <1>9, <3>1
  <2> QED BY <2>1, <2>2 DEF all
<1>19. \A k \in 1..len : old[k] \in Items /\ old[k].fingerprint \in Rows /\ Position(old[k].fingerprint) \in Positions
  <2>1. \A k \in 1..len : old[k] \in Items
    BY <1>13, <1>14
  <2>2. \A k \in 1..len : old[k].fingerprint \in Fingerprints
    BY <2>1 DEF Items
  <2>3. \A k \in 1..len : alerts[old[k].fingerprint] # None
    BY <1>4, <1>14 DEF RenderedInv, old
  <2> QED BY <2>1, <2>2, <2>3, RowFacts DEF Rows, MonitoringInv
<1>20. /\ console[o].at = "start" => after = None /\ len = 0 /\ console[o].steady = {}
       /\ console[o].at = "next" => /\ after # None /\ after \in Positions
                                    /\ \A k \in 1..len : ~Before(Position(old[k].fingerprint), after)
       /\ \A j, k \in 1..len : old[j].fingerprint = old[k].fingerprint => j = k
       /\ \A f \in console[o].steady :
            /\ Matches(f, console[o].filter)
            /\ \/ \E k \in 1..len : old[k].fingerprint = f
               \/ console[o].at = "next" /\ Before(Position(f), after)
  <2>1. console[o].at = "start" => after = None /\ len = 0 /\ console[o].steady = {}
    BY <1>4, <1>14 DEF WalkInv, old
  <2>2. console[o].at = "next" => after # None /\ \A k \in 1..len : ~Before(Position(old[k].fingerprint), after)
    BY <1>4, <1>14 DEF WalkInv, old
  <2>3. after # None => after \in Positions
    BY <1>4
  <2>4. \A j, k \in 1..len : old[j].fingerprint = old[k].fingerprint => j = k
    BY <1>4, <1>14 DEF WalkInv, old
  <2>5. \A f \in console[o].steady :
            /\ Matches(f, console[o].filter)
            /\ \/ \E k \in 1..len : old[k].fingerprint = f
               \/ console[o].at = "next" /\ Before(Position(f), after)
    BY <1>4, <1>14 DEF WalkInv, old
  <2> QED BY <2>1, <2>2, <2>3, <2>4, <2>5
<1>21. \A k \in 1..n : items[k] \in found /\ items[k] \in Rows /\ Position(items[k]) \in Positions
  BY <1>3, <1>5
<1> DEFINE cut == Position(items[Limit])
<1>22. n > Limit => /\ Limit \in 1..n /\ cut \in Positions /\ cut # None
                    /\ \A k \in 1..m : ~Before(Position(items[k]), cut)
                    /\ \A k \in 1..n : k \in 1..m \/ Before(Position(items[k]), cut)
                    /\ \A k \in 1..len : ~Before(Position(old[k].fingerprint), cut)
  <2> SUFFICES ASSUME n > Limit
               PROVE  /\ Limit \in 1..n /\ cut \in Positions /\ cut # None
                      /\ \A k \in 1..m : ~Before(Position(items[k]), cut)
                      /\ \A k \in 1..n : k \in 1..m \/ Before(Position(items[k]), cut)
                      /\ \A k \in 1..len : ~Before(Position(old[k].fingerprint), cut)
    OBVIOUS
  <2>1. Limit \in 1..n /\ m = Limit
    BY <1>3, <1>4, <1>7
  <2>2. cut \in Positions /\ cut # None /\ (after # None => Before(cut, after))
    BY <1>5, <1>21, <2>1
  <2>3. \A k \in 1..m : ~Before(Position(items[k]), cut)
    <3> SUFFICES ASSUME NEW k \in 1..m
                 PROVE  ~Before(Position(items[k]), cut)
      OBVIOUS
    <3>1. k \in 1..n /\ (k = Limit \/ k < Limit)
      BY <1>7, <2>1
    <3>2. CASE k = Limit
      BY <2>2, <3>2, CursorOrder
    <3>3. CASE k < Limit
      <4>1. Before(cut, Position(items[k]))
        BY <1>3, <2>1, <3>1, <3>3
      <4>2. Position(items[k]) \in Positions
        BY <1>21, <3>1
      <4> HIDE DEF cut
      <4> QED BY <2>2, <4>1, <4>2, CursorOrder
    <3> QED BY <3>1, <3>2, <3>3
  <2>4. \A k \in 1..n : k \in 1..m \/ Before(Position(items[k]), cut)
    <3> SUFFICES ASSUME NEW k \in 1..n, k \notin 1..m
                 PROVE  Before(Position(items[k]), cut)
      OBVIOUS
    <3>1. Limit < k
      BY <1>7, <2>1
    <3> QED BY <1>3, <2>1, <3>1
  <2>5. \A k \in 1..len : ~Before(Position(old[k].fingerprint), cut)
    <3> SUFFICES ASSUME NEW k \in 1..len
                 PROVE  ~Before(Position(old[k].fingerprint), cut)
      OBVIOUS
    <3>1. console[o].at = "next"
      BY <1>14, <1>20
    <3>2. after # None /\ after \in Positions /\ ~Before(Position(old[k].fingerprint), after)
      BY <1>20, <3>1
    <3>3. Position(old[k].fingerprint) \in Positions
      BY <1>19
    <3> HIDE DEF cut, after
    <3> QED BY <2>2, <3>2, <3>3, CursorOrder
  <2> QED BY <2>1, <2>2, <2>3, <2>4, <2>5
<1> HIDE DEF cut
<1>23. \A k \in 1..len : old[k].fingerprint \notin found
  <2> SUFFICES ASSUME NEW k \in 1..len
               PROVE  old[k].fingerprint \notin found
    OBVIOUS
  <2>1. console[o].at = "next"
    BY <1>14, <1>20
  <2> QED BY <1>5, <1>20, <2>1
<1>24. \A k \in DOMAIN all : \/ k \in 1..len /\ all[k].fingerprint = old[k].fingerprint
                             \/ \E i \in 1..m : k = len + i /\ all[k].fingerprint = items[i]
  BY <1>11, <1>15, <1>16
<1>25. \A j, k \in DOMAIN all : all[j].fingerprint = all[k].fingerprint => j = k
  <2> SUFFICES ASSUME NEW j \in DOMAIN all, NEW k \in DOMAIN all, all[j].fingerprint = all[k].fingerprint
               PROVE  j = k
    OBVIOUS
  <2>1. CASE j \in 1..len /\ all[j].fingerprint = old[j].fingerprint
    <3>1. all[k].fingerprint \notin found
      BY <1>23, <2>1
    <3>2. k \in 1..len /\ all[k].fingerprint = old[k].fingerprint
      BY <1>7, <1>21, <1>24, <3>1
    <3> QED BY <1>20, <2>1, <3>2
  <2>2. CASE \E i \in 1..m : j = len + i /\ all[j].fingerprint = items[i]
    <3>1. all[k].fingerprint \in found
      BY <1>7, <1>21, <2>2
    <3>2. \E i \in 1..m : k = len + i /\ all[k].fingerprint = items[i]
      BY <1>23, <1>24, <3>1
    <3> QED BY <1>3, <1>7, <2>2, <3>2
  <2> QED BY <1>24, <2>1, <2>2
<1>26. \A f \in found : (\E k \in DOMAIN all : all[k].fingerprint = f) \/ (n > Limit /\ Before(Position(f), cut))
  <2> SUFFICES ASSUME NEW f \in found
               PROVE  (\E k \in DOMAIN all : all[k].fingerprint = f) \/ (n > Limit /\ Before(Position(f), cut))
    OBVIOUS
  <2>1. PICK k \in 1..n : items[k] = f
    BY <1>3
  <2>2. k \in 1..m => len + k \in DOMAIN all /\ all[len + k].fingerprint = f
    BY <1>11, <1>15, <2>1
  <2>3. k \notin 1..m => n > Limit
    BY <1>7, <2>1
  <2> QED BY <1>22, <2>1, <2>2, <2>3
<1>27. \A f \in console'[o].steady : /\ Matches(f, filter)
                                     /\ \/ \E k \in DOMAIN all : all[k].fingerprint = f
                                        \/ n > Limit /\ Before(Position(f), cut)
  <2> SUFFICES ASSUME NEW f \in console'[o].steady
               PROVE  /\ Matches(f, filter)
                      /\ \/ \E k \in DOMAIN all : all[k].fingerprint = f
                         \/ n > Limit /\ Before(Position(f), cut)
    OBVIOUS
  <2>1. CASE after = None
    <3>1. f \in Rows /\ Matches(f, filter)
      BY <1>18, <2>1
    <3> QED BY <1>6, <1>26, <2>1, <3>1
  <2>2. CASE after # None
    <3>1. console[o].at = "next" /\ filter = console[o].filter /\ f \in console[o].steady
      BY <1>18, <1>20, <2>2
    <3>2. Matches(f, filter) /\ f \in Rows
      BY <1>4, <1>20, <3>1 DEF Matches, Rows
    <3>3. CASE \E k \in 1..len : old[k].fingerprint = f
      <4>1. \A k \in 1..len : k \in DOMAIN all /\ all[k] = old[k]
        BY <1>7, <1>15
      <4> QED BY <3>2, <3>3, <4>1
    <3>4. CASE Before(Position(f), after)
      BY <1>6, <1>26, <3>2, <3>4
    <3> QED BY <1>20, <3>1, <3>3, <3>4
  <2> QED BY <2>1, <2>2
<1>28. \A f : Position(f)' = Position(f) /\ Matches(f, filter)' = Matches(f, filter)
  BY <1>2 DEF Position, Matches
<1>29. WalkInv(o)'
  <2>1. /\ console'[o].at # "start" /\ console'[o].filter \in Filters
        /\ console'[o].at = "next" => console'[o].after = cut /\ n > Limit
    BY <1>18 DEF cut
  <2>2. n > Limit => console'[o].at = "next" /\ console'[o].after = cut
    BY <1>18 DEF cut
  <2>3. n > Limit => \A k \in DOMAIN all : ~Before(Position(all[k].fingerprint), cut)
    BY <1>22, <1>24
  <2>4. \A f \in console'[o].steady : /\ Matches(f, console[o].filter)'
                                      /\ \/ \E k \in DOMAIN all : all[k].fingerprint = f
                                         \/ console'[o].at = "next" /\ Before(Position(f), console'[o].after)
    BY <1>18, <1>27, <1>28, <2>2
  <2> QED BY <1>18, <1>22, <1>25, <1>28, <2>1, <2>3, <2>4 DEF WalkInv
<1>30. RenderedInv(o)'
  <2> SUFFICES ASSUME NEW k \in DOMAIN all
               PROVE  LET row == alerts[all[k].fingerprint]
                      IN /\ row # None
                         /\ all[k].row.version <= row.version
                         /\ all[k].row.version = row.version => all[k].row = Shown(row)
    BY <1>2, <1>18 DEF RenderedInv
  <2>1. CASE k \in 1..len
    <3>1. all[k] = old[k] /\ k \in DOMAIN old
      BY <1>14, <1>15, <2>1
    <3> QED BY <1>4, <3>1 DEF RenderedInv, old
  <2>2. CASE \E i \in 1..m : k = len + i
    <3>1. PICK i \in 1..m : k = len + i
      BY <2>2
    <3>2. all[k].fingerprint = items[i] /\ all[k].row = Shown(alerts[items[i]]) /\ items[i] \in Rows
      BY <1>5, <1>11, <1>15, <3>1
    <3>3. alerts[items[i]] # None
      BY <3>2 DEF Rows
    <3> QED BY <1>10, <3>2, <3>3
  <2> QED BY <1>16, <2>1, <2>2
<1>31. \A p \in Operators \ {o} : RenderedInv(p)' /\ WalkInv(p)'
  <2> SUFFICES ASSUME NEW p \in Operators \ {o}
               PROVE  RenderedInv(p)' /\ WalkInv(p)'
    OBVIOUS
  <2>1. RenderedInv(p) /\ WalkInv(p)
    BY DEF MonitoringInv
  <2>2. console'[p] = console[p] /\ alerts' = alerts
    BY <1>2, <1>17
  <2>3. \A f, g : Position(f)' = Position(f) /\ Matches(f, g)' = Matches(f, g)
    BY <2>2 DEF Position, Matches
  <2>4. RenderedInv(p)'
    BY <2>1, <2>2 DEF RenderedInv
  <2>5. WalkInv(p)'
    BY <2>1, <2>2, <2>3 DEF WalkInv
  <2> QED
    BY <2>4, <2>5
<1>32. TypeOK'
  <2>1. new = [filter |-> filter, after |-> IF n > Limit THEN cut ELSE after, rendered |-> all,
               steady |-> IF after = None THEN {f \in Rows : Matches(f, filter)} ELSE console[o].steady,
               at |-> IF n > Limit THEN "next" ELSE "end"]
    <3>1. n > Limit => page[Limit] = items[Limit]
      <4>1. n > Limit => Limit \in 1..m
        BY <1>4, <1>7
      <4> QED BY <1>9, <4>1
    <3> QED BY <3>1 DEF all, cut
  <2>2. {f \in Rows : Matches(f, filter)} \subseteq Fingerprints
    BY DEF Rows
  <2>3. (IF n > Limit THEN cut ELSE after) \in Positions \cup {None}
    BY <1>4, <1>22
  <2>4. (IF after = None THEN {f \in Rows : Matches(f, filter)} ELSE console[o].steady) \in SUBSET Fingerprints
    BY <1>4, <2>2
  <2> HIDE DEF new
  <2>5. new \in [filter : Filters \cup {None}, after : Positions \cup {None}, rendered : Seq(Items),
                 steady : SUBSET Fingerprints, at : {"start", "next", "end"}]
    BY <1>15, <2>1, <2>3, <2>4
  <2>6. console' \in [Operators -> [filter : Filters \cup {None}, after : Positions \cup {None}, rendered : Seq(Items),
                                    steady : SUBSET Fingerprints, at : {"start", "next", "end"}]]
    BY <1>8, <2>5 DEF MonitoringInv, TypeOK, Items
  <2>7. Rows' = Rows
    BY <1>2 DEF Rows
  <2> QED BY <1>2, <2>6, <2>7 DEF MonitoringInv, TypeOK, Items
<1>33. \A j \in Jobs : JobInv(j)'
  BY <1>2 DEF MonitoringInv, JobInv
<1>34. \A v \in Workers : TickInv(v)' /\ DueInv(v)'
  BY <1>2 DEF MonitoringInv, TickInv, DueInv
<1>35. \A f \in Fingerprints : VersionInv(f)'
  BY <1>2 DEF MonitoringInv, VersionInv, Version, Pending
<1> QED BY <1>2, <1>29, <1>30, <1>31, <1>32, <1>33, <1>34, <1>35 DEF MonitoringInv

(* An acknowledgement makes a new version, of what the operator saw if it   *)
(* named the version; no walk loses the alert but those of firing alerts.   *)
LEMMA AcknowledgeKeeps ==
  ASSUME MonitoringInv, NEW o \in Operators, Acknowledge(o)
  PROVE  MonitoringInv'
<1>1. PICK seen \in ToSet(console[o].rendered), conditional \in BOOLEAN :
        LET f == seen.fingerprint
            applied == conditional => alerts[f].version = seen.row.version
        IN /\ alerts' = IF applied THEN [alerts EXCEPT ![f] = Acknowledged(@)] ELSE alerts
           /\ misled' = IF applied /\ conditional
                            /\ [Shown(alerts[f]) EXCEPT !.version = 0] # [seen.row EXCEPT !.version = 0]
                        THEN misled \cup {f} ELSE misled
           /\ console' = [p \in Operators |->
                IF applied /\ console[p].filter = "firing"
                THEN [console[p] EXCEPT !.steady = @ \ {f}] ELSE console[p]]
  BY DEF Acknowledge
<1> DEFINE f == seen.fingerprint
<1> DEFINE applied == conditional => alerts[f].version = seen.row.version
<1>2. acks < MaxAcks /\ acks' = acks + 1 /\ UNCHANGED <<now, jobs, tick, ticks, faults, due, grounds, failed, unfounded>>
  BY DEF Acknowledge, reads
<1>3. /\ alerts[f] # None
      /\ seen.row.version = alerts[f].version => seen.row = Shown(alerts[f])
  <2>1. PICK k \in DOMAIN console[o].rendered : seen = console[o].rendered[k]
    BY DEF ToSet
  <2> QED BY <2>1 DEF MonitoringInv, RenderedInv
<1>4. f \in Rows /\ f \in Fingerprints
  <2>1. console[o].rendered \in Seq(Items)
    BY DEF MonitoringInv, TypeOK, Items
  <2>2. seen \in Items
    <3> DEFINE s == console[o].rendered
    <3>1. PICK k \in DOMAIN s : seen = s[k]
      BY DEF ToSet
    <3> HIDE DEF s
    <3>2. s \in Seq(Items)
      BY <2>1 DEF s
    <3> QED BY <3>1, <3>2
  <2>3. f \in Fingerprints
    BY <2>2 DEF Items
  <2> QED BY <1>3, <2>3 DEF Rows
<1>5. misled' = {}
  <2>1. applied /\ conditional => seen.row = Shown(alerts[f])
    BY <1>3
  <2> QED BY <1>1, <2>1 DEF MonitoringInv
<1>6. alerts[f] \in Alerts /\ alerts[f].version \in Nat
  <2>1. alerts[f] \in Alerts
    BY <1>4, RowFacts DEF MonitoringInv
  <2> QED BY <2>1 DEF Alerts
<1> DEFINE row == Acknowledged(alerts[f])
<1>7. /\ row \in Alerts /\ row.version = alerts[f].version + 1 /\ row.status = "acknowledged"
      /\ row.id = alerts[f].id /\ row.created = alerts[f].created /\ row.description = alerts[f].description
  <2>1. PICK r : r = alerts[f]
    OBVIOUS
  <2>2. r \in Alerts /\ r.version + 1 \in Nat /\ row = [r EXCEPT !.status = "acknowledged", !.version = @ + 1]
    BY <1>6, <2>1 DEF Acknowledged
  <2> HIDE DEF row, f
  <2>3. /\ row.version = r.version + 1 /\ row.status = "acknowledged"
        /\ row.id = r.id /\ row.created = r.created /\ row.description = r.description
    BY <2>2 DEF Alerts
  <2>4. row \in Alerts
    BY <2>2 DEF Alerts, Statuses
  <2> QED BY <2>1, <2>3, <2>4
<1>8. /\ applied => alerts'[f] = row
      /\ ~applied => alerts'[f] = alerts[f]
      /\ \A g \in Fingerprints \ {f} : alerts'[g] = alerts[g]
      /\ alerts' \in [Fingerprints -> Alerts \cup {None}]
  BY <1>1, <1>4, <1>7 DEF MonitoringInv, TypeOK
<1>9. row # None /\ Rows' = Rows
  <2>1. row # None
    BY <1>7, NoneAssumption
  <2> QED BY <1>3, <1>8, <2>1 DEF Rows
<1>10. \A g \in Rows : /\ alerts'[g] # None
                       /\ alerts'[g].id = alerts[g].id /\ alerts'[g].created = alerts[g].created
                       /\ alerts'[g].description = alerts[g].description
                       /\ alerts'[g].version \in {alerts[g].version, alerts[g].version + 1}
                       /\ alerts'[g].version = alerts[g].version => alerts'[g] = alerts[g]
  <2>1. \A g \in Rows \ {f} : alerts'[g] = alerts[g] /\ alerts[g] # None
    BY <1>8 DEF Rows
  <2>2. alerts[f] # None /\ alerts[f].version # alerts[f].version + 1
    BY <1>3, <1>6
  <2>3. CASE applied
    BY <1>7, <1>8, <1>9, <2>1, <2>2, <2>3
  <2>4. CASE ~applied
    BY <1>8, <2>1, <2>2, <2>4
  <2> QED BY <2>3, <2>4
<1>11. \A g \in Rows : alerts[g].version \in Nat /\ g \in Fingerprints
  <2>1. \A g \in Rows : alerts[g] \in Alerts /\ g \in Fingerprints
    BY RowFacts DEF MonitoringInv
  <2> QED BY <2>1 DEF Alerts
<1>12. ticks \in Nat /\ acks \in Nat /\ ticks' = ticks /\ acks' = acks + 1 /\ acks' \in 0..MaxAcks
  BY <1>2, MonitoringAssumption DEF MonitoringInv, TypeOK
<1>13. \A p \in Operators : /\ console'[p].filter = console[p].filter /\ console'[p].after = console[p].after
                            /\ console'[p].rendered = console[p].rendered /\ console'[p].at = console[p].at
                            /\ console'[p].steady \subseteq console[p].steady
                            /\ applied /\ console[p].filter = "firing" => f \notin console'[p].steady
                            /\ console'[p] \in [filter : Filters \cup {None}, after : Positions \cup {None}, rendered : Seq(Items),
                                                steady : SUBSET Fingerprints, at : {"start", "next", "end"}]
  <2> SUFFICES ASSUME NEW p \in Operators
               PROVE  /\ console'[p].filter = console[p].filter /\ console'[p].after = console[p].after
                      /\ console'[p].rendered = console[p].rendered /\ console'[p].at = console[p].at
                      /\ console'[p].steady \subseteq console[p].steady
                      /\ applied /\ console[p].filter = "firing" => f \notin console'[p].steady
                      /\ console'[p] \in [filter : Filters \cup {None}, after : Positions \cup {None}, rendered : Seq(Items),
                                          steady : SUBSET Fingerprints, at : {"start", "next", "end"}]
    OBVIOUS
  <2>1. PICK c : c = console[p]
    OBVIOUS
  <2>2. c \in [filter : Filters \cup {None}, after : Positions \cup {None}, rendered : Seq(Items),
               steady : SUBSET Fingerprints, at : {"start", "next", "end"}]
    BY <2>1 DEF MonitoringInv, TypeOK, Items
  <2>3. console'[p] = IF applied /\ c.filter = "firing" THEN [c EXCEPT !.steady = c.steady \ {f}] ELSE c
    BY <1>1, <2>1
  <2> HIDE DEF applied, f
  <2>4. CASE applied /\ c.filter = "firing"
    <3>1. console'[p] = [c EXCEPT !.steady = c.steady \ {f}]
      BY <2>3, <2>4
    <3>2. /\ console'[p].filter = c.filter /\ console'[p].after = c.after
          /\ console'[p].rendered = c.rendered /\ console'[p].at = c.at
          /\ console'[p].steady = c.steady \ {f}
      BY <2>2, <3>1
    <3>3. console'[p] \in [filter : Filters \cup {None}, after : Positions \cup {None}, rendered : Seq(Items),
                           steady : SUBSET Fingerprints, at : {"start", "next", "end"}]
      BY <2>2, <3>1
    <3> QED BY <2>1, <3>2, <3>3
  <2>5. CASE ~(applied /\ c.filter = "firing")
    <3>1. console'[p] = c
      BY <2>3, <2>5
    <3> QED BY <2>1, <2>2, <2>5, <3>1
  <2> QED BY <2>4, <2>5
<1>14. console' \in [Operators -> [filter : Filters \cup {None}, after : Positions \cup {None}, rendered : Seq(Items),
                                   steady : SUBSET Fingerprints, at : {"start", "next", "end"}]]
  <2>1. console' = [p \in Operators |-> console'[p]]
    BY <1>1
  <2> QED BY <1>13, <2>1
<1> HIDE DEF row
<1>15. TypeOK'
  <2>1. \A g \in Rows :
             /\ alerts'[g].created <= now
             /\ alerts'[g].description >= IF g = Backlog THEN Warning ELSE Stuck
             /\ alerts'[g].version <= 1 + ticks + acks'
             /\ \A h \in Rows \ {g} : alerts'[h].id # alerts'[g].id
    <3>1. \A g \in Rows :
               /\ alerts[g].created <= now
               /\ alerts[g].description >= IF g = Backlog THEN Warning ELSE Stuck
               /\ alerts[g].version <= 1 + ticks + acks
               /\ \A h \in Rows \ {g} : alerts[h].id # alerts[g].id
      BY DEF MonitoringInv, TypeOK
    <3>2. \A g \in Rows : alerts'[g].version <= 1 + ticks + acks'
      BY <1>10, <1>11, <1>12, <3>1
    <3> QED BY <1>10, <3>1, <3>2
  <2> QED BY <1>2, <1>5, <1>8, <1>9, <1>12, <1>14, <2>1 DEF MonitoringInv, TypeOK, Items
<1>16. \A p \in Operators : RenderedInv(p)'
  <2> SUFFICES ASSUME NEW p \in Operators, NEW k \in DOMAIN console[p].rendered
               PROVE  LET item == console[p].rendered[k]
                      IN /\ alerts'[item.fingerprint] # None
                         /\ item.row.version <= alerts'[item.fingerprint].version
                         /\ item.row.version = alerts'[item.fingerprint].version => item.row = Shown(alerts'[item.fingerprint])
    BY <1>13 DEF RenderedInv
  <2> DEFINE s == console[p].rendered
  <2>1. s \in Seq(Items)
    BY DEF MonitoringInv, TypeOK, Items
  <2> DEFINE g == s[k].fingerprint
  <2>2. /\ alerts[g] # None /\ s[k].row.version <= alerts[g].version
        /\ s[k].row.version = alerts[g].version => s[k].row = Shown(alerts[g])
    BY DEF MonitoringInv, RenderedInv
  <2>3. s[k] \in Items
    <3> HIDE DEF s
    <3> QED BY <2>1 DEF s
  <2>4. g \in Fingerprints /\ s[k].row.version \in Nat
    BY <2>3 DEF Items
  <2>5. g \in Rows
    BY <2>2, <2>4 DEF Rows
  <2>6. /\ alerts'[g] # None /\ alerts'[g].version \in {alerts[g].version, alerts[g].version + 1}
        /\ alerts'[g].version = alerts[g].version => alerts'[g] = alerts[g]
        /\ alerts[g].version \in Nat
    BY <1>10, <1>11, <2>5
  <2>7. s[k].row.version <= alerts'[g].version
    BY <2>2, <2>4, <2>6
  <2>8. s[k].row.version = alerts'[g].version => alerts'[g].version = alerts[g].version
    BY <2>2, <2>4, <2>6
  <2> QED BY <2>2, <2>6, <2>7, <2>8
<1>17. \A p \in Operators : WalkInv(p)'
  <2> SUFFICES ASSUME NEW p \in Operators
               PROVE  WalkInv(p)'
    OBVIOUS
  <2>1. WalkInv(p)
    BY DEF MonitoringInv
  <2>2. \A g \in Rows : Position(g)' = Position(g)
    BY <1>10 DEF Position
  <2>3. \A k \in DOMAIN console[p].rendered : console[p].rendered[k].fingerprint \in Rows
    <3> DEFINE s == console[p].rendered
    <3>1. s \in Seq(Items) /\ \A k \in DOMAIN s : alerts[s[k].fingerprint] # None
      BY DEF MonitoringInv, TypeOK, Items, RenderedInv
    <3> HIDE DEF s
    <3>2. \A k \in DOMAIN s : s[k] \in Items
      BY <3>1
    <3>3. \A k \in DOMAIN s : s[k].fingerprint \in Fingerprints
      BY <3>2 DEF Items
    <3> QED BY <3>1, <3>3 DEF Rows, s
  <2>4. \A g \in console'[p].steady : g \in Rows /\ Matches(g, console[p].filter)'
    <3> SUFFICES ASSUME NEW g \in console'[p].steady
                 PROVE  g \in Rows /\ Matches(g, console[p].filter)'
      OBVIOUS
    <3>1. g \in console[p].steady /\ g \in Fingerprints
      BY <1>13 DEF MonitoringInv, TypeOK
    <3>2. Matches(g, console[p].filter) /\ g \in Rows
      BY <2>1, <3>1 DEF WalkInv, Matches, Rows
    <3>3. console[p].filter \in {"any", "firing", "acknowledged"}
      BY <2>1, <3>1, MonitoringAssumption DEF WalkInv, MonitoringInv, TypeOK
    <3>4. console'[p].filter = console[p].filter
      BY <1>13
    <3>5. CASE alerts'[g] = alerts[g]
      BY <3>2, <3>4, <3>5 DEF Matches
    <3>6. CASE alerts'[g] # alerts[g]
      <4>1. g = f /\ applied /\ alerts'[g] = row
        BY <1>8, <3>1, <3>6
      <4>2. console[p].filter # "firing"
        BY <1>13, <4>1
      <4>3. console[p].filter \in {"any", alerts'[g].status} /\ alerts'[g] # None
        BY <1>7, <1>9, <3>3, <4>1, <4>2
      <4> QED BY <3>2, <3>4, <4>3 DEF Matches
    <3> QED BY <3>5, <3>6
  <2>5. /\ console'[p].filter = console[p].filter /\ console'[p].after = console[p].after
        /\ console'[p].rendered = console[p].rendered /\ console'[p].at = console[p].at
        /\ console'[p].steady \subseteq console[p].steady
    BY <1>13
  <2>6. \A g \in console'[p].steady :
          /\ Matches(g, console[p].filter)'
          /\ \/ \E k \in DOMAIN console[p].rendered : console[p].rendered[k].fingerprint = g
             \/ console[p].at = "next" /\ Before(Position(g)', console[p].after)
    BY <2>1, <2>2, <2>4, <2>5 DEF WalkInv
  <2>7. console[p].at = "next" =>
          \A k \in DOMAIN console[p].rendered :
             LET g == console[p].rendered[k].fingerprint
             IN ~Before([created |-> alerts'[g].created, id |-> alerts'[g].id], console[p].after)
    <3>1. console[p].at = "next" =>
            \A k \in DOMAIN console[p].rendered : ~Before(Position(console[p].rendered[k].fingerprint), console[p].after)
      BY <2>1 DEF WalkInv
    <3>2. \A g \in Rows : Position(g) = [created |-> alerts'[g].created, id |-> alerts'[g].id]
      BY <1>10 DEF Position
    <3> QED BY <2>3, <3>1, <3>2
  <2>8. /\ console[p].at = "start" => console[p].rendered = <<>> /\ console[p].after = None /\ console[p].steady = {}
        /\ console[p].at # "start" => console[p].filter \in Filters
        /\ console[p].at = "next" => console[p].after # None
        /\ \A j, k \in DOMAIN console[p].rendered :
             console[p].rendered[j].fingerprint = console[p].rendered[k].fingerprint => j = k
    BY <2>1 DEF WalkInv
  <2> QED BY <2>5, <2>6, <2>7, <2>8 DEF WalkInv, Position
<1>18. \A g \in Fingerprints : VersionInv(g)'
  <2> SUFFICES ASSUME NEW g \in Fingerprints
               PROVE  VersionInv(g)'
    OBVIOUS
  <2>1. VersionInv(g) /\ Version(g) \in Nat
    BY VersionIsNat DEF MonitoringInv
  <2>2. Pending(g)' = Pending(g) /\ Cardinality(Pending(g)) \in Nat
    <3>1. Pending(g)' = Pending(g)
      BY <1>2 DEF Pending
    <3>2. Pending(g) \subseteq Workers
      BY DEF Pending
    <3> QED BY <3>1, <3>2, FiniteAssumption, FS_Subset, FS_CardinalityType
  <2>3. Version(g)' \in {Version(g), Version(g) + 1}
    <3>1. CASE g \in Rows
      BY <1>10, <3>1 DEF Version, Rows
    <3>2. CASE g \notin Rows
      BY <1>9, <3>2 DEF Version, Rows
    <3> QED BY <3>1, <3>2
  <2> QED BY <1>12, <2>1, <2>2, <2>3 DEF VersionInv
<1>19. \A j \in Jobs : JobInv(j)'
  BY <1>2 DEF MonitoringInv, JobInv
<1>20. \A v \in Workers : TickInv(v)' /\ DueInv(v)'
  <2> SUFFICES ASSUME NEW v \in Workers
               PROVE  TickInv(v)' /\ DueInv(v)'
    OBVIOUS
  <2>1. TickInv(v) /\ DueInv(v) /\ \A e \in grounds[v] : e[1] \in Fingerprints
    BY DEF MonitoringInv, TypeOK
  <2>2. \A g \in Fingerprints : alerts[g] # None => alerts'[g] # None
    BY <1>10 DEF Rows
  <2> QED BY <1>2, <2>1, <2>2 DEF TickInv, DueInv
<1> QED BY <1>2, <1>5, <1>15, <1>16, <1>17, <1>18, <1>19, <1>20 DEF MonitoringInv
-----------------------------------------------------------------------------
(* Nothing has been counted, raised or shown. *)
LEMMA InitMonitoring == Init => MonitoringInv
<1> SUFFICES ASSUME Init
             PROVE  MonitoringInv
  OBVIOUS
<1>1. Rows = {} /\ \A f \in Fingerprints : alerts[f] = None
  BY DEF Init, Rows
<1>2. TypeOK
  <2>1. now \in 0..MaxTime /\ ticks \in 0..MaxTicks /\ acks \in 0..MaxAcks /\ faults \in 0..MaxFaults
    BY MonitoringAssumption DEF Init
  <2>2. jobs \in [Jobs -> [state : JobStates, checkpoint : Checkpoints, started : 0..MaxTime \cup {None}, since : 0..MaxTime]]
    BY MonitoringAssumption DEF Init, JobStates, Checkpoints
  <2>3. alerts \in [Fingerprints -> Alerts \cup {None}]
    BY DEF Init
  <2>4. tick \in [Workers -> [pc : {"idle", "ages", "upsert"}, backlog : Nat,
                               todo : SUBSET [fingerprint : Fingerprints, severity : Severities, description : Nat]]]
    BY DEF Init, NoTick
  <2>5. console \in [Operators -> [filter : Filters \cup {None}, after : Positions \cup {None}, rendered : Seq(Items),
                                    steady : SUBSET Fingerprints, at : {"start", "next", "end"}]]
    BY DEF Init, NoConsole
  <2>6. {due, grounds} \subseteq [Workers -> SUBSET (Fingerprints \X Severities)] /\ failed = {} /\ unfounded = {} /\ misled = {}
    BY DEF Init
  <2> QED BY <1>1, <2>1, <2>2, <2>3, <2>4, <2>5, <2>6 DEF TypeOK, Items
<1>3. \A j \in Jobs : JobInv(j)
  BY DEF Init, JobInv
<1>4. \A w \in Workers : tick[w].pc = "idle"
  BY DEF Init, NoTick
<1>5. \A w \in Workers : TickInv(w) /\ DueInv(w)
  BY <1>4 DEF TickInv, DueInv, Init
<1>6. \A f \in Fingerprints : VersionInv(f)
  <2>1. \A f \in Fingerprints : Version(f) = 0 /\ Pending(f) = {}
    BY <1>1, <1>4 DEF Version, Pending
  <2>2. ticks = 0 /\ acks = 0
    BY DEF Init
  <2> QED BY <2>1, <2>2, FS_EmptySet DEF VersionInv
<1>7. \A o \in Operators : RenderedInv(o) /\ WalkInv(o)
  <2>1. \A o \in Operators : console[o] = NoConsole
    BY DEF Init
  <2>2. NoConsole.rendered = <<>> /\ NoConsole.after = None /\ NoConsole.steady = {} /\ NoConsole.at = "start"
    BY DEF NoConsole
  <2>3. DOMAIN NoConsole.rendered = {}
    BY <2>2
  <2> QED BY <2>1, <2>2, <2>3 DEF RenderedInv, WalkInv
<1> QED BY <1>2, <1>3, <1>5, <1>6, <1>7 DEF MonitoringInv, Init

(* A step of the jobs, the ticks or the consoles. *)
LEMMA NextMonitoring == MonitoringInv /\ [Next]_vars => MonitoringInv'
<1> SUFFICES ASSUME MonitoringInv, [Next]_vars
             PROVE  MonitoringInv'
  OBVIOUS
<1>1. CASE Queue
  BY <1>1, ClaimKeeps, SaveCheckpointKeeps, LeaveKeeps, RequeueKeeps DEF Queue
<1>2. CASE TimePasses
  BY <1>2, TimePassesKeeps
<1>3. CASE Maintain
  <2>1. PICK w \in Workers : CountJobs(w) \/ MeasureAges(w) \/ Upsert(w) \/ EndTick(w) \/ WorkerRestarts(w)
    BY <1>3 DEF Maintain
  <2>2. CASE EndTick(w)
    <3>1. Over(w) /\ faults' = faults
      BY <2>2 DEF EndTick
    <3>2. faults' \in 0..MaxFaults
      BY <3>1 DEF MonitoringInv, TypeOK
    <3> QED BY <3>1, <3>2, OverKeeps
  <2>3. CASE WorkerRestarts(w)
    <3>1. Over(w) /\ faults < MaxFaults /\ faults' = faults + 1
      BY <2>3 DEF WorkerRestarts, Fault
    <3>2. faults' \in 0..MaxFaults
      BY <3>1, MonitoringAssumption DEF MonitoringInv, TypeOK
    <3> QED BY <3>1, <3>2, OverKeeps
  <2> QED BY <2>1, <2>2, <2>3, CountJobsKeeps, MeasureAgesKeeps, UpsertKeeps
<1>4. CASE Operate
  <2>1. PICK o \in Operators : FirstPage(o) \/ NextPage(o) \/ Acknowledge(o)
    BY <1>4 DEF Operate
  <2>2. CASE FirstPage(o)
    BY <2>2, PageKeeps DEF FirstPage
  <2>3. CASE NextPage(o)
    <3>1. console[o].at = "next" /\ console[o].filter \in Filters
      BY <2>3 DEF NextPage, MonitoringInv, WalkInv
    <3>2. PICK filter \in Filters : filter = console[o].filter
      BY <3>1
    <3>3. Page(o, filter) /\ Reads
      BY <2>3, <3>2 DEF NextPage
    <3> QED BY <3>1, <3>2, <3>3, PageKeeps
  <2> QED BY <2>1, <2>2, <2>3, AcknowledgeKeeps
<1>5. CASE UNCHANGED vars
  <2>1. UNCHANGED <<now, jobs, alerts, tick, console, ticks, acks, faults, due, grounds, failed, unfounded, misled>>
    BY <1>5 DEF vars, history, reads
  <2>2. TypeOK'
    BY <2>1 DEF MonitoringInv, TypeOK, Rows
  <2>3. \A j \in Jobs : JobInv(j)'
    BY <2>1 DEF MonitoringInv, JobInv
  <2>4. \A w \in Workers : TickInv(w)' /\ DueInv(w)'
    BY <2>1 DEF MonitoringInv, TickInv, DueInv
  <2>5. \A f \in Fingerprints : VersionInv(f)'
    BY <2>1 DEF MonitoringInv, VersionInv, Version, Pending
  <2>6. \A o \in Operators : RenderedInv(o)' /\ WalkInv(o)'
    BY <2>1 DEF MonitoringInv, RenderedInv, WalkInv, Matches, Position
  <2> QED BY <2>1, <2>2, <2>3, <2>4, <2>5, <2>6 DEF MonitoringInv
<1> QED BY <1>1, <1>2, <1>3, <1>4, <1>5 DEF Next

(* The inductive invariant of the ticks, the table and the walks through it *)
(* (main.go:520, alerts.go:56).                                             *)
THEOREM MonitoringInvariant == Spec => []MonitoringInv
BY InitMonitoring, NextMonitoring, PTL DEF Spec

(* Every table and local variable holds values of its kind; a row is dated, *)
(* has an id of its own, says that its resource was over the threshold, and *)
(* no more versions of it were made than there were ticks and               *)
(* acknowledgements (alerts.go:63).                                         *)
THEOREM MonitoringTypeCorrect == Spec => []TypeOK
BY MonitoringInvariant, PTL DEF MonitoringInv

(* A tick in which nothing fails leaves an alert for all that was due when  *)
(* it read, jobs that were at their checkpoint for too long included; no    *)
(* tick raises one without a backlog, or a running job that was claimed     *)
(* that long ago (main.go:520, 552).                                        *)
THEOREM AlarmsAreRight == Spec => []AlarmsMatchTheQueue
<1>1. MonitoringInv => AlarmsMatchTheQueue
  BY DEF MonitoringInv, AlarmsMatchTheQueue, TickInv, DueInv
<1> QED BY <1>1, MonitoringInvariant, PTL

(* No acknowledgement that names a version is applied to an alert that      *)
(* says something else (alerts.go:97).                                      *)
THEOREM AcknowledgementsAreInformed == Spec => []AckedAsRendered
<1>1. MonitoringInv => AckedAsRendered
  BY DEF MonitoringInv, AckedAsRendered
<1> QED BY <1>1, MonitoringInvariant, PTL

(* A walk shows no alert twice and, at its end, every alert that matched    *)
(* its filter all along, whatever is created, refreshed or acknowledged     *)
(* between the pages (pagination.go, alerts.go:56).                         *)
THEOREM ListingsAreComplete == Spec => []EachListedOnce
<1>1. MonitoringInv => EachListedOnce
  <2> SUFFICES ASSUME MonitoringInv, NEW o \in Operators
               PROVE  LET shown == [k \in DOMAIN console[o].rendered |-> console[o].rendered[k].fingerprint]
                      IN /\ IsInjective(shown)
                         /\ console[o].at = "end" => console[o].steady \subseteq ToSet(shown)
    BY DEF EachListedOnce
  <2>1. WalkInv(o)
    BY DEF MonitoringInv
  <2> DEFINE shown == [k \in DOMAIN console[o].rendered |-> console[o].rendered[k].fingerprint]
  <2>2. IsInjective(shown)
    BY <2>1 DEF WalkInv, IsInjective
  <2>3. console[o].at = "end" => console[o].steady \subseteq ToSet(shown)
    BY <2>1 DEF WalkInv, ToSet
  <2> QED BY <2>2, <2>3
<1> QED BY <1>1, MonitoringInvariant, PTL
=============================================================================
