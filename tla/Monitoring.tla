----------------------------- MODULE Monitoring -----------------------------
(***************************************************************************)
(* The alerts of the console: every worker process counts the jobs on each *)
(* tick of its maintenance loop and upserts what is over a threshold       *)
(* (cmd/worker/main.go); operators page through the table, newest first,   *)
(* and acknowledge what they see (internal/httpapi, internal/storage).     *)
(*                                                                         *)
(* The jobs are the table JobQueue models, reduced to what is counted.     *)
(***************************************************************************)
EXTENDS Naturals, FiniteSets, FiniteSetsExt, Sequences, SequencesExt, Functions

CONSTANTS
  Workers, Operators, Jobs,
  LastCheckpoint,                    \* a job goes through the checkpoints 1..LastCheckpoint
  Warning, Critical, Stuck,          \* the thresholds
  Limit,                             \* rows of a page
  Filters,                           \* the statuses that are asked for, or "any"
  None,
  MaxTime, MaxTicks, MaxAcks, MaxFaults  \* bounds

ASSUME MonitoringAssumption ==
  /\ LastCheckpoint \in Nat \ {0}
  /\ {Warning, Critical} \subseteq Nat \ {0} /\ Critical > Warning /\ Stuck \in Nat /\ Limit \in Nat \ {0}
  /\ {MaxTime, MaxTicks, MaxAcks, MaxFaults} \subseteq Nat
  /\ Filters \subseteq {"any", "firing", "acknowledged"}

ASSUME FiniteAssumption == IsFiniteSet(Jobs) /\ IsFiniteSet(Workers)

Checkpoints == 1..LastCheckpoint

(* the fingerprint of the backlog's alert; the others are checkpoints *)
Backlog == 0

Fingerprints == {Backlog} \cup Checkpoints

Severities == {"warning", "critical"}
Statuses   == {"firing", "acknowledged"}
Positions  == [created : 0..MaxTime, id : 1..Cardinality(Fingerprints)]
Alerts     == [id : 1..Cardinality(Fingerprints), created : 0..MaxTime, status : Statuses,
               severity : Severities, description : Nat, version : Nat]

ASSUME NoneAssumption == None \notin 0..MaxTime /\ None \notin Positions /\ None \notin Alerts

VARIABLES
  now,     \* the database's clock, which stands still between statements
  jobs,    \* provisioning_jobs
  alerts,  \* alerts[f]: the row of fingerprint f, or None
  tick,    \* tick[w]: the loop's position, its backlog and the alerts it has still to upsert
  console, \* console[o]: a walk through GET /v1/alerts and what it rendered
  ticks, acks, faults,
  due,     \* history, due[w]: the alerts that were due at the reads of w's tick, by their texts
  grounds, \* history, grounds[w]: the same, with jobs counted as stuck from their first claim on
  failed,  \* history: the workers in whose tick something has failed
  unfounded, \* history: alerts that were raised without grounds
  misled   \* history: alerts acknowledged with the rendered version after they had changed

reads   == <<due, grounds>>
history == <<reads, failed, unfounded, misled>>
vars    == <<now, jobs, alerts, tick, console, ticks, acks, faults, history>>

JobStates == {"QUEUED", "RUNNING", "RETRY_WAIT", "FAILED", "DONE"}
Waiting   == {"QUEUED", "RETRY_WAIT"}

NoTick    == [pc |-> "idle", backlog |-> 0, todo |-> {}]
NoConsole == [filter |-> None, after |-> None, rendered |-> <<>>, steady |-> {}, at |-> "start"]

Init ==
  /\ now = 0
  /\ jobs = [j \in Jobs |-> [state |-> "QUEUED", checkpoint |-> 1, started |-> None, since |-> 0]]
  /\ alerts = [f \in Fingerprints |-> None]
  /\ tick = [w \in Workers |-> NoTick]
  /\ console = [o \in Operators |-> NoConsole]
  /\ ticks = 0 /\ acks = 0 /\ faults = 0
  /\ due = [w \in Workers |-> {}] /\ grounds = [w \in Workers |-> {}]
  /\ failed = {} /\ unfounded = {} /\ misled = {}

Rows == {f \in Fingerprints : alerts[f] # None}
Fault == faults < MaxFaults /\ faults' = faults + 1
Works == UNCHANGED <<faults, failed>>
Fails(w) == Fault /\ failed' = failed \cup {w}
-----------------------------------------------------------------------------
(* The jobs and the clock *)

World == UNCHANGED <<alerts, tick, console, ticks, acks, faults, history>>

Set(j, job) == jobs' = [jobs EXCEPT ![j] = job] /\ UNCHANGED now /\ World

(* started_at is the time of the first claim; since is history: when the job got to its checkpoint, *)
(* or was given another try at it by an operator                                                    *)
Claim(j) ==
  /\ jobs[j].state \in Waiting
  /\ Set(j, IF jobs[j].started = None
            THEN [jobs[j] EXCEPT !.state = "RUNNING", !.started = now, !.since = now]
            ELSE [jobs[j] EXCEPT !.state = "RUNNING"])

SaveCheckpoint(j) ==
  /\ jobs[j].state = "RUNNING" /\ jobs[j].checkpoint < LastCheckpoint
  /\ Set(j, [jobs[j] EXCEPT !.checkpoint = @ + 1, !.since = now])

(* of a job that has succeeded no query reads more than that *)
Ended == [state |-> "DONE", checkpoint |-> LastCheckpoint, started |-> None, since |-> 0]

(* to be retried, failed for good, reclaimed with its lease expired, or done *)
Leave(j) ==
  /\ jobs[j].state = "RUNNING"
  /\ \/ \E s \in {"RETRY_WAIT", "FAILED", "QUEUED"} : Set(j, [jobs[j] EXCEPT !.state = s])
     \/ Set(j, Ended)

(* started_at stays what it was *)
Requeue(j) ==
  /\ jobs[j].state \in {"FAILED", "RETRY_WAIT"}
  /\ Set(j, [jobs[j] EXCEPT !.state = "QUEUED", !.since = IF jobs[j].started = None THEN @ ELSE now])

TimePasses ==
  /\ now < MaxTime /\ now' = now + 1
  /\ UNCHANGED jobs /\ World
-----------------------------------------------------------------------------
(* The maintenance loop *)

InState(S) == {j \in Jobs : jobs[j].state \in S}

Loop == UNCHANGED <<now, jobs, console, acks, misled>>

CountedAsBacklog == {"QUEUED", "RETRY_WAIT"}

(* history: what the texts of the alerts ask for, from the table itself; and who has long been claimed *)
DueBacklog == LET n == Cardinality(InState(Waiting))
              IN (IF n >= Warning THEN {<<Backlog, "warning">>} ELSE {})
                   \cup (IF n >= Critical THEN {<<Backlog, "critical">>} ELSE {})
DueStuck   == {<<jobs[j].checkpoint, "warning">> : j \in {j \in InState({"RUNNING"}) : now - jobs[j].since >= Stuck}}
LongClaimed == {<<jobs[j].checkpoint, "warning">> : j \in {j \in InState({"RUNNING"}) : now - jobs[j].started >= Stuck}}

(* one row per state; rows that cannot be read are left out, all of them if the query fails *)
CountJobs(w) ==
  /\ tick[w].pc = "idle" /\ ticks < MaxTicks /\ ticks' = ticks + 1
  /\ \E read \in SUBSET CountedAsBacklog :
       /\ IF read = CountedAsBacklog THEN Works ELSE Fails(w)
       /\ tick' = [tick EXCEPT ![w] = [pc |-> "ages", backlog |-> Cardinality(InState(read)), todo |-> {}]]
  /\ due' = [due EXCEPT ![w] = DueBacklog] /\ grounds' = [grounds EXCEPT ![w] = DueBacklog]
  /\ UNCHANGED <<alerts, unfounded>> /\ Loop

(* faulty variant of Measured: jobs that have stopped running keep ageing *)
MeasuredOfStarted == {j \in Jobs : jobs[j].started # None}

Measured == {j \in InState({"RUNNING"}) : jobs[j].started # None}

(* the age of the job that was first claimed longest ago *)
StateAge(c) == Max({now - jobs[j].started : j \in {j \in Measured : jobs[j].checkpoint = c}})

Alert(f, severity, n) == [fingerprint |-> f, severity |-> severity, description |-> n]

(* faulty variant of DeriveBacklog: one job too early *)
DeriveBacklogEarly(n) == IF n + 1 >= Warning THEN {Alert(Backlog, "warning", n)} ELSE {}

DeriveBacklog(n) ==
  CASE n >= Critical -> {Alert(Backlog, "critical", n)}
    [] n < Critical /\ n >= Warning -> {Alert(Backlog, "warning", n)}
    [] OTHER -> {}

DeriveStuck(read) == {Alert(c, "warning", StateAge(c)) : c \in {c \in read : StateAge(c) >= Stuck}}

MeasureAges(w) ==
  LET present == {jobs[j].checkpoint : j \in Measured} IN
  /\ tick[w].pc = "ages"
  /\ \E read \in SUBSET present :
       /\ IF read = present THEN Works ELSE Fails(w)
       /\ tick' = [tick EXCEPT ![w] = [pc |-> "upsert", backlog |-> 0,
                                       todo |-> DeriveBacklog(tick[w].backlog) \cup DeriveStuck(read)]]
  /\ due' = [due EXCEPT ![w] = @ \cup DueStuck] /\ grounds' = [grounds EXCEPT ![w] = @ \cup LongClaimed]
  /\ UNCHANGED <<alerts, ticks, unfounded>> /\ Loop

NewIds == (1..Cardinality(Fingerprints)) \ {alerts[f].id : f \in Rows}

(* faulty variant of Bumped: only the operator's changes count as versions *)
BumpedNever(version) == version

Bumped(version) == version + 1

(* severity, title and creation are those of the first time; nothing ever resolves an alert *)
Upsert(w) ==
  /\ tick[w].pc = "upsert"
  /\ \E a \in tick[w].todo :
       LET f == a.fingerprint IN
       /\ f = Backlog \/ Backlog \notin {b.fingerprint : b \in tick[w].todo}
       /\ tick' = [tick EXCEPT ![w].todo = @ \ {a}]
       /\ \/ /\ \E id \in NewIds \cup {0} :
                  IF alerts[f] = None
                  THEN /\ id # 0
                       /\ alerts' = [alerts EXCEPT ![f] = [id |-> id, created |-> now, status |-> "firing",
                               severity |-> a.severity, description |-> a.description, version |-> 1]]
                  ELSE /\ id = 0
                       /\ alerts' = [alerts EXCEPT ![f].description = a.description, ![f].version = Bumped(@)]
             /\ unfounded' = IF alerts[f] = None /\ <<f, a.severity>> \notin grounds[w] THEN unfounded \cup {f} ELSE unfounded
             /\ Works
          \/ Fails(w) /\ UNCHANGED <<alerts, unfounded>>
  /\ UNCHANGED <<ticks, reads>> /\ Loop

Over(w) ==
  /\ tick' = [tick EXCEPT ![w] = NoTick]
  /\ due' = [due EXCEPT ![w] = {}] /\ grounds' = [grounds EXCEPT ![w] = {}] /\ failed' = failed \ {w}
  /\ UNCHANGED <<alerts, ticks, unfounded>> /\ Loop

EndTick(w) ==
  /\ tick[w].pc = "upsert" /\ tick[w].todo = {}
  /\ Over(w) /\ UNCHANGED faults

WorkerRestarts(w) ==
  /\ tick[w].pc # "idle"
  /\ Over(w) /\ Fault
-----------------------------------------------------------------------------
(* The console *)

Matches(f, filter) == alerts[f] # None /\ filter \in {"any", alerts[f].status}

Position(f) == [created |-> alerts[f].created, id |-> alerts[f].id]

(* faulty variant of Before: rows of one instant are not told apart *)
BeforeInTime(p, q) == p.created < q.created

Before(p, q) == p.created < q.created \/ (p.created = q.created /\ p.id < q.id)

Newer(p, q) == q.created < p.created \/ (q.created = p.created /\ q.id < p.id)

(* what can change of an alert *)
Shown(row) == [status |-> row.status, description |-> row.description, version |-> row.version]

(* the rows in their order: there is one, because no two rows share an id *)
Sorted(rows) ==
  {items \in SetToSeqs(rows) :
     \A j, k \in DOMAIN items : j < k => Newer(Position(items[j]), Position(items[k]))}

(* a page of at most Limit rows after the cursor; one more row means that there is a next page *)
Page(o, filter) ==
  LET after == console[o].after
      found == {f \in Rows : Matches(f, filter) /\ (after # None => Before(Position(f), after))}
  IN \E items \in Sorted(found) :
       LET more == Cardinality(found) > Limit
           page == IF more THEN SubSeq(items, 1, Limit) ELSE items
       IN console' = [console EXCEPT ![o] =
            [filter   |-> filter,
             after    |-> IF more THEN Position(page[Limit]) ELSE after,
             rendered |-> @.rendered \o [k \in DOMAIN page |-> [fingerprint |-> page[k], row |-> Shown(alerts[page[k]])]],
             steady   |-> IF after = None THEN {f \in Rows : Matches(f, filter)} ELSE @.steady,
             at       |-> IF more THEN "next" ELSE "end"]]

Reads == UNCHANGED <<now, jobs, alerts, tick, ticks, acks, faults, history>>

(* each operator walks once, from any time on *)
FirstPage(o) == console[o].at = "start" /\ (\E filter \in Filters : Page(o, filter)) /\ Reads

NextPage(o) == console[o].at = "next" /\ Page(o, console[o].filter) /\ Reads

Acknowledged(row) == [row EXCEPT !.status = "acknowledged", !.version = @ + 1]

(* a version of 0 is not compared; one that is not current is answered with a conflict *)
Acknowledge(o) ==
  /\ acks < MaxAcks /\ acks' = acks + 1
  /\ \E seen \in ToSet(console[o].rendered), conditional \in BOOLEAN :
       LET f == seen.fingerprint
           applied == conditional => alerts[f].version = seen.row.version
       IN /\ alerts' = IF applied THEN [alerts EXCEPT ![f] = Acknowledged(@)] ELSE alerts
          /\ misled' = IF applied /\ conditional
                           /\ [Shown(alerts[f]) EXCEPT !.version = 0] # [seen.row EXCEPT !.version = 0]
                       THEN misled \cup {f} ELSE misled
          /\ console' = [p \in Operators |->
               IF applied /\ console[p].filter = "firing"
               THEN [console[p] EXCEPT !.steady = @ \ {f}] ELSE console[p]]
  /\ UNCHANGED <<now, jobs, tick, ticks, faults, reads, failed, unfounded>>
-----------------------------------------------------------------------------
Queue == \E j \in Jobs : Claim(j) \/ SaveCheckpoint(j) \/ Leave(j) \/ Requeue(j)

Maintain == \E w \in Workers : CountJobs(w) \/ MeasureAges(w) \/ Upsert(w) \/ EndTick(w) \/ WorkerRestarts(w)

Operate == \E o \in Operators : FirstPage(o) \/ NextPage(o) \/ Acknowledge(o)

Next == Queue \/ TimePasses \/ Maintain \/ Operate

Spec == Init /\ [][Next]_vars
-----------------------------------------------------------------------------
(* Every table and local variable holds values of its kind; a row is dated, has an id of its own *)
(* and says of its resource that it was over the threshold.                                      *)
TypeOK ==
  /\ now \in 0..MaxTime /\ ticks \in 0..MaxTicks /\ acks \in 0..MaxAcks /\ faults \in 0..MaxFaults
  /\ jobs \in [Jobs -> [state : JobStates, checkpoint : Checkpoints, started : 0..MaxTime \cup {None}, since : 0..MaxTime]]
  /\ alerts \in [Fingerprints -> Alerts \cup {None}]
  /\ tick \in [Workers -> [pc : {"idle", "ages", "upsert"}, backlog : Nat,
                            todo : SUBSET [fingerprint : Fingerprints, severity : Severities, description : Nat]]]
  /\ console \in [Operators -> [filter : Filters \cup {None}, after : Positions \cup {None},
                                 rendered : Seq([fingerprint : Fingerprints,
                                                 row : [status : Statuses, description : Nat, version : Nat]]),
                                 steady : SUBSET Fingerprints, at : {"start", "next", "end"}]]
  /\ {due, grounds} \subseteq [Workers -> SUBSET (Fingerprints \X Severities)]
  /\ failed \subseteq Workers /\ {unfounded, misled} \subseteq SUBSET Fingerprints
  /\ \A f \in Rows :
       /\ alerts[f].created <= now
       /\ alerts[f].description >= IF f = Backlog THEN Warning ELSE Stuck
       /\ alerts[f].version <= 1 + ticks + acks
       /\ \A g \in Rows \ {f} : alerts[g].id # alerts[f].id

(* When a tick in which nothing failed comes to its end there is an alert for the backlog it met, *)
(* retries included, and for each checkpoint at which a job has been running for too long, as the *)
(* alert's text says it (main.go:531).  Reads that fail or end early (main.go:552, which keeps    *)
(* the partial sum), and jobs that move between the two, raise no alarm of a severity for which   *)
(* there were no grounds when its tick read: of the backlog none that was not due, of a           *)
(* checkpoint none without a job running there whose first claim is that old.                     *)
AlarmsMatchTheQueue ==
  /\ \A w \in Workers \ failed :
       tick[w].pc = "upsert" /\ tick[w].todo = {} => \A d \in due[w] : alerts[d[1]] # None
  /\ unfounded = {}

(* An alarm about a checkpoint is about a job that has been there for as long as the threshold    *)
(* (main.go:531: the job running longest AT the checkpoint; 09_Observability: state duration).    *)
StuckWhereItIs ==
  [][\A f \in Checkpoints : alerts[f] = None /\ alerts'[f] # None
       => \E w \in Workers : tick'[w] # tick[w] /\ <<f, "warning">> \in due[w]]_vars

(* A backlog over the critical threshold is shown as critical (09_Observability, section 4).      *)
CriticalIsShown == alerts[Backlog] # None /\ alerts[Backlog].description >= Critical => alerts[Backlog].severity = "critical"

(* The thresholds are those of prometheus-rules.yml (main.go:487-490), where a backlog has to     *)
(* exceed them.                                                                                   *)
BacklogAsRuled == alerts[Backlog] # None => alerts[Backlog].description > Warning

(* An acknowledgement that names the version the operator saw is refused if the alert has come *)
(* to say something else (alerts.go:97): the refresh of a tick counts as a change.             *)
AckedAsRendered == misled = {}

(* A walk through the pages shows every alert that was there and matched its filter all along  *)
(* exactly once, and no alert twice, however many are created and acknowledged between the     *)
(* pages and whatever instants they share (pagination.go, alerts.go:56).                       *)
EachListedOnce ==
  \A o \in Operators :
    LET shown == [k \in DOMAIN console[o].rendered |-> console[o].rendered[k].fingerprint]
    IN /\ IsInjective(shown)
       /\ console[o].at = "end" => console[o].steady \subseteq ToSet(shown)
=============================================================================
