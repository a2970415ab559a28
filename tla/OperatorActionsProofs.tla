------------------------ MODULE OperatorActionsProofs ------------------------
(***************************************************************************)
(* Proofs about OperatorActions for every number of requests, rows, jobs,  *)
(* attempts and faults.                                                    *)
(***************************************************************************)
EXTENDS OperatorActions, SequenceTheorems, FiniteSetTheorems, TLAPS

Row == [state : InstanceStates, generation : Nat, retired : BOOLEAN]

Job == [instance : Nat, operation : {"PROVISION", "REBUILD", "DECOMMISSION"}, state : JobStates,
        attempt : Nat, named : SUBSET Resources, at : {"-", "load", "step", "persist", "complete"},
        copy : SUBSET Resources, to : InstanceStates \cup {"-"},
        rolling : {"-", "release", "FAILED", "leftover"}, undo : SUBSET Resources, early : BOOLEAN]

Request == [op : Operations \cup {"none", "done"}, instance : Nat, generation : Nat, job : Nat]

(* The tables are sequences of rows, and jobs name instances that exist. *)
TableInv ==
  /\ rows \in Seq(Row) /\ Len(rows) <= MaxInstances
  /\ jobs \in Seq(Job)
  /\ \A j \in JobIds : jobs[j].instance \in Instances
  /\ holding \subseteq Instances \X Resources
  /\ reopened \subseteq Instances /\ unseen \subseteq Instances /\ late \subseteq Instances
  /\ faults \in 0 .. MaxFaults

(* Every instance has a newest job, and one job at most that the engine carries out. *)
JobsInv ==
  /\ \A i \in Instances : \E j \in JobsOf(i) : \A k \in JobsOf(i) : k <= j
  /\ \A j, k \in JobIds :
       Supported(jobs[j].operation) /\ Supported(jobs[k].operation)
         /\ jobs[j].instance = jobs[k].instance => j = k

(* What the read of a request returned, there still is; only its state may be another. *)
RequestInv ==
  /\ request \in [Requests -> Request]
  /\ \A r \in Requests :
       request[r].op \in {"Retry", "Quarantine", "Rebuild", "Decommission"} =>
         /\ request[r].instance \in Instances /\ request[r].generation = request[r].instance
         /\ request[r].job \in JobIds

(* What the position of a job says about its instance.  The job that was retried in the middle of *)
(* its rollback is the one that may be in two places at once.                                      *)
RowState(job)    == rows[job.instance].state
Undisturbed(job) == job.instance \notin reopened
Has(job, x)      == <<job.instance, x>> \in holding
Late(job)        == job.instance \in late
Stepping(job)    == job.at \in {"step", "persist"}

Works(job) ==
  /\ job.state = "RUNNING" <=> job.at # "-"
  /\ job.at \in {"step", "persist", "complete"} \/ job.rolling # "-" => Supported(job.operation)
  /\ Stepping(job) => RowState(job) # "READY"
  /\ job.at = "persist" => job.to \in {"CLONING", "NETWORK_BINDING", "VALIDATING", "READY", "QUARANTINED"}

(* What exists is named by the row, and what the row names by the copy of the slot, but for the  *)
(* mapping that the step at work has just saved; what is validated is there.                     *)
Knows(job) ==
  Supported(job.operation) /\ Undisturbed(job) =>
    /\ Has(job, "VM") \/ RowState(job) \in {"CLONING", "NETWORK_BINDING", "VALIDATING", "READY"}
         => "VM" \in job.named
    /\ Has(job, "mapping") => "mapping" \in job.named \/ Late(job)
    /\ job.at # "-" /\ "VM" \in job.named => "VM" \in job.copy
    /\ job.at # "-" /\ "mapping" \in job.named
         => "mapping" \in job.copy \/ (job.at = "persist" /\ job.to = "VALIDATING")
    /\ job.at = "persist" /\ job.to \in {"NETWORK_BINDING", "VALIDATING", "READY"} => "VM" \in job.copy
    /\ job.at = "persist" /\ job.to = "READY" => Has(job, "VM") /\ Has(job, "mapping")

(* A rollback has its job to itself, and knows what there is to undo but for a late mapping. *)
Undoes(job) ==
  job.rolling # "-" /\ Undisturbed(job) =>
    /\ job.state = "FAILED"
    /\ RowState(job) = "READY" => job.instance \in unseen
    /\ Has(job, "VM") => "VM" \in job.undo
    /\ Has(job, "mapping") => "mapping" \in job.undo \/ Late(job)
    /\ job.rolling = "FAILED" => ~Has(job, "VM") /\ (Has(job, "mapping") => Late(job))

(* Whoever may write over a quarantine was at work when it was put in place, or could not look. *)
Spares(job) ==
  RowState(job) = "QUARANTINED" /\ Undisturbed(job) /\ (Stepping(job) \/ job.rolling # "-")
    => job.early \/ job.instance \in unseen

SoundJob(job) == Works(job) /\ Knows(job) /\ Undoes(job) /\ Spares(job)
WorkInv == \A j \in JobIds : SoundJob(jobs[j])

(* The inductive invariant. *)
OperatorInv ==
  /\ TableInv /\ JobsInv /\ RequestInv /\ WorkInv
  /\ OneLiveGeneration /\ FailedHoldsNothing /\ ReadyHoldsResources

USE OperatorAssumption
-----------------------------------------------------------------------------
(* A change of one job that stays with its instance leaves the others alone. *)
LEMMA JobChange ==
  ASSUME TableInv, NEW j \in JobIds, NEW job \in Job, job.instance = jobs[j].instance,
         jobs' = Set(j, job)
  PROVE  /\ jobs' \in Seq(Job) /\ JobIds' = JobIds /\ j \in JobIds'
         /\ jobs'[j] = job
         /\ \A k \in JobIds : k # j => jobs'[k] = jobs[k]
         /\ \A k \in JobIds : jobs'[k].instance = jobs[k].instance
         /\ \A i : JobsOf(i)' = JobsOf(i)
<1>1. DOMAIN jobs = 1 .. Len(jobs)
  BY LenProperties DEF TableInv
<1>2. jobs' \in Seq(Job) /\ Len(jobs') = Len(jobs)
  BY <1>1, ExceptSeq DEF TableInv, JobIds, Set
<1>3. \A k \in 1 .. Len(jobs) : jobs'[k] = IF k = j THEN job ELSE jobs[k]
  BY <1>1, ExceptSeq DEF TableInv, JobIds, Set
<1>4. JobIds' = JobIds
  BY <1>1, <1>2, LenProperties DEF JobIds
<1> QED
  BY <1>1, <1>2, <1>3, <1>4 DEF JobIds, JobsOf

(* A change of the state of one row touches nothing else of the table. *)
LEMMA RowChange ==
  ASSUME TableInv, NEW i \in Instances, NEW s \in InstanceStates,
         rows' = [rows EXCEPT ![i].state = s]
  PROVE  /\ rows' \in Seq(Row) /\ Len(rows') = Len(rows) /\ Instances' = Instances
         /\ rows'[i].state = s
         /\ \A k \in Instances : k # i => rows'[k] = rows[k]
         /\ \A k \in Instances : rows'[k].generation = rows[k].generation
                                 /\ rows'[k].retired = rows[k].retired
<1>1. DOMAIN rows = 1 .. Len(rows) /\ Len(rows) \in Nat
  BY LenProperties DEF TableInv
<1>2. rows[i] \in Row
  BY <1>1, ElementOfSeq DEF TableInv, Instances
<1> DEFINE row == [rows[i] EXCEPT !.state = s]
<1>3. row \in Row /\ row.state = s /\ row.generation = rows[i].generation /\ row.retired = rows[i].retired
  BY <1>2 DEF Row
<1>4. rows' = [rows EXCEPT ![i] = row]
  OBVIOUS
<1> HIDE DEF row
<1>5. rows' \in Seq(Row) /\ Len(rows') = Len(rows)
  BY <1>1, <1>3, <1>4, ExceptSeq DEF TableInv, Instances
<1>6. \A k \in 1 .. Len(rows) : rows'[k] = IF k = i THEN row ELSE rows[k]
  BY <1>1, <1>3, <1>4, ExceptSeq DEF TableInv, Instances
<1>7. Instances' = Instances
  BY <1>1, <1>5, LenProperties DEF Instances
<1> QED
  BY <1>1, <1>3, <1>5, <1>6, <1>7 DEF Instances

(* A job is a record of the table. *)
LEMMA JobType == ASSUME TableInv, NEW j \in JobIds PROVE jobs[j] \in Job /\ jobs[j].instance \in Instances
BY LenProperties, ElementOfSeq DEF TableInv, JobIds

(* A row is a record of the table. *)
LEMMA RowType == ASSUME TableInv, NEW i \in Instances PROVE rows[i] \in Row
BY LenProperties, ElementOfSeq DEF TableInv, Instances

(* The fault budget stays within its bound. *)
LEMMA FaultsBounded ==
  ASSUME TableInv, Fault \/ UNCHANGED faults PROVE faults' \in 0 .. MaxFaults
BY DEF TableInv, Fault

(* What is said of a job depends on its instance only. *)
LEMMA JobApart ==
  ASSUME NEW job \in Job, SoundJob(job), NEW n, n = job.instance, rows'[n] = rows[n],
         \A x \in Resources : <<n, x>> \in holding' <=> <<n, x>> \in holding,
         n \in reopened' <=> n \in reopened, n \in unseen' <=> n \in unseen, n \in late' <=> n \in late
  PROVE  SoundJob(job)'
<1>1. Works(job)'
  BY DEF SoundJob, Works, Stepping, RowState
<1>2. Knows(job)'
  BY DEF SoundJob, Knows, Undisturbed, RowState, Has, Late, Resources
<1>3. Undoes(job)'
  BY DEF SoundJob, Undoes, Undisturbed, RowState, Has, Late, Resources
<1>4. Spares(job)'
  BY DEF SoundJob, Spares, Stepping, Undisturbed, RowState
<1> QED
  BY <1>1, <1>2, <1>3, <1>4 DEF SoundJob

(* A job that is not carried out says nothing of its instance. *)
LEMMA IdleJob ==
  ASSUME NEW job \in Job, SoundJob(job), ~Supported(job.operation) PROVE SoundJob(job)'
BY DEF SoundJob, Works, Knows, Undoes, Spares, Stepping

(* It goes on being true when the instance is drained or retired. *)
LEMMA LaidDown ==
  ASSUME NEW job \in Job, SoundJob(job), UNCHANGED <<holding, history>>,
         rows'[job.instance].state \in {rows[job.instance].state, "DRAINING", "RETIRED"}
  PROVE  SoundJob(job)'
<1>1. Works(job)'
  BY DEF SoundJob, Works, Stepping, RowState
<1>2. Knows(job)'
  BY DEF SoundJob, Knows, Undisturbed, RowState, Has, Late, history
<1>3. Undoes(job)'
  BY DEF SoundJob, Undoes, Undisturbed, RowState, Has, Late, history
<1>4. Spares(job)'
  BY DEF SoundJob, Spares, Stepping, Undisturbed, RowState, history
<1> QED
  BY <1>1, <1>2, <1>3, <1>4 DEF SoundJob

(* A step of one job that concerns its instance alone keeps the invariant if the job's new position *)
(* says no more than is true, and what it writes to its row neither.                                *)
LEMMA JobStep ==
  ASSUME OperatorInv, NEW j \in JobIds, NEW job \in Job, NEW i, i = jobs[j].instance,
         job.instance = i, job.operation = jobs[j].operation, jobs' = Set(j, job),
         RequestInv', faults' \in 0 .. MaxFaults,
         Supported(job.operation) \/ UNCHANGED <<rows, holding, history>>,
         rows' \in Seq(Row), Len(rows') = Len(rows), Instances' = Instances,
         \A k \in Instances : k # i => rows'[k] = rows[k],
         \A k \in Instances : rows'[k].generation = rows[k].generation
                              /\ rows'[k].retired = rows[k].retired,
         holding' \subseteq Instances \X Resources,
         \A k \in Instances, x \in Resources : k # i => (<<k, x>> \in holding' <=> <<k, x>> \in holding),
         reopened' \in {reopened, reopened \cup {i}}, late' \in {late, late \cup {i}},
         unseen' \in {unseen, unseen \cup {i}, unseen \ {i}},
         SoundJob(job)',
         rows'[i].state = "FAILED" /\ i \notin reopened'
           => <<i, "VM">> \notin holding' /\ (<<i, "mapping">> \in holding' => i \in late'),
         rows'[i].state = "READY" /\ i \notin reopened' \cup unseen'
           => <<i, "VM">> \in holding' /\ <<i, "mapping">> \in holding'
  PROVE  OperatorInv'
<1>1. TableInv /\ i \in Instances
  BY JobType DEF OperatorInv
<1>2. /\ jobs' \in Seq(Job) /\ JobIds' = JobIds /\ jobs'[j] = job
      /\ \A k \in JobIds : k # j => jobs'[k] = jobs[k]
      /\ \A k \in JobIds : jobs'[k].instance = jobs[k].instance
      /\ \A n : JobsOf(n)' = JobsOf(n)
  BY <1>1, JobChange
<1>3. TableInv'
  BY <1>1, <1>2 DEF TableInv
<1>4. JobsInv'
  BY <1>2 DEF OperatorInv, JobsInv
<1>5. WorkInv'
  <2>1. ASSUME NEW k \in JobIds, k # j PROVE SoundJob(jobs[k])'
    <3>1. PICK other : other = jobs[k]
      OBVIOUS
    <3>2. other \in Job /\ other.instance \in Instances /\ SoundJob(other) /\ jobs'[k] = other
      BY <1>1, <1>2, <2>1, <3>1, JobType DEF OperatorInv, WorkInv
    <3>3. SoundJob(other)'
      <4>1. CASE other.instance # i
        <5>1. PICK n : n = other.instance
          OBVIOUS
        <5>2. rows'[n] = rows[n] /\ \A x \in Resources : <<n, x>> \in holding' <=> <<n, x>> \in holding
          BY <3>2, <4>1, <5>1
        <5>3. /\ n \in reopened' <=> n \in reopened
              /\ n \in unseen' <=> n \in unseen
              /\ n \in late' <=> n \in late
          BY <4>1, <5>1
        <5> QED
          BY <3>2, <5>1, <5>2, <5>3, JobApart
      <4>2. CASE other.instance = i /\ ~Supported(other.operation)
        BY <3>2, <4>2, IdleJob
      <4>3. CASE other.instance = i /\ Supported(other.operation)
        <5>1. ~Supported(job.operation)
          BY <2>1, <3>1, <4>3 DEF OperatorInv, JobsInv
        <5>2. PICK n : n = other.instance
          OBVIOUS
        <5>3. UNCHANGED <<rows, holding, reopened, unseen, late>>
          BY <5>1 DEF history
        <5> QED
          BY <3>2, <5>2, <5>3, JobApart
      <4> QED
        BY <4>1, <4>2, <4>3
    <3> QED
      BY <3>2, <3>3
  <2>2. SoundJob(jobs[j])'
    BY <1>2
  <2> QED
    BY <1>2, <2>1, <2>2 DEF WorkInv
<1>6. OneLiveGeneration'
  BY DEF OperatorInv, OneLiveGeneration
<1>7. FailedHoldsNothing'
  <2> SUFFICES ASSUME NEW k \in Instances, k \notin reopened', rows'[k].state = "FAILED"
               PROVE  <<k, "VM">> \notin holding' /\ (<<k, "mapping">> \in holding' => k \in late')
    BY DEF FailedHoldsNothing
  <2>1. CASE k # i
    BY <2>1 DEF OperatorInv, FailedHoldsNothing, Resources
  <2> QED
    BY <2>1
<1>8. ReadyHoldsResources'
  <2> SUFFICES ASSUME NEW k \in Instances, k \notin reopened' \cup unseen', rows'[k].state = "READY"
               PROVE  \A x \in Resources : <<k, x>> \in holding'
    BY DEF ReadyHoldsResources
  <2>1. CASE k # i
    BY <2>1 DEF OperatorInv, ReadyHoldsResources
  <2> QED
    BY <2>1 DEF Resources
<1> QED
  BY <1>3, <1>4, <1>5, <1>6, <1>7, <1>8 DEF OperatorInv

(* A step of a slot that writes nothing but its job. *)
LEMMA SlotOnlyStep ==
  ASSUME OperatorInv, NEW j \in JobIds, NEW job \in Job,
         job.instance = jobs[j].instance, job.operation = jobs[j].operation,
         jobs' = Set(j, job), SlotOnly, faults' \in 0 .. MaxFaults,
         late' \in {late, late \cup {job.instance}}, unseen' \in {unseen, unseen \cup {job.instance}},
         Supported(job.operation) \/ UNCHANGED <<late, unseen>>,
         SoundJob(job)'
  PROVE  OperatorInv'
<1>1. PICK i : i = jobs[j].instance
  OBVIOUS
<1>2. UNCHANGED <<rows, holding, request, reopened>> /\ TableInv /\ i \in Instances
  BY <1>1, JobType DEF SlotOnly, OperatorInv
<1>3. Instances' = Instances /\ JobIds' = JobIds
  BY <1>2, JobChange DEF Instances
<1>4. RequestInv'
  BY <1>2, <1>3 DEF OperatorInv, RequestInv
<1>5. rows[i].state = "FAILED" /\ i \notin reopened
        => <<i, "VM">> \notin holding /\ (<<i, "mapping">> \in holding => i \in late')
  BY <1>2 DEF OperatorInv, FailedHoldsNothing
<1>6. rows[i].state = "READY" /\ i \notin reopened \cup unseen'
        => <<i, "VM">> \in holding /\ <<i, "mapping">> \in holding
  BY <1>1, <1>2 DEF OperatorInv, ReadyHoldsResources, Resources
<1>7. rows \in Seq(Row) /\ holding \subseteq Instances \X Resources
  BY <1>2 DEF TableInv
<1> QED
  BY <1>1, <1>2, <1>3, <1>4, <1>5, <1>6, <1>7, JobStep DEF history

(* A claim puts a job at rest in front of its first look at the instance, with a fresh copy. *)
LEMMA ClaimStep ==
  ASSUME OperatorInv, NEW j \in JobIds, Claim(j) PROVE OperatorInv'
<1>1. TableInv /\ jobs[j] \in Job /\ SoundJob(jobs[j])
  BY JobType DEF OperatorInv, WorkInv
<1>2. PICK n \in Nat : n = jobs[j].attempt + 1
  BY <1>1 DEF Job
<1>3. PICK old : old = jobs[j]
  OBVIOUS
<1>4. PICK job : job = [old EXCEPT !.state = "RUNNING", !.attempt = n, !.at = "load",
                                   !.copy = old.named, !.early = FALSE]
  OBVIOUS
<1>5. /\ jobs' = Set(j, job) /\ SlotOnly /\ UNCHANGED <<faults, unseen, late>>
      /\ old.state \in {"QUEUED", "RETRY_WAIT"}
  BY <1>2, <1>3, <1>4 DEF Claim
<1>6. /\ job \in Job /\ job.instance = old.instance /\ job.operation = old.operation
      /\ job.named = old.named /\ job.copy = old.named /\ job.state = "RUNNING" /\ job.at = "load"
      /\ job.rolling = old.rolling /\ job.undo = old.undo
  BY <1>1, <1>3, <1>4 DEF Job, JobStates
<1>7. old.at = "-" /\ (old.rolling # "-" => ~Undisturbed(old) /\ Supported(old.operation))
  BY <1>1, <1>3, <1>5 DEF SoundJob, Works, Undoes
<1>8. SoundJob(job)'
  <2> USE DEF SlotOnly
  <2>1. Works(job)'
    BY <1>5, <1>6, <1>7 DEF Works, Stepping
  <2>2. Knows(job)'
    BY <1>1, <1>3, <1>5, <1>6 DEF SoundJob, Knows, Undisturbed, RowState, Has, Late
  <2>3. Undoes(job)' /\ Spares(job)'
    BY <1>5, <1>6, <1>7 DEF Undoes, Spares, Stepping, Undisturbed
  <2> QED
    BY <2>1, <2>2, <2>3 DEF SoundJob
<1> QED
  BY <1>1, <1>3, <1>5, <1>6, <1>8, SlotOnlyStep, FaultsBounded

(* A slot that leaves its job takes nothing along that the row did not name. *)
LEMMA DroppedJob ==
  ASSUME NEW old \in Job, NEW state \in JobStates
  PROVE  /\ Dropped(old, state) \in Job
         /\ Dropped(old, state).instance = old.instance /\ Dropped(old, state).operation = old.operation
         /\ Dropped(old, state).named = old.named /\ Dropped(old, state).state = state
         /\ Dropped(old, state).at = "-" /\ Dropped(old, state).rolling = old.rolling
         /\ Dropped(old, state).undo = old.undo /\ Dropped(old, state).early = old.early
BY DEF Dropped, Job

(* So its job may be given back, or be finished, unless it is being rolled back undisturbed. *)
LEMMA LeaveStep ==
  ASSUME OperatorInv, NEW j \in JobIds, jobs[j].at # "-", NEW state \in JobStates \ {"RUNNING"},
         jobs' = Set(j, Dropped(jobs[j], state)), SlotOnly, faults' \in 0 .. MaxFaults,
         UNCHANGED <<late, unseen>>
  PROVE  OperatorInv'
<1>1. TableInv /\ jobs[j] \in Job /\ SoundJob(jobs[j])
  BY JobType DEF OperatorInv, WorkInv
<1>2. PICK old : old = jobs[j]
  OBVIOUS
<1>3. PICK job : job = Dropped(old, state)
  OBVIOUS
<1>4. /\ job \in Job /\ job.instance = old.instance /\ job.operation = old.operation
      /\ job.named = old.named /\ job.state = state /\ job.at = "-" /\ job.rolling = old.rolling
  BY <1>1, <1>2, <1>3, DroppedJob
<1>5. old.rolling # "-" => ~Undisturbed(old) /\ Supported(old.operation)
  BY <1>1, <1>2 DEF SoundJob, Works, Undoes
<1>6. SoundJob(job)'
  <2> USE DEF SlotOnly
  <2>1. Works(job)'
    BY <1>4, <1>5 DEF Works, Stepping
  <2>2. Knows(job)'
    BY <1>1, <1>2, <1>4 DEF SoundJob, Knows, Undisturbed, RowState, Has, Late
  <2>3. Undoes(job)' /\ Spares(job)'
    BY <1>4, <1>5 DEF Undoes, Spares, Stepping, Undisturbed
  <2> QED
    BY <2>1, <2>2, <2>3 DEF SoundJob
<1> QED
  BY <1>1, <1>2, <1>3, <1>4, <1>6, SlotOnlyStep

(* The first look leads to a step only where the instance is not READY and not quarantined. *)
LEMMA LoadStep ==
  ASSUME OperatorInv, NEW j \in JobIds, Load(j) PROVE OperatorInv'
<1>1. TableInv /\ jobs[j] \in Job /\ SoundJob(jobs[j])
  BY JobType DEF OperatorInv, WorkInv
<1>2. jobs[j].at = "load" /\ SlotOnly /\ UNCHANGED <<faults, unseen, late>> /\ faults' \in 0 .. MaxFaults
  BY <1>1, FaultsBounded DEF Load
<1>3. CASE Supported(jobs[j].operation)
  <2>1. PICK label : label = IF TerminalState(StateOf(j)) THEN "complete" ELSE "step"
    OBVIOUS
  <2>2. PICK old : old = jobs[j]
    OBVIOUS
  <2>3. PICK job : job = [old EXCEPT !.at = label]
    OBVIOUS
  <2>4. jobs' = Set(j, job)
    BY <1>3, <2>1, <2>2, <2>3 DEF Load
  <2>5. label \in {"complete", "step"} /\ (label = "step" => RowState(old) \notin {"READY", "QUARANTINED"})
    BY <2>1, <2>2 DEF TerminalState, StateOf, RowState
  <2>6. /\ job \in Job /\ job.instance = old.instance /\ job.operation = old.operation
        /\ job.named = old.named /\ job.copy = old.copy /\ job.state = old.state /\ job.at = label
        /\ job.rolling = old.rolling /\ job.undo = old.undo /\ job.early = old.early
    BY <1>1, <2>2, <2>3, <2>5 DEF Job
  <2>7. old.state = "RUNNING" /\ (old.rolling # "-" => ~Undisturbed(old) /\ Supported(old.operation))
    BY <1>1, <1>2, <2>2 DEF SoundJob, Works, Undoes
  <2>8. SoundJob(job)'
    <3> USE DEF SlotOnly
    <3>1. Works(job)'
      BY <1>2, <1>3, <2>2, <2>5, <2>6, <2>7 DEF Works, Stepping, RowState
    <3>2. Knows(job)'
      BY <1>1, <1>2, <2>2, <2>5, <2>6 DEF SoundJob, Knows, Undisturbed, RowState, Has, Late
    <3>3. Undoes(job)' /\ Spares(job)'
      BY <1>2, <2>5, <2>6, <2>7 DEF Undoes, Spares, Stepping, Undisturbed, RowState
    <3> QED
      BY <3>1, <3>2, <3>3 DEF SoundJob
  <2> QED
    BY <1>1, <1>2, <2>2, <2>4, <2>6, <2>8, SlotOnlyStep
<1>4. CASE ~Supported(jobs[j].operation)
  <2>1. jobs' = Set(j, Dropped(jobs[j], "FAILED"))
    BY <1>4 DEF Load
  <2> QED
    BY <1>2, <2>1, LeaveStep DEF JobStates
<1> QED
  BY <1>3, <1>4

(* A job that is done is at rest. *)
LEMMA CompleteStep ==
  ASSUME OperatorInv, NEW j \in JobIds, Complete(j) PROVE OperatorInv'
<1>1. TableInv /\ faults' \in 0 .. MaxFaults
  BY FaultsBounded DEF OperatorInv, Complete
<1> QED
  BY <1>1, LeaveStep DEF Complete, JobStates

(* A dead slot leaves its job in the queue. *)
LEMMA CrashStep ==
  ASSUME OperatorInv, NEW j \in JobIds, Crash(j) PROVE OperatorInv'
<1>1. TableInv /\ faults' \in 0 .. MaxFaults
  BY FaultsBounded DEF OperatorInv, Crash
<1> QED
  BY <1>1, LeaveStep DEF Crash, JobStates

(* A job is given up with the copy its slot had.  If that does not name the mapping, the step has *)
(* saved it; if the instance is READY or quarantined, the slot could not look at it.              *)
LEMMA GivingUp ==
  ASSUME OperatorInv, NEW j \in JobIds, SlotOnly, faults' \in 0 .. MaxFaults,
         jobs' = Set(j, GivenUp(jobs[j])), jobs[j].at # "-", Supported(jobs[j].operation),
         late' \in {late, late \cup {jobs[j].instance}}, unseen' \in {unseen, unseen \cup {jobs[j].instance}},
         jobs[j].at = "persist" /\ jobs[j].to = "VALIDATING" /\ "mapping" \notin jobs[j].copy
           => jobs[j].instance \in late',
         ~Stepping(jobs[j]) /\ StateOf(j) \in {"READY", "QUARANTINED"} => jobs[j].instance \in unseen'
  PROVE  OperatorInv'
<1>1. TableInv /\ jobs[j] \in Job /\ SoundJob(jobs[j])
  BY JobType DEF OperatorInv, WorkInv
<1>2. PICK old : old = jobs[j]
  OBVIOUS
<1>3. PICK job : job = GivenUp(old)
  OBVIOUS
<1>4. /\ job \in Job /\ job.instance = old.instance /\ job.operation = old.operation
      /\ job.named = old.named /\ job.state = "FAILED" /\ job.at = "-"
      /\ job.rolling = "release" /\ job.undo = old.copy /\ job.early = old.early
  BY <1>1, <1>2, <1>3 DEF GivenUp, Dropped, Job, JobStates
<1>5. SoundJob(job)'
  <2> USE DEF SlotOnly
  <2>1. Works(job)'
    BY <1>2, <1>4 DEF Works, Stepping
  <2>2. Knows(job)'
    BY <1>1, <1>2, <1>4 DEF SoundJob, Knows, Undisturbed, RowState, Has, Late
  <2>3. Undoes(job)'
    BY <1>1, <1>2, <1>4 DEF SoundJob, Works, Knows, Undoes, Stepping, Undisturbed, RowState, StateOf, Has, Late
  <2>4. Spares(job)'
    BY <1>1, <1>2, <1>4 DEF SoundJob, Spares, Stepping, Undisturbed, RowState, StateOf
  <2> QED
    BY <2>1, <2>2, <2>3, <2>4 DEF SoundJob
<1> QED
  BY <1>1, <1>2, <1>3, <1>4, <1>5, SlotOnlyStep

(* A state nobody handles gives the job up. *)
LEMMA NoHandlerStep ==
  ASSUME OperatorInv, NEW j \in JobIds, NoHandler(j) PROVE OperatorInv'
<1>1. TableInv /\ faults' \in 0 .. MaxFaults /\ SoundJob(jobs[j])
  BY FaultsBounded DEF OperatorInv, NoHandler, WorkInv
<1>2. /\ jobs[j].at = "step" /\ Stepping(jobs[j]) /\ Supported(jobs[j].operation) /\ SlotOnly
      /\ jobs' = Set(j, GivenUp(jobs[j])) /\ UNCHANGED <<unseen, late>>
  BY <1>1 DEF NoHandler, Stepping, SoundJob, Works
<1> QED
  BY <1>1, <1>2, GivingUp

(* A look that fails waits for the next attempt, or gives the job up whatever its instance is. *)
LEMMA LoadFailsStep ==
  ASSUME OperatorInv, NEW j \in JobIds, LoadFails(j) PROVE OperatorInv'
<1>1. TableInv /\ faults' \in 0 .. MaxFaults
  BY FaultsBounded DEF OperatorInv, LoadFails
<1>2. /\ jobs[j].at = "load" /\ Supported(jobs[j].operation) /\ SlotOnly /\ UNCHANGED late
      /\ jobs[j] \in Job
  BY <1>1, JobType DEF LoadFails, FailOrRetry
<1>3. CASE jobs[j].attempt < MaxAttempts
  <2>1. jobs' = Set(j, Dropped(jobs[j], "RETRY_WAIT")) /\ unseen' = unseen
    BY <1>2, <1>3 DEF LoadFails, FailOrRetry, Job
  <2> QED
    BY <1>1, <1>2, <2>1, LeaveStep DEF JobStates
<1>4. CASE ~(jobs[j].attempt < MaxAttempts)
  <2>1. jobs' = Set(j, GivenUp(jobs[j]))
    BY <1>4 DEF LoadFails, FailOrRetry
  <2>2. unseen' = IF TerminalState(StateOf(j)) THEN unseen \cup {jobs[j].instance} ELSE unseen
    BY <1>2, <1>4 DEF LoadFails, Job
  <2> QED
    BY <1>1, <1>2, <2>1, <2>2, GivingUp DEF TerminalState
<1> QED
  BY <1>3, <1>4

(* A failed step waits for its next attempt or gives the job up. *)
LEMMA StepFailsStep ==
  ASSUME OperatorInv, NEW j \in JobIds, StepFails(j) PROVE OperatorInv'
<1>1. TableInv /\ faults' \in 0 .. MaxFaults /\ SoundJob(jobs[j]) /\ jobs[j] \in Job
  BY FaultsBounded, JobType DEF OperatorInv, StepFails, WorkInv
<1>2. /\ Stepping(jobs[j]) /\ Supported(jobs[j].operation) /\ SlotOnly /\ UNCHANGED unseen
      /\ jobs[j].at # "-"
  BY <1>1 DEF StepFails, FailOrRetry, Stepping, SoundJob, Works
<1>3. CASE jobs[j].attempt < MaxAttempts
  <2>1. jobs' = Set(j, Dropped(jobs[j], "RETRY_WAIT")) /\ late' = late
    BY <1>1, <1>3 DEF StepFails, FailOrRetry, Job
  <2> QED
    BY <1>1, <1>2, <2>1, LeaveStep DEF JobStates
<1>4. CASE ~(jobs[j].attempt < MaxAttempts)
  <2>1. jobs' = Set(j, GivenUp(jobs[j]))
    BY <1>4 DEF StepFails, FailOrRetry
  <2>2. late' = IF jobs[j].to = "VALIDATING" /\ "mapping" \notin jobs[j].copy
                THEN late \cup {jobs[j].instance} ELSE late
    BY <1>1, <1>4 DEF StepFails, Job
  <2> QED
    BY <1>1, <1>2, <2>1, <2>2, GivingUp
<1> QED
  BY <1>3, <1>4

(* A rollback that is over has its job to itself, so the job is at rest. *)
LEMMA RolledBackJob ==
  ASSUME NEW old \in Job
  PROVE  /\ RolledBack(old) \in Job
         /\ RolledBack(old).instance = old.instance /\ RolledBack(old).operation = old.operation
         /\ RolledBack(old).state = old.state /\ RolledBack(old).at = old.at
         /\ RolledBack(old).named = old.named /\ RolledBack(old).copy = old.copy
         /\ RolledBack(old).to = old.to /\ RolledBack(old).rolling = "-"
BY DEF RolledBack, Job

(* A rollback that dies leaves its job where the job is. *)
LEMMA RollbackDiesStep ==
  ASSUME OperatorInv, NEW j \in JobIds, RollbackDies(j) PROVE OperatorInv'
<1>1. TableInv /\ jobs[j] \in Job /\ SoundJob(jobs[j]) /\ faults' \in 0 .. MaxFaults
  BY JobType, FaultsBounded DEF OperatorInv, WorkInv, RollbackDies
<1>2. PICK old : old = jobs[j]
  OBVIOUS
<1>3. PICK job : job = RolledBack(old)
  OBVIOUS
<1>4. jobs' = Set(j, job) /\ SlotOnly /\ UNCHANGED <<unseen, late>> /\ old.rolling # "-"
  BY <1>2, <1>3 DEF RollbackDies
<1>5. /\ job \in Job /\ job.instance = old.instance /\ job.operation = old.operation
      /\ job.named = old.named /\ job.copy = old.copy /\ job.to = old.to
      /\ job.state = old.state /\ job.at = old.at /\ job.rolling = "-"
  BY <1>1, <1>2, <1>3, RolledBackJob
<1>6. SoundJob(job)'
  <2> USE DEF SlotOnly
  <2>1. Works(job)'
    BY <1>1, <1>2, <1>4, <1>5 DEF SoundJob, Works, Stepping, RowState
  <2>2. Knows(job)'
    BY <1>1, <1>2, <1>4, <1>5 DEF SoundJob, Knows, Undisturbed, RowState, Has, Late
  <2>3. Undoes(job)'
    BY <1>5 DEF Undoes
  <2>4. Undisturbed(old) => old.at = "-"
    BY <1>1, <1>2, <1>4 DEF SoundJob, Works, Undoes
  <2>5. Spares(job)'
    BY <1>4, <1>5, <2>4 DEF Spares, Stepping, Undisturbed
  <2> QED
    BY <2>1, <2>2, <2>3, <2>5 DEF SoundJob
<1> QED
  BY <1>1, <1>2, <1>4, <1>5, <1>6, SlotOnlyStep
-----------------------------------------------------------------------------
(* A handler acquires for its instance alone, and only what the job names: the VMID is in the row *)
(* before the clone, and the mapping's id is saved as soon as it is known.                        *)
LEMMA ExecuteStep ==
  ASSUME OperatorInv, NEW j \in JobIds, Execute(j) PROVE OperatorInv'
<1>1. TableInv /\ jobs[j] \in Job /\ jobs[j].instance \in Instances /\ SoundJob(jobs[j])
  BY JobType DEF OperatorInv, WorkInv
<1>2. PICK old : old = jobs[j]
  OBVIOUS
<1>3. PICK i : i = old.instance
  OBVIOUS
<1>4. PICK st : st = rows[i].state
  OBVIOUS
<1>5. PICK made : made = CASE st = "CLONING" -> {"VM"} [] st = "NETWORK_BINDING" -> {"mapping"} [] OTHER -> {}
  OBVIOUS
<1>6. made \subseteq Resources
  BY <1>5 DEF Resources
<1>7. PICK s \in Outcomes(i) :
        jobs' = Set(j, [old EXCEPT !.at = "persist", !.to = s,
                                   !.named = IF s = "VALIDATING" THEN @ \cup made ELSE @])
  BY <1>2, <1>3, <1>4, <1>5 DEF Execute, StateOf
<1>8. PICK named : named = IF s = "VALIDATING" THEN old.named \cup made ELSE old.named
  OBVIOUS
<1>9. PICK job : job = [old EXCEPT !.at = "persist", !.to = s, !.named = named]
  OBVIOUS
<1>10. /\ old.at = "step" /\ st \in Registered /\ (st = "VALIDATING" => <<i, "VM">> \in holding)
       /\ jobs' = Set(j, job) /\ holding' = holding \cup ({i} \X made)
       /\ UNCHANGED <<rows, request, faults, history>>
  BY <1>2, <1>3, <1>4, <1>5, <1>7, <1>8, <1>9 DEF Execute, StateOf
<1>11. /\ s = "CLONING" <=> st = "REQUESTED"
       /\ s = "NETWORK_BINDING" <=> st = "CLONING"
       /\ s = "VALIDATING" <=> st = "NETWORK_BINDING"
       /\ s \in {"READY", "QUARANTINED"} <=> st = "VALIDATING"
       /\ s = "READY" => <<i, "mapping">> \in holding
       /\ s \in {"CLONING", "NETWORK_BINDING", "VALIDATING", "READY", "QUARANTINED"}
  BY <1>4, <1>7, <1>10 DEF Outcomes, Registered
<1>12. named \in SUBSET Resources
  BY <1>1, <1>2, <1>6, <1>8 DEF Job
<1>13. /\ job \in Job /\ job.instance = i /\ job.operation = old.operation
       /\ job.state = old.state /\ job.at = "persist" /\ job.to = s /\ job.named = named
       /\ job.copy = old.copy /\ job.rolling = old.rolling /\ job.undo = old.undo /\ job.early = old.early
  BY <1>1, <1>2, <1>3, <1>9, <1>11, <1>12 DEF Job, InstanceStates, Registered
<1>14. /\ old.state = "RUNNING" /\ Supported(old.operation)
       /\ old.rolling # "-" => i \in reopened
  BY <1>1, <1>2, <1>3, <1>10 DEF SoundJob, Works, Undoes, Undisturbed
<1>15. /\ <<i, "VM">> \in holding' <=> <<i, "VM">> \in holding \/ st = "CLONING"
       /\ <<i, "mapping">> \in holding' <=> <<i, "mapping">> \in holding \/ st = "NETWORK_BINDING"
       /\ \A k \in Instances, x \in Resources : k # i => (<<k, x>> \in holding' <=> <<k, x>> \in holding)
       /\ holding' \subseteq Instances \X Resources
  BY <1>1, <1>2, <1>3, <1>5, <1>6, <1>10 DEF TableInv
<1>16. SoundJob(job)'
  <2>1. Works(job)'
    BY <1>4, <1>10, <1>11, <1>13, <1>14 DEF Works, Stepping, RowState, Registered
  <2>2. Knows(job)'
    <3> SUFFICES ASSUME i \notin reopened PROVE Knows(job)'
      BY <1>10, <1>13 DEF Knows, Undisturbed, history
    <3>1. /\ st \in {"CLONING", "NETWORK_BINDING", "VALIDATING"} \/ <<i, "VM">> \in holding => "VM" \in old.named
          /\ <<i, "mapping">> \in holding => "mapping" \in old.named \/ i \in late
          /\ "VM" \in old.named => "VM" \in old.copy
          /\ "mapping" \in old.named => "mapping" \in old.copy
      BY <1>1, <1>2, <1>3, <1>4, <1>10, <1>14 DEF SoundJob, Knows, Undisturbed, RowState, Has, Late
    <3>2. /\ "VM" \in named <=> "VM" \in old.named
          /\ "mapping" \in named <=> "mapping" \in old.named \/ st = "NETWORK_BINDING"
      BY <1>5, <1>8, <1>11
    <3> QED
      BY <1>4, <1>10, <1>11, <1>13, <1>15, <3>1, <3>2 DEF Knows, RowState, Has, Late, history
  <2>3. Undoes(job)'
    BY <1>10, <1>13, <1>14 DEF Undoes, Undisturbed, history
  <2>4. Spares(job)'
    BY <1>4, <1>10, <1>13 DEF Spares, RowState, Registered
  <2> QED
    BY <2>1, <2>2, <2>3, <2>4 DEF SoundJob
<1>17. Instances' = Instances /\ JobIds' = JobIds /\ RequestInv'
  BY <1>1, <1>2, <1>3, <1>10, <1>13, JobChange DEF OperatorInv, RequestInv, Instances
<1>18. rows'[i].state \notin {"FAILED", "READY"}
  BY <1>4, <1>10 DEF Registered
<1> QED
  BY <1>1, <1>2, <1>3, <1>10, <1>13, <1>14, <1>15, <1>16, <1>17, <1>18, JobStep DEF TableInv, history

(* READY is written only over what was seen in validation, with its VM and mapping. *)
LEMMA PersistStep ==
  ASSUME OperatorInv, NEW j \in JobIds, Persist(j) PROVE OperatorInv'
<1>1. TableInv /\ jobs[j] \in Job /\ jobs[j].instance \in Instances /\ SoundJob(jobs[j])
  BY JobType DEF OperatorInv, WorkInv
<1>2. PICK old : old = jobs[j]
  OBVIOUS
<1>3. PICK i : i = old.instance
  OBVIOUS
<1>4. PICK s : s = old.to
  OBVIOUS
<1>5. PICK cp : cp = old.copy \cup Adds(s)
  OBVIOUS
<1>6. PICK job : job = [old EXCEPT !.at = "load", !.to = "-", !.named = cp, !.copy = cp]
  OBVIOUS
<1>7. /\ old.at = "persist" /\ jobs' = Set(j, job) /\ rows' = [rows EXCEPT ![i].state = s]
      /\ UNCHANGED <<holding, request, faults, history>>
  BY <1>2, <1>3, <1>4, <1>5, <1>6 DEF Persist
<1>8. /\ old.state = "RUNNING" /\ Supported(old.operation) /\ (old.rolling # "-" => i \in reopened)
      /\ s \in {"CLONING", "NETWORK_BINDING", "VALIDATING", "READY", "QUARANTINED"}
  BY <1>1, <1>2, <1>3, <1>4, <1>7 DEF SoundJob, Works, Undoes, Undisturbed
<1>9. /\ "VM" \in cp <=> "VM" \in old.copy \/ s = "CLONING"
      /\ "mapping" \in cp <=> "mapping" \in old.copy \/ s = "VALIDATING"
      /\ cp \in SUBSET Resources
  BY <1>1, <1>2, <1>5 DEF Adds, Resources, Job
<1>10. /\ job \in Job /\ job.instance = i /\ job.operation = old.operation
       /\ job.state = old.state /\ job.at = "load" /\ job.named = cp /\ job.copy = cp
       /\ job.rolling = old.rolling
  BY <1>1, <1>2, <1>3, <1>6, <1>9 DEF Job
<1>11. /\ rows' \in Seq(Row) /\ Len(rows') = Len(rows) /\ Instances' = Instances
       /\ rows'[i].state = s
       /\ \A k \in Instances : k # i => rows'[k] = rows[k]
       /\ \A k \in Instances : rows'[k].generation = rows[k].generation
                               /\ rows'[k].retired = rows[k].retired
  <2>1. i \in Instances /\ TableInv /\ s \in InstanceStates
    BY <1>1, <1>2, <1>3, <1>8 DEF InstanceStates, Registered
  <2>2. rows' = [rows EXCEPT ![i].state = s]
    BY <1>7
  <2> QED
    BY <2>1, <2>2, RowChange
<1>12. i \notin reopened => /\ <<i, "VM">> \in holding => "VM" \in old.copy
                            /\ <<i, "mapping">> \in holding => "mapping" \in cp \/ i \in late
                            /\ s \in {"NETWORK_BINDING", "VALIDATING", "READY"} => "VM" \in old.copy
                            /\ s = "READY" => <<i, "VM">> \in holding /\ <<i, "mapping">> \in holding
  BY <1>1, <1>2, <1>3, <1>4, <1>7, <1>8, <1>9 DEF SoundJob, Knows, Undisturbed, Has, Late
<1>13. SoundJob(job)'
  <2>1. Works(job)'
    BY <1>8, <1>10 DEF Works, Stepping
  <2>2. Knows(job)'
    BY <1>7, <1>8, <1>9, <1>10, <1>11, <1>12 DEF Knows, Undisturbed, RowState, Has, Late, history
  <2>3. Undoes(job)' /\ Spares(job)'
    BY <1>7, <1>8, <1>10 DEF Undoes, Spares, Stepping, Undisturbed, history
  <2> QED
    BY <2>1, <2>2, <2>3 DEF SoundJob
<1>14. JobIds' = JobIds
  BY <1>1, <1>2, <1>3, <1>7, <1>10, JobChange
<1>15. RequestInv'
  BY <1>7, <1>11, <1>14 DEF OperatorInv, RequestInv
<1>16. /\ rows'[i].state # "FAILED"
       /\ rows'[i].state = "READY" /\ i \notin reopened' \cup unseen'
            => <<i, "VM">> \in holding' /\ <<i, "mapping">> \in holding'
  BY <1>7, <1>8, <1>11, <1>12 DEF history
<1>17. /\ jobs' = Set(j, job) /\ i = jobs[j].instance /\ job.operation = jobs[j].operation
       /\ UNCHANGED <<holding, reopened, unseen, late>> /\ faults' \in 0 .. MaxFaults
       /\ holding \subseteq Instances \X Resources
  BY <1>1, <1>2, <1>3, <1>7, <1>10 DEF TableInv, history
<1> QED
  BY <1>8, <1>10, <1>11, <1>13, <1>15, <1>16, <1>17, JobStep

(* A rollback that is not disturbed deletes what nobody is at work with. *)
LEMMA ReleaseStep ==
  ASSUME OperatorInv, NEW j \in JobIds, Release(j) PROVE OperatorInv'
<1>1. TableInv /\ jobs[j] \in Job /\ jobs[j].instance \in Instances /\ SoundJob(jobs[j])
  BY JobType DEF OperatorInv, WorkInv
<1>2. PICK old : old = jobs[j]
  OBVIOUS
<1>3. PICK i : i = old.instance
  OBVIOUS
<1>4. /\ old.rolling = "release" /\ UNCHANGED <<rows, request, history>>
      /\ old.undo \subseteq Resources
  BY <1>1, <1>2 DEF Release, Job
<1>5. PICK outcome \in {"FAILED", "leftover"}, gone \in SUBSET old.undo :
        /\ jobs' = Set(j, [old EXCEPT !.rolling = outcome])
        /\ holding' = holding \ ({i} \X gone)
        /\ outcome = "FAILED" => gone = old.undo
        /\ Fault \/ UNCHANGED faults
  <2>1. CASE /\ holding' = holding \ ({i} \X old.undo)
             /\ jobs' = Set(j, [old EXCEPT !.rolling = "FAILED"])
             /\ UNCHANGED faults
    BY <2>1
  <2>2. CASE \E gone \in SUBSET old.undo :
               /\ Fault \/ UNCHANGED faults
               /\ holding' = holding \ ({i} \X gone)
               /\ jobs' = Set(j, [old EXCEPT !.rolling = "leftover"])
    BY <2>2
  <2> QED
    BY <1>2, <1>3, <2>1, <2>2 DEF Release
<1>6. PICK job : job = [old EXCEPT !.rolling = outcome]
  OBVIOUS
<1>7. /\ job \in Job /\ job.instance = i /\ job.operation = old.operation /\ job.named = old.named
      /\ job.state = old.state /\ job.at = old.at /\ job.copy = old.copy /\ job.to = old.to
      /\ job.rolling = outcome /\ job.undo = old.undo /\ job.early = old.early
  BY <1>1, <1>2, <1>3, <1>6 DEF Job
<1>8. jobs' = Set(j, job)
  BY <1>5, <1>6
<1>9. /\ Supported(old.operation)
      /\ i \notin reopened => /\ old.state = "FAILED" /\ old.at = "-"
                              /\ rows[i].state = "READY" => i \in unseen
                              /\ <<i, "VM">> \in holding => "VM" \in old.undo
                              /\ <<i, "mapping">> \in holding => "mapping" \in old.undo \/ i \in late
  BY <1>1, <1>2, <1>3, <1>4 DEF SoundJob, Works, Undoes, Undisturbed, RowState, Has, Late
<1>10. /\ \A x \in Resources : <<i, x>> \in holding' <=> <<i, x>> \in holding /\ x \notin gone
       /\ \A k \in Instances, x \in Resources : k # i => (<<k, x>> \in holding' <=> <<k, x>> \in holding)
       /\ holding' \subseteq Instances \X Resources
  BY <1>1, <1>5 DEF TableInv
<1>11. SoundJob(job)'
  <2>1. Works(job)'
    BY <1>1, <1>2, <1>3, <1>4, <1>7, <1>9 DEF SoundJob, Works, Stepping, RowState
  <2>2. Knows(job)'
    BY <1>1, <1>2, <1>3, <1>4, <1>7, <1>9, <1>10 DEF SoundJob, Knows, Undisturbed, RowState, Has, Late, history, Resources
  <2>3. Undoes(job)'
    BY <1>4, <1>5, <1>7, <1>9, <1>10 DEF Undoes, Undisturbed, RowState, Has, Late, history, Resources
  <2>4. Spares(job)'
    BY <1>1, <1>2, <1>3, <1>4, <1>7 DEF SoundJob, Spares, Stepping, Undisturbed, RowState, history
  <2> QED
    BY <2>1, <2>2, <2>3, <2>4 DEF SoundJob
<1>12. Instances' = Instances /\ JobIds' = JobIds /\ RequestInv'
  BY <1>1, <1>2, <1>3, <1>4, <1>7, <1>8, JobChange DEF OperatorInv, RequestInv, Instances
<1>13. /\ rows'[i].state = "FAILED" /\ i \notin reopened'
            => <<i, "VM">> \notin holding' /\ (<<i, "mapping">> \in holding' => i \in late')
       /\ rows'[i].state = "READY" => i \in reopened' \cup unseen'
  BY <1>1, <1>2, <1>3, <1>4, <1>9, <1>10 DEF OperatorInv, FailedHoldsNothing, history, Resources
<1>14. faults' \in 0 .. MaxFaults
  BY <1>1, <1>5, FaultsBounded
<1> QED
  BY <1>1, <1>2, <1>3, <1>4, <1>7, <1>8, <1>9, <1>10, <1>11, <1>12, <1>13, <1>14, JobStep DEF TableInv, history

(* A rollback records what it has done to the instance it had to itself. *)
LEMMA RecordRollbackStep ==
  ASSUME OperatorInv, NEW j \in JobIds, RecordRollback(j) PROVE OperatorInv'
<1>1. TableInv /\ jobs[j] \in Job /\ jobs[j].instance \in Instances /\ SoundJob(jobs[j])
  BY JobType DEF OperatorInv, WorkInv
<1>2. PICK old : old = jobs[j]
  OBVIOUS
<1>3. PICK i : i = old.instance
  OBVIOUS
<1>4. PICK s : s = FinalState(old.rolling)
  OBVIOUS
<1>5. PICK over : over = RolledBack(old)
  OBVIOUS
<1>6. PICK job : job = [over EXCEPT !.named = old.undo]
  OBVIOUS
<1>7. /\ old.rolling \in {"FAILED", "leftover"} /\ rows' = [rows EXCEPT ![i].state = s]
      /\ jobs' = Set(j, job) /\ unseen' = unseen \ {i}
      /\ UNCHANGED <<holding, request, faults, reopened, late>>
  BY <1>2, <1>3, <1>4, <1>5, <1>6 DEF RecordRollback
<1>8. s \in {"FAILED", "QUARANTINED"} /\ (s = "FAILED" => old.rolling = "FAILED")
  BY <1>4, <1>7 DEF FinalState
<1>9. /\ over \in Job /\ over.instance = i /\ over.operation = old.operation
      /\ over.state = old.state /\ over.at = old.at /\ over.copy = old.copy /\ over.to = old.to
      /\ over.rolling = "-" /\ old.undo \in SUBSET Resources
  BY <1>1, <1>2, <1>3, <1>5, RolledBackJob DEF Job
<1>10. /\ job \in Job /\ job.instance = i /\ job.operation = old.operation
       /\ job.state = old.state /\ job.at = old.at /\ job.copy = old.copy /\ job.to = old.to
       /\ job.rolling = "-" /\ job.named = old.undo
  BY <1>6, <1>9 DEF Job
<1>11. /\ rows' \in Seq(Row) /\ Len(rows') = Len(rows) /\ Instances' = Instances
       /\ rows'[i].state = s
       /\ \A k \in Instances : k # i => rows'[k] = rows[k]
       /\ \A k \in Instances : rows'[k].generation = rows[k].generation
                               /\ rows'[k].retired = rows[k].retired
  <2>1. i \in Instances /\ TableInv /\ s \in InstanceStates
    BY <1>1, <1>2, <1>3, <1>8 DEF InstanceStates
  <2>2. rows' = [rows EXCEPT ![i].state = s]
    BY <1>7
  <2> QED
    BY <2>1, <2>2, RowChange
<1>12. /\ Supported(old.operation)
       /\ i \notin reopened => /\ old.at = "-"
                               /\ <<i, "VM">> \in holding => "VM" \in old.undo
                               /\ <<i, "mapping">> \in holding => "mapping" \in old.undo \/ i \in late
                               /\ old.rolling = "FAILED" => /\ <<i, "VM">> \notin holding
                                                            /\ <<i, "mapping">> \in holding => i \in late
  BY <1>1, <1>2, <1>3, <1>7 DEF SoundJob, Works, Undoes, Undisturbed, Has, Late
<1>13. SoundJob(job)'
  <2>1. Works(job)'
    BY <1>1, <1>2, <1>8, <1>10, <1>11, <1>12 DEF SoundJob, Works, Stepping, RowState
  <2>2. Knows(job)'
    BY <1>7, <1>8, <1>10, <1>11, <1>12 DEF Knows, Undisturbed, RowState, Has, Late
  <2>3. Undoes(job)' /\ Spares(job)'
    BY <1>7, <1>10, <1>12 DEF Undoes, Spares, Stepping, Undisturbed
  <2> QED
    BY <2>1, <2>2, <2>3 DEF SoundJob
<1>14. JobIds' = JobIds
  BY <1>1, <1>2, <1>3, <1>7, <1>10, JobChange
<1>15. RequestInv'
  BY <1>7, <1>11, <1>14 DEF OperatorInv, RequestInv
<1>16. /\ rows'[i].state = "FAILED" /\ i \notin reopened'
            => <<i, "VM">> \notin holding' /\ (<<i, "mapping">> \in holding' => i \in late')
       /\ rows'[i].state # "READY"
  BY <1>7, <1>8, <1>11, <1>12
<1>17. /\ jobs' = Set(j, job) /\ i = jobs[j].instance /\ job.operation = jobs[j].operation
       /\ UNCHANGED <<holding, reopened, late>> /\ unseen' = unseen \ {i} /\ faults' \in 0 .. MaxFaults
       /\ holding \subseteq Instances \X Resources
  BY <1>1, <1>2, <1>3, <1>7, <1>10 DEF TableInv
<1> QED
  BY <1>10, <1>11, <1>12, <1>13, <1>15, <1>16, <1>17, JobStep
-----------------------------------------------------------------------------
(* An answer ends its request and leaves what the others have read in place. *)
LEMMA AnswerKeepsRequests ==
  ASSUME RequestInv, NEW r \in Requests, Answer(r), Instances \subseteq Instances', JobIds \subseteq JobIds'
  PROVE  RequestInv'
<1>1. request' \in [Requests -> Request]
  BY DEF RequestInv, Answer, Request
<1>2. \A q \in Requests :
        /\ request'[q].instance = request[q].instance /\ request'[q].generation = request[q].generation
        /\ request'[q].job = request[q].job
        /\ request'[q].op # "done" => request'[q].op = request[q].op
  BY DEF RequestInv, Answer, Request
<1> QED
  BY <1>1, <1>2 DEF RequestInv

(* What only the requests see changes nothing else. *)
LEMMA RequestOnly ==
  ASSUME OperatorInv, UNCHANGED <<rows, jobs, holding, faults, history>>, RequestInv'
  PROVE  OperatorInv'
<1>1. Instances' = Instances /\ JobIds' = JobIds
  BY DEF Instances, JobIds
<1>2. TableInv' /\ JobsInv'
  BY <1>1 DEF OperatorInv, TableInv, JobsInv, JobsOf, history
<1>3. WorkInv'
  BY <1>1, LaidDown, JobType DEF OperatorInv, WorkInv
<1>4. (OneLiveGeneration /\ FailedHoldsNothing /\ ReadyHoldsResources)'
  BY <1>1 DEF OperatorInv, OneLiveGeneration, FailedHoldsNothing, ReadyHoldsResources, history
<1> QED
  BY <1>2, <1>3, <1>4 DEF OperatorInv

(* A refusal only ends the request. *)
LEMMA RefusedStep ==
  ASSUME OperatorInv, NEW r \in Requests, Refused(r) PROVE OperatorInv'
<1>1. Instances' = Instances /\ JobIds' = JobIds
  BY DEF Refused, Instances, JobIds
<1>2. RequestInv'
  BY <1>1, AnswerKeepsRequests DEF Refused, OperatorInv
<1> QED
  BY <1>2, RequestOnly DEF Refused

(* The read finds an instance, its generation and its newest job. *)
LEMMA BeginStep ==
  ASSUME OperatorInv, NEW r \in Requests, NEW op \in Operations, Begin(r, op) PROVE OperatorInv'
<1>1. UNCHANGED <<rows, jobs, holding, faults, history>> /\ Instances' = Instances /\ JobIds' = JobIds
  BY DEF Begin, Instances, JobIds
<1>2. RequestInv /\ DOMAIN rows = 1 .. Len(rows) /\ DOMAIN jobs = 1 .. Len(jobs)
  BY LenProperties DEF OperatorInv, TableInv
<1>3. CASE op \in {"Create", "RetryJob"}
  <2> DEFINE q == [NoRequest EXCEPT !.op = op]
  <2>1. request' = [request EXCEPT ![r] = q]
    BY <1>3 DEF Begin
  <2>2. q \in Request /\ q.op = op
    BY DEF NoRequest, Request
  <2> HIDE DEF q
  <2> QED
    BY <1>1, <1>2, <1>3, <2>1, <2>2, RequestOnly DEF RequestInv
<1>4. CASE op \notin {"Create", "RetryJob"}
  <2> DEFINE newest(i) == CHOOSE j \in JobsOf(i) : \A k \in JobsOf(i) : k <= j
             q(i) == [op |-> op, instance |-> i, generation |-> rows[i].generation, job |-> newest(i)]
  <2>1. PICK i \in Instances : request' = [request EXCEPT ![r] = q(i)]
    BY <1>4 DEF Begin
  <2>2. newest(i) \in JobIds
    BY DEF OperatorInv, JobsInv, JobsOf
  <2>3. rows[i].generation = i
    BY DEF OperatorInv, OneLiveGeneration
  <2> HIDE DEF newest
  <2>4. i \in Nat /\ newest(i) \in Nat
    BY <1>2, <2>2 DEF Instances, JobIds
  <2>5. q(i) \in Request /\ q(i).instance = i /\ q(i).generation = i /\ q(i).job = newest(i)
    BY <2>3, <2>4 DEF Request
  <2> HIDE DEF q
  <2> QED
    BY <1>1, <1>2, <2>1, <2>2, <2>5, RequestOnly DEF RequestInv
<1> QED
  BY <1>3, <1>4

(* A job that is requeued in the middle of its rollback disturbs its instance; any other is at rest. *)
LEMMA RequeueStep ==
  ASSUME OperatorInv, NEW r \in Requests, NEW j \in JobIds, Requeue(r, j) PROVE OperatorInv'
<1>1. CASE jobs[j].state \notin Requeueable
  BY <1>1, RefusedStep DEF Requeue
<1>2. CASE jobs[j].state \in Requeueable
  <2>1. TableInv /\ jobs[j] \in Job /\ jobs[j].instance \in Instances /\ SoundJob(jobs[j])
    BY JobType DEF OperatorInv, WorkInv
  <2>2. PICK old : old = jobs[j]
    OBVIOUS
  <2>3. PICK i : i = old.instance
    OBVIOUS
  <2>4. PICK job : job = [old EXCEPT !.state = "QUEUED"]
    OBVIOUS
  <2>5. /\ jobs' = Set(j, job) /\ Answer(r) /\ UNCHANGED <<rows, holding, faults, unseen, late>>
        /\ reopened' = IF old.rolling # "-" THEN reopened \cup {i} ELSE reopened
    BY <1>2, <2>2, <2>3, <2>4 DEF Requeue
  <2>6. old.at = "-" /\ (old.rolling # "-" => Supported(old.operation) /\ i \in reopened')
    BY <1>2, <2>1, <2>2, <2>5 DEF SoundJob, Works, Requeueable
  <2>7. /\ job \in Job /\ job.instance = i /\ job.operation = old.operation /\ job.named = old.named
        /\ job.state = "QUEUED" /\ job.at = "-" /\ job.rolling = old.rolling
    BY <2>1, <2>2, <2>3, <2>4, <2>6 DEF Job, JobStates
  <2>8. SoundJob(job)'
    <3>1. Works(job)'
      BY <2>6, <2>7 DEF Works, Stepping
    <3>2. Knows(job)'
      BY <2>1, <2>2, <2>3, <2>5, <2>7 DEF SoundJob, Knows, Undisturbed, RowState, Has, Late
    <3>3. Undoes(job)' /\ Spares(job)'
      BY <2>6, <2>7 DEF Undoes, Spares, Stepping, Undisturbed
    <3> QED
      BY <3>1, <3>2, <3>3 DEF SoundJob
  <2>9. Instances' = Instances /\ JobIds' = JobIds
    BY <2>1, <2>2, <2>3, <2>5, <2>7, JobChange DEF Instances
  <2>10. RequestInv'
    BY <2>5, <2>9, AnswerKeepsRequests DEF OperatorInv
  <2>11. rows[i].state = "FAILED" /\ i \notin reopened'
           => <<i, "VM">> \notin holding /\ (<<i, "mapping">> \in holding => i \in late)
    BY <2>1, <2>2, <2>3, <2>5 DEF OperatorInv, FailedHoldsNothing
  <2>12. rows[i].state = "READY" /\ i \notin reopened' \cup unseen
           => <<i, "VM">> \in holding /\ <<i, "mapping">> \in holding
    BY <2>1, <2>2, <2>3, <2>5 DEF OperatorInv, ReadyHoldsResources, Resources
  <2>13. /\ i = jobs[j].instance /\ job.operation = jobs[j].operation
         /\ rows \in Seq(Row) /\ holding \subseteq Instances \X Resources /\ faults' \in 0 .. MaxFaults
         /\ reopened' \in {reopened, reopened \cup {i}}
         /\ Supported(job.operation) \/ UNCHANGED <<rows, holding, history>>
    BY <2>1, <2>2, <2>3, <2>5, <2>6, <2>7 DEF TableInv, history
  <2> QED
    BY <2>5, <2>7, <2>8, <2>9, <2>10, <2>11, <2>12, <2>13, JobStep
<1> QED
  BY <1>1, <1>2

(* Marking the slots at work changes no job otherwise. *)
LEMMA QuarantineStep ==
  ASSUME OperatorInv, NEW r \in Requests, Quarantine(r) PROVE OperatorInv'
<1> DEFINE i == request[r].instance
<1>1. /\ TableInv /\ i \in Instances /\ rows' = [rows EXCEPT ![i].state = "QUARANTINED"] /\ Answer(r)
      /\ jobs' = [j \in JobIds |-> IF j \in JobsOf(i) /\ AtWork(j) THEN [jobs[j] EXCEPT !.early = TRUE]
                                                                   ELSE jobs[j]]
      /\ UNCHANGED <<holding, faults, history>>
  BY DEF OperatorInv, RequestInv, Quarantine, Asks
<1>2. \A k \in JobIds : [jobs[k] EXCEPT !.early = TRUE] \in Job /\ jobs[k] \in Job
  BY <1>1, JobType DEF Job
<1>3. JobIds = 1 .. Len(jobs) /\ Len(jobs) \in Nat
  BY <1>1, LenProperties DEF TableInv, JobIds
<1>4. jobs' \in [1 .. Len(jobs) -> Job]
  BY <1>1, <1>2, <1>3
<1>5. jobs' \in Seq(Job) /\ JobIds' = JobIds
  BY <1>3, <1>4, SeqDef DEF JobIds
<1>6. \A k \in JobIds :
        /\ jobs'[k].instance = jobs[k].instance /\ jobs'[k].operation = jobs[k].operation
        /\ jobs'[k].state = jobs[k].state /\ jobs'[k].at = jobs[k].at /\ jobs'[k].to = jobs[k].to
        /\ jobs'[k].named = jobs[k].named /\ jobs'[k].copy = jobs[k].copy
        /\ jobs'[k].rolling = jobs[k].rolling /\ jobs'[k].undo = jobs[k].undo
        /\ jobs[k].early => jobs'[k].early
        /\ jobs[k].instance = i /\ (jobs[k].at # "-" \/ jobs[k].rolling # "-") => jobs'[k].early
  BY <1>1, <1>2 DEF Job, JobsOf, AtWork
<1>7. /\ rows' \in Seq(Row) /\ Len(rows') = Len(rows) /\ Instances' = Instances
      /\ rows'[i].state = "QUARANTINED"
      /\ \A k \in Instances : k # i => rows'[k] = rows[k]
      /\ \A k \in Instances : rows'[k].generation = rows[k].generation
                              /\ rows'[k].retired = rows[k].retired
  BY <1>1, RowChange DEF InstanceStates
<1> HIDE DEF i
<1>8. \A k \in JobIds : jobs[k].instance \in Instances
  BY <1>1, JobType
<1>9. \A n : JobsOf(n)' = JobsOf(n)
  BY <1>5, <1>6 DEF JobsOf
<1>10. TableInv'
  BY <1>1, <1>5, <1>6, <1>7 DEF TableInv, history
<1>11. JobsInv'
  BY <1>5, <1>6, <1>7, <1>9 DEF OperatorInv, JobsInv
<1>12. RequestInv'
  BY <1>1, <1>5, <1>7, AnswerKeepsRequests DEF OperatorInv
<1>13. WorkInv'
  <2>1. SUFFICES ASSUME NEW k \in JobIds PROVE SoundJob(jobs[k])'
    BY <1>5 DEF WorkInv
  <2>2. PICK old : old = jobs[k]
    OBVIOUS
  <2>3. PICK job : job = jobs'[k]
    OBVIOUS
  <2>4. /\ SoundJob(old) /\ old.instance \in Instances
        /\ job.instance = old.instance /\ job.operation = old.operation /\ job.state = old.state
        /\ job.at = old.at /\ job.to = old.to /\ job.named = old.named /\ job.copy = old.copy
        /\ job.rolling = old.rolling /\ job.undo = old.undo /\ (old.early => job.early)
        /\ old.instance = i /\ (old.at # "-" \/ old.rolling # "-") => job.early
    BY <1>6, <1>8, <2>2, <2>3 DEF OperatorInv, WorkInv
  <2>5. rows'[old.instance].state = IF old.instance = i THEN "QUARANTINED" ELSE rows[old.instance].state
    BY <1>7, <2>4
  <2>6. UNCHANGED <<holding, reopened, unseen, late>>
    BY <1>1 DEF history
  <2>7. Works(job)'
    BY <2>4, <2>5 DEF SoundJob, Works, Stepping, RowState
  <2>8. Knows(job)'
    BY <2>4, <2>5, <2>6 DEF SoundJob, Knows, Undisturbed, RowState, Has, Late
  <2>9. Undoes(job)'
    BY <2>4, <2>5, <2>6 DEF SoundJob, Undoes, Undisturbed, RowState, Has, Late
  <2>10. Spares(job)'
    BY <2>4, <2>5, <2>6 DEF SoundJob, Spares, Stepping, Undisturbed, RowState
  <2>11. SoundJob(job)'
    BY <2>7, <2>8, <2>9, <2>10 DEF SoundJob
  <2> QED
    BY <2>3, <2>11
<1>14. (OneLiveGeneration /\ FailedHoldsNothing /\ ReadyHoldsResources)'
  BY <1>1, <1>7 DEF OperatorInv, OneLiveGeneration, FailedHoldsNothing, ReadyHoldsResources, history
<1> QED
  BY <1>10, <1>11, <1>12, <1>13, <1>14 DEF OperatorInv

(* A new job is the newest. *)
LEMMA JobAppended ==
  ASSUME TableInv, NEW job \in Job, jobs' = Append(jobs, job)
  PROVE  /\ jobs' \in Seq(Job) /\ Len(jobs) \in Nat
         /\ JobIds' = JobIds \cup {Len(jobs) + 1} /\ Len(jobs) + 1 \notin JobIds
         /\ jobs'[Len(jobs) + 1] = job
         /\ \A k \in JobIds : k \in Nat /\ k <= Len(jobs) /\ jobs'[k] = jobs[k]
<1>1. DOMAIN jobs = 1 .. Len(jobs) /\ Len(jobs) \in Nat /\ jobs \in Seq(Job)
  BY LenProperties DEF TableInv
<1>2. /\ jobs' \in Seq(Job) /\ Len(jobs') = Len(jobs) + 1 /\ jobs'[Len(jobs) + 1] = job
      /\ \A k \in 1 .. Len(jobs) : jobs'[k] = jobs[k]
  BY <1>1, AppendProperties
<1>3. DOMAIN jobs' = 1 .. Len(jobs) + 1
  BY <1>2, LenProperties
<1> QED
  BY <1>1, <1>2, <1>3 DEF JobIds

(* A new job is queued and at rest. *)
LEMMA NewJobType ==
  ASSUME NEW i \in Nat, NEW op \in {"PROVISION", "REBUILD", "DECOMMISSION"}
  PROVE  /\ NewJob(i, op) \in Job
         /\ NewJob(i, op).instance = i /\ NewJob(i, op).operation = op /\ NewJob(i, op).state = "QUEUED"
         /\ NewJob(i, op).at = "-" /\ NewJob(i, op).rolling = "-"
BY DEF NewJob, Job, JobStates

(* Nothing is said of a queued job whose instance has nothing and has not begun. *)
LEMMA FreshJob ==
  ASSUME NEW job \in Job, job.state = "QUEUED", job.at = "-", job.rolling = "-",
         ~Supported(job.operation) \/ ( /\ rows[job.instance].state = "REQUESTED"
                                       /\ ~Has(job, "VM") /\ ~Has(job, "mapping"))
  PROVE  SoundJob(job)
BY DEF SoundJob, Works, Knows, Undoes, Spares, Stepping, RowState, Has

(* A row n and a job m of it are added, the newest of each. *)
NewestRow(n) ==
  /\ n \in Nat /\ n <= MaxInstances
  /\ rows' \in Seq(Row) /\ Len(rows') = n /\ Instances' = Instances \cup {n} /\ n \notin Instances
  /\ rows'[n].state = "REQUESTED" /\ rows'[n].generation = n /\ ~rows'[n].retired
  /\ \A k \in Instances : /\ k < n /\ rows'[k].generation = k /\ rows'[k].retired
                          /\ rows'[k].state \in {rows[k].state, "RETIRED"}

NewestJob(m, n) ==
  /\ m \in Nat
  /\ jobs' \in Seq(Job) /\ JobIds' = JobIds \cup {m} /\ m \notin JobIds
  /\ \A k \in JobIds : k \in Nat /\ k <= m /\ jobs'[k] = jobs[k]
  /\ jobs'[m] \in Job /\ jobs'[m].instance = n /\ jobs'[m].state = "QUEUED"
  /\ jobs'[m].at = "-" /\ jobs'[m].rolling = "-"

(* The invariant survives when all the other instances are retired. *)
LEMMA GenerationAdded ==
  ASSUME OperatorInv, NEW r \in Requests, Answer(r), UNCHANGED <<holding, faults, history>>,
         NEW n, NEW m, NewestRow(n), NewestJob(m, n)
  PROVE  OperatorInv'
<1> USE DEF NewestRow, NewestJob
<1>1. TableInv /\ (\A x : <<n, x>> \notin holding) /\ UNCHANGED <<holding, reopened, unseen, late>>
  BY DEF OperatorInv, TableInv, history
<1>2. \A k \in JobIds : jobs[k].instance \in Instances /\ jobs[k].instance # n
  BY <1>1, JobType
<1>5. \A i \in Instances : JobsOf(i)' = JobsOf(i)
  BY DEF JobsOf
<1>6. JobsOf(n)' = {m}
  BY <1>2 DEF JobsOf
<1>7. TableInv'
  BY <1>1, <1>2 DEF TableInv
<1>8. JobsInv'
  <2>1. ASSUME NEW i \in Instances' PROVE \E j \in JobsOf(i)' : \A k \in JobsOf(i)' : k <= j
    <3>1. CASE i \in Instances
      BY <3>1, <1>5 DEF OperatorInv, JobsInv
    <3>2. CASE i = n
      BY <3>2, <1>6
    <3> QED
      BY <3>1, <3>2
  <2>2. \A j, k \in JobIds' :
          Supported(jobs'[j].operation) /\ Supported(jobs'[k].operation)
            /\ jobs'[j].instance = jobs'[k].instance => j = k
    BY <1>2 DEF OperatorInv, JobsInv
  <2> QED
    BY <2>1, <2>2 DEF JobsInv
<1>9. RequestInv'
  BY AnswerKeepsRequests DEF OperatorInv
<1>10. WorkInv'
  <2>1. ASSUME NEW k \in JobIds PROVE SoundJob(jobs[k])'
    <3>1. PICK job : job = jobs[k]
      OBVIOUS
    <3>2. job \in Job /\ SoundJob(job) /\ job.instance \in Instances /\ jobs'[k] = job
      BY <1>1, <3>1, JobType DEF OperatorInv, WorkInv
    <3>3. SoundJob(job)'
      BY <3>2, LaidDown
    <3> QED
      BY <3>2, <3>3
  <2>2. SoundJob(jobs[m])'
    <3>1. PICK job \in Job : job = jobs'[m]
      OBVIOUS
    <3>2. rows'[n].state = "REQUESTED" /\ ~Has(job, "VM")' /\ ~Has(job, "mapping")'
      BY <1>1, <3>1 DEF Has
    <3>3. SoundJob(job)'
      BY <3>1, <3>2, FreshJob DEF SoundJob, Works, Knows, Undoes, Spares, Stepping, RowState, Has
    <3> QED
      BY <3>1, <3>3
  <2> QED
    BY <2>1, <2>2 DEF WorkInv
<1>14. OneLiveGeneration'
  BY DEF OneLiveGeneration
<1>15. (FailedHoldsNothing /\ ReadyHoldsResources)'
  BY <1>1 DEF OperatorInv, FailedHoldsNothing, ReadyHoldsResources
<1> QED
  BY <1>7, <1>8, <1>9, <1>10, <1>14, <1>15 DEF OperatorInv

(* So it is when row and job are appended to their tables. *)
LEMMA GenerationAppended ==
  ASSUME OperatorInv, NEW r \in Requests, Answer(r), UNCHANGED <<holding, faults, history>>,
         Len(rows) < MaxInstances,
         NEW old \in Seq(Row), Len(old) = Len(rows),
         \A k \in Instances : /\ old[k].generation = k /\ old[k].retired
                              /\ old[k].state \in {rows[k].state, "RETIRED"},
         NEW op \in {"PROVISION", "REBUILD"},
         rows' = Append(old, NewRow(Len(rows) + 1)), jobs' = Append(jobs, NewJob(Len(rows) + 1, op))
  PROVE  OperatorInv'
<1>1. /\ TableInv /\ Instances = 1 .. Len(rows) /\ Len(rows) \in Nat
      /\ JobIds = 1 .. Len(jobs) /\ Len(jobs) \in Nat
  BY LenProperties DEF OperatorInv, TableInv, Instances, JobIds
<1>2. PICK n \in Nat : n = Len(rows) + 1
  BY <1>1
<1>3. PICK m \in Nat : m = Len(jobs) + 1
  BY <1>1
<1>4. NewRow(n) \in Row /\ NewRow(n).state = "REQUESTED" /\ NewRow(n).generation = n
      /\ NewRow(n).retired = FALSE
  BY DEF NewRow, Row, InstanceStates, Registered
<1>5. /\ rows' \in Seq(Row) /\ Len(rows') = n /\ rows'[n] = NewRow(n)
      /\ \A k \in 1 .. Len(rows) : rows'[k] = old[k]
  BY <1>2, <1>4, AppendProperties
<1>6. Instances' = Instances \cup {n} /\ n \notin Instances /\ (\A k \in Instances : k < n) /\ n <= MaxInstances
  BY <1>1, <1>2, <1>5, LenProperties DEF Instances
<1>7. NewestRow(n)
  <2>1. \A k \in Instances : /\ k < n /\ rows'[k].generation = k /\ rows'[k].retired
                            /\ rows'[k].state \in {rows[k].state, "RETIRED"}
    BY <1>1, <1>5, <1>6
  <2> QED
    BY <1>4, <1>5, <1>6, <2>1 DEF NewestRow
<1>8. PICK job : job = NewJob(n, op)
  OBVIOUS
<1>9. /\ job \in Job /\ job.instance = n /\ job.state = "QUEUED"
      /\ job.at = "-" /\ job.rolling = "-"
  BY <1>8, NewJobType
<1>10. NewestJob(m, n)
  <2>1. /\ jobs' \in Seq(Job) /\ JobIds' = JobIds \cup {m} /\ m \notin JobIds
        /\ jobs'[m] = job /\ \A k \in JobIds : k \in Nat /\ k <= m /\ jobs'[k] = jobs[k]
    BY <1>1, <1>2, <1>3, <1>8, <1>9, JobAppended
  <2> QED
    BY <1>9, <2>1 DEF NewestJob
<1> QED
  BY <1>7, <1>10, GenerationAdded

(* The unique index on name and generation lets the first generation be created once. *)
LEMMA CreateStep ==
  ASSUME OperatorInv, NEW r \in Requests, Create(r) PROVE OperatorInv'
<1>1. CASE ~(Room /\ Unused(1))
  BY <1>1, RefusedStep DEF Create
<1>2. CASE Room /\ Unused(1)
  <2>1. rows \in Seq(Row) /\ Len(rows) \in Nat /\ Instances = 1 .. Len(rows)
    BY LenProperties DEF OperatorInv, TableInv, Instances
  <2>2. Len(rows) = 0
    BY <1>2, <2>1 DEF Unused, OperatorInv, OneLiveGeneration
  <2>3. /\ rows' = Append(rows, NewRow(Len(rows) + 1)) /\ jobs' = Append(jobs, NewJob(Len(rows) + 1, "PROVISION"))
        /\ Answer(r) /\ UNCHANGED <<holding, faults, history>> /\ Len(rows) < MaxInstances
    BY <1>2, <2>2 DEF Create, Room
  <2>4. Instances = {}
    BY <2>1, <2>2
  <2> QED
    BY <2>1, <2>3, <2>4, GenerationAppended
<1> QED
  BY <1>1, <1>2

(* Only the newest instance is not retired, so only the next generation can follow. *)
LEMMA RebuildStep ==
  ASSUME OperatorInv, NEW r \in Requests, Rebuild(r) PROVE OperatorInv'
<1> DEFINE i == request[r].instance
           g == request[r].generation + 1
           old == [rows EXCEPT ![i] = RetiredRow(@)]
<1>1. CASE ~(~rows[i].retired /\ Unused(g) /\ Room)
  BY <1>1, RefusedStep DEF Rebuild
<1>2. CASE ~rows[i].retired /\ Unused(g) /\ Room
  <2>1. /\ TableInv /\ rows \in Seq(Row) /\ Len(rows) \in Nat /\ Instances = 1 .. Len(rows)
    BY LenProperties DEF OperatorInv, TableInv, Instances
  <2>2. i \in Instances /\ request[r].generation = i
    BY DEF Rebuild, Asks, OperatorInv, RequestInv
  <2>3. i = Len(rows) /\ g = Len(rows) + 1
    BY <1>2, <2>1, <2>2 DEF OperatorInv, OneLiveGeneration
  <2>4. /\ rows' = Append(old, NewRow(Len(rows) + 1)) /\ jobs' = Append(jobs, NewJob(Len(rows) + 1, "REBUILD"))
        /\ Answer(r) /\ UNCHANGED <<holding, faults, history>> /\ Len(rows) < MaxInstances
    BY <1>2, <2>3 DEF Rebuild, Room
  <2> DEFINE row == RetiredRow(rows[i])
  <2>5. row \in Row /\ row.state = "RETIRED" /\ row.retired /\ row.generation = rows[i].generation
    BY <2>1, <2>2, RowType DEF RetiredRow, Row, InstanceStates
  <2>6. old = [rows EXCEPT ![i] = row]
    OBVIOUS
  <2> HIDE DEF row
  <2>7. /\ old \in Seq(Row) /\ Len(old) = Len(rows)
        /\ \A k \in Instances : old[k] = IF k = i THEN row ELSE rows[k]
    BY <2>1, <2>2, <2>5, <2>6, ExceptSeq
  <2> HIDE DEF old
  <2>8. \A k \in Instances : old[k].generation = k /\ old[k].retired
                            /\ old[k].state \in {rows[k].state, "RETIRED"}
    BY <2>1, <2>2, <2>3, <2>5, <2>7 DEF OperatorInv, OneLiveGeneration
  <2> QED
    BY <2>4, <2>7, <2>8, GenerationAppended
<1> QED
  BY <1>1, <1>2

(* A DECOMMISSION job becomes the newest of its instance, and no slot ever works on it. *)
LEMMA DecommissionStep ==
  ASSUME OperatorInv, NEW r \in Requests, Decommission(r) PROVE OperatorInv'
<1>1. CASE ~(Len(jobs) < MaxJobs)
  BY <1>1, RefusedStep DEF Decommission
<1>2. CASE Len(jobs) < MaxJobs
  <2>1. PICK i \in Instances : i = request[r].instance
    BY DEF Decommission, Asks, OperatorInv, RequestInv
  <2>2. /\ rows' = [rows EXCEPT ![i].state = "DRAINING"] /\ jobs' = Append(jobs, NewJob(i, "DECOMMISSION"))
        /\ Answer(r) /\ UNCHANGED <<holding, faults, history>>
    BY <1>2, <2>1 DEF Decommission
  <2>3. /\ TableInv /\ Instances = 1 .. Len(rows) /\ JobIds = 1 .. Len(jobs) /\ Len(jobs) \in Nat
    BY LenProperties DEF OperatorInv, TableInv, Instances, JobIds
  <2>4. PICK m \in Nat : m = Len(jobs) + 1
    BY <2>3
  <2>5. PICK job : job = NewJob(i, "DECOMMISSION")
    OBVIOUS
  <2>6. /\ job \in Job /\ job.instance = i /\ job.operation = "DECOMMISSION" /\ job.state = "QUEUED"
        /\ job.at = "-" /\ job.rolling = "-"
    BY <2>3, <2>5, NewJobType
  <2>7. /\ jobs' \in Seq(Job) /\ JobIds' = JobIds \cup {m} /\ m \notin JobIds /\ jobs'[m] = job
        /\ \A k \in JobIds : k \in Nat /\ k <= m /\ jobs'[k] = jobs[k]
    BY <2>2, <2>3, <2>4, <2>5, <2>6, JobAppended
  <2>8. /\ rows' \in Seq(Row) /\ Len(rows') = Len(rows) /\ Instances' = Instances
        /\ rows'[i].state = "DRAINING"
        /\ \A k \in Instances : k # i => rows'[k] = rows[k]
        /\ \A k \in Instances : rows'[k].generation = rows[k].generation
                                /\ rows'[k].retired = rows[k].retired
    BY <2>2, <2>3, RowChange DEF InstanceStates
  <2>10. ~Supported(job.operation)
    BY <2>6 DEF Supported
  <2>11. TableInv'
    BY <2>2, <2>3, <2>6, <2>7, <2>8 DEF TableInv, history
  <2>12. JobsInv'
    <3>1. ASSUME NEW n \in Instances PROVE \E j \in JobsOf(n)' : \A k \in JobsOf(n)' : k <= j
      <4>1. CASE n = i
        BY <2>6, <2>7, <4>1 DEF JobsOf
      <4>2. CASE n # i
        <5>1. JobsOf(n)' = JobsOf(n)
          BY <2>6, <2>7, <4>2 DEF JobsOf
        <5> QED
          BY <5>1 DEF OperatorInv, JobsInv
      <4> QED
        BY <4>1, <4>2
    <3>2. \A j, k \in JobIds' :
            Supported(jobs'[j].operation) /\ Supported(jobs'[k].operation)
              /\ jobs'[j].instance = jobs'[k].instance => j = k
      BY <2>7, <2>10 DEF OperatorInv, JobsInv
    <3> QED
      BY <2>8, <3>1, <3>2 DEF JobsInv
  <2>13. RequestInv'
    BY <2>2, <2>7, <2>8, AnswerKeepsRequests DEF OperatorInv
  <2>14. WorkInv'
    <3>1. ASSUME NEW k \in JobIds PROVE SoundJob(jobs[k])'
      <4>1. PICK other : other = jobs[k]
        OBVIOUS
      <4>2. other \in Job /\ SoundJob(other) /\ other.instance \in Instances /\ jobs'[k] = other
        BY <2>3, <2>7, <4>1, JobType DEF OperatorInv, WorkInv
      <4>3. rows'[other.instance].state \in {rows[other.instance].state, "DRAINING", "RETIRED"}
        BY <2>8, <4>2
      <4>4. SoundJob(other)'
        BY <2>2, <4>2, <4>3, LaidDown
      <4> QED
        BY <4>2, <4>4
    <3>2. SoundJob(job)'
      BY <2>6, <2>10 DEF SoundJob, Works, Knows, Undoes, Spares, Stepping
    <3> QED
      BY <2>7, <3>1, <3>2 DEF WorkInv
  <2>18. (OneLiveGeneration /\ FailedHoldsNothing /\ ReadyHoldsResources)'
    BY <2>2, <2>8 DEF OperatorInv, OneLiveGeneration, FailedHoldsNothing, ReadyHoldsResources, history
  <2> QED
    BY <2>11, <2>12, <2>13, <2>14, <2>18 DEF OperatorInv
<1> QED
  BY <1>1, <1>2

(* The job that was the newest at the read is still in the table, so it is requeued or refused. *)
LEMMA RetryStep ==
  ASSUME OperatorInv, NEW r \in Requests, Retry(r) \/ RetryJob(r) PROVE OperatorInv'
<1>1. CASE Retry(r)
  BY <1>1, RequeueStep DEF Retry, Asks, OperatorInv, RequestInv
<1>2. CASE RetryJob(r)
  BY <1>2, RequeueStep DEF RetryJob
<1> QED
  BY <1>1, <1>2
-----------------------------------------------------------------------------
(* The empty tables satisfy the invariant. *)
LEMMA InitInv == Init => OperatorInv
<1> SUFFICES ASSUME Init PROVE OperatorInv
  OBVIOUS
<1> USE DEF Init
<1>1. Instances = {} /\ JobIds = {}
  BY EmptySeq DEF Instances, JobIds
<1>2. TableInv
  BY <1>1, EmptySeq DEF TableInv
<1>3. JobsInv
  BY <1>1 DEF JobsInv
<1>4. RequestInv
  BY DEF RequestInv, NoRequest, Request
<1>5. WorkInv
  BY <1>1 DEF WorkInv
<1>6. OneLiveGeneration /\ FailedHoldsNothing /\ ReadyHoldsResources
  BY <1>1 DEF OneLiveGeneration, FailedHoldsNothing, ReadyHoldsResources
<1> QED
  BY <1>2, <1>3, <1>4, <1>5, <1>6 DEF OperatorInv

(* Every step keeps the invariant. *)
LEMMA InvariantStep == OperatorInv /\ [Next]_vars => OperatorInv'
<1> SUFFICES ASSUME OperatorInv, [Next]_vars PROVE OperatorInv'
  OBVIOUS
<1>1. ASSUME NEW j \in JobIds, Work(j) PROVE OperatorInv'
  BY <1>1, ClaimStep, LoadStep, CompleteStep, ExecuteStep, PersistStep, NoHandlerStep, ReleaseStep,
     RecordRollbackStep DEF Work
<1>2. ASSUME NEW j \in JobIds, Trouble(j) PROVE OperatorInv'
  BY <1>2, LoadFailsStep, StepFailsStep, CrashStep, RollbackDiesStep DEF Trouble
<1>3. ASSUME NEW r \in Requests, Serve(r) PROVE OperatorInv'
  BY <1>3, CreateStep, RetryStep, QuarantineStep, RebuildStep, DecommissionStep DEF Serve
<1>4. ASSUME NEW r \in Requests, NEW op \in Operations, Begin(r, op) PROVE OperatorInv'
  BY <1>4, BeginStep
<1>5. CASE UNCHANGED vars
  <2>1. UNCHANGED <<rows, jobs, holding, faults, history, request>>
    BY <1>5 DEF vars
  <2>2. RequestInv'
    BY <2>1 DEF OperatorInv, RequestInv, Instances, JobIds
  <2> QED
    BY <2>1, <2>2, RequestOnly
<1> QED
  BY <1>1, <1>2, <1>3, <1>4, <1>5 DEF Next

(* A step of Next that writes a quarantined row is that of a job marked as being at work when the *)
(* quarantine was put in place.                                                                    *)
LEMMA QuarantineKept == OperatorInv /\ [Next]_vars => [KeepsQuarantine]_vars
<1> SUFFICES ASSUME OperatorInv, Next, NEW i \in Instances,
                    rows[i].state = "QUARANTINED", i \notin reopened \cup unseen,
                    rows'[i].state \notin {"QUARANTINED", "DRAINING", "RETIRED"}
             PROVE  \E j \in JobsOf(i) : jobs[j].early
  BY DEF KeepsQuarantine
<1>1. /\ TableInv /\ rows \in Seq(Row) /\ DOMAIN rows = 1 .. Len(rows) /\ Instances = DOMAIN rows
      /\ Len(rows) \in Nat
  BY LenProperties DEF OperatorInv, TableInv, Instances
<1>2. rows' # rows
  OBVIOUS
<1>3. ASSUME NEW j \in JobIds, NEW s, Stepping(jobs[j]) \/ jobs[j].rolling # "-",
             rows' = [rows EXCEPT ![jobs[j].instance].state = s]
      PROVE  \E k \in JobsOf(i) : jobs[k].early
  <2>1. jobs[j].instance = i
    BY <1>1, <1>3
  <2>2. jobs[j].early
    BY <1>3, <2>1 DEF OperatorInv, WorkInv, SoundJob, Spares, Undisturbed, RowState
  <2> QED
    BY <2>1, <2>2 DEF JobsOf
<1>4. ASSUME NEW j \in JobIds, Work(j) \/ Trouble(j) PROVE \E k \in JobsOf(i) : jobs[k].early
  <2>1. Persist(j) \/ RecordRollback(j)
    BY <1>2, <1>4 DEF Work, Trouble, Claim, Load, Complete, Execute, NoHandler, Release, LoadFails,
       StepFails, FailOrRetry, Crash, RollbackDies, SlotOnly
  <2>2. Stepping(jobs[j]) \/ jobs[j].rolling # "-"
    BY <2>1 DEF Persist, RecordRollback, Stepping
  <2>3. PICK s : rows' = [rows EXCEPT ![jobs[j].instance].state = s]
    BY <2>1 DEF Persist, RecordRollback
  <2> QED
    BY <1>3, <2>2, <2>3
<1>5. ASSUME NEW r \in Requests, NEW op \in Operations, Begin(r, op) PROVE FALSE
  BY <1>2, <1>5 DEF Begin
<1>6. ASSUME NEW r \in Requests, Serve(r) PROVE FALSE
  <2>1. \A row \in Row : Append(rows, row)[i] = rows[i]
    BY <1>1, AppendProperties
  <2>2. \A g \in Nat : NewRow(g) \in Row
    BY DEF NewRow, Row, InstanceStates, Registered
  <2>3. CASE Create(r)
    <3>1. rows' = Append(rows, NewRow(1))
      BY <1>2, <2>3 DEF Create, Refused
    <3>2. rows'[i] = rows[i]
      BY <2>1, <2>2, <3>1
    <3> QED
      BY <3>2
  <2>4. CASE Retry(r) \/ RetryJob(r)
    BY <1>2, <2>4 DEF Retry, RetryJob, Requeue, Refused
  <2>5. CASE Quarantine(r)
    <3>1. rows' = [rows EXCEPT ![request[r].instance].state = "QUARANTINED"]
      BY <2>5 DEF Quarantine
    <3>2. request[r].instance \in Instances
      BY <2>5 DEF Quarantine, Asks, OperatorInv, RequestInv
    <3> QED
      BY <1>1, <3>1, <3>2, RowChange DEF InstanceStates
  <2>6. CASE Decommission(r)
    <3>1. rows' = [rows EXCEPT ![request[r].instance].state = "DRAINING"]
      BY <1>2, <2>6 DEF Decommission, Refused
    <3>2. request[r].instance \in Instances
      BY <2>6 DEF Decommission, Asks, OperatorInv, RequestInv
    <3> QED
      BY <1>1, <1>2, <3>1, <3>2, RowChange DEF InstanceStates
  <2>7. CASE Rebuild(r)
    <3> DEFINE n == request[r].instance
    <3>1. n \in Instances /\ request[r].generation = n /\ n \in Nat
      BY <1>1, <2>7 DEF Rebuild, Asks, OperatorInv, RequestInv
    <3>2. PICK g \in Nat : g = request[r].generation + 1
      BY <3>1
    <3>3. PICK row : row = RetiredRow(rows[n])
      OBVIOUS
    <3>4. row \in Row /\ row.state = "RETIRED"
      BY <1>1, <3>1, <3>3, RowType DEF RetiredRow, Row, InstanceStates
    <3>5. PICK old : old = [rows EXCEPT ![n] = row]
      OBVIOUS
    <3>6. old \in Seq(Row) /\ Len(old) = Len(rows) /\ old[i] = IF i = n THEN row ELSE rows[i]
      BY <1>1, <3>1, <3>4, <3>5, ExceptSeq
    <3>7. rows' = Append(old, NewRow(g))
      BY <1>2, <2>7, <3>2, <3>3, <3>5 DEF Rebuild, Refused
    <3>8. rows'[i] = old[i]
      BY <1>1, <2>2, <3>2, <3>6, <3>7, AppendProperties
    <3> QED
      BY <3>4, <3>6, <3>8
  <2> QED
    BY <1>6, <2>3, <2>4, <2>5, <2>6, <2>7 DEF Serve
<1> QED
  BY <1>4, <1>5, <1>6 DEF Next
-----------------------------------------------------------------------------
(* OperatorInv holds in every reachable state. *)
THEOREM OperatorInvariant == Spec => []OperatorInv
<1>1. Init => OperatorInv
  BY InitInv
<1>2. OperatorInv /\ [Next]_vars => OperatorInv'
  BY InvariantStep
<1> QED
  BY <1>1, <1>2, PTL DEF Spec

(* The tables are well typed, and a slot is at work on exactly the RUNNING jobs. *)
THEOREM OperatorTypeCorrect == Spec => []TypeOK
<1>1. OperatorInv => TypeOK
  <2> SUFFICES ASSUME OperatorInv PROVE TypeOK
    OBVIOUS
  <2>1. TableInv /\ Instances = 1 .. Len(rows) /\ Len(rows) \in Nat /\ Len(rows) <= MaxInstances
    BY LenProperties DEF OperatorInv, TableInv, Instances
  <2>2. ASSUME NEW i \in Instances
        PROVE  rows[i] \in [state : InstanceStates, generation : 1 .. MaxInstances, retired : BOOLEAN]
    <3>1. rows[i] \in Row /\ rows[i].generation = i /\ i \in 1 .. MaxInstances
      BY <2>1, RowType DEF OperatorInv, OneLiveGeneration
    <3> QED
      BY <3>1 DEF Row
  <2>3. ASSUME NEW j \in JobIds
        PROVE  /\ jobs[j].instance \in Instances /\ jobs[j].state \in JobStates
               /\ jobs[j].at \in {"-", "load", "step", "persist", "complete"}
               /\ jobs[j].to \in InstanceStates \cup {"-"}
               /\ jobs[j].rolling \in {"-", "release", "FAILED", "leftover"}
               /\ jobs[j].named \cup jobs[j].copy \cup jobs[j].undo \subseteq Resources
               /\ jobs[j].state = "RUNNING" <=> jobs[j].at # "-"
    <3>1. jobs[j] \in Job /\ jobs[j].instance \in Instances
      BY <2>1, JobType
    <3>2. jobs[j].state = "RUNNING" <=> jobs[j].at # "-"
      BY DEF OperatorInv, WorkInv, SoundJob, Works
    <3> QED
      BY <3>1, <3>2 DEF Job
  <2> QED
    BY <2>1, <2>2, <2>3 DEF TypeOK, TableInv
<1> QED
  BY <1>1, OperatorInvariant, PTL

(* Racing rebuilds leave a logical name one instance that is not retired, and no gap in its *)
(* generations.                                                                              *)
THEOREM GenerationsDoNotFork == Spec => []OneLiveGeneration
<1>1. OperatorInv => OneLiveGeneration
  BY DEF OperatorInv
<1> QED
  BY <1>1, OperatorInvariant, PTL

(* The transitions of an instance are taken by one job at a time, however many workers there are *)
(* and however many jobs the operator has added to it.                                           *)
THEOREM OneJobStepsAtATime == Spec => []OneJobSteps
<1>1. OperatorInv => OneJobSteps
  <2> SUFFICES ASSUME OperatorInv, NEW i \in Instances
               PROVE  Cardinality({j \in JobsOf(i) : jobs[j].at \in {"step", "persist"}}) <= 1
    BY DEF OneJobSteps
  <2>1. PICK S : S = {j \in JobsOf(i) : jobs[j].at \in {"step", "persist"}}
    OBVIOUS
  <2>2. \A j, k \in S : j = k
    BY <2>1 DEF OperatorInv, WorkInv, SoundJob, Works, JobsInv, JobsOf
  <2>3. CASE S = {}
    BY <2>1, <2>3, FS_EmptySet
  <2>4. CASE S # {}
    <3>1. PICK j : S = {j}
      BY <2>2, <2>4
    <3>2. Cardinality({j}) = 1
      BY FS_Singleton
    <3>3. {k \in JobsOf(i) : jobs[k].at \in {"step", "persist"}} = {j}
      BY <2>1, <3>1
    <3>4. Cardinality({k \in JobsOf(i) : jobs[k].at \in {"step", "persist"}}) = 1
      BY <3>2, <3>3, Zenon
    <3> QED
      BY <3>4
  <2> QED
    BY <2>3, <2>4
<1> QED
  BY <1>1, OperatorInvariant, PTL

(* A FAILED instance whose job was not retried in the middle of its rollback holds no VM, and its *)
(* mapping only if the step that saved it was the one that failed for good.                       *)
THEOREM FailedIsClean == Spec => []FailedHoldsNothing
<1>1. OperatorInv => FailedHoldsNothing
  BY DEF OperatorInv
<1> QED
  BY <1>1, OperatorInvariant, PTL

(* A READY instance has its VM and its mapping, unless its job was retried in the middle of its *)
(* rollback, or was given up after it had become READY because it could not be read.            *)
THEOREM ReadyIsBacked == Spec => []ReadyHoldsResources
<1>1. OperatorInv => ReadyHoldsResources
  BY DEF OperatorInv
<1> QED
  BY <1>1, OperatorInvariant, PTL

(* Only the operator, a job that was at work when a quarantine was put in place, or one that could *)
(* not look at its instance on its last attempt, undoes it.                                        *)
THEOREM QuarantinesHold == Spec => QuarantineHolds
<1>1. OperatorInv /\ [Next]_vars => [KeepsQuarantine]_vars
  BY QuarantineKept
<1> QED
  BY <1>1, OperatorInvariant, PTL DEF Spec, QuarantineHolds
=============================================================================
