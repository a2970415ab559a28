--------------------------- MODULE OperatorActions ---------------------------
(***************************************************************************)
(* The mutations of /v1/instances and /v1/jobs (internal/httpapi), each a  *)
(* read through the pool and a transaction after it, against the workers   *)
(* that take the instances of one logical name through their transitions.  *)
(*                                                                         *)
(* The lifecycle is cut down to four registered transitions, of which one  *)
(* clones the VM and one binds the mapping; JobQueue has the leases, and   *)
(* Provisioning the calls, the addresses, and the clone or mapping that no *)
(* checkpoint ever named.                                                  *)
(***************************************************************************)
EXTENDS Naturals, FiniteSets, Sequences

CONSTANTS
  Requests,      \* each carried out once, as any operation on any instance
  MaxInstances,  \* bound on rows of vm_instances
  MaxJobs,       \* bound on rows of provisioning_jobs
  MaxAttempts,   \* max_attempts
  MaxFaults      \* bound on failing steps, crashes and rollbacks that fail

ASSUME OperatorAssumption ==
  /\ MaxInstances \in Nat /\ MaxJobs \in Nat
  /\ MaxAttempts \in Nat \ {0} /\ MaxFaults \in Nat

VARIABLES
  rows,    \* vm_instances, in the order of their creation
  jobs,    \* provisioning_jobs, in the order of their creation, with the slot at work on each
  holding, \* <<i, x>>: the VM under the VMID of i, or the mapping whose id i has saved, exists
  request, \* request[r]: the operation and what its read returned
  faults,
  reopened, \* history: instances with a job that was retried in the middle of its rollback
  unseen,   \* history: instances a job gave up that could not even be read, though they were done
  late      \* history: instances given up in the very step that saved their mapping

history == <<reopened, unseen, late>>
vars == <<rows, jobs, holding, request, faults, history>>

Instances == DOMAIN rows
JobIds    == DOMAIN jobs

Registered == {"REQUESTED", "CLONING", "NETWORK_BINDING", "VALIDATING"}
InstanceStates == Registered \cup {"READY", "QUARANTINED", "FAILED", "DRAINING", "RETIRED"}
Resources == {"VM", "mapping"}
JobStates  == {"QUEUED", "RUNNING", "RETRY_WAIT", "SUCCEEDED", "FAILED"}
Operations == {"Create", "Retry", "RetryJob", "Quarantine", "Rebuild", "Decommission"}

(* named: what the checkpoint of the row names; at: where the slot is; copy: what the checkpoint in *)
(* its memory names; to: the state its handler has returned; rolling: how far the rollback is that  *)
(* terminalFail has begun; undo: what the copy it was given names; early: the slot was at work when *)
(* the instance was quarantined                                                                     *)
NewJob(i, op) == [instance |-> i, operation |-> op, state |-> "QUEUED", attempt |-> 0, named |-> {},
                  at |-> "-", copy |-> {}, to |-> "-", rolling |-> "-", undo |-> {}, early |-> FALSE]
NewRow(g) == [state |-> "REQUESTED", generation |-> g, retired |-> FALSE]

NoRequest == [op |-> "none", instance |-> 0, generation |-> 0, job |-> 0]

Init ==
  /\ rows = <<>> /\ jobs = <<>> /\ holding = {}
  /\ request = [r \in Requests |-> NoRequest]
  /\ faults = 0 /\ reopened = {} /\ unseen = {} /\ late = {}

Fault == faults < MaxFaults /\ faults' = faults + 1
JobsOf(i) == {j \in JobIds : jobs[j].instance = i}
AtWork(j) == jobs[j].at # "-" \/ jobs[j].rolling # "-"
-----------------------------------------------------------------------------
(* The workers *)

Set(j, job) == [jobs EXCEPT ![j] = job]

SlotOnly == UNCHANGED <<rows, holding, request, reopened>>

Claim(j) ==
  /\ jobs[j].state \in {"QUEUED", "RETRY_WAIT"}
  /\ jobs' = Set(j, [jobs[j] EXCEPT !.state = "RUNNING", !.attempt = @ + 1, !.at = "load",
                                    !.copy = jobs[j].named, !.early = FALSE])
  /\ SlotOnly /\ UNCHANGED <<faults, unseen, late>>

(* faulty variant of Supported: every operation runs through the engine *)
SupportedAll(op) == TRUE

Supported(op) == op \in {"PROVISION", "REBUILD"}

(* faulty variant of TerminalState: only READY ends a job *)
TerminalReadyOnly(s) == s = "READY"

TerminalState(s) == s \in {"READY", "QUARANTINED"}

StateOf(j) == rows[jobs[j].instance].state

(* the job without its slot *)
Dropped(job, state) == [job EXCEPT !.state = state, !.at = "-", !.copy = {}, !.to = "-"]

(* the first look at the instance decides whether the job is done *)
Load(j) ==
  /\ jobs[j].at = "load"
  /\ jobs' = Set(j, IF Supported(jobs[j].operation)
                    THEN [jobs[j] EXCEPT !.at = IF TerminalState(StateOf(j)) THEN "complete" ELSE "step"]
                    ELSE Dropped(jobs[j], "FAILED"))
  /\ SlotOnly /\ UNCHANGED <<faults, unseen, late>>

Complete(j) ==
  /\ jobs[j].at = "complete"
  /\ jobs' = Set(j, Dropped(jobs[j], "SUCCEEDED"))
  /\ SlotOnly /\ UNCHANGED <<faults, unseen, late>>

(* what the handler of a state can return *)
Outcomes(i) ==
  CASE rows[i].state = "REQUESTED"       -> {"CLONING"}
    [] rows[i].state = "CLONING"         -> {"NETWORK_BINDING"}
    [] rows[i].state = "NETWORK_BINDING" -> {"VALIDATING"}
    [] OTHER -> {"QUARANTINED"} \cup (IF <<i, "mapping">> \in holding THEN {"READY"} ELSE {})

(* the second look picks the handler, which may take long; the id of the mapping is saved to the *)
(* row, though not to the copy, while it is at work                                              *)
Execute(j) ==
  LET i == jobs[j].instance
      made == CASE StateOf(j) = "CLONING" -> {"VM"}
                [] StateOf(j) = "NETWORK_BINDING" -> {"mapping"}
                [] OTHER -> {}
  IN /\ jobs[j].at = "step" /\ StateOf(j) \in Registered
     /\ StateOf(j) = "VALIDATING" => <<i, "VM">> \in holding
     /\ \E s \in Outcomes(i) :
          jobs' = Set(j, [jobs[j] EXCEPT !.at = "persist", !.to = s,
                                         !.named = IF s = "VALIDATING" THEN @ \cup made ELSE @])
     /\ holding' = holding \cup ({i} \X made)
     /\ UNCHANGED <<rows, request, faults, history>>

(* what a step's checkpoint names that the one it was given did not *)
Adds(s) == CASE s = "CLONING" -> {"VM"} [] s = "VALIDATING" -> {"mapping"} [] OTHER -> {}

(* the state is written whatever it has become since, and the job is read again *)
Persist(j) ==
  LET cp == jobs[j].copy \cup Adds(jobs[j].to) IN
  /\ jobs[j].at = "persist"
  /\ rows' = [rows EXCEPT ![jobs[j].instance].state = jobs[j].to]
  /\ jobs' = Set(j, [jobs[j] EXCEPT !.at = "load", !.to = "-", !.named = cp, !.copy = cp])
  /\ UNCHANGED <<holding, request, faults, history>>

(* faulty variant of GivenUp: the row stays claimable while its rollback runs *)
GivenUpClaimable(job) == [Dropped(job, "RETRY_WAIT") EXCEPT !.rolling = "release", !.undo = job.copy]

(* terminalFail: the job is FAILED, and free, before the rollback, which works from the slot's copy *)
(* of it.  A second rollback of the same job waits here for the first.                              *)
GivenUp(job) == [Dropped(job, "FAILED") EXCEPT !.rolling = "release", !.undo = job.copy]

(* failOrRetry *)
FailOrRetry(j) ==
  /\ jobs[j].rolling = "-"
  /\ jobs' = Set(j, IF jobs[j].attempt < MaxAttempts THEN Dropped(jobs[j], "RETRY_WAIT") ELSE GivenUp(jobs[j]))
  /\ SlotOnly

(* the first look fails, and the second, which does not ask for the state, does not *)
LoadFails(j) ==
  /\ jobs[j].at = "load" /\ Supported(jobs[j].operation)
  /\ Fault /\ FailOrRetry(j)
  /\ unseen' = IF TerminalState(StateOf(j)) /\ jobs[j].attempt >= MaxAttempts
               THEN unseen \cup {jobs[j].instance} ELSE unseen
  /\ UNCHANGED late

NoHandler(j) ==
  /\ jobs[j].at = "step" /\ StateOf(j) \notin Registered
  /\ jobs[j].rolling = "-"
  /\ jobs' = Set(j, GivenUp(jobs[j]))
  /\ SlotOnly /\ UNCHANGED <<faults, unseen, late>>

(* an error of the step or of its transaction; a VM that is gone cannot be validated *)
StepFails(j) ==
  LET i == jobs[j].instance
      gone == jobs[j].at = "step" /\ StateOf(j) = "VALIDATING" /\ <<i, "VM">> \notin holding
  IN /\ jobs[j].at = "persist" \/ (jobs[j].at = "step" /\ StateOf(j) \in Registered)
     /\ IF gone THEN UNCHANGED faults ELSE Fault
     /\ FailOrRetry(j)
     /\ late' = IF jobs[j].to = "VALIDATING" /\ "mapping" \notin jobs[j].copy /\ jobs[j].attempt >= MaxAttempts
                THEN late \cup {i} ELSE late
     /\ UNCHANGED unseen

(* the slot dies and the lease runs out *)
Crash(j) ==
  /\ jobs[j].at # "-"
  /\ Fault
  /\ jobs' = Set(j, Dropped(jobs[j], "QUEUED"))
  /\ SlotOnly /\ UNCHANGED <<unseen, late>>

(* the VM, then the mapping of the copy are deleted, the mapping also when the VM could not be;   *)
(* deleting a VM that is not there is an error, and an error that is answered may have done it all *)
Release(j) ==
  LET i == jobs[j].instance
      undo == jobs[j].undo
      missing == "VM" \in undo /\ <<i, "VM">> \notin holding
  IN /\ jobs[j].rolling = "release"
     /\ \/ /\ ~missing
           /\ holding' = holding \ ({i} \X undo)
           /\ jobs' = Set(j, [jobs[j] EXCEPT !.rolling = "FAILED"])
           /\ UNCHANGED faults
        \/ \E gone \in SUBSET undo :
             /\ undo # {}
             /\ IF missing /\ gone = undo THEN UNCHANGED faults ELSE Fault
             /\ holding' = holding \ ({i} \X gone)
             /\ jobs' = Set(j, [jobs[j] EXCEPT !.rolling = "leftover"])
     /\ UNCHANGED <<rows, request, history>>

(* faulty variant of FinalState: a failed rollback is a failure like any other *)
FinalStateFailed(outcome) == "FAILED"

FinalState(outcome) == IF outcome = "leftover" THEN "QUARANTINED" ELSE "FAILED"

RolledBack(job) == [job EXCEPT !.rolling = "-", !.undo = {}, !.early = FALSE]

(* the copy is written back over the checkpoint of the row *)
RecordRollback(j) ==
  /\ jobs[j].rolling \in {"FAILED", "leftover"}
  /\ rows' = [rows EXCEPT ![jobs[j].instance].state = FinalState(jobs[j].rolling)]
  /\ jobs' = Set(j, [RolledBack(jobs[j]) EXCEPT !.named = jobs[j].undo])
  /\ unseen' = unseen \ {jobs[j].instance}
  /\ UNCHANGED <<holding, request, faults, reopened, late>>

RollbackDies(j) ==
  /\ jobs[j].rolling # "-"
  /\ Fault
  /\ jobs' = Set(j, RolledBack(jobs[j]))
  /\ SlotOnly /\ UNCHANGED <<unseen, late>>
-----------------------------------------------------------------------------
(* The requests: a read through the pool, and the transaction *)

Begin(r, op) ==
  /\ request[r].op = "none"
  /\ IF op \in {"Create", "RetryJob"}
     THEN request' = [request EXCEPT ![r] = [NoRequest EXCEPT !.op = op]]
     ELSE \E i \in Instances :
            LET newest == CHOOSE j \in JobsOf(i) : \A k \in JobsOf(i) : k <= j
            IN request' = [request EXCEPT ![r] =
                 [op |-> op, instance |-> i, generation |-> rows[i].generation, job |-> newest]]
  /\ UNCHANGED <<rows, jobs, holding, faults, history>>

Asks(r, op) == request[r].op = op
Answer(r) == request' = [request EXCEPT ![r].op = "done"]
Refused(r) == Answer(r) /\ UNCHANGED <<rows, jobs, holding, faults, history>>

(* UNIQUE(logical_name, generation) *)
Unused(g) == \A i \in Instances : rows[i].generation # g

Room == Len(rows) < MaxInstances /\ Len(jobs) < MaxJobs

Create(r) ==
  /\ Asks(r, "Create")
  /\ IF Room /\ Unused(1)
     THEN /\ rows' = Append(rows, NewRow(1))
          /\ jobs' = Append(jobs, NewJob(Len(rows) + 1, "PROVISION"))
          /\ Answer(r)
          /\ UNCHANGED <<holding, faults, history>>
     ELSE Refused(r)

(* faulty variant of Requeueable: a job that is being worked on is requeued too *)
RequeueableAny == {"FAILED", "RETRY_WAIT", "RUNNING"}

Requeueable == {"FAILED", "RETRY_WAIT"}

Requeue(r, j) ==
  IF jobs[j].state \in Requeueable
  THEN /\ jobs' = Set(j, [jobs[j] EXCEPT !.state = "QUEUED"])
       /\ reopened' = IF jobs[j].rolling # "-" THEN reopened \cup {jobs[j].instance} ELSE reopened
       /\ Answer(r)
       /\ UNCHANGED <<rows, holding, faults, unseen, late>>
  ELSE Refused(r)

(* /v1/instances/{id}/retry: the job that was the newest at the read *)
Retry(r) == Asks(r, "Retry") /\ Requeue(r, request[r].job)

(* /v1/jobs/{id}/retry: any job *)
RetryJob(r) == Asks(r, "RetryJob") /\ \E j \in JobIds : Requeue(r, j)

Quarantine(r) ==
  LET i == request[r].instance IN
  /\ Asks(r, "Quarantine")
  /\ rows' = [rows EXCEPT ![i].state = "QUARANTINED"]
  /\ jobs' = [j \in JobIds |-> IF j \in JobsOf(i) /\ AtWork(j) THEN [jobs[j] EXCEPT !.early = TRUE]
                                                              ELSE jobs[j]]
  /\ Answer(r)
  /\ UNCHANGED <<holding, faults, history>>

(* faulty variant of RetiredRow: retired_at stays NULL *)
RetiredStateOnly(row) == [row EXCEPT !.state = "RETIRED"]

RetiredRow(row) == [row EXCEPT !.state = "RETIRED", !.retired = TRUE]

(* Retire holds the row until the commit and asks for retired_at IS NULL again *)
Rebuild(r) ==
  LET i == request[r].instance
      g == request[r].generation + 1
  IN /\ Asks(r, "Rebuild")
     /\ IF ~rows[i].retired /\ Unused(g) /\ Room
        THEN /\ rows' = Append([rows EXCEPT ![i] = RetiredRow(@)], NewRow(g))
             /\ jobs' = Append(jobs, NewJob(Len(rows) + 1, "REBUILD"))
             /\ Answer(r)
             /\ UNCHANGED <<holding, faults, history>>
        ELSE Refused(r)

Decommission(r) ==
  LET i == request[r].instance IN
  /\ Asks(r, "Decommission")
  /\ IF Len(jobs) < MaxJobs
     THEN /\ rows' = [rows EXCEPT ![i].state = "DRAINING"]
          /\ jobs' = Append(jobs, NewJob(i, "DECOMMISSION"))
          /\ Answer(r)
          /\ UNCHANGED <<holding, faults, history>>
     ELSE Refused(r)
-----------------------------------------------------------------------------
Work(j) ==
  \/ Claim(j) \/ Load(j) \/ Complete(j) \/ Execute(j) \/ Persist(j) \/ NoHandler(j)
  \/ Release(j) \/ RecordRollback(j)

Trouble(j) == LoadFails(j) \/ StepFails(j) \/ Crash(j) \/ RollbackDies(j)

Serve(r) == Create(r) \/ Retry(r) \/ RetryJob(r) \/ Quarantine(r) \/ Rebuild(r) \/ Decommission(r)

Next ==
  \/ \E j \in JobIds : Work(j) \/ Trouble(j)
  \/ \E r \in Requests : Serve(r) \/ \E op \in Operations : Begin(r, op)

Spec == Init /\ [][Next]_vars
-----------------------------------------------------------------------------
(* Well typed; a slot is at work on exactly the RUNNING jobs. *)
TypeOK ==
  /\ \A i \in Instances : rows[i] \in [state : InstanceStates, generation : 1..MaxInstances, retired : BOOLEAN]
  /\ \A j \in JobIds :
       /\ jobs[j].instance \in Instances /\ jobs[j].state \in JobStates
       /\ jobs[j].at \in {"-", "load", "step", "persist", "complete"}
       /\ jobs[j].to \in InstanceStates \cup {"-"}
       /\ jobs[j].rolling \in {"-", "release", "FAILED", "leftover"}
       /\ jobs[j].named \cup jobs[j].copy \cup jobs[j].undo \subseteq Resources
       /\ jobs[j].state = "RUNNING" <=> jobs[j].at # "-"
  /\ holding \subseteq Instances \X Resources
  /\ reopened \cup unseen \cup late \subseteq Instances
  /\ faults \in 0..MaxFaults

(* However rebuilds race, a logical name has one instance that is not retired, the newest, and its *)
(* generations are numbered without gaps (instances.go:437, Retire: WHERE retired_at IS NULL).     *)
OneLiveGeneration ==
  \A i \in Instances : rows[i].generation = i /\ (rows[i].retired <=> i < Len(rows))

(* A DECOMMISSION job next to a provisioning one never gets to take a step: the transitions of an  *)
(* instance are taken by one job at a time (instances.go:503, main.go:302).                        *)
OneJobSteps ==
  \A i \in Instances : Cardinality({j \in JobsOf(i) : jobs[j].at \in {"step", "persist"}}) <= 1

(* A quarantine is undone by the operator, by a job that was at work when it was put in place and  *)
(* writes its result over it (instances.go:395, engine.go:134), and by a job on its last attempt   *)
(* whose look at the instance fails once (main.go:313, 369): whatever else is claimed later leaves *)
(* a quarantined instance alone.                                                                   *)
KeepsQuarantine ==
  \A i \in Instances :
    /\ rows[i].state = "QUARANTINED" /\ i \notin reopened \cup unseen
    /\ rows'[i].state \notin {"QUARANTINED", "DRAINING", "RETIRED"}
    => \E j \in JobsOf(i) : jobs[j].early

QuarantineHolds == [][KeepsQuarantine]_vars

(* A quarantine is left alone by every job that is claimed after it, as the table of states has it *)
(* (main.go:313-318 rolls back whatever it could not read).                                        *)
LaterJobsKeepQuarantine ==
  [][ \A i \in Instances :
        /\ rows[i].state = "QUARANTINED" /\ i \notin reopened
        /\ rows'[i].state \notin {"QUARANTINED", "DRAINING", "RETIRED"}
        => \E j \in JobsOf(i) : jobs[j].early ]_vars

(* FAILED means that the rollback has removed everything, whatever the operator asked for in the   *)
(* meantime, except that a mapping bound by the very step that failed for good stays, as the copy  *)
(* does not name it (main.go:382); a job retried in the middle of its rollback breaks that         *)
(* (rollback.go:98).                                                                               *)
FailedHoldsNothing ==
  \A i \in Instances \ reopened :
    rows[i].state = "FAILED" => /\ <<i, "VM">> \notin holding
                                /\ <<i, "mapping">> \in holding => i \in late

(* FAILED means that the rollback has removed everything the row names, and QUARANTINED is for     *)
(* whatever it could not remove (rollback.go:32-38).                                               *)
FailedIsEmpty == \A i \in Instances \ reopened, x \in Resources : rows[i].state = "FAILED" => <<i, x>> \notin holding

(* READY means that the VM and the mapping are there: no rollback runs next to the transitions of  *)
(* its own job, unless the job was retried while it did (main.go:384), or on an instance that has  *)
(* got there, unless the job could not look at it (main.go:313).                                   *)
ReadyHoldsResources ==
  \A i \in Instances \ (reopened \cup unseen), x \in Resources : rows[i].state = "READY" => <<i, x>> \in holding

(* A retired instance holds nothing any more (invariant 5 of the architecture document). *)
RetiredHoldsNothing == \A i \in Instances, x \in Resources : rows[i].retired => <<i, x>> \notin holding
=============================================================================
