------------------------------ MODULE JobQueue ------------------------------
(***************************************************************************)
(* The provisioning_jobs table and the worker slots that drain it:         *)
(* internal/jobs/repository.go and the loop of cmd/worker/main.go.  A slot *)
(* claims one row, runs the state engine on it step by step while a        *)
(* heartbeat goroutine extends the lease, and settles the row.  Every      *)
(* database call is one atomic step; what one transition does outside the  *)
(* database is abstracted to the stage the instance reaches (Provisioning  *)
(* opens it up).                                                           *)
(***************************************************************************)
EXTENDS Naturals

CONSTANTS
  Jobs,         \* job ids, numbered in created_at order
  Workers,      \* worker slots; a slot's name is its lease_owner value
  NoJob, NoWorker,
  Unsupported,  \* the jobs whose operation is neither PROVISION nor REBUILD
  MaxAttempts,  \* the max_attempts column
  LeaseTicks,   \* job_lease, in units of time
  LastStage,    \* transitions from REQUESTED to READY
  MaxFaults,    \* bound: database errors and crashes
  MaxStalls,    \* bound: ticks that outrun a live heartbeat (pauses, outages)
  MaxRequeues   \* bound: manual retries

ASSUME JobsAssumption == Jobs \subseteq Nat /\ NoJob \notin Jobs /\ Unsupported \subseteq Jobs
ASSUME WorkersAssumption == NoWorker \notin Workers
ASSUME BoundsAssumption ==
  /\ MaxAttempts \in Nat \ {0} /\ LeaseTicks \in Nat \ {0} /\ LastStage \in Nat \ {0}
  /\ MaxFaults \in Nat /\ MaxStalls \in Nat /\ MaxRequeues \in Nat

VARIABLES
  (* the row *)
  state, owner,
  lease,     \* ticks until lease_expires_at; 0 when it passed or is NULL
  attempt,
  due,       \* next_attempt_at <= now()
  stage,     \* lifecycle position of the job's instance
  (* the slot *)
  pc, held,
  token,     \* attempt number returned by Claim (history: never read by the code)
  mem,       \* job.Attempt of the in-memory job, refreshed after every step
  seen,      \* instance state read by Engine.Step
  beating,   \* the heartbeat goroutine is running
  (* budgets *)
  faults, stalls, requeues

row    == <<state, owner, lease, attempt, due>>
slot   == <<pc, held, token, mem, seen, beating>>
budget == <<faults, stalls, requeues>>
vars   == <<row, stage, slot, budget>>

Ready       == LastStage
Failed      == LastStage + 1
Quarantined == LastStage + 2
Stages      == 0 .. (LastStage + 2)

JobStates == {"ABSENT", "QUEUED", "RUNNING", "RETRY_WAIT", "SUCCEEDED", "FAILED"}
SlotPcs   == {"down", "idle", "claim", "load", "step", "exec", "refresh",
              "complete", "decide", "retry", "fail", "failonly", "rollback"}

(* states in which processJob completes the job (terminalState) *)
TerminalState(s) == s \in {Ready, Quarantined}

(* states that have a transition handler *)
HasHandler(s) == s < Ready

Working(w)   == pc[w] \notin {"down", "idle", "claim"}
Claimable(j) == state[j] \in {"QUEUED", "RETRY_WAIT"} /\ due[j]

(* the row lock a claiming transaction holds until it commits *)
Locked(j) == \E w \in Workers : pc[w] = "claim" /\ held[w] = j

(* faulty variant of OwnsRow: the lease_owner condition is forgotten *)
RunningRow(w, j) == state[j] = "RUNNING"

(* WHERE lease_owner = $w AND state = 'RUNNING' *)
OwnsRow(w, j) == owner[j] = w /\ state[j] = "RUNNING"

Fault == faults < MaxFaults /\ faults' = faults + 1 /\ UNCHANGED <<stalls, requeues>>

Goto(w, label) == pc' = [pc EXCEPT ![w] = label]

(* processJob returns: the deferred hbCancel stops the heartbeat goroutine *)
Return(w) ==
  /\ Goto(w, "idle")
  /\ held' = [held EXCEPT ![w] = NoJob]
  /\ beating' = [beating EXCEPT ![w] = FALSE]
  /\ UNCHANGED <<token, mem, seen>>

Continue(w, label) == Goto(w, label) /\ UNCHANGED <<held, token, mem, seen, beating>>

Init ==
  /\ state = [j \in Jobs |-> "ABSENT"]
  /\ owner = [j \in Jobs |-> NoWorker]
  /\ lease = [j \in Jobs |-> 0]
  /\ attempt = [j \in Jobs |-> 0]
  /\ due = [j \in Jobs |-> FALSE]
  /\ stage = [j \in Jobs |-> 0]
  /\ pc = [w \in Workers |-> "idle"]
  /\ held = [w \in Workers |-> NoJob]
  /\ token = [w \in Workers |-> 0]
  /\ mem = [w \in Workers |-> 0]
  /\ seen = [w \in Workers |-> 0]
  /\ beating = [w \in Workers |-> FALSE]
  /\ faults = 0 /\ stalls = 0 /\ requeues = 0
-----------------------------------------------------------------------------
(* The API *)

(* jobs.Create, in the transaction that creates the instance *)
Create(j) ==
  /\ state[j] = "ABSENT"
  /\ \A k \in Jobs : k < j => state[k] # "ABSENT"
  /\ state' = [state EXCEPT ![j] = "QUEUED"]
  /\ due' = [due EXCEPT ![j] = TRUE]
  /\ UNCHANGED <<owner, lease, attempt, stage, slot, budget>>

(* jobs.Requeue: an operator's retry.  The UPDATE waits for a row lock and *)
(* then finds the row RUNNING, so a locked row is never requeued.  The     *)
(* attempt column keeps its value.                                         *)
Requeue(j) ==
  /\ requeues < MaxRequeues
  /\ state[j] \in {"FAILED", "RETRY_WAIT"}
  /\ ~Locked(j)
  /\ state' = [state EXCEPT ![j] = "QUEUED"]
  /\ due' = [due EXCEPT ![j] = TRUE]
  /\ requeues' = requeues + 1
  /\ UNCHANGED <<owner, lease, attempt, stage, slot, faults, stalls>>
-----------------------------------------------------------------------------
(* Claiming *)

(* faulty variant of MayLock: SELECT without FOR UPDATE SKIP LOCKED *)
MayLockWithoutForUpdate(j) ==
  /\ Claimable(j)
  /\ \A k \in Jobs : k < j => ~Claimable(k)

(* ORDER BY created_at ... FOR UPDATE SKIP LOCKED LIMIT 1 (every job has   *)
(* the default priority): the oldest claimable row nobody has locked       *)
MayLock(j) ==
  /\ Claimable(j)
  /\ ~Locked(j)
  /\ \A k \in Jobs : (k < j /\ Claimable(k)) => Locked(k)

ClaimSelect(w, j) ==
  /\ pc[w] = "idle"
  /\ MayLock(j)
  /\ Goto(w, "claim")
  /\ held' = [held EXCEPT ![w] = j]
  /\ UNCHANGED <<row, stage, token, mem, seen, beating, budget>>

(* faulty variant of ClaimedAttempt: the row is scanned before the UPDATE *)
AttemptBeforeUpdate(j) == attempt[j]

(* the attempt of the row as Claim returns it, scanned after the UPDATE *)
ClaimedAttempt(j) == attempt[j] + 1

(* faulty variant of Extended: the lease grows from its old end, not from now() *)
ExtendedFromExpiry(j) == lease[j] + LeaseTicks

(* now() + make_interval *)
Extended(j) == LeaseTicks

(* the UPDATE and the commit; processJob starts, with its heartbeat        *)
ClaimCommit(w) ==
  LET j == held[w] IN
  /\ pc[w] = "claim"
  /\ state' = [state EXCEPT ![j] = "RUNNING"]
  /\ owner' = [owner EXCEPT ![j] = w]
  /\ lease' = [lease EXCEPT ![j] = Extended(j)]
  /\ attempt' = [attempt EXCEPT ![j] = @ + 1]
  /\ token' = [token EXCEPT ![w] = attempt[j] + 1]
  /\ mem' = [mem EXCEPT ![w] = ClaimedAttempt(j)]
  /\ beating' = [beating EXCEPT ![w] = TRUE]
  /\ Goto(w, IF j \in Unsupported THEN "failonly" ELSE "load")
  /\ UNCHANGED <<due, stage, held, seen, budget>>

(* a database error rolls the claim back and releases the row lock *)
ClaimAbort(w) ==
  /\ pc[w] = "claim"
  /\ Fault
  /\ Return(w)
  /\ UNCHANGED <<row, stage>>
-----------------------------------------------------------------------------
(* processJob *)

(* instances.Get at the head of the loop *)
Load(w) ==
  /\ pc[w] = "load"
  /\ Continue(w, IF TerminalState(stage[held[w]]) THEN "complete" ELSE "step")
  /\ UNCHANGED <<row, stage, budget>>

(* Engine.Step reads the instance again and looks its handler up *)
StepRead(w) ==
  LET s == stage[held[w]] IN
  /\ pc[w] = "step"
  /\ seen' = [seen EXCEPT ![w] = s]
  /\ Goto(w, IF HasHandler(s) THEN "exec" ELSE "fail")
  /\ UNCHANGED <<row, stage, held, token, mem, beating, budget>>

(* either read fails: LOAD_INSTANCE_FAILED or STEP_FAILED *)
ReadError(w) ==
  /\ pc[w] \in {"load", "step"}
  /\ Fault
  /\ Continue(w, "decide")
  /\ UNCHANGED <<row, stage>>

(* where a transition may lead; the last three are validations, which may  *)
(* quarantine                                                              *)
NextStages(s) == {s + 1} \cup (IF s + 3 >= Ready THEN {Quarantined} ELSE {})

(* the handler succeeded and the transition is persisted: UpdateState and  *)
(* UpdateCheckpoint are conditional on the ids alone                       *)
StepCommit(w) ==
  /\ pc[w] = "exec"
  /\ \E s \in NextStages(seen[w]) : stage' = [stage EXCEPT ![held[w]] = s]
  /\ Continue(w, "refresh")
  /\ UNCHANGED <<row, budget>>

(* the handler failed, with ErrInvalidTransition if the template of a      *)
(* REQUESTED instance is not ACTIVE                                        *)
StepError(w) ==
  /\ pc[w] = "exec"
  /\ \/ Continue(w, "decide")
     \/ seen[w] = 0 /\ Continue(w, "fail")
  /\ UNCHANGED <<row, stage, budget>>

(* jobs.Get after a step *)
Refresh(w) ==
  /\ pc[w] = "refresh"
  /\ mem' = [mem EXCEPT ![w] = attempt[held[w]]]
  /\ Goto(w, "load")
  /\ UNCHANGED <<row, stage, held, token, seen, beating, budget>>

(* faulty variant of RetriesLeft: counts the failed attempt as still to come *)
RetriesLeftOffByOne(w) == mem[w] <= MaxAttempts

RetriesLeft(w) == mem[w] < MaxAttempts

(* failOrRetry: out of attempts it reads the instance for the rollback and *)
(* settles the job without one when even that read fails                   *)
FailOrRetry(w) ==
  /\ pc[w] = "decide"
  /\ \/ RetriesLeft(w) /\ Continue(w, "retry") /\ UNCHANGED budget
     \/ ~RetriesLeft(w) /\ Continue(w, "fail") /\ UNCHANGED budget
     \/ ~RetriesLeft(w) /\ Continue(w, "failonly") /\ Fault
  /\ UNCHANGED <<row, stage>>

(* faulty variant of ClearLease: lease_owner is left on the settled row *)
ClearExpiryOnly(j) == lease' = [lease EXCEPT ![j] = 0] /\ UNCHANGED owner

(* lease_owner = NULL, lease_expires_at = NULL *)
ClearLease(j) ==
  /\ owner' = [owner EXCEPT ![j] = NoWorker]
  /\ lease' = [lease EXCEPT ![j] = 0]

(* the UPDATE of Complete and Fail: no row affected (ErrLeaseLost) unless  *)
(* the slot owns the row                                                   *)
SettleIfOwner(w, s) ==
  LET j == held[w] IN
  /\ IF OwnsRow(w, j)
       THEN state' = [state EXCEPT ![j] = s] /\ ClearLease(j)
       ELSE UNCHANGED <<state, owner, lease>>
  /\ UNCHANGED attempt

Complete(w) ==
  /\ pc[w] = "complete"
  /\ SettleIfOwner(w, "SUCCEEDED")
  /\ Return(w)
  /\ UNCHANGED <<due, stage, budget>>

(* Fail with a retry time: RETRY_WAIT until the backoff elapses *)
FailRetry(w) ==
  /\ pc[w] = "retry"
  /\ SettleIfOwner(w, "RETRY_WAIT")
  /\ IF OwnsRow(w, held[w]) THEN due' = [due EXCEPT ![held[w]] = FALSE] ELSE UNCHANGED due
  /\ Return(w)
  /\ UNCHANGED <<stage, budget>>

(* Fail without one: FAILED; terminalFail goes on to the rollback unless   *)
(* the lease was lost                                                      *)
FailFinal(w) ==
  /\ pc[w] \in {"fail", "failonly"}
  /\ SettleIfOwner(w, "FAILED")
  /\ IF OwnsRow(w, held[w]) /\ pc[w] = "fail" THEN Continue(w, "rollback") ELSE Return(w)
  /\ UNCHANGED <<due, stage, budget>>

(* rollback.Execute persists FAILED, or QUARANTINED when something is left *)
Rollback(w) ==
  /\ pc[w] = "rollback"
  /\ \E s \in {Failed, Quarantined} : stage' = [stage EXCEPT ![held[w]] = s]
  /\ Return(w)
  /\ UNCHANGED <<row, budget>>

(* the refresh, the settlement or the rollback's transaction fails:        *)
(* processJob returns and leaves the row as it is                          *)
GiveUp(w) ==
  /\ pc[w] \in {"refresh", "complete", "retry", "fail", "failonly", "rollback"}
  /\ Fault
  /\ Return(w)
  /\ UNCHANGED <<row, stage>>
-----------------------------------------------------------------------------
(* Leases *)

(* jobs.Heartbeat; heartbeatLoop returns when the lease is lost *)
Heartbeat(w) ==
  LET j == held[w] IN
  /\ beating[w]
  /\ IF OwnsRow(w, j) /\ lease[j] > 0
       THEN /\ lease[j] < LeaseTicks
            /\ lease' = [lease EXCEPT ![j] = Extended(j)]
            /\ UNCHANGED beating
       ELSE /\ beating' = [beating EXCEPT ![w] = FALSE]
            /\ UNCHANGED lease
  /\ UNCHANGED <<state, owner, attempt, due, stage, pc, held, token, mem, seen, budget>>

(* heartbeatLoop returns on any other error too, and nobody notices *)
HeartbeatError(w) ==
  /\ beating[w]
  /\ Fault
  /\ beating' = [beating EXCEPT ![w] = FALSE]
  /\ UNCHANGED <<row, stage, pc, held, token, mem, seen>>

(* Time passes.  The heartbeat interval is shorter than the lease, so a    *)
(* tick that lets a lease run out under a live heartbeat is a stall.       *)
Overdue == \E w \in Workers : beating[w] /\ OwnsRow(w, held[w]) /\ lease[held[w]] = 1

Tick ==
  /\ \E j \in Jobs : lease[j] > 0
  /\ lease' = [j \in Jobs |-> IF lease[j] > 0 THEN lease[j] - 1 ELSE 0]
  /\ IF Overdue THEN stalls < MaxStalls /\ stalls' = stalls + 1 ELSE UNCHANGED stalls
  /\ UNCHANGED <<state, owner, attempt, due, stage, slot, faults, requeues>>

(* faulty variant of Expired: looks for rows that lost their owner *)
ExpiredAndOrphaned(j) == state[j] = "RUNNING" /\ lease[j] = 0 /\ owner[j] = NoWorker

Expired(j) == state[j] = "RUNNING" /\ lease[j] = 0

(* the maintenance loop; one UPDATE for all expired rows *)
ReclaimExpiredLeases ==
  /\ \E j \in Jobs : Expired(j)
  /\ state' = [j \in Jobs |-> IF Expired(j) THEN "QUEUED" ELSE state[j]]
  /\ owner' = [j \in Jobs |-> IF Expired(j) THEN NoWorker ELSE owner[j]]
  /\ UNCHANGED <<lease, attempt, due, stage, slot, budget>>

(* next_attempt_at passes *)
BackoffElapses(j) ==
  /\ state[j] = "RETRY_WAIT" /\ ~due[j]
  /\ due' = [due EXCEPT ![j] = TRUE]
  /\ UNCHANGED <<state, owner, lease, attempt, stage, slot, budget>>

(* The process dies or shuts down: a cancelled context fails every further *)
(* database call, so the row keeps its lease.                              *)
Crash(w) ==
  /\ pc[w] # "down"
  /\ Fault
  /\ Goto(w, "down")
  /\ held' = [held EXCEPT ![w] = NoJob]
  /\ beating' = [beating EXCEPT ![w] = FALSE]
  /\ UNCHANGED <<row, stage, token, mem, seen>>

Restart(w) ==
  /\ pc[w] = "down"
  /\ Continue(w, "idle")
  /\ UNCHANGED <<row, stage, budget>>
-----------------------------------------------------------------------------
(* one step of a slot that meets no fault *)
SlotStep(w) ==
  \/ \E j \in Jobs : ClaimSelect(w, j)
  \/ ClaimCommit(w) \/ Load(w) \/ StepRead(w) \/ StepCommit(w) \/ StepError(w)
  \/ Refresh(w) \/ FailOrRetry(w) \/ Complete(w) \/ FailRetry(w) \/ FailFinal(w)
  \/ Rollback(w)

SlotFault(w) == ClaimAbort(w) \/ ReadError(w) \/ GiveUp(w) \/ HeartbeatError(w) \/ Crash(w)

Next ==
  \/ \E j \in Jobs : Create(j) \/ Requeue(j) \/ BackoffElapses(j)
  \/ \E w \in Workers : SlotStep(w) \/ SlotFault(w) \/ Heartbeat(w) \/ Restart(w)
  \/ Tick
  \/ ReclaimExpiredLeases

Spec == Init /\ [][Next]_vars

(* Each slot is a goroutine that polls, the maintenance loop and the       *)
(* heartbeats run on tickers, a supervisor restarts the process and time   *)
(* passes.  Nobody has to create or retry a job.                           *)
Fairness ==
  /\ \A w \in Workers : WF_vars(SlotStep(w)) /\ WF_vars(Heartbeat(w)) /\ WF_vars(Restart(w))
  /\ \A j \in Jobs : WF_vars(BackoffElapses(j))
  /\ WF_vars(Tick)
  /\ WF_vars(ReclaimExpiredLeases)

FairSpec == Spec /\ Fairness
-----------------------------------------------------------------------------
(* Properties *)

TypeOK ==
  /\ state \in [Jobs -> JobStates]
  /\ owner \in [Jobs -> Workers \cup {NoWorker}]
  /\ lease \in [Jobs -> 0 .. LeaseTicks]
  /\ attempt \in [Jobs -> Nat]
  /\ due \in [Jobs -> BOOLEAN]
  /\ stage \in [Jobs -> Stages]
  /\ pc \in [Workers -> SlotPcs]
  /\ held \in [Workers -> Jobs \cup {NoJob}]
  /\ token \in [Workers -> Nat]
  /\ mem \in [Workers -> Nat]
  /\ seen \in [Workers -> Stages]
  /\ beating \in [Workers -> BOOLEAN]
  /\ faults \in 0 .. MaxFaults /\ stalls \in 0 .. MaxStalls /\ requeues \in 0 .. MaxRequeues

(* The lease columns mean what they say: a row has an owner exactly while  *)
(* it is RUNNING, and no lease time without one.                           *)
LeaseColumns ==
  \A j \in Jobs :
    /\ (owner[j] # NoWorker) <=> (state[j] = "RUNNING")
    /\ lease[j] > 0 => state[j] = "RUNNING"

(* A claiming transaction works on a row that is still waiting, and no two *)
(* claims work on the same row.                                            *)
ClaimsExclusive ==
  \A w \in Workers : pc[w] = "claim" =>
    /\ held[w] \in Jobs
    /\ state[held[w]] \in {"QUEUED", "RETRY_WAIT"}
    /\ \A v \in Workers : pc[v] = "claim" /\ held[v] = held[w] => v = w

(* The slot whose name is on a RUNNING row is working from the latest      *)
(* claim of that row: settling by owner name is as safe as settling by     *)
(* claim number, whatever zombies are around.                              *)
OwnerHoldsLatestClaim ==
  \A w \in Workers, j \in Jobs :
    Working(w) /\ held[w] = j /\ OwnsRow(w, j) => token[w] = attempt[j] /\ mem[w] = attempt[j]

(* A job waits for a retry only while it has attempts left, although the   *)
(* decision is taken from the in-memory copy of the row.                   *)
RetryOnlyWithAttemptsLeft ==
  \A j \in Jobs : state[j] = "RETRY_WAIT" => attempt[j] < MaxAttempts

Lifecycle == INSTANCE JobLifecycle WITH
  epoch <- attempt,
  grant <- [w \in Workers |-> IF Working(w) THEN <<held[w], token[w]>> ELSE <<>>]

(* The table implements JobLifecycle: one grant at a time, settled by the  *)
(* latest grant only, SUCCEEDED for ever, FAILED until an operator retries. *)
ImplementsLifecycle == Lifecycle!Spec

(* Every job submitted is settled for good (until somebody retries it):    *)
(* no lease is orphaned, no retry forgotten, no job starved.               *)
EveryJobSettles ==
  \A j \in Jobs : state[j] = "QUEUED" ~> state[j] \in {"SUCCEEDED", "FAILED"}

(* After a takeover the old slot has no further effect: two slots never    *)
(* run the same transition of the same job (JOB-001 of the acceptance      *)
(* matrix: "One takeover, no duplicate side effect").                      *)
NoDuplicateTransition ==
  \A v, w \in Workers :
    v # w /\ pc[v] = "exec" /\ pc[w] = "exec" /\ held[v] = held[w] => seen[v] # seen[w]
=============================================================================
