# vm-factory in TLA+

vm-factory provisions virtual machines on Proxmox: an API inserts an instance and a job,
worker slots claim jobs from a PostgreSQL table and drive each instance through a chain of
transition handlers (address, VMID, clone, configuration, egress mapping, boot, validations,
workload) to READY, and a failed job is rolled back. This directory holds TLA+ models of the
parts where that can go wrong, the TLC runs that check them on small instances, and proofs
that what holds there holds for every number of jobs, workers, instances and requests. Source paths below are relative to `src/`.

## 1. The system

| Component | State it keeps | Operations | Hard behaviour | What makes it correct |
|---|---|---|---|---|
| Job queue (`internal/jobs`) | `provisioning_jobs`: state, lease owner and end, attempt, next_attempt_at, checkpoint_data | Create, Claim, Heartbeat, Complete, Fail, ReclaimExpiredLeases, Requeue, UpdateCheckpoint | concurrent claims, expired leases, zombies | one holder at a time; only the latest claim settles; nothing waits for ever |
| Worker (`cmd/worker`) | the job in memory, one heartbeat goroutine per job | run, processJob, failOrRetry, terminalFail, heartbeatLoop, maintenance loop | crash at any point, stale copy of the row, heartbeat errors | retries bounded by max_attempts; failed jobs rolled back |
| State engine (`internal/stateengine`) | none of its own; writes `vm_instances`, checkpoints, evidence | Step, nine handlers, SaveCheckpoint, Rollback, Quarantine (not wired) | external calls between transactions, partial failure | no resource lost; READY only with evidence; rollback removes what is the instance's |
| IPAM (`internal/ipam`) | `ip_allocations`, segments, hostname sequence | ReserveNextFree, MarkAssigned, MarkQuarantined, Release, reaper, scanner | reservation TTL against running jobs | an address has one live user |
| Proxmox adapter (`internal/proxmox`) | the cluster (external) | AllocateNextVMID, Clone, Configure, Start, Stop, Delete, tasks, guest agent | suggestions nobody reserves, tasks that fail later, lost replies | a VM belongs to the instance that cloned it |
| Egress gateway (`internal/pgw`) | clients and mappings (external; simulated today) | CreateClient, Create/Activate/Suspend/DeleteMapping, EgressProof | best-effort suspension | no active mapping without an instance |
| Template registry (`internal/template/repository.go`) | `vm_templates` | Create, PromoteTx, SetValidationStatus | concurrent promotions | one ACTIVE version per family |
| Canary validation (`internal/template/canary.go`) | the VMID it works with | Validate, deferred clean-up | calls that fail half-way, a VMID that others use | nothing is left on the node; nobody else's VM is touched; a bad template is not passed |
| Instances and operator actions (`internal/instance`, `internal/httpapi`) | `vm_instances` | Create, Retry, Quarantine, Rebuild, Decommission | a read and a transaction beside running jobs | an operator's decision is not undone by a worker; generations do not fork |
| Idempotency (`internal/httpapi/idempotency.go`, `internal/storage`) | `idempotency_keys` | RunIdempotent: Get, work, Store | concurrent requests with one key, expiry, pool exhaustion | the work is done once per key |
| Validation (`internal/validation`, `internal/guest`, `storage/identity.go`) | `identity_observations` | fact collection, identity, network and egress rules, drift scan | facts that cannot be parsed, two guests validated at once, a guest that changes | no PASS from missing facts; one live guest per identity |
| Workload (`internal/workload`) | files and a service inside the guest | Install, Validate, Health, Remove | commands that half work, crashes, retries, upgrades | the marker tells the truth; PASS means installed |
| Monitoring (`cmd/worker` gauges, `storage/alerts.go`, `httpapi/alerts.go`) | `alerts` | Upsert, List, Acknowledge | reads that fail between moving jobs, rows inserted between pages | no alarm missed or invented; nothing acknowledged unseen |
| Findings, audit (`internal/storage`, `internal/audit`) | display records | Append, List | - | outside the models |
| REST server, CLI, config, metrics | none that matters | routing, auth, output | - | outside the models |

**Interaction.** The API and the workers share only the database. A slot claims a row in one
transaction, then alternates external calls (outside any transaction) with transactions that
write instance state, checkpoint and evidence together. SaveCheckpoint writes the checkpoint
alone, in the middle of a handler. The heartbeat goroutine runs beside processJob and shares
nothing with it but the job id. The maintenance loop requeues expired leases and frees expired
reservations. Nothing tells a slot that its lease is gone.

## 2. Modules

| Module | Role |
|---|---|
| `JobLifecycle` | what the job table promises: numbered grants, only the latest settles |
| `JobQueue` | the table, the slots, heartbeats, leases, crashes; refines `JobLifecycle` |
| `JobQueueProofs` | theorems about `JobQueue` |
| `Provisioning` | what handlers and rollback do to addresses, VMs, mappings and checkpoints |
| `ProvisioningProofs` | theorems about `Provisioning` |
| `TemplateApi` | promotions of template versions as concurrent transactions under RunIdempotent |
| `TemplateApiProofs` | theorems about `TemplateApi` |
| `ProxmoxNode` | one Proxmox node behind the adapter: tasks, lost answers, refusals |
| `Canary` | validations of templates on that node; extends `ProxmoxNode` |
| `CanaryProofs` | theorems about `Canary` and the node |
| `OperatorActions` | the mutations of the API beside the workers of one logical name |
| `OperatorActionsProofs` | theorems about `OperatorActions` |
| `ValidationRules` | facts, rules, verdicts and drift findings, as operators |
| `Validation` | the validating handlers of several instances and the drift scan; extends `ValidationRules` |
| `ValidationProofs` | theorems about `Validation` and the rules |
| `Workload` | APPLYING_WORKLOAD and Remove, command by command inside one guest |
| `WorkloadProofs` | theorems about `Workload` |
| `Monitoring` | the gauges, the alerts derived from them, and the console that pages and acknowledges |
| `MonitoringProofs` | theorems about `Monitoring` |
| `MC...` | symmetry sets and definitions of constants for TLC |

The modules are different cuts through one system. `JobQueue` has the leases and reduces the work
to numbered stages; `Provisioning` has the work and one worker per job; `OperatorActions` has many
jobs and requests per logical name and cuts the lifecycle down to four transitions; `Validation`
and `Workload` look inside two of the handlers that `Provisioning` leaves free to pass or fail.

### JobQueue

`state, owner, lease, attempt, due` are columns of the row (`lease` is the time left, `due`
is `next_attempt_at <= now()`), `stage` is the instance's position on its way to READY.
`pc, held, mem, seen, beating` are a slot: where processJob is, its job, the attempt in the
job it holds in memory, the instance state Engine.Step read, and whether the heartbeat
goroutine lives. `token` is a history variable: the number of the claim, which the code never
looks at and the properties do.

| Action | Code |
|---|---|
| `Create`, `Requeue` | `jobs.Create`, `jobs.Requeue` |
| `ClaimSelect`, `ClaimCommit`, `ClaimAbort` | the SELECT ... FOR UPDATE SKIP LOCKED and the UPDATE of `Claim`, two steps because other slots look at the table in between |
| `Load`, `StepRead`, `StepCommit`, `StepError`, `Refresh` | the loop of `processJob` around `Engine.Step` |
| `FailOrRetry`, `FailRetry`, `FailFinal`, `Rollback`, `Complete` | `failOrRetry`, `terminalFail`, `jobs.Fail`, `jobs.Complete` |
| `Heartbeat`, `HeartbeatError`, `Tick` | `heartbeatLoop`, `jobs.Heartbeat`, time |
| `ReclaimExpiredLeases`, `BackoffElapses` | the maintenance loop, `next_attempt_at` |
| `ReadError`, `GiveUp`, `Crash`, `Restart` | database errors where each call can meet one; death of the process |

### Provisioning

`db` is `checkpoint_data`, `mem` the copy the worker got with the job, `work` the struct the
running handler fills in. Keeping the three apart is the point of the module: SaveCheckpoint
copies `work` to `db` only, the commit copies it to `db` and (through the refresh) to `mem`,
and the rollback reads `mem`. `inst`, `placed` and `passed` are the instance's state, its
`vmid` column and its PASS validation runs. `ipState, ipOwner, ipOld` are `ip_allocations`,
`vmOwner, vmUp` the VMs on the node, `mapOwner, mapState` the gateway.

Each external call and each transaction is one action, in the order of the handlers:
`Requested`, `ReserveAddress`, `AllocateVmid`, `Clone`, `AwaitClone`, `Configure`,
`AwaitConfigure`, `CreateClient`, `CreateMapping`, `ActivateMapping`, `Boot`, `ValidatePass` /
`ValidateFail` / `Isolate` (the three validations share them), with `SaveCheckpoint` and
`Commit` between them; then `RollbackVM`, `RollbackMapping`, `RollbackAddress`, `RollbackQuarantine`, `RollbackEnd`.
`CallFails` and `Crash` stand for every error and every death between two steps, the faulty
outcomes of the rollback's steps for calls that half worked or lost their reply;
`CommitUnanswered` is a transaction that committed and reported an error, `CommitRefused` the
unique index on the VMID.

**Abstractions.** Each instance has one job and one worker at a time: two workers on one job
are the subject of `JobQueue`, and a manual retry waits until nobody works on the job.
RETRY_WAIT and a row whose expired lease waits to be reclaimed are QUEUED. Templates are
ACTIVE; `JobQueue` has the branch where they are not. A verdict is free as far as the facts
allow (`MayPass`): the VM up for WAITING_GUEST, the mapping active for the egress, nothing for
the workload, whose default adapter (`noop`) does not look at the guest. A configuration task may fail after
its call was answered (`doomed`), and every retry polls it again, as it does a clone task. The gateway follows the interface `pgw.Adapter`; the adapter wired today
simulates it and proves no egress. A failed call of a handler takes no effect; failing at the step
after it stands for a lost reply. The settlement without rollback (`failOrRetry` when even reading
the instance fails) has the effect of a crash right after the settlement. The branch of
ReservingHandler that reuses a reservation is left out: that handler never calls
SaveCheckpoint, so its checkpoint is never there when the handler runs again.

### TemplateApi

`tstate` is `vm_templates.state` of the versions of one family, `record` and `expired` are the
rows of `idempotency_keys`, `rowLock` and `keyLock` the row locks of open transactions. A request
has its `key` and `body` from the start and goes through `LookUp` (Get, on a connection of its
own), `ReadTemplate` (Templates.Get and forwardPromotion, outside the transaction),
`LockTemplate` (SELECT ... FOR UPDATE and isValidTransition), `StartDemoting`, `Demote` and
`DemotingDone` (the UPDATE of the other ACTIVE rows, row by row), `Store` (the insert and the
read back) and `Commit`; `Fail` is any error before it. The database is PostgreSQL at READ
COMMITTED, which the code gets by passing no options to BeginTx: an UPDATE takes its snapshot
when it starts (`todo`), waits for locks, and evaluates its condition on the row again
(`StillActive`). The writes of a transaction appear at `Commit`. Promotion is the work because it
is not idempotent by itself: done twice it has another effect than done once. `Expire` lets a record grow old;
nothing deletes it, so a later `Store` under its key meets the row (`Stored` is what the read back then finds). `overlapped` is a
history variable that tells apart the race the code has from any other way to two ACTIVE versions.

### ProxmoxNode and Canary

`vmOwner`, `vmUp` are the VMs of the node, `task` the last task of each client. `Handle*` is what
the node does with a mutation, as `testlab/proxmoxmock` implements it: the effect comes at once, the
task that answers it ends later, OK or failed. A delete may also start a task that is going to fail
(`HandleDoomedDelete`), with the VM still there: the mock has no such task, a real node does, and the canary ignores
it (`canary.go:102-104`), which is why `NothingLeftBehind` exempts it. `Call` is the adapter's side of it: handled and
answered, handled with the answer lost, or not handled; the caller cannot tell the last two
apart. `Clone` adds the conflict, `Delete` the refusal for a VM that is not there, `WaitForTask` the deadline, which
may pass before any task ends.

In `Canary` each adapter call of `Validate` is an action (`Allocate`, `CloneTemplate`,
`ConfigureCanary`, `StartCanary`, the three waits as `Await`, `WaitGuestAgent`, `Collect`) and so is each of the
deferred function (`StopCanary`, `AwaitStop`, `DeleteCanary`, `AwaitDelete`), which any return after `Allocate`
leads to. `OtherVM` is anybody else on the node, `Crash` the end of the process. `shared` records
the VMIDs that were suggested to one and taken or suggested to another, `uncleaned` the runs whose delete or its task failed:
what the invariants allow to go wrong, they allow only there. Facts are the set of checks a guest satisfies.

### OperatorActions

`rows` and `jobs` are `vm_instances` and `provisioning_jobs` in the order of their creation.
A job carries its slot: `at` is where processJob is (`load` is the first look at the instance, `step`
the second, in Engine.Step, `persist` the transaction after the handler), `to` the state the handler
has returned, `rolling` how far the rollback is. Because terminalFail settles the job
before it rolls back, `rolling` and `at` are independent: a job that is retried meanwhile is claimed again
while its rollback runs.

What the code knows of its resources is kept apart from what exists. `holding` has a pair <<i, "VM">> or <<i, "mapping">>
for each that exists; `named` is what the checkpoint of the row names (the VM from RESERVING on, the mapping from the
moment SaveCheckpoint has written its id), `copy` what the checkpoint in the slot's memory names, and `undo` the copy a
rollback was given. A step saves to `named` while it runs, and only its transaction and the refresh after it bring the
copy up to date, so `GivenUp` hands the rollback a copy without the mapping that the failed step had just saved.
`Release` deletes what `undo` names, each part with its own outcome; `RecordRollback` writes the copy back over the row.

| Action | Code |
|---|---|
| `Begin` | the read a mutation makes through the pool: instance, generation, newest job |
| `Create`, `Retry`, `RetryJob`, `Quarantine`, `Rebuild`, `Decommission` | the transaction of each, with the checks it makes again and its unique indexes |
| `Claim`, `Load`, `Complete`, `Execute`, `Persist`, `NoHandler` | processJob and Engine.Step |
| `LoadFails` | instances.Get fails at `main.go:313`, and failOrRetry goes on without knowing the state: on the last attempt its own Get (369) succeeds and terminalFail rolls back whatever is there |
| `StepFails`, `Crash` | failOrRetry (with terminalFail on the last attempt), death and reclaim |
| `Release`, `RecordRollback`, `RollbackDies` | Rollback.Execute on what the checkpoint names, and the state it leaves |

The lifecycle has four registered transitions: REQUESTED (the VMID), CLONING (the VM), NETWORK_BINDING (the mapping) and
VALIDATING. Addresses are the subject of `Provisioning`, and so are a clone or a mapping that was made and never named anywhere,
and the failure of the second Get. Each job has one slot: `JobQueue` has the zombies. A second rollback of a job waits for the first.
Three history variables name the ways the promises below do not hold: `reopened` (the job was retried in the middle
of its rollback), `unseen` (a finished instance was given up by a job that could not look at it) and `late` (an instance was given up in the
step that saved its mapping).

### ValidationRules and Validation

`ValidationRules` has the facts (a fact that a rule only compares with the expected value is a
BOOLEAN, a list that is searched for it says whether it has it, has others or is empty), `NormalizeFacts`,
every rule of `EvaluateIdentityAndNetwork` and
`EvaluateEgress`, `Result` (Aggregate), and the drift classification. The script that collects the facts is a series of commands,
each of which may fail on its own without the script saying so (`Outputs`): what is lost is empty, unparseable or, for the three
counts that come from `2>/dev/null | wc -l` (`facts.go:34-36`), zero. The IPv6 policy of the identity and network rules is the
segment's (`DenyIPv6DefaultRoute`), that of the egress rules the configuration's (`DenyIPv6`); nothing ties the two together.
Of the host keys only the canonical one is compared: ed25519, ecdsa, rsa, then whatever comes first in the map; "other" stands for the
one key of a type without a preference, so the choice among several of those is the one thing left out.

In `Validation`, `Collect`,
`FindDuplicateMachineDigest`, `FindDuplicateSSHFingerprint` and `SaveIdentity` are the identity
handler: collection, two queries and a transaction, of several instances at a time;
`ValidateEgress` is the egress handler, whose verdict rests on the gateway's word alone. `ScanInstance` is
the drift scan, which nothing calls yet. `GuestChanges` and `Retire` are the world. `basis` and `scanned` remember what the guest
really was when it was asked and which outputs were lost, `proven` whose egress proof had nothing wrong with it, `overlapped` the
pairs of which one asked before the other's insert. A digest is its input. `Unrouted` is a guest as far as it can be known when the count of its
IPv6 routes was lost: the one loss that looks like what a rule (NET-004) asks for. `Fragile` bounds what a run loses, not what a proof covers.

### Workload

`guest` is what the artifact, its unit, its service and its marker are inside the guest; `Done` is the effect of
each command of Install and Remove in order (`InstallSteps`, `RemoveSteps`), `Undone` what a
command that reports a failure may leave: nothing, everything, or a torn file. The worker's path is
`Begin`, `CheckArtifact`, `FindMarker`, `Install`, `Validate`, `PollHealthy`/`PollUnhealthy` with
`DeadlinePasses`, and for a FAIL `SuspendMapping` and `MarkQuarantined`, whose errors are dropped;
`Save` is the transaction. `Abandon` is a crash or a failing transaction after which another
attempt begins; a second worker may begin beside the first at the price of a fault (the takeover of `JobQueue`). A shutdown cancels the
context that pollHealth waits on (`handlers_workload.go:158`): the calls and the transaction after it use the same context and fail,
which is an `Abandon`. A version is a content and a service name, the two things a marker is compared by (`sample.go:87`); the install path is
fixed, so a marker of the same two with another path, which makes Install leave the artifact where it was, is not told apart.
Remove also succeeds on a marker it cannot read, and leaves everything there (`NotFound` in `BeginRemove`, `sample.go:232`);
no code outside the tests calls Remove yet. The history
variables say which of the known ways of going wrong has happened.

### Monitoring

`jobs` is the job table as far as it is counted; `tick` a worker's maintenance tick between its two
queries and its upserts, `console` a walk through the pages of GET /v1/alerts. `CountJobs` and
`MeasureAges` may fail or lose rows; `Upsert` inserts or refreshes (description and version only: the severity
stays that of the first time); `FirstPage`, `NextPage` are the keyset pagination over (created_at, id), whose ORDER BY is
the set `Sorted` of the listings in that order (there is exactly one), `Acknowledge` the conditional update. `started` is
the first claim, which survives checkpoints, retries and requeues, as the COALESCE in Claim has it; `since`, which no column
has, is when the job got to its checkpoint or was put back there by an operator. Two history variables are kept of a tick: `due`, what the
*texts* of the alerts call for (a backlog over a threshold, a job running AT its checkpoint for too long, `main.go:529-531`), and `grounds`,
the same with a job's age counted from its first claim. The code knows the second only. Both carry the severity.

## 3. Runs

| Run | Result | Shows |
|---|---|---|
| `jobqueue_safety` | holds | `TypeOK`, `LeaseColumns`, `ClaimsExclusive`, `OwnerHoldsLatestClaim`, `RetryOnlyWithAttemptsLeft`, and `JobQueue` implements `JobLifecycle` |
| `jobqueue_live` | holds | `EveryJobSettles` under `Fairness` |
| `jobqueue_takeover` | violated | `NoDuplicateTransition`: one failed heartbeat and two slots execute the same transition |
| `provisioning_safety` | holds | `TypeOK`, `ReadyHasPassEvidence`, `NoOrphanVM`, `AddressFreedAfterVM`, `LeaksNeedFaults`, `AddressLossIsAccounted` |
| `provisioning_vmid` | violated | `RollbackDeletesOnlyOwnVM`: without any fault, a rollback deletes another instance's VM |
| `template_safety` | holds | `TypeOK`, `OneBodyPerLiveKey`, `OneActiveUnlessOverlapped`, `OnlyValidTransitions` |
| `canary_safety` | holds | `TypeOK`, `NothingLeftBehind`, `OnlyContestedVmidsMixUp`, `EveryRunEnds` |
| `operator_safety` | holds | `TypeOK`, `OneLiveGeneration`, `OneJobSteps`, `FailedHoldsNothing`, `ReadyHoldsResources`, `QuarantineHolds` |
| `operator_retired` | violated | `RetiredHoldsNothing`: nobody releases what a rebuilt instance held |
| `validation_safety` | holds | `TypeOK`, `PassIsSound`, `DuplicatesNeedOverlap`, `DriftNoticed` |
| `workload_safety` | holds | `TypeOK`, `InstalledAsClaimed`, `VerdictMatchesIsolation`, `RemoveCanBeRepeated`, `EveryApplyEnds` |
| `monitoring_safety` | holds | `TypeOK`, `AlarmsMatchTheQueue`, `AckedAsRendered`, `EachListedOnce` |

The three violated properties are statements of the repository's documents or test matrix that
the code does not keep; `PROJECT.json` quotes each next to the line. More such statements follow below. In `provisioning_vmid` the
VM is lost in the first rollback; that a second rollback of a requeued job meets its old VMID under a new owner is the same
property, of which that run has no example.

**Properties that hold, and what would break them.** `OwnerHoldsLatestClaim` is why settling
`WHERE lease_owner = $1 AND state = 'RUNNING'` is enough although a slot's name is the same in
every claim it makes: a slot that works on a job and is named on the row works from the row's
latest claim, whatever zombies exist. `ImplementsLifecycle` says the same as a refinement.
`NoOrphanVM` holds because the VMID is committed with RESERVING, before the clone, and the
rollback writes its checkpoint back instead of clearing it. `LeaksNeedFaults` counts addresses
and mappings that no checkpoint mentions: conflicts, empty pools, verdicts and rollbacks lose
none, and one fault loses one at most. `ReadyHasPassEvidence` survives any mixture of retries
and crashes because evidence and state commit together. `AddressLossIsAccounted` names the ways an
instance loses its address: its own rollback, the reaper once its job is settled and the reservation
too old, and the late rollback of an instance that had the address before, because Release
goes by the id of the allocation alone. `OneBodyPerLiveKey` is what the read back in Store buys: two
requests with one key and different bodies may both miss the lookup and both do their work,
but a record is not changed while it lives, and only the request whose body it holds is answered with success.
A key whose record has expired may take another body; that the code does not let it is a statement of the table below. `OnlyValidTransitions` holds although the target is computed from an
unlocked read, because the state is checked again under the lock; it does not exclude that a
late request re-activates a version that was deprecated meanwhile, which is a legal transition.
`OneActiveUnlessOverlapped` shows that the overlap is the only way to two ACTIVE versions.

The canary's deferred clean-up is unconditional, which is why nothing is left behind
(`NothingLeftBehind`, even when the answer to a clone was lost) and why it can delete a VM of
somebody else; `OnlyContestedVmidsMixUp` shows that this needs a VMID suggested to two.
`FailedHoldsNothing` and `ReadyHoldsResources` say what an operator may conclude from these states, and name the ways it is wrong.
FAILED: the VM is gone always and the mapping unless the step that failed for good had just saved its id (`late`), because the rollback
works from the copy of the job that was read before that step (`main.go:380-389`). READY: VM and mapping are there unless a job whose
look at the instance failed on its last attempt rolled it back unseen (`unseen`, `main.go:313`). Both except an instance whose job was retried in the
middle of its rollback (`reopened`). `QuarantineHolds` is the exact promise of a quarantine: a job that was at work when it was put in
place may write over it, and so may one that could not look; nothing else that is claimed later does.

`DuplicatesNeedOverlap` is the window of the search for duplicate identities: with an unread key left aside, two live instances of one identity
pass only when one asked before the other's insert. The run has `BlockRetiredDuplicate` FALSE; the theorem is for both values. `PassIsSound` compares every passing guest with what a guest
must be, said without the rules and without the warnings: whichever outputs were lost, a guest that goes on broke no hard rule, but for an IPv6 default
route that could not be counted; and nobody reaches the workload without a faultless egress proof, each under its own IPv6 policy. `DriftNoticed` says the same of a
scan, and that it raises no alarm about a guest that is as it was and could be read both times.

`InstalledAsClaimed` is what Install's shortcut rests on; `RemoveCanBeRepeated` what the order of
Remove's commands buys. `VerdictMatchesIsolation` has the price of isolating before the verdict is saved, where section 9 of
`docs/08_Identity_Network_Egress_Validation_v1.0.md` puts the evidence first. `AlarmsMatchTheQueue` has two sides. Nothing is missed: a tick in which nothing failed leaves an alert for everything
the alerts' texts call for (`due`). Nothing is invented beyond one known kind: an alert of each severity was due when its tick read, except that a checkpoint may be reported for a job that was
first claimed long ago and is new there (`grounds`). This holds
although the two queries of a tick see different moments, because a partial sum only falls short and a tick that lost rows promises nothing;
`EachListedOnce` because the cursor carries the id next to the instant.

Each property of a run that holds has a mutant, a plausible slip in a mapped definition, under which its run fails.

**Statements that are refuted without a run.** These definitions stay in their modules; they say what a comment or a document of the repository says, and
the code does not keep them. Those with a configuration give the counterexample by `tlc -config MC<...>.cfg MC<...>` (the configuration's name up to the
underscore is the module); the others when added as INVARIANT (`RollbackFinishes`, which is temporal, as PROPERTY under `FairSpec`) to the cfg of `Provisioning`'s safety run.

| Definition | Configuration | What is promised | What the code does |
|---|---|---|---|
| `FailedIsEmpty` | `MCOperatorActions_leftover` | `rollback.go:32-38`: the rollback suspends or deletes the mapping "nếu có" (if there is one), "rồi chuyển instance về FAILED" | the rollback's copy of the checkpoint is older than the failed step (`main.go:382`): a mapping that step saved stays, and the instance is FAILED |
| `LaterJobsKeepQuarantine` | `MCOperatorActions_blind` | docs/05:89: out of QUARANTINED leads an "operator/remediation decision" | one failed query at `main.go:313` on the last attempt, and a job claimed after the quarantine deletes the VM and writes FAILED; READY is met alike |
| `ExpiredKeyReusable` | `MCTemplateApi_expiry` | `idempotency.go:18-20`: the TTL is how long a record is kept before it expires "và cho phép tái sử dụng key" (and lets the key be used again) | nothing deletes the row, and the insert meets it (`storage/idempotency.go:52`): the work is done and rolled back, for ever |
| `OneActivePerFamily` | `MCTemplateApi_family` | `template/repository.go:148-150`: one ACTIVE per family, no window of two | two overlapping promotions leave two ACTIVE versions |
| `OncePerKey` | `MCTemplateApi_once` | `httpapi/idempotency.go:40-42`: "thực thi work đúng một lần" (exactly once) for each scope, key and hash | two requests with one key and body race past the lookup and both do the work |
| `UnknownNeverPasses` | `MCValidation_unknown` | `check.go:66-67`: an UNKNOWN of identity, network or egress must not go to READY; acceptance_test_matrix.csv:22 | the count of a failed `ip -6 route` is 0, which is what NET-004 asks for (`facts.go:36`) |
| `WarningsOnlyWarn` | `MCValidation_warning` | `check.go:16-17`: the severity decides whether a check blocks READY or "chỉ cảnh báo" (only warns); docs/08 section 8 | the identity handler quarantines on every result but PASS (`handlers_validation.go:138`) |
| `StuckWhereItIs` | `MCMonitoring_stuck` | docs/09:109: JobStuckInState is "state duration > policy"; `main.go:530`: a job stopped for long AT a checkpoint | the age is counted from the first claim (`main.go:564-569`) and survives checkpoints, retries and requeues |
| `CriticalIsShown` | `MCMonitoring_severity` | docs/09:108: ProvisioningBacklogHigh is "warning/critical" | the severity is that of the first upsert (`storage/alerts.go:37-41`), and nothing resolves an alert |
| `BacklogAsRuled` | `MCMonitoring_threshold` | `main.go:487`: "Ngưỡng khớp" (the thresholds match) prometheus-rules.yml, which has `> 20` and `> 50` for ten minutes | the code has `>=`, in a single tick (`main.go:516`) |
| `RollbackKnowsMapping` | - | `main.go:381-382`: Fail leaves the checkpoint alone, so there is no need to read it again | terminalFail rolls back from the job as it was claimed and misses a mapping the row knows |
| `ReadyKeepsAddress` | - | - | the reaper frees the address of a READY instance, and the next one gets it |
| `CloneCanBeRecorded` | - | - | `vm_instances.vmid` of a rolled-back row blocks its VMID |
| `RollbackFinishes` | - | - | a crash after Fail leaves the rollback undone for ever |

**Known without a property.** The models have the following, for which no property is stated: a clone or configuration
task that failed stays in the checkpoint, so that every retry polls it again (`handlers_provision.go:80,156`); a request that read
CANDIDATE may re-activate a version that was deprecated meanwhile, which is a valid transition (`template/repository.go:162`).
The models leave out that the hash of an idempotent request covers its body alone, so a key used again for another instance is
answered with the old response (`httpapi/idempotency.go:45`), and the time for which `prometheus-rules.yml` wants an alert's condition to last.

**Bounds.** They occur only in the guards of faults, of requests and of the world, never in those of the
program, and the proofs of section 4 hold for any of them. `CHECK_DEADLOCK FALSE`, because the systems may come to rest: all jobs settled, all
requests answered, and every budget used up.

- *JobQueue*: two slots and two jobs: every race is between two claims of one job, and the
  second job exercises the order of claims and the unsupported operation. `MaxAttempts` 2 has a retry and a last
  attempt; `LeaseTicks` 2 a lease that is renewed in time and one that is not; `LastStage` stands for the handlers, whose
  number the queue does not depend on. Two faults: one failure, and one while it is being handled.
- *Provisioning*: two instances, two addresses, two VMIDs, four mappings: enough for a conflict, for an
  empty pool and for reuse after a rollback; the gateway never runs out. 3,708,089 states.
- *TemplateApi*: three requests, two keys, two templates in any states with one ACTIVE version at
  most: a race of two and a request that changes its ground.
- *Canary*: two runs, one stranger, two VMIDs, one fault: both runs and the stranger can want one VMID,
  and a run can fail at every call. 762,116 states.
- *OperatorActions*: three requests, three instances, three jobs, two attempts, two faults: two
  rebuilds that race, a job that fails for good and is retried while its rollback runs. 1,729,476 states.
- *Validation*: two instances, one fault, one change, and eleven guests: sound ones that share a machine id, a key or neither, with keys of
  each type, one without a key, and one for each kind of broken rule. Of the twelve outputs three may be lost (`Fragile`): a
  preferred host key, a list, and the count of IPv6 routes; `ValidationProofs` has all of them. 2,145,956 states.
- *Workload*: two workers, three tries, three faults: a first failure, one in its
  repair, and a takeover.
- *Monitoring*: one worker, one operator with the filter "firing", two jobs, pages of one row, two ticks, one acknowledgement, one
  fault, two instants: a tick that fails after one that did not, a job that moves on and one that is requeued, and a walk during which rows come
  and change. The VIEW `Readable` drops the job table from a state once the last tick has read it: nothing that happens afterwards looks at it, and none
  of the properties does. 3,335,634 states.

Slots, instances, requests and VMIDs are symmetric in the safety runs where their order does not
matter; jobs (claimed in order), addresses, VMIDs and mappings of `Provisioning` are not, and the runs with
temporal properties use no symmetry.

**Fairness.** In `JobQueue`: weak fairness for each slot's fault-free steps (a goroutine that polls), for
heartbeats, the maintenance loop and time (tickers), for restarts (systemd, `deploy/systemd`)
and for the end of a backoff. None for faults, for Create or for Requeue. Weak fairness of a
slot is enough because a crashed slot restarts and a lost lease is reclaimed;
the number of crashes is bounded. Without that bound `EveryJobSettles` would fail: a claim
counts an attempt, but a crash never turns attempts into FAILED. In `Canary` a run that can take a
step takes one; nothing is assumed of tasks, of the guest agent or of the node, so `EveryRunEnds` rests
on the deadlines alone. In `Workload` a worker goes on, and its deadline passes; nothing is assumed of
the service, so `EveryApplyEnds` rests on pollHealth giving up. In `Provisioning` the workers
are weakly fair in `FairSpec`, and `RollbackFinishes` fails all the same.

## 4. Proofs

Every safety property of section 3 that holds is a theorem for any values of the constants within the
assumptions named in the modules; TLC checked each, and each inductive invariant, on the bounds of the runs first. A proof
module begins with its inductive invariant, has one lemma per action and ends with the theorems. Actions
that differ little share a lemma about their common part.

**JobQueueProofs** proves `QueueInvariant` (the inductive invariant), `TypeCorrect`, `LeaseColumnsCorrect`,
`ClaimsAreExclusive`, `OwnerIsFenced`, `RetriesAreBounded` and `QueueImplementsLifecycle`
(`Spec => Lifecycle!Spec`). None of the invariants is inductive alone. A slot may write RETRY_WAIT only if it saw attempts
left (`SlotInv`) *and* its copy of the attempt is the row's (`OwnerHoldsLatestClaim`); that a new
claim does not raise `attempt` under a slot still named on the row needs the claimed row to be
waiting (`ClaimsExclusive`) and so without an owner (`LeaseColumns`); and that only a slot past
its claim settles a row needs `held` to be a job (`SlotInv`). `QueueInv` is their conjunction
with `TypeOK`. Actions that only move a slot share `SlotMove`, the three settlements `SettleMove`. The refinement maps `attempt` to the epoch and
a working slot to the grant <<job, claim number>>. An action changes the grant only where a
slot starts or stops working (`GrantKept`, `GrantDropped`), and a settlement that takes effect
is made by the owner, so by `OwnerHoldsLatestClaim` with the latest grant; one that does not is
a `Drop` or a stutter.

**OperatorActionsProofs** proves `OperatorInvariant`, `OperatorTypeCorrect`, `GenerationsDoNotFork`,
`OneJobStepsAtATime`, `FailedIsClean`, `ReadyIsBacked` and the action property `QuarantinesHold`. In
`OperatorInv` the generation of a row is its place in the table
(`OneLiveGeneration`), so a rebuild passes only on the last row, and only its job is supported by the engine
(`JobsInv`: one supported job per instance). Hence whatever
happens to `holding` and to the state of an instance, a single job does it. What its position says about the instance is `SoundJob`, in four parts.
`Works`: where it is fits its state, and it does not step on a READY instance. `Knows`: what exists is named by the row, and what the row names by the
slot's copy, but for the mapping that the step at work has just saved; that exception, followed through `GivenUp`, is what `late` records. `Undoes`: a
rollback has its job to itself, meets READY only when the job could not look (`unseen`), and its copy names everything there is but a late mapping, so that when it is
done only that can be left. `Spares`: whoever may write over a quarantine was at work when it was put in place, or could not look. All but the first are
claimed only of instances whose job was not retried in the middle of its rollback (`Undisturbed`). `RequestInv` says what of a request's read is still true when its
transaction runs, which is why the read may be outside it.

**ProvisioningProofs** proves `ProvisioningInvariant`, `ProvisioningTypeCorrect`, `ReadyHasEvidence`,
`VMsAreRecorded`, `AddressesAreFreedLast`, `FailedHasNoVM`, the action property `AddressLosses`, and
`LeaksAreBounded`. `ProvisioningInv` says instance by instance which states fit a position of its worker (`FlowInv`),
that evidence grows in the order of the validations (`EvidenceInv`), that once there is a VMID
the row, the copy and the working copy of the checkpoint agree on it (`VmidInv`), and that every VM of
the instance is the one of that VMID, and gone when a rollback is past it without a failure (`VMInv`). A handler's lemma
therefore only has to look at its own instance (`OneInstance`). `NoOrphanVM` is not inductive because a rollback writes back
the checkpoint its *worker* holds: `VmidInv` and `VMInv` say that this one has the VMID too. `LeaksAreBounded` counts. `LeakInv`
takes as lost what is reserved or mapped and no copy mentions that can still reach a rollback or the row (`KnowsAddr`,
`KnowsMapping`), and shows that a step loses one thing only if it is a fault
(`NothingLost`, `OneLost`), through the cardinality theorems over the finite pools; what the property calls
leaked is a part of what is lost (`LeaksAreLosses`).

**TemplateApiProofs** proves `ApiInvariant`, `ApiTypeCorrect`, `TurnsKeepOneActive` and the action properties
`LiveKeyHasOneBody` and `TransitionsAreValid`. `RowInv`: a request past LockTemplate holds the row it checked, so the transition is still
valid at Commit. `KeyInv`: one past Store holds its key's row, which is empty or has its own body; with it
`LiveKeyHasOneBody` looks at the commit and the lookup alone, the only steps that write a record or answer with success. `TurnInv`: as long as promotions to ACTIVE do not overlap, the one at
work has demoted every other ACTIVE version or will still visit it, which is what makes its
snapshot good enough; "at most one" is said without counting and tied to the property's Cardinality by `AtMostOne`.

**CanaryProofs** proves `CanaryInvariant`, `CanaryTypeCorrect`, `CanariesAreRemoved` and `MixUpsNeedContest`, with lost
answers, refused calls and crashes of the node. `OwnInv`: a VM of a run is at the run's target, and stays
after the end only if the run was killed, or its delete or the delete's task failed. `ShareInv`: a run that works with a VMID meets nobody
else's VM and no other run there, unless the VMID is in `shared`; both need that the target stays fixed between
`Allocate` and the end. The node's side is separated by `NodeKeeps`: all calls but clone and delete leave the VMs' owners alone.

**ValidationProofs** proves `ValidationInvariant`, `ValidationTypeCorrect`, `PassesAreSound`,
`DuplicatesAreRaces` and `DriftIsNoticed`. The lemmas about the rules stand alone: `PassMeansAll` (a PASS has
no finding that fails), `NormalizeHidesNothing` (what is lost never makes a fact look
better, but for the IPv6 routes), `GuestIsInOrder` (under the strictest configuration a look in which nothing that blocks fails is at a guest in
order, but for a lost count of IPv6 routes) and `OrderMeansPass` (a guest in order of which nothing is lost fails nothing that blocks),
`EgressPassMeansSound`, `ScanIsAccurate`. `HandlerInv` then says that what a handler works from is what its guest showed when it
was asked (`Shown`), but for the outputs that were lost; `ObservationInv` that the one stored observation of an instance is of the look its
verdict is about. `LookUpInv` is the window of the duplicate search: a live instance that has passed is in every answer
asked for after its insert, unless the pair is in `overlapped`. The two look-ups are at different times, so it says this of
each of them. It speaks of what the guests showed; `KeysRead` leads from there to the guests themselves when no key was lost.

**WorkloadProofs** proves `WorkloadInvariant`, `WorkloadTypeCorrect`, `MarkersAreEarned`,
`VerdictsMatchIsolation` and `RemovalsCanBeRepeated`. `SoleInv` says that without a takeover one worker is at work; `GuestInv`
what that worker has already done to the guest at each command of Install (`Progress`), so the marker at the end is earned;
`IsolationInv` which of the two isolating calls have been made at each position, and who made them; `RemovalInv` that
Remove meets a settled guest and what it has taken away. `InstallEffect`, `InstallUndone`, `RemoveEffect` and
`RemoveUndone` describe the commands once.

**MonitoringProofs** proves `MonitoringInvariant`, `MonitoringTypeCorrect`, `AlarmsAreRight`,
`AcknowledgementsAreInformed` and `ListingsAreComplete`. `TickInv`: what a tick is going to raise had `grounds` when it read, with its severity, and says so
with a value over the threshold; unless something failed, what had grounds is in the table or still to be
upserted. `DueInv` and `JobInv` connect this with the alerts' texts: a running job has been claimed, and not after it got to its checkpoint, so what was due had
grounds too, and nothing that is due is missed; the converse does not hold. `AgeOfOldest` gives the maximum that MeasureAges reports. `RenderedInv`: what an operator was shown is an earlier version of the
alert, or says what it says, so a version that compares equal was read. `VersionInv` charges every version to a tick or an
acknowledgement; a tick that has its write outstanding (`Pending`) is counted ahead, which the bound in `TypeOK` needs to be
inductive. `WalkInv`: nothing shown comes before the cursor, and what matched all along and was not shown does; because
`Before` is strict (`CursorOrder`) and a page is a prefix of a sorted listing (`SortedListing`), the next page keeps this.
`ListingExists` shows that there always is such a listing, so that a page is never refused. The greatest and the least
member come from the well-foundedness of < in the library, not from an induction.

**Assumptions.** Only the ASSUMEs of the modules: null values (`None`, `Torn`, `NoJob`, `NoWorker`, `Nobody`) are not members of
what they stand beside; bounds are naturals, attempts, leases and page sizes positive; `Critical > Warning`, which are constants of
`cmd/worker`; jobs, addresses, VMIDs and mappings are numbered where they are ordered; addresses,
mappings, templates, alerting jobs and workers are finite where they are counted, as rows of a database are.

**Model-checked only.** `EveryJobSettles`, `EveryRunEnds` and `EveryApplyEnds` are liveness under fairness, and
ENABLED hides in it: out of the prover's reach. The statements that are refuted
(`NoDuplicateTransition`, `RollbackDeletesOnlyOwnVM`, `RetiredHoldsNothing` and the table in section 3) are no theorems.

## 5. Plan

1. Done: `JobLifecycle`, `JobQueue`, `Provisioning`, `TemplateApi`, `ProxmoxNode`, `Canary`, `OperatorActions`,
   `ValidationRules`, `Validation`, `Workload`, `Monitoring`, and the proofs of section 4.
2. Abstract specifications: an idempotent store for `TemplateApi` and an address pool for
   `Provisioning`, with a proof of the part of each that the code implements.
3. Sharper theorems: who may be named in `shared` and `overlapped` (that these history variables hold nothing but
   the races they are named for), and the two-sided form of the verdict of a scan.
4. `TemplateApi` grows the connection pool (a request that reads while its transaction holds a
   connection: can all of them wait for ever?), and keys that are used for another resource.

## 6. Not modelled

HTTP routing, authentication, the CLI, configuration, metrics and the audit log (stateless, or records
that are only displayed); listings and details other than the alerts'; IP segments, the scanner and the hostname
generator (configuration, a report nothing calls, a database sequence); HTTP, JSON and polling inside
the Proxmox client; the text of the shell script that collects the facts (which of its outputs may be lost is modelled) and of evidence documents;
the alert of an incomplete rollback, which is raised outside the maintenance loop;
`stateengine.Quarantine` and `ipam.MarkAssigned` (no caller). The canary and `ScanInstance` have no caller either but
are complete, and modelled. The connection pool is planned above. Priorities are the default everywhere.
