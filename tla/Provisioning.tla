---------------------------- MODULE Provisioning ----------------------------
(***************************************************************************)
(* What the transitions of internal/stateengine do outside the job row:    *)
(* addresses reserved in PostgreSQL (internal/ipam), VMs cloned on Proxmox *)
(* and mappings created on the egress gateway, the checkpoint that records *)
(* them, and the rollback that takes them back.  Every external call and   *)
(* every transaction is one step; a worker may die between any two.        *)
(*                                                                         *)
(* Each instance has one job and at most one worker at a time: zombie      *)
(* workers are JobQueue's subject.  RETRY_WAIT is QUEUED here, and so is a *)
(* row that waits for its expired lease to be reclaimed.                   *)
(***************************************************************************)
EXTENDS Naturals, FiniteSets

CONSTANTS
  Instances,
  Addrs,        \* the rows of ip_allocations, numbered in address order
  Vmids,        \* VMIDs in /cluster/nextid order
  Mappings,     \* ids the egress gateway hands out, in order
  None,
  MaxAttempts,
  MaxFaults,    \* bound: failed calls, failed tasks and crashes
  MaxRequeues   \* bound: manual retries

ASSUME PoolsAssumption == Addrs \subseteq Nat /\ Vmids \subseteq Nat /\ Mappings \subseteq Nat
ASSUME FiniteAssumption == IsFiniteSet(Addrs) /\ IsFiniteSet(Mappings)
ASSUME NoneAssumption == None \notin Instances \cup Addrs \cup Vmids \cup Mappings
ASSUME BoundsAssumption == MaxAttempts \in Nat \ {0} /\ MaxFaults \in Nat /\ MaxRequeues \in Nat

VARIABLES
  job, attempt,              \* the provisioning_jobs row
  db,                        \* its checkpoint_data
  inst,                      \* vm_instances.state
  placed,                    \* vm_instances.vmid
  passed,                    \* types of the PASS rows in validation_runs
  ipState, ipOwner, ipOld,   \* ip_allocations; ipOld: reserved_until has passed
  vmOwner, vmUp,             \* Proxmox: whose clone has the VMID; running VMs
  mapOwner, mapState,        \* the egress gateway
  (* the worker that runs the job *)
  pc,
  mem,                       \* job.CheckpointData in memory
  work,                      \* the handler's copy, being filled in
  next,                      \* TransitionResult.NextState
  failed,                    \* Rollback.Execute: len(failures) > 0
  faults, requeues

jobVars == <<job, attempt>>
record  == <<placed, passed>>
ips     == <<ipState, ipOwner, ipOld>>
vms     == <<vmOwner, vmUp>>
maps    == <<mapOwner, mapState>>
outside == <<ips, vms, maps>>
vars    == <<jobVars, db, inst, record, outside, pc, mem, work, next, failed, faults, requeues>>

Checkpoints ==
  [ip : Addrs \cup {None}, vmid : Vmids \cup {None}, clone : {"none", "started", "doomed"},
   config : {"none", "started", "doomed"}, client : BOOLEAN, mapping : Mappings \cup {None}]

Blank == [ip |-> None, vmid |-> None, clone |-> "none",
          config |-> "none", client |-> FALSE, mapping |-> None]

Validating == {"WAITING_GUEST", "VALIDATING_EGRESS", "APPLYING_WORKLOAD"}
Terminal   == {"READY", "QUARANTINED"}
InstStates == {"REQUESTED", "RESERVING", "CLONING", "CONFIGURING", "NETWORK_BINDING",
               "BOOTING", "FAILED"} \cup Validating \cup Terminal

RollbackPcs == {"rbvm", "rbmapping", "rbip", "rbmark", "rbend"}
StepPcs     == {"step", "nextid", "save", "isolate", "commit"}

Fault   == faults < MaxFaults /\ faults' = faults + 1
NoFault == UNCHANGED faults

(* the first free element of a pool numbered in order *)
First(S, x) == x \in S /\ \A y \in S : x <= y

Goto(i, label) == pc' = [pc EXCEPT ![i] = label]

Init ==
  /\ job = [i \in Instances |-> "QUEUED"] /\ attempt = [i \in Instances |-> 0]
  /\ db = [i \in Instances |-> Blank]
  /\ inst = [i \in Instances |-> "REQUESTED"]
  /\ placed = [i \in Instances |-> None]
  /\ passed = [i \in Instances |-> {}]
  /\ ipState = [a \in Addrs |-> "FREE"] /\ ipOwner = [a \in Addrs |-> None] /\ ipOld = {}
  /\ vmOwner = [v \in Vmids |-> None] /\ vmUp = {}
  /\ mapOwner = [m \in Mappings |-> None] /\ mapState = [m \in Mappings |-> "ABSENT"]
  /\ pc = [i \in Instances |-> "idle"]
  /\ mem = [i \in Instances |-> Blank] /\ work = [i \in Instances |-> Blank]
  /\ next = [i \in Instances |-> None] /\ failed = [i \in Instances |-> FALSE]
  /\ faults = 0 /\ requeues = 0
-----------------------------------------------------------------------------
(* The worker loop around the handlers *)

(* processJob returns *)
Leave(i) ==
  /\ Goto(i, "idle")
  /\ mem' = [mem EXCEPT ![i] = Blank] /\ work' = [work EXCEPT ![i] = Blank]
  /\ next' = [next EXCEPT ![i] = None] /\ failed' = [failed EXCEPT ![i] = FALSE]

(* Claim; the row comes with its checkpoint *)
Claim(i) ==
  /\ job[i] = "QUEUED" /\ pc[i] = "idle"
  /\ job' = [job EXCEPT ![i] = "RUNNING"]
  /\ attempt' = [attempt EXCEPT ![i] = @ + 1]
  /\ mem' = [mem EXCEPT ![i] = db[i]] /\ work' = [work EXCEPT ![i] = db[i]]
  /\ Goto(i, "step")
  /\ UNCHANGED <<db, inst, record, outside, next, failed, faults, requeues>>

(* READY or QUARANTINED: jobs.Complete *)
Finish(i) ==
  /\ pc[i] = "step" /\ inst[i] \in Terminal
  /\ job' = [job EXCEPT ![i] = "SUCCEEDED"]
  /\ Leave(i)
  /\ UNCHANGED <<attempt, db, inst, record, outside, faults, requeues>>

(* terminalFail: the job is FAILED first, then rolled back from the        *)
(* checkpoint in memory                                                    *)
TerminalFail(i) ==
  /\ job' = [job EXCEPT ![i] = "FAILED"]
  /\ work' = [work EXCEPT ![i] = Blank] /\ next' = [next EXCEPT ![i] = None]
  /\ Goto(i, "rbvm")
  /\ UNCHANGED <<mem, failed>>

(* failOrRetry, after a handler returned an error *)
FailOrRetry(i) ==
  IF attempt[i] < MaxAttempts
    THEN job' = [job EXCEPT ![i] = "QUEUED"] /\ Leave(i)
    ELSE TerminalFail(i)

HandlerFails(i) ==
  FailOrRetry(i) /\ UNCHANGED <<attempt, db, inst, record, outside, requeues>>

(* Any read, external call or transaction of processJob or a handler may   *)
(* fail before it takes effect; failing at the step after it stands for a  *)
(* lost reply.                                                             *)
CallFails(i) ==
  /\ pc[i] \in StepPcs \ {"isolate"}
  /\ Fault /\ HandlerFails(i)

(* ErrInvalidTransition: no handler leads out of FAILED, and REQUESTED     *)
(* insists on an ACTIVE template                                           *)
InvalidTransition(i) ==
  /\ pc[i] = "step" /\ inst[i] \in {"FAILED", "REQUESTED"}
  /\ TerminalFail(i)
  /\ UNCHANGED <<attempt, db, inst, record, outside, faults, requeues>>

(* The process dies, or a call that settles the job fails: the maintenance *)
(* loop requeues the row when its lease has expired, and nobody resumes a  *)
(* rollback.                                                               *)
Crash(i) ==
  /\ pc[i] # "idle" /\ Fault
  /\ job' = [job EXCEPT ![i] = IF @ = "RUNNING" THEN "QUEUED" ELSE @]
  /\ Leave(i)
  /\ UNCHANGED <<attempt, db, inst, record, outside, requeues>>

(* an operator retries a job nobody works on *)
Requeue(i) ==
  /\ job[i] = "FAILED" /\ pc[i] = "idle"
  /\ requeues < MaxRequeues /\ requeues' = requeues + 1
  /\ job' = [job EXCEPT ![i] = "QUEUED"]
  /\ UNCHANGED <<attempt, db, inst, record, outside, pc, mem, work, next, failed, faults>>
-----------------------------------------------------------------------------
(* The frame of Engine.Step *)

(* tctx.SaveCheckpoint: the row only, not the copy in memory *)
SaveCheckpoint(i) ==
  /\ pc[i] = "save"
  /\ db' = [db EXCEPT ![i] = work[i]]
  /\ Goto(i, "step")
  /\ UNCHANGED <<jobVars, inst, record, outside, mem, work, next, failed, faults, requeues>>

(* the handler returns a TransitionResult *)
Done(i, s) == Goto(i, "commit") /\ next' = [next EXCEPT ![i] = s]

(* the handler stashed something it just did outside *)
Stash(i, c) == work' = [work EXCEPT ![i] = c] /\ Goto(i, "save") /\ UNCHANGED next

(* uq_active_instance_vmid: one instance that is not retired per VMID *)
VmidTaken(i) == inst[i] = "CLONING" /\ \E j \in Instances \ {i} : placed[j] = work[i].vmid

(* the transaction: state, placement, checkpoint and the evidence of a     *)
(* verdict                                                                 *)
Persist(i) ==
  /\ pc[i] = "commit" /\ ~VmidTaken(i)
  /\ inst' = [inst EXCEPT ![i] = next[i]]
  /\ db' = [db EXCEPT ![i] = work[i]]
  /\ placed' = [placed EXCEPT ![i] = IF inst[i] = "CLONING" THEN work[i].vmid ELSE @]
  /\ passed' = [passed EXCEPT ![i] =
       IF inst[i] \in Validating /\ next[i] # "QUARANTINED" THEN @ \cup {inst[i]} ELSE @]

(* processJob refreshes its copy of the row and goes on *)
Commit(i) ==
  /\ Persist(i)
  /\ mem' = [mem EXCEPT ![i] = work[i]] /\ next' = [next EXCEPT ![i] = None]
  /\ Goto(i, "step")
  /\ UNCHANGED <<jobVars, outside, work, failed, faults, requeues>>

(* committed, but the reply is lost: an error of Step like any other *)
CommitUnanswered(i) ==
  /\ Persist(i) /\ Fault
  /\ FailOrRetry(i)
  /\ UNCHANGED <<attempt, outside, requeues>>

CommitRefused(i) ==
  /\ pc[i] = "commit" /\ VmidTaken(i)
  /\ HandlerFails(i) /\ NoFault

(* what a handler leaves alone *)
Inside == UNCHANGED <<jobVars, db, inst, record, mem, failed, requeues>>

At(i, s) == pc[i] = "step" /\ inst[i] = s
-----------------------------------------------------------------------------
(* The handlers *)

Requested(i) ==
  /\ At(i, "REQUESTED")
  /\ Done(i, "RESERVING")
  /\ Inside /\ UNCHANGED <<outside, work, faults>>

(* ReserveNextFree: the lowest FREE address, in a transaction of its own.  *)
(* The handler never saves a checkpoint of its own, so the reservation it  *)
(* would reuse is never there.                                             *)
ReserveAddress(i) ==
  LET free == {a \in Addrs : ipState[a] = "FREE"} IN
  /\ At(i, "RESERVING")
  /\ \/ \E a \in free :
          /\ First(free, a)
          /\ ipState' = [ipState EXCEPT ![a] = "RESERVED"]
          /\ ipOwner' = [ipOwner EXCEPT ![a] = i]
          /\ work' = [work EXCEPT ![i].ip = a]
          /\ Goto(i, "nextid")
          /\ Inside /\ UNCHANGED <<ipOld, vms, maps, next, faults>>
     \/ free = {} /\ HandlerFails(i) /\ NoFault

(* AllocateNextVMID: a suggestion of Proxmox, reserved by nobody *)
AllocateVmid(i) ==
  /\ pc[i] = "nextid"
  /\ \E v \in Vmids :
       /\ First({u \in Vmids : vmOwner[u] = None}, v)
       /\ work' = [work EXCEPT ![i].vmid = v]
  /\ Done(i, "CLONING")
  /\ Inside /\ UNCHANGED <<outside, faults>>

(* The clone call is refused when the VMID exists.  The task it starts may *)
(* still fail, leaving no VM.                                              *)
Clone(i) ==
  LET v == work[i].vmid IN
  /\ At(i, "CLONING") /\ work[i].clone = "none"
  /\ \/ /\ vmOwner[v] = None
        /\ vmOwner' = [vmOwner EXCEPT ![v] = i]
        /\ Stash(i, [work[i] EXCEPT !.clone = "started"])
        /\ Inside /\ UNCHANGED <<ips, vmUp, maps, faults>>
     \/ /\ vmOwner[v] = None /\ Fault
        /\ Stash(i, [work[i] EXCEPT !.clone = "doomed"])
        /\ Inside /\ UNCHANGED outside
     \/ vmOwner[v] # None /\ HandlerFails(i) /\ NoFault

(* WaitForTask on the UPID in the checkpoint, then GetVM: a failed task is *)
(* polled again by every retry                                             *)
AwaitClone(i) ==
  /\ At(i, "CLONING") /\ work[i].clone # "none"
  /\ IF work[i].clone = "started" /\ vmOwner[work[i].vmid] # None
       THEN Done(i, "CONFIGURING") /\ Inside /\ UNCHANGED <<outside, work, faults>>
       ELSE HandlerFails(i) /\ NoFault

(* so may the task of the configuration *)
Configure(i) ==
  /\ At(i, "CONFIGURING") /\ work[i].config = "none"
  /\ \/ /\ vmOwner[work[i].vmid] # None
        /\ \/ Stash(i, [work[i] EXCEPT !.config = "started"]) /\ NoFault
           \/ Stash(i, [work[i] EXCEPT !.config = "doomed"]) /\ Fault
        /\ Inside /\ UNCHANGED outside
     \/ vmOwner[work[i].vmid] = None /\ HandlerFails(i) /\ NoFault

(* WaitForTask as for the clone, then GetConfig for the MAC *)
AwaitConfigure(i) ==
  /\ At(i, "CONFIGURING") /\ work[i].config # "none"
  /\ IF work[i].config = "started" /\ vmOwner[work[i].vmid] # None
       THEN Done(i, "NETWORK_BINDING") /\ Inside /\ UNCHANGED <<outside, work, faults>>
       ELSE HandlerFails(i) /\ NoFault

CreateClient(i) ==
  /\ At(i, "NETWORK_BINDING") /\ ~work[i].client
  /\ Stash(i, [work[i] EXCEPT !.client = TRUE])
  /\ Inside /\ UNCHANGED <<outside, faults>>

CreateMapping(i) ==
  /\ At(i, "NETWORK_BINDING") /\ work[i].client /\ work[i].mapping = None
  /\ \E m \in Mappings :
       /\ First({n \in Mappings : mapState[n] = "ABSENT"}, m)
       /\ mapState' = [mapState EXCEPT ![m] = "INACTIVE"]
       /\ mapOwner' = [mapOwner EXCEPT ![m] = i]
       /\ Stash(i, [work[i] EXCEPT !.mapping = m])
  /\ Inside /\ UNCHANGED <<ips, vms, faults>>

ActivateMapping(i) ==
  LET m == work[i].mapping IN
  /\ At(i, "NETWORK_BINDING") /\ m # None
  /\ IF mapState[m] # "DELETED"
       THEN /\ mapState' = [mapState EXCEPT ![m] = "ACTIVE"]
            /\ Done(i, "BOOTING")
            /\ Inside /\ UNCHANGED <<ips, vms, mapOwner, work, faults>>
       ELSE HandlerFails(i) /\ NoFault

(* faulty variant of BootedCheckpoint: the checkpoint is read into the     *)
(* struct of the previous handler, which has no gateway fields             *)
ConfiguredCheckpoint(c) == [c EXCEPT !.client = FALSE, !.mapping = None]

(* the checkpoint a handler writes back: all fields, embedded structs included *)
BootedCheckpoint(c) == c

Boot(i) ==
  LET v == work[i].vmid IN
  /\ At(i, "BOOTING")
  /\ IF vmOwner[v] # None
       THEN /\ vmUp' = vmUp \cup {v}
            /\ work' = [work EXCEPT ![i] = BootedCheckpoint(@)]
            /\ Done(i, "WAITING_GUEST")
            /\ Inside /\ UNCHANGED <<ips, vmOwner, maps, faults>>
       ELSE HandlerFails(i) /\ NoFault

(* faulty variant of AfterPass: identity leads straight to the workload *)
AfterPassSkippingEgress(s) ==
  IF s = "WAITING_GUEST" THEN "APPLYING_WORKLOAD" ELSE "READY"

AfterPass(s) ==
  CASE s = "WAITING_GUEST"     -> "VALIDATING_EGRESS"
    [] s = "VALIDATING_EGRESS" -> "APPLYING_WORKLOAD"
    [] s = "APPLYING_WORKLOAD" -> "READY"

(* Whether the evidence can be good: the guest answers and says it is this *)
(* instance; the gateway proves an active mapping; a workload may be one   *)
(* that does not look.                                                     *)
MayPass(i) ==
  LET v == work[i].vmid  m == work[i].mapping IN
  CASE inst[i] = "WAITING_GUEST"     -> vmOwner[v] = i /\ v \in vmUp
    [] inst[i] = "VALIDATING_EGRESS" -> mapState[m] = "ACTIVE"
    [] inst[i] = "APPLYING_WORKLOAD" -> TRUE

ValidatePass(i) ==
  /\ pc[i] = "step" /\ inst[i] \in Validating
  /\ MayPass(i)
  /\ Done(i, AfterPass(inst[i]))
  /\ Inside /\ UNCHANGED <<outside, work, faults>>

(* Facts nobody can collect are an error, a bad verdict is a transition:   *)
(* the mapping is suspended, errors ignored, before anything is persisted. *)
ValidateFail(i) ==
  LET m == work[i].mapping IN
  /\ pc[i] = "step" /\ inst[i] \in Validating
  /\ IF inst[i] = "WAITING_GUEST" /\ work[i].vmid \notin vmUp
       THEN HandlerFails(i) /\ NoFault
       ELSE /\ \/ m # None /\ mapState[m] = "ACTIVE"
                  /\ mapState' = [mapState EXCEPT ![m] = "SUSPENDED"] /\ NoFault
               \/ (m # None => mapState[m] # "ACTIVE") /\ UNCHANGED mapState /\ NoFault
               \/ UNCHANGED mapState /\ Fault
            /\ Goto(i, "isolate") /\ next' = [next EXCEPT ![i] = "QUARANTINED"]
            /\ Inside /\ UNCHANGED <<ips, vms, mapOwner, work>>

(* MarkQuarantined, by id alone: allocations in use become QUARANTINED *)
MarkQuarantined(a) ==
  ipState' = [b \in Addrs |-> IF b = a /\ ipState[b] = "RESERVED" THEN "QUARANTINED" ELSE ipState[b]]

Isolate(i) ==
  /\ pc[i] = "isolate"
  /\ \/ MarkQuarantined(work[i].ip) /\ NoFault
     \/ UNCHANGED ipState /\ Fault
  /\ Goto(i, "commit")
  /\ Inside /\ UNCHANGED <<ipOwner, ipOld, vms, maps, work, next>>
-----------------------------------------------------------------------------
(* Rollback.Execute, from the checkpoint in memory *)

Failures(i, f) == failed' = [failed EXCEPT ![i] = @ \/ f]

RollbackFrame == UNCHANGED <<jobVars, mem, work, next, requeues>>

(* Stop, Delete and the delete task; deleting a VM that is not there       *)
(* fails.  A fault may leave it running, stopped or gone.                  *)
RollbackVM(i) ==
  LET v == mem[i].vmid IN
  /\ pc[i] = "rbvm"
  /\ \/ v = None /\ Failures(i, FALSE) /\ UNCHANGED vms /\ NoFault
     \/ v # None /\ vmOwner[v] = None /\ Failures(i, TRUE) /\ UNCHANGED vms /\ NoFault
     \/ /\ v # None /\ vmOwner[v] # None
        /\ vmOwner' = [vmOwner EXCEPT ![v] = None] /\ vmUp' = vmUp \ {v}
        /\ Failures(i, FALSE) /\ NoFault
     \/ /\ v # None /\ Failures(i, TRUE) /\ Fault
        /\ \/ vmUp' \in {vmUp, vmUp \ {v}} /\ UNCHANGED vmOwner
           \/ vmOwner' = [vmOwner EXCEPT ![v] = None] /\ vmUp' = vmUp \ {v}
  /\ Goto(i, "rbmapping")
  /\ RollbackFrame /\ UNCHANGED <<db, inst, record, ips, maps>>

(* SuspendMapping and DeleteMapping, each may fail or lose its reply *)
RollbackMapping(i) ==
  LET m == mem[i].mapping IN
  /\ pc[i] = "rbmapping"
  /\ \/ m = None /\ Failures(i, FALSE) /\ UNCHANGED mapState /\ NoFault
     \/ /\ m # None
        /\ mapState' = [mapState EXCEPT ![m] = "DELETED"]
        /\ Failures(i, mapState[m] = "DELETED") /\ NoFault
     \/ /\ m # None /\ Failures(i, TRUE) /\ Fault
        /\ \E s \in {mapState[m], "SUSPENDED", "DELETED"} :
             /\ mapState[m] = "DELETED" => s = "DELETED"
             /\ mapState' = [mapState EXCEPT ![m] = s]
  /\ Goto(i, "rbip")
  /\ RollbackFrame /\ UNCHANGED <<db, inst, record, ips, vms, mapOwner>>

(* faulty variant of MayRelease: len(failures) == 0 is not asked *)
MayReleaseAlways(i) == mem[i].ip # None

MayRelease(i) == mem[i].ip # None /\ ~failed[i]

(* faulty variant of Free: instance_id is left on the freed allocation *)
FreeKeepingOwner(S) ==
  /\ ipState' = [a \in Addrs |-> IF a \in S THEN "FREE" ELSE ipState[a]]
  /\ ipOld' = ipOld \ S
  /\ UNCHANGED ipOwner

(* allocations that become FREE, by Release or by the reaper *)
Free(S) ==
  /\ ipState' = [a \in Addrs |-> IF a \in S THEN "FREE" ELSE ipState[a]]
  /\ ipOwner' = [a \in Addrs |-> IF a \in S THEN None ELSE ipOwner[a]]
  /\ ipOld' = ipOld \ S

(* Release, by id alone, unless something failed before *)
RollbackAddress(i) ==
  LET a == mem[i].ip IN
  /\ pc[i] = "rbip"
  /\ \/ /\ MayRelease(i) /\ ipState[a] # "FREE"
        /\ Free({a}) /\ Failures(i, FALSE) /\ Goto(i, "rbend") /\ NoFault
     \/ /\ MayRelease(i) /\ ipState[a] = "FREE"
        /\ UNCHANGED ips /\ Failures(i, TRUE) /\ Goto(i, "rbmark") /\ NoFault
     \/ /\ MayRelease(i) /\ Fault
        /\ UNCHANGED ips \/ (ipState[a] # "FREE" /\ Free({a}))
        /\ Failures(i, TRUE) /\ Goto(i, "rbmark")
     \/ /\ ~MayRelease(i)
        /\ UNCHANGED ips /\ Failures(i, FALSE) /\ NoFault
        /\ Goto(i, IF a = None THEN "rbend" ELSE "rbmark")
  /\ RollbackFrame /\ UNCHANGED <<db, inst, record, vms, maps>>

(* an address that was not released is quarantined, errors ignored *)
RollbackQuarantine(i) ==
  /\ pc[i] = "rbmark"
  /\ \/ MarkQuarantined(mem[i].ip) /\ NoFault
     \/ UNCHANGED ipState /\ Fault
  /\ Goto(i, "rbend")
  /\ RollbackFrame /\ UNCHANGED <<db, inst, record, ipOwner, ipOld, vms, maps, failed>>

(* faulty variant of KeptCheckpoint: the row forgets what was rolled back *)
ErasedCheckpoint(i) == Blank

(* the checkpoint the last transaction writes: the one in memory *)
KeptCheckpoint(i) == mem[i]

RollbackEnd(i) ==
  /\ pc[i] = "rbend"
  /\ inst' = [inst EXCEPT ![i] = IF failed[i] THEN "QUARANTINED" ELSE "FAILED"]
  /\ db' = [db EXCEPT ![i] = KeptCheckpoint(i)]
  /\ Leave(i)
  /\ UNCHANGED <<jobVars, record, outside, faults, requeues>>
-----------------------------------------------------------------------------
(* The reaper *)

(* reserved_until passes *)
ReservationExpires(a) ==
  /\ ipState[a] # "FREE" /\ a \notin ipOld
  /\ ipOld' = ipOld \cup {a}
  /\ UNCHANGED <<jobVars, db, inst, record, ipState, ipOwner, vms, maps,
                 pc, mem, work, next, failed, faults, requeues>>

(* faulty variant of Reapable: nobody asks for the owner's jobs *)
ReapableByAge(a) == ipState[a] = "RESERVED" /\ a \in ipOld

(* RESERVED, expired, and no job of the owner is waiting or running *)
Reapable(a) ==
  ipState[a] = "RESERVED" /\ a \in ipOld /\ job[ipOwner[a]] \notin {"QUEUED", "RUNNING"}

ReleaseExpiredReservations ==
  LET S == {a \in Addrs : Reapable(a)} IN
  /\ S # {}
  /\ Free(S)
  /\ UNCHANGED <<jobVars, db, inst, record, vms, maps,
                 pc, mem, work, next, failed, faults, requeues>>
-----------------------------------------------------------------------------
Handler(i) ==
  \/ Requested(i) \/ ReserveAddress(i) \/ AllocateVmid(i) \/ Clone(i) \/ AwaitClone(i)
  \/ Configure(i) \/ AwaitConfigure(i) \/ CreateClient(i) \/ CreateMapping(i)
  \/ ActivateMapping(i) \/ Boot(i) \/ ValidatePass(i) \/ ValidateFail(i) \/ Isolate(i)
  \/ SaveCheckpoint(i) \/ Commit(i) \/ CommitRefused(i)

RollbackStep(i) ==
  \/ RollbackVM(i) \/ RollbackMapping(i) \/ RollbackAddress(i) \/ RollbackQuarantine(i)
  \/ RollbackEnd(i)

Next ==
  \/ \E i \in Instances :
       \/ Claim(i) \/ Finish(i) \/ InvalidTransition(i) \/ Handler(i)
       \/ CallFails(i) \/ CommitUnanswered(i)
       \/ RollbackStep(i) \/ Crash(i) \/ Requeue(i)
  \/ \E a \in Addrs : ReservationExpires(a)
  \/ ReleaseExpiredReservations

Spec == Init /\ [][Next]_vars

(* Worker slots poll and keep going; nobody has to retry a job. *)
Fairness ==
  \A i \in Instances :
    WF_vars(Claim(i) \/ Finish(i) \/ Handler(i) \/ RollbackStep(i))

FairSpec == Spec /\ Fairness
-----------------------------------------------------------------------------
(* Properties *)

TypeOK ==
  /\ job \in [Instances -> {"QUEUED", "RUNNING", "SUCCEEDED", "FAILED"}]
  /\ attempt \in [Instances -> Nat]
  /\ db \in [Instances -> Checkpoints]
  /\ inst \in [Instances -> InstStates]
  /\ placed \in [Instances -> Vmids \cup {None}]
  /\ passed \in [Instances -> SUBSET Validating]
  /\ ipState \in [Addrs -> {"FREE", "RESERVED", "QUARANTINED"}]
  /\ ipOwner \in [Addrs -> Instances \cup {None}]
  /\ ipOld \subseteq Addrs
  /\ \A a \in Addrs : ipState[a] = "FREE" <=> ipOwner[a] = None
  /\ vmOwner \in [Vmids -> Instances \cup {None}]
  /\ vmUp \subseteq {v \in Vmids : vmOwner[v] # None}
  /\ mapOwner \in [Mappings -> Instances \cup {None}]
  /\ mapState \in [Mappings -> {"ABSENT", "INACTIVE", "ACTIVE", "SUSPENDED", "DELETED"}]
  /\ pc \in [Instances -> {"idle"} \cup StepPcs \cup RollbackPcs]
  /\ mem \in [Instances -> Checkpoints] /\ work \in [Instances -> Checkpoints]
  /\ next \in [Instances -> InstStates \cup {None}]
  /\ failed \in [Instances -> BOOLEAN]
  /\ faults \in 0 .. MaxFaults /\ requeues \in 0 .. MaxRequeues

(* An instance is READY only after identity, egress and workload passed,   *)
(* whatever was retried or interrupted on the way (invariant 4 of the      *)
(* system design).                                                         *)
ReadyHasPassEvidence == \A i \in Instances : inst[i] = "READY" => passed[i] = Validating

(* Every VM there is can be found from its instance's checkpoint, so at    *)
(* most one exists per instance: the VMID is persisted before the clone,   *)
(* and no retry, crash, rollback or stale write loses it.                  *)
NoOrphanVM == \A i \in Instances, v \in Vmids : vmOwner[v] = i => db[i].vmid = v

(* A rollback is about to free its instance's address only when the VM is  *)
(* gone (the comment in Execute).                                          *)
AddressFreedAfterVM ==
  \A i \in Instances :
    pc[i] = "rbip" /\ MayRelease(i) => \A v \in Vmids : vmOwner[v] # i

(* Addresses and mappings that only the outside world still knows *)
LeakedAddrs ==
  {a \in Addrs : ipState[a] = "RESERVED" /\ a \notin {db[ipOwner[a]].ip, work[ipOwner[a]].ip}}
LeakedMappings ==
  {m \in Mappings : mapState[m] \notin {"ABSENT", "DELETED"}
                    /\ m \notin {db[mapOwner[m]].mapping, work[mapOwner[m]].mapping}}

(* Nothing leaks while nothing fails: conflicts, exhausted pools, bad      *)
(* verdicts and rollbacks lose no resource, and each fault loses one.      *)
LeaksNeedFaults == Cardinality(LeakedAddrs) + Cardinality(LeakedMappings) <= faults

(* the address in the row stops being the instance's in this step *)
LosesAddress(i) == db[i].ip # None /\ ipOwner[db[i].ip] = i /\ ipOwner'[db[i].ip] # i

(* An instance loses its address in its own rollback, to the reaper once   *)
(* its job is settled and the reservation too old (reaper.go:42), or to    *)
(* the late rollback of an instance that had it before (rollback.go:92:    *)
(* Release goes by the id of the allocation alone), and in no other way.   *)
AddressLossIsAccounted ==
  [][\A i \in Instances :
       LosesAddress(i) =>
         \/ pc[i] \in RollbackPcs
         \/ db[i].ip \in ipOld /\ job[i] \in {"SUCCEEDED", "FAILED"}
         \/ \E k \in Instances \ {i} : pc[k] = "rbip" /\ mem[k].ip = db[i].ip]_vars

(* A rollback deletes the VM of its own instance ("stop/delete VM if owned *)
(* by instance", VM lifecycle, section 6).                                 *)
RollbackDeletesOnlyOwnVM ==
  \A i \in Instances :
    pc[i] = "rbvm" /\ mem[i].vmid # None => vmOwner[mem[i].vmid] \in {None, i}

(* A rollback knows every mapping the row knows ("Fail does not touch      *)
(* checkpoint_data, so there is no need to read it again").                *)
RollbackKnowsMapping ==
  \A i \in Instances : pc[i] \in RollbackPcs => mem[i].mapping = db[i].mapping

(* The address of a READY instance is its own until somebody releases it   *)
(* ("an active IPv4 belongs to one instance only").                        *)
ReadyKeepsAddress ==
  \A i \in Instances : inst[i] = "READY" /\ job[i] = "SUCCEEDED" => ipOwner[db[i].ip] = i

(* A clone that Proxmox carried out can be recorded: no other instance's   *)
(* row still holds its VMID (step 4 of the rollback, VM lifecycle, section *)
(* 6: "release IP/hostname/VMID reservation").                             *)
CloneCanBeRecorded == \A i \in Instances : pc[i] = "commit" => ~VmidTaken(i)

(* A failed job is rolled back in the end ("a rollback is a state machine  *)
(* too, with a checkpoint of its own").                                    *)
RollbackFinishes ==
  \A i \in Instances : job[i] = "FAILED" ~> inst[i] \in {"FAILED", "QUARANTINED"}
=============================================================================
