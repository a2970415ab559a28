------------------------- MODULE ProvisioningProofs -------------------------
(***************************************************************************)
(* Proofs about Provisioning for every number of instances, addresses,     *)
(* VMIDs, mappings, attempts, faults and manual retries.                   *)
(***************************************************************************)
EXTENDS Provisioning, FiniteSetTheorems, TLAPS

(* The states before there is a VMID *)
Early == {"REQUESTED", "RESERVING"}

(* The states in which a handler works on a VM *)
Building == {"CLONING", "CONFIGURING", "NETWORK_BINDING", "BOOTING"} \cup Validating

(* What a handler may return for a state *)
Successor(s, t) ==
  \/ <<s, t>> \in {<<"REQUESTED", "RESERVING">>, <<"RESERVING", "CLONING">>,
                   <<"CLONING", "CONFIGURING">>, <<"CONFIGURING", "NETWORK_BINDING">>,
                   <<"NETWORK_BINDING", "BOOTING">>, <<"BOOTING", "WAITING_GUEST">>}
  \/ s \in Validating /\ t \in {AfterPass(s), "QUARANTINED"}

(* Where the worker is fits the state of the instance. *)
FlowInv(i) ==
  /\ pc[i] = "nextid"  => inst[i] = "RESERVING"
  /\ pc[i] = "save"    => inst[i] \in {"CLONING", "CONFIGURING", "NETWORK_BINDING"}
  /\ pc[i] = "isolate" => inst[i] \in Validating /\ next[i] = "QUARANTINED"
  /\ pc[i] = "commit"  => Successor(inst[i], next[i])

(* The evidence grows in the order of the validations. *)
EvidenceInv(i) ==
  /\ inst[i] = "VALIDATING_EGRESS" => "WAITING_GUEST" \in passed[i]
  /\ inst[i] = "APPLYING_WORKLOAD" => {"WAITING_GUEST", "VALIDATING_EGRESS"} \subseteq passed[i]
  /\ inst[i] = "READY" => passed[i] = Validating

(* Once there is a VMID, the row and the copies of a worker at a transition *)
(* agree on it.                                                             *)
VmidInv(i) ==
  /\ inst[i] \in Building => db[i].vmid # None
  /\ pc[i] = "commit" /\ inst[i] = "RESERVING" => work[i].vmid # None
  /\ pc[i] \in StepPcs /\ inst[i] \notin Early =>
       work[i].vmid = db[i].vmid /\ mem[i].vmid = db[i].vmid

(* A VM is known to the row of its instance and to a rollback of its job;   *)
(* a rollback that is past the VM without a failure has removed it.         *)
NoVM(i) == \A v \in Vmids : vmOwner[v] # i

VMInv(i) ==
  /\ \A v \in Vmids :
       vmOwner[v] = i =>
         /\ inst[i] \notin Early /\ db[i].vmid = v
         /\ pc[i] \in RollbackPcs => mem[i].vmid = v
  /\ pc[i] \in RollbackPcs \ {"rbvm"} /\ ~failed[i] => NoVM(i)
  /\ pc[i] = "rbmark" => failed[i]
  /\ inst[i] = "FAILED" => NoVM(i)

InstanceInv(i) == FlowInv(i) /\ EvidenceInv(i) /\ VmidInv(i) /\ VMInv(i)

(* The inductive invariant. *)
ProvisioningInv == TypeOK /\ \A i \in Instances : InstanceInv(i)

USE PoolsAssumption, NoneAssumption, BoundsAssumption
    DEF jobVars, record, ips, vms, maps, outside

(* Steps of the worker of i, and what they leave alone of other instances. *)
OthersKept(i) ==
  \A j \in Instances \ {i} :
    /\ inst'[j] = inst[j] /\ db'[j] = db[j] /\ passed'[j] = passed[j] /\ pc'[j] = pc[j]
    /\ mem'[j] = mem[j] /\ work'[j] = work[j] /\ next'[j] = next[j] /\ failed'[j] = failed[j]
    /\ \A v \in Vmids : vmOwner'[v] = j => vmOwner[v] = j
-----------------------------------------------------------------------------
(* The invariant of an instance speaks of its own row, its own worker and   *)
(* the VMs it owns.                                                         *)
LEMMA OneInstance ==
  ASSUME ProvisioningInv, NEW i \in Instances, TypeOK', InstanceInv(i)', OthersKept(i)
  PROVE  ProvisioningInv'
<1> SUFFICES ASSUME NEW j \in Instances, j # i
             PROVE  InstanceInv(j)'
  BY DEF ProvisioningInv
<1>1. InstanceInv(j)
  BY DEF ProvisioningInv
<1>2. FlowInv(j)' /\ EvidenceInv(j)' /\ VmidInv(j)'
  BY <1>1 DEF InstanceInv, FlowInv, EvidenceInv, VmidInv, OthersKept
<1>3. VMInv(j)'
  BY <1>1 DEF InstanceInv, VMInv, NoVM, OthersKept
<1> QED
  BY <1>2, <1>3 DEF InstanceInv

(* One more fault is still within the bound. *)
LEMMA FaultsBounded ==
  ASSUME TypeOK, Fault \/ NoFault
  PROVE  faults' \in 0 .. MaxFaults
BY DEF TypeOK, Fault, NoFault

(* A checkpoint with another field is a checkpoint, and its other fields    *)
(* stay.                                                                    *)
LEMMA FieldTypes ==
  ASSUME NEW c \in Checkpoints
  PROVE  /\ \A a \in Addrs : [c EXCEPT !.ip = a] \in Checkpoints /\ [c EXCEPT !.ip = a].vmid = c.vmid
         /\ \A v \in Vmids : [c EXCEPT !.vmid = v] \in Checkpoints /\ [c EXCEPT !.vmid = v].vmid = v
         /\ \A k \in {"started", "doomed"} :
              [c EXCEPT !.clone = k] \in Checkpoints /\ [c EXCEPT !.clone = k].vmid = c.vmid
         /\ \A k \in {"started", "doomed"} :
              [c EXCEPT !.config = k] \in Checkpoints /\ [c EXCEPT !.config = k].vmid = c.vmid
         /\ [c EXCEPT !.client = TRUE] \in Checkpoints /\ [c EXCEPT !.client = TRUE].vmid = c.vmid
         /\ \A m \in Mappings :
              [c EXCEPT !.mapping = m] \in Checkpoints /\ [c EXCEPT !.mapping = m].vmid = c.vmid
BY DEF Checkpoints

(* The empty checkpoint is a checkpoint. *)
LEMMA BlankType == Blank \in Checkpoints
BY DEF Blank, Checkpoints

(* Claim: the row and its checkpoint are read together. *)
LEMMA ClaimStep ==
  ASSUME ProvisioningInv, NEW i \in Instances, Claim(i)
  PROVE  ProvisioningInv'
<1> USE DEF ProvisioningInv, Claim, Goto
<1>1. TypeOK'
  BY DEF TypeOK, StepPcs
<1>2. InstanceInv(i)'
  BY DEF TypeOK, InstanceInv, FlowInv, EvidenceInv, VmidInv, VMInv, NoVM, StepPcs, RollbackPcs, Early
<1>3. OthersKept(i)
  BY DEF TypeOK, OthersKept
<1> QED
  BY <1>1, <1>2, <1>3, OneInstance

(* processJob returns and forgets its copies. *)
LEMMA LeaveStep ==
  ASSUME ProvisioningInv, NEW i \in Instances, Leave(i), Fault \/ NoFault,
         job' \in [Instances -> {"QUEUED", "RUNNING", "SUCCEEDED", "FAILED"}],
         UNCHANGED <<attempt, db, inst, record, outside, requeues>>
  PROVE  ProvisioningInv'
<1> USE DEF ProvisioningInv, Leave, Goto
<1>1. TypeOK'
  BY BlankType, FaultsBounded DEF TypeOK
<1>2. InstanceInv(i)'
  BY DEF TypeOK, InstanceInv, FlowInv, EvidenceInv, VmidInv, VMInv, NoVM, StepPcs, RollbackPcs
<1>3. OthersKept(i)
  BY DEF TypeOK, OthersKept
<1> QED
  BY <1>1, <1>2, <1>3, OneInstance

(* A failed job is rolled back from the copy of the checkpoint, which knows *)
(* the VM if there is one.                                                  *)
LEMMA TerminalFailStep ==
  ASSUME ProvisioningInv, NEW i \in Instances, pc[i] \in StepPcs, TerminalFail(i), Fault \/ NoFault,
         UNCHANGED <<attempt, db, inst, record, outside, requeues>>
  PROVE  ProvisioningInv'
<1> USE DEF ProvisioningInv, TerminalFail, Goto
<1>1. TypeOK'
  BY BlankType, FaultsBounded DEF TypeOK, RollbackPcs
<1>2. InstanceInv(i)'
  BY DEF TypeOK, InstanceInv, FlowInv, EvidenceInv, VmidInv, VMInv, NoVM, StepPcs, RollbackPcs
<1>3. OthersKept(i)
  BY DEF TypeOK, OthersKept
<1> QED
  BY <1>1, <1>2, <1>3, OneInstance

(* Whatever fails in a handler, the job is queued again or rolled back. *)
LEMMA HandlerFailsStep ==
  ASSUME ProvisioningInv, NEW i \in Instances, pc[i] \in StepPcs, HandlerFails(i), Fault \/ NoFault
  PROVE  ProvisioningInv'
<1>1. CASE job' = [job EXCEPT ![i] = "QUEUED"] /\ Leave(i)
  <2>1. job' \in [Instances -> {"QUEUED", "RUNNING", "SUCCEEDED", "FAILED"}]
    BY <1>1 DEF ProvisioningInv, TypeOK
  <2> QED
    BY <1>1, <2>1, LeaveStep DEF HandlerFails
<1>2. CASE TerminalFail(i)
  BY <1>2, TerminalFailStep DEF HandlerFails
<1> QED
  BY <1>1, <1>2 DEF HandlerFails, FailOrRetry

(* A settled instance settles its job, and the worker leaves. *)
LEMMA FinishStep ==
  ASSUME ProvisioningInv, NEW i \in Instances, Finish(i)
  PROVE  ProvisioningInv'
<1>1. job' \in [Instances -> {"QUEUED", "RUNNING", "SUCCEEDED", "FAILED"}]
  BY DEF Finish, ProvisioningInv, TypeOK
<1> QED
  BY <1>1, LeaveStep DEF Finish, NoFault

(* A worker that dies forgets its copies. *)
LEMMA CrashStep ==
  ASSUME ProvisioningInv, NEW i \in Instances, Crash(i)
  PROVE  ProvisioningInv'
<1>1. job' \in [Instances -> {"QUEUED", "RUNNING", "SUCCEEDED", "FAILED"}]
  BY DEF Crash, ProvisioningInv, TypeOK
<1> QED
  BY <1>1, LeaveStep DEF Crash

(* A failed call fails the handler. *)
LEMMA CallFailsStep ==
  ASSUME ProvisioningInv, NEW i \in Instances, CallFails(i)
  PROVE  ProvisioningInv'
BY HandlerFailsStep DEF CallFails

(* A refused transition fails the job at once. *)
LEMMA InvalidTransitionStep ==
  ASSUME ProvisioningInv, NEW i \in Instances, InvalidTransition(i)
  PROVE  ProvisioningInv'
BY TerminalFailStep DEF InvalidTransition, StepPcs, NoFault

(* A commit refused for its VMID fails the handler. *)
LEMMA CommitRefusedStep ==
  ASSUME ProvisioningInv, NEW i \in Instances, CommitRefused(i)
  PROVE  ProvisioningInv'
BY HandlerFailsStep DEF CommitRefused, StepPcs

(* A manual retry touches the job row alone. *)
LEMMA RequeueStep ==
  ASSUME ProvisioningInv, NEW i \in Instances, Requeue(i)
  PROVE  ProvisioningInv'
<1> USE DEF ProvisioningInv, Requeue, Goto, Inside, Done, Stash, At, NoFault, Fault
<1>1. TypeOK'
  BY DEF TypeOK, StepPcs, RollbackPcs, InstStates, Validating, Terminal, Checkpoints, First
<1>2. InstanceInv(i)'
  BY DEF TypeOK, InstanceInv, FlowInv, EvidenceInv, VmidInv, VMInv, NoVM, StepPcs, RollbackPcs, Early, Building, Successor, Validating
<1>3. OthersKept(i)
  BY DEF TypeOK, OthersKept
<1> QED
  BY <1>1, <1>2, <1>3, OneInstance

(* SaveCheckpoint writes a copy that knows the same VMID. *)
LEMMA SaveCheckpointStep ==
  ASSUME ProvisioningInv, NEW i \in Instances, SaveCheckpoint(i)
  PROVE  ProvisioningInv'
<1> USE DEF ProvisioningInv, SaveCheckpoint, Goto, Inside, Done, Stash, At, NoFault, Fault
<1>1. TypeOK'
  BY DEF TypeOK, StepPcs, RollbackPcs, InstStates, Validating, Terminal, Checkpoints, First
<1>2. InstanceInv(i)'
  BY DEF TypeOK, InstanceInv, FlowInv, EvidenceInv, VmidInv, VMInv, NoVM, StepPcs, RollbackPcs, Early, Building, Successor, Validating
<1>3. OthersKept(i)
  BY DEF TypeOK, OthersKept
<1> QED
  BY <1>1, <1>2, <1>3, OneInstance

(* REQUESTED only checks the template. *)
LEMMA RequestedStep ==
  ASSUME ProvisioningInv, NEW i \in Instances, Requested(i)
  PROVE  ProvisioningInv'
<1> USE DEF ProvisioningInv, Requested, Goto, Inside, Done, Stash, At, NoFault, Fault
<1>1. TypeOK'
  BY DEF TypeOK, StepPcs, RollbackPcs, InstStates, Validating, Terminal, Checkpoints, First
<1>2. InstanceInv(i)'
  BY DEF TypeOK, InstanceInv, FlowInv, EvidenceInv, VmidInv, VMInv, NoVM, StepPcs, RollbackPcs, Early, Building, Successor, Validating
<1>3. OthersKept(i)
  BY DEF TypeOK, OthersKept
<1> QED
  BY <1>1, <1>2, <1>3, OneInstance

(* The state of addresses, VMs and mappings is well formed. *)
OutsideTypes ==
  /\ ipState \in [Addrs -> {"FREE", "RESERVED", "QUARANTINED"}]
  /\ ipOwner \in [Addrs -> Instances \cup {None}]
  /\ ipOld \subseteq Addrs
  /\ \A a \in Addrs : ipState[a] = "FREE" <=> ipOwner[a] = None
  /\ vmOwner \in [Vmids -> Instances \cup {None}]
  /\ vmUp \subseteq {v \in Vmids : vmOwner[v] # None}
  /\ mapOwner \in [Mappings -> Instances \cup {None}]
  /\ mapState \in [Mappings -> {"ABSENT", "INACTIVE", "ACTIVE", "SUSPENDED", "DELETED"}]

(* A handler's step that touches at most its working copy, its next state   *)
(* and the outside world: types follow from those of what it touches.       *)
LEMMA HandlerTypes ==
  ASSUME TypeOK, NEW i \in Instances, Inside, Fault \/ NoFault, OutsideTypes',
         NEW w \in Checkpoints, work' = [work EXCEPT ![i] = w],
         NEW l \in StepPcs, Goto(i, l),
         NEW n \in InstStates \cup {None}, next' = [next EXCEPT ![i] = n]
  PROVE  TypeOK'
BY FaultsBounded DEF TypeOK, OutsideTypes, Inside, Goto

(* A handler stashes what it did in a working copy that names the same VM.  *)
LEMMA StashStep ==
  ASSUME ProvisioningInv, NEW i \in Instances, NEW w \in Checkpoints, Stash(i, w), Inside,
         pc[i] = "step", inst[i] \in {"CLONING", "CONFIGURING", "NETWORK_BINDING"},
         w.vmid = work[i].vmid, OutsideTypes', Fault \/ NoFault,
         \A v \in Vmids : vmOwner'[v] = vmOwner[v] \/ (vmOwner'[v] = i /\ v = w.vmid)
  PROVE  ProvisioningInv'
<1> USE DEF ProvisioningInv, Inside, Stash, Goto
<1>1. next[i] \in InstStates \cup {None} /\ next' = [next EXCEPT ![i] = next[i]] /\ "save" \in StepPcs
  BY DEF TypeOK, StepPcs
<1>2. TypeOK'
  BY <1>1, HandlerTypes
<1>3. InstanceInv(i)'
  BY DEF TypeOK, InstanceInv, FlowInv, EvidenceInv, VmidInv, VMInv, NoVM, StepPcs, RollbackPcs,
     Early, Building, Successor, Validating
<1>4. OthersKept(i)
  BY DEF TypeOK, OthersKept
<1> QED
  BY <1>2, <1>3, <1>4, OneInstance

(* A handler is done: its successor is the one the engine persists.         *)
LEMMA DoneStep ==
  ASSUME ProvisioningInv, NEW i \in Instances, NEW s \in InstStates, Done(i, s), Inside,
         pc[i] \in StepPcs, Successor(inst[i], s), NEW w \in Checkpoints, work' = [work EXCEPT ![i] = w],
         IF inst[i] = "RESERVING" THEN w.vmid # None ELSE w.vmid = work[i].vmid,
         OutsideTypes', Fault \/ NoFault, UNCHANGED vmOwner
  PROVE  ProvisioningInv'
<1> USE DEF ProvisioningInv, Inside, Done, Goto
<1>1. "commit" \in StepPcs
  BY DEF StepPcs
<1>2. TypeOK'
  BY <1>1, HandlerTypes
<1>3. InstanceInv(i)'
  BY DEF TypeOK, InstanceInv, FlowInv, EvidenceInv, VmidInv, VMInv, NoVM, StepPcs, RollbackPcs,
     Early, Building, Successor, Validating
<1>4. OthersKept(i)
  BY DEF TypeOK, OthersKept
<1> QED
  BY <1>2, <1>3, <1>4, OneInstance
-----------------------------------------------------------------------------
(* The handlers, one by one *)

(* ReserveNextFree commits on its own; the address is in the working copy.  *)
LEMMA ReserveAddressStep ==
  ASSUME ProvisioningInv, NEW i \in Instances, ReserveAddress(i)
  PROVE  ProvisioningInv'
<1> DEFINE free == {a \in Addrs : ipState[a] = "FREE"}
<1>1. CASE free = {} /\ HandlerFails(i) /\ NoFault
  BY <1>1, HandlerFailsStep DEF ReserveAddress, At, StepPcs
<1>2. ASSUME NEW a \in free,
             ipState' = [ipState EXCEPT ![a] = "RESERVED"], ipOwner' = [ipOwner EXCEPT ![a] = i],
             work' = [work EXCEPT ![i].ip = a], Goto(i, "nextid"),
             Inside, UNCHANGED <<ipOld, vms, maps, next, faults>>
      PROVE  ProvisioningInv'
  <2> USE <1>2 DEF ProvisioningInv, ReserveAddress, At, Inside, Goto
  <2>1. OutsideTypes'
    BY DEF TypeOK, OutsideTypes
  <2>2. [work[i] EXCEPT !.ip = a] \in Checkpoints /\ [work[i] EXCEPT !.ip = a].vmid = work[i].vmid
    BY FieldTypes DEF TypeOK
  <2>3. next[i] \in InstStates \cup {None} /\ next' = [next EXCEPT ![i] = next[i]] /\ "nextid" \in StepPcs
    BY DEF TypeOK, StepPcs
  <2>4. TypeOK'
    BY <2>1, <2>2, <2>3, HandlerTypes DEF NoFault
  <2>5. InstanceInv(i)'
    BY DEF TypeOK, InstanceInv, FlowInv, EvidenceInv, VmidInv, VMInv, NoVM, StepPcs, RollbackPcs,
       Early, Building, Successor, Validating
  <2>6. OthersKept(i)
    BY DEF TypeOK, OthersKept
  <2> QED
    BY <2>4, <2>5, <2>6, OneInstance
<1> QED
  BY <1>1, <1>2 DEF ReserveAddress

(* The suggested VMID becomes part of the working copy. *)
LEMMA AllocateVmidStep ==
  ASSUME ProvisioningInv, NEW i \in Instances, AllocateVmid(i)
  PROVE  ProvisioningInv'
<1> USE DEF ProvisioningInv, AllocateVmid
<1>1. PICK v \in Vmids : work' = [work EXCEPT ![i].vmid = v]
  OBVIOUS
<1>2. [work[i] EXCEPT !.vmid = v] \in Checkpoints /\ [work[i] EXCEPT !.vmid = v].vmid # None
  <2>1. work[i] \in Checkpoints
    BY DEF TypeOK
  <2>2. [work[i] EXCEPT !.vmid = v] \in Checkpoints /\ [work[i] EXCEPT !.vmid = v].vmid = v
    BY <2>1, FieldTypes
  <2> QED
    BY <2>2
<1>3. OutsideTypes' /\ inst[i] = "RESERVING" /\ Successor(inst[i], "CLONING")
  BY DEF TypeOK, OutsideTypes, InstanceInv, FlowInv, Successor
<1> QED
  BY <1>1, <1>2, <1>3, DoneStep DEF StepPcs, InstStates, NoFault

(* The clone belongs to the instance whose row and copies name the VMID.    *)
LEMMA CloneStep ==
  ASSUME ProvisioningInv, NEW i \in Instances, Clone(i)
  PROVE  ProvisioningInv'
<1> USE DEF ProvisioningInv, Clone, At
<1> DEFINE v == work[i].vmid
<1>1. v \in Vmids
  BY DEF TypeOK, Checkpoints, InstanceInv, VmidInv, Building, Early, StepPcs
<1>2. CASE vmOwner[v] # None /\ HandlerFails(i) /\ NoFault
  BY <1>2, HandlerFailsStep DEF StepPcs
<1>3. ASSUME NEW k \in {"started", "doomed"}
      PROVE  [work[i] EXCEPT !.clone = k] \in Checkpoints /\ [work[i] EXCEPT !.clone = k].vmid = work[i].vmid
  BY FieldTypes DEF TypeOK
<1>4. CASE /\ vmOwner[v] = None
           /\ vmOwner' = [vmOwner EXCEPT ![v] = i]
           /\ Stash(i, [work[i] EXCEPT !.clone = "started"])
           /\ Inside /\ UNCHANGED <<ips, vmUp, maps, faults>>
  <2>1. OutsideTypes'
    BY <1>1, <1>4 DEF TypeOK, OutsideTypes
  <2>2. \A u \in Vmids : vmOwner'[u] = vmOwner[u] \/ (vmOwner'[u] = i /\ u = v)
    BY <1>1, <1>4 DEF TypeOK
  <2>3. [work[i] EXCEPT !.clone = "started"] \in Checkpoints
        /\ [work[i] EXCEPT !.clone = "started"].vmid = work[i].vmid
    BY <1>3
  <2> DEFINE w == [work[i] EXCEPT !.clone = "started"]
  <2>4. w \in Checkpoints /\ w.vmid = work[i].vmid /\ Stash(i, w)
    BY <1>4, <2>3
  <2> HIDE DEF w
  <2> QED
    BY <1>4, <2>1, <2>2, <2>4, StashStep DEF NoFault
<1>5. CASE /\ vmOwner[v] = None /\ Fault
           /\ Stash(i, [work[i] EXCEPT !.clone = "doomed"])
           /\ Inside /\ UNCHANGED outside
  <2>1. OutsideTypes'
    BY <1>5 DEF TypeOK, OutsideTypes
  <2> QED
    BY <1>3, <1>5, <2>1, StashStep
<1> QED
  BY <1>2, <1>4, <1>5

(* The clone is done, or its task has failed or its VM is gone. *)
LEMMA AwaitCloneStep ==
  ASSUME ProvisioningInv, NEW i \in Instances, AwaitClone(i)
  PROVE  ProvisioningInv'
<1> USE DEF ProvisioningInv, AwaitClone, At
<1>1. CASE HandlerFails(i) /\ NoFault
  BY <1>1, HandlerFailsStep DEF StepPcs
<1>2. CASE Done(i, "CONFIGURING") /\ Inside /\ UNCHANGED <<outside, work, faults>>
  <2>1. work[i] \in Checkpoints /\ work' = [work EXCEPT ![i] = work[i]] /\ OutsideTypes'
    BY <1>2 DEF TypeOK, OutsideTypes
  <2> QED
    BY <1>2, <2>1, DoneStep DEF StepPcs, InstStates, Successor, NoFault
<1> QED
  BY <1>1, <1>2

(* The configuration is started on a VM that exists. *)
LEMMA ConfigureStep ==
  ASSUME ProvisioningInv, NEW i \in Instances, Configure(i)
  PROVE  ProvisioningInv'
<1> USE DEF ProvisioningInv, Configure, At
<1>1. CASE HandlerFails(i) /\ NoFault
  BY <1>1, HandlerFailsStep DEF StepPcs
<1>2. ASSUME NEW k \in {"started", "doomed"}, Stash(i, [work[i] EXCEPT !.config = k]), Inside,
             UNCHANGED outside, Fault \/ NoFault
      PROVE  ProvisioningInv'
  <2>1. [work[i] EXCEPT !.config = k] \in Checkpoints /\ [work[i] EXCEPT !.config = k].vmid = work[i].vmid
    BY FieldTypes DEF TypeOK
  <2>2. OutsideTypes'
    BY <1>2 DEF TypeOK, OutsideTypes
  <2> QED
    BY <1>2, <2>1, <2>2, StashStep
<1> QED
  BY <1>1, <1>2

(* The configuration is done, or the VM is gone. *)
LEMMA AwaitConfigureStep ==
  ASSUME ProvisioningInv, NEW i \in Instances, AwaitConfigure(i)
  PROVE  ProvisioningInv'
<1> USE DEF ProvisioningInv, AwaitConfigure, At
<1>1. CASE HandlerFails(i) /\ NoFault
  BY <1>1, HandlerFailsStep DEF StepPcs
<1>2. CASE Done(i, "NETWORK_BINDING") /\ Inside /\ UNCHANGED <<outside, work, faults>>
  <2>1. work[i] \in Checkpoints /\ work' = [work EXCEPT ![i] = work[i]] /\ OutsideTypes'
    BY <1>2 DEF TypeOK, OutsideTypes
  <2> QED
    BY <1>2, <2>1, DoneStep DEF StepPcs, InstStates, Successor, NoFault
<1> QED
  BY <1>1, <1>2

(* The client is created at the gateway and stashed. *)
LEMMA CreateClientStep ==
  ASSUME ProvisioningInv, NEW i \in Instances, CreateClient(i)
  PROVE  ProvisioningInv'
<1> USE DEF ProvisioningInv, CreateClient, At
<1>1. [work[i] EXCEPT !.client = TRUE] \in Checkpoints /\ [work[i] EXCEPT !.client = TRUE].vmid = work[i].vmid
  BY FieldTypes DEF TypeOK
<1>2. OutsideTypes'
  BY DEF TypeOK, OutsideTypes
<1> QED
  BY <1>1, <1>2, StashStep DEF NoFault

(* The mapping is created at the gateway and stashed. *)
LEMMA CreateMappingStep ==
  ASSUME ProvisioningInv, NEW i \in Instances, CreateMapping(i)
  PROVE  ProvisioningInv'
<1> USE DEF ProvisioningInv, CreateMapping, At
<1>1. PICK m \in Mappings : /\ mapState' = [mapState EXCEPT ![m] = "INACTIVE"]
                            /\ mapOwner' = [mapOwner EXCEPT ![m] = i]
                            /\ Stash(i, [work[i] EXCEPT !.mapping = m])
  OBVIOUS
<1>2. [work[i] EXCEPT !.mapping = m] \in Checkpoints /\ [work[i] EXCEPT !.mapping = m].vmid = work[i].vmid
  BY FieldTypes DEF TypeOK
<1>3. OutsideTypes'
  BY <1>1 DEF TypeOK, OutsideTypes
<1> QED
  BY <1>1, <1>2, <1>3, StashStep DEF NoFault

(* The mapping is activated unless it was deleted. *)
LEMMA ActivateMappingStep ==
  ASSUME ProvisioningInv, NEW i \in Instances, ActivateMapping(i)
  PROVE  ProvisioningInv'
<1> USE DEF ProvisioningInv, ActivateMapping, At
<1> DEFINE m == work[i].mapping
<1>1. CASE HandlerFails(i) /\ NoFault
  BY <1>1, HandlerFailsStep DEF StepPcs
<1>2. CASE /\ mapState' = [mapState EXCEPT ![m] = "ACTIVE"]
           /\ Done(i, "BOOTING")
           /\ Inside /\ UNCHANGED <<ips, vms, mapOwner, work, faults>>
  <2>1. work[i] \in Checkpoints /\ work' = [work EXCEPT ![i] = work[i]] /\ OutsideTypes'
    BY <1>2 DEF TypeOK, OutsideTypes
  <2> QED
    BY <1>2, <2>1, DoneStep DEF StepPcs, InstStates, Successor, NoFault
<1> QED
  BY <1>1, <1>2

(* Starting the VM *)
LEMMA BootStep ==
  ASSUME ProvisioningInv, NEW i \in Instances, Boot(i)
  PROVE  ProvisioningInv'
<1> USE DEF ProvisioningInv, Boot, At
<1> DEFINE v == work[i].vmid
<1>1. CASE HandlerFails(i) /\ NoFault
  BY <1>1, HandlerFailsStep DEF StepPcs
<1>2. CASE /\ vmOwner[v] # None /\ vmUp' = vmUp \cup {v}
           /\ work' = [work EXCEPT ![i] = BootedCheckpoint(@)]
           /\ Done(i, "WAITING_GUEST")
           /\ Inside /\ UNCHANGED <<ips, vmOwner, maps, faults>>
  <2>1. work[i] \in Checkpoints /\ work' = [work EXCEPT ![i] = work[i]]
    BY <1>2 DEF TypeOK, BootedCheckpoint
  <2>2. v \in Vmids
    BY <2>1 DEF Checkpoints, InstanceInv, VmidInv, Building, Early, StepPcs
  <2>3. OutsideTypes'
    BY <1>2, <2>2 DEF TypeOK, OutsideTypes
  <2> QED
    BY <1>2, <2>1, <2>3, DoneStep DEF StepPcs, InstStates, Validating, Successor, NoFault
<1> QED
  BY <1>1, <1>2

(* A good verdict leads to the next validation, or to READY. *)
LEMMA ValidatePassStep ==
  ASSUME ProvisioningInv, NEW i \in Instances, ValidatePass(i)
  PROVE  ProvisioningInv'
<1> USE DEF ProvisioningInv, ValidatePass
<1>1. work[i] \in Checkpoints /\ work' = [work EXCEPT ![i] = work[i]] /\ OutsideTypes'
  BY DEF TypeOK, OutsideTypes
<1>2. AfterPass(inst[i]) \in InstStates /\ Successor(inst[i], AfterPass(inst[i])) /\ inst[i] # "RESERVING"
  BY DEF AfterPass, InstStates, Validating, Terminal, Successor
<1> QED
  BY <1>1, <1>2, DoneStep DEF StepPcs, NoFault

(* A bad verdict suspends the mapping before anything is persisted. *)
LEMMA ValidateFailStep ==
  ASSUME ProvisioningInv, NEW i \in Instances, ValidateFail(i)
  PROVE  ProvisioningInv'
<1> USE DEF ProvisioningInv, ValidateFail
<1> DEFINE m == work[i].mapping
<1>1. CASE HandlerFails(i) /\ NoFault
  BY <1>1, HandlerFailsStep DEF StepPcs
<1>2. CASE /\ \/ m # None /\ mapState' = [mapState EXCEPT ![m] = "SUSPENDED"] /\ NoFault
              \/ UNCHANGED mapState /\ (NoFault \/ Fault)
           /\ Goto(i, "isolate") /\ next' = [next EXCEPT ![i] = "QUARANTINED"]
           /\ Inside /\ UNCHANGED <<ips, vms, mapOwner, work>>
  <2> USE <1>2 DEF Inside, Goto
  <2>1. work[i] \in Checkpoints /\ work' = [work EXCEPT ![i] = work[i]] /\ OutsideTypes'
    BY DEF TypeOK, OutsideTypes
  <2>2. TypeOK'
    BY <2>1, HandlerTypes DEF StepPcs, InstStates, Terminal
  <2>3. InstanceInv(i)'
    BY DEF TypeOK, InstanceInv, FlowInv, EvidenceInv, VmidInv, VMInv, NoVM, StepPcs, RollbackPcs,
       Early, Building, Successor, Validating
  <2>4. OthersKept(i)
    BY DEF TypeOK, OthersKept
  <2> QED
    BY <2>2, <2>3, <2>4, OneInstance
<1> QED
  BY <1>1, <1>2

(* MarkQuarantined frees nothing. *)
LEMMA MarkTypes ==
  ASSUME TypeOK, NEW a, MarkQuarantined(a), UNCHANGED ipOwner
  PROVE  /\ ipState' \in [Addrs -> {"FREE", "RESERVED", "QUARANTINED"}]
         /\ \A b \in Addrs : ipState'[b] = "FREE" <=> ipOwner'[b] = None
BY DEF TypeOK, MarkQuarantined

(* The address of a bad instance is quarantined by its id alone. *)
LEMMA IsolateStep ==
  ASSUME ProvisioningInv, NEW i \in Instances, Isolate(i)
  PROVE  ProvisioningInv'
<1> USE DEF ProvisioningInv, Isolate
<1>1. OutsideTypes'
  BY MarkTypes DEF TypeOK, OutsideTypes
<1>2. work[i] \in Checkpoints /\ work' = [work EXCEPT ![i] = work[i]]
  BY DEF TypeOK
<1>3. inst[i] \in Validating /\ next[i] = "QUARANTINED" /\ next' = [next EXCEPT ![i] = "QUARANTINED"]
  BY DEF InstanceInv, FlowInv, TypeOK
<1>4. Successor(inst[i], "QUARANTINED") /\ "QUARANTINED" \in InstStates /\ inst[i] # "RESERVING"
  BY <1>3 DEF Successor, InstStates, Terminal, Validating
<1>5. Done(i, "QUARANTINED")
  BY <1>3 DEF Done
<1> QED
  BY <1>1, <1>2, <1>4, <1>5, DoneStep DEF StepPcs
-----------------------------------------------------------------------------
(* The transaction that ends a transition *)

(* What it writes: a successor of the state, the working copy with its      *)
(* VMID, and the evidence that goes with the state.                         *)
LEMMA PersistWrites ==
  ASSUME ProvisioningInv, NEW i \in Instances, Persist(i), UNCHANGED vms
  PROVE  /\ inst' \in [Instances -> InstStates] /\ db' \in [Instances -> Checkpoints]
         /\ placed' \in [Instances -> Vmids \cup {None}]
         /\ passed' \in [Instances -> SUBSET Validating]
         /\ db'[i] = work[i] /\ inst'[i] = next[i]
         /\ inst'[i] # "REQUESTED" /\ inst'[i] # "FAILED"
         /\ (inst'[i] = "RESERVING" => inst[i] = "REQUESTED")
         /\ (inst'[i] \in Building => work[i].vmid # None)
         /\ EvidenceInv(i)'
         /\ \A v \in Vmids : vmOwner[v] = i => work[i].vmid = v /\ inst'[i] \notin Early
         /\ \A j \in Instances \ {i} : inst'[j] = inst[j] /\ db'[j] = db[j] /\ passed'[j] = passed[j]
<1> USE DEF ProvisioningInv, Persist
<1>1. Successor(inst[i], next[i]) /\ next[i] \in InstStates
  BY DEF TypeOK, InstanceInv, FlowInv, Successor, InstStates, Validating, Terminal, AfterPass
<1>2. /\ inst' \in [Instances -> InstStates] /\ db' \in [Instances -> Checkpoints]
      /\ placed' \in [Instances -> Vmids \cup {None}]
  BY <1>1 DEF TypeOK, Checkpoints
<1>3. passed' \in [Instances -> SUBSET Validating] /\ inst'[i] = next[i] /\ db'[i] = work[i]
  BY DEF TypeOK
<1>4. inst'[i] # "REQUESTED" /\ inst'[i] # "FAILED" /\ (inst'[i] = "RESERVING" => inst[i] = "REQUESTED")
  BY <1>1, <1>3 DEF Successor, Validating, AfterPass
<1>5. inst'[i] \in Building => work[i].vmid # None
  BY <1>1, <1>3 DEF InstanceInv, VmidInv, Successor, Building, Validating, Early, StepPcs, TypeOK
<1>6. EvidenceInv(i)'
  BY <1>1, <1>3 DEF InstanceInv, EvidenceInv, Successor, Validating, AfterPass, TypeOK
<1>7. ASSUME NEW v \in Vmids, vmOwner[v] = i
      PROVE  work[i].vmid = v /\ inst'[i] \notin Early
  BY <1>1, <1>3, <1>4, <1>7 DEF InstanceInv, VmidInv, VMInv, Early, StepPcs
<1>8. \A j \in Instances \ {i} : inst'[j] = inst[j] /\ db'[j] = db[j] /\ passed'[j] = passed[j]
  BY DEF TypeOK
<1> QED
  BY <1>2, <1>3, <1>4, <1>5, <1>6, <1>7, <1>8

(* The worker goes on with the row as it is now. *)
LEMMA CommitStep ==
  ASSUME ProvisioningInv, NEW i \in Instances, Commit(i)
  PROVE  ProvisioningInv'
<1> USE PersistWrites DEF ProvisioningInv, Commit, Goto
<1>0. pc[i] = "commit"
  BY DEF Persist
<1>1. TypeOK'
  BY DEF TypeOK, StepPcs
<1>2. FlowInv(i)' /\ VmidInv(i)'
  BY DEF TypeOK, FlowInv, VmidInv
<1>3. VMInv(i)'
  BY DEF TypeOK, VMInv, NoVM, RollbackPcs
<1>4. OthersKept(i)
  BY DEF TypeOK, OthersKept
<1> QED
  BY <1>1, <1>2, <1>3, <1>4, OneInstance DEF InstanceInv

(* The reply is lost: the worker queues the job again, or rolls back from   *)
(* the copy it had before the transition.                                   *)
LEMMA CommitUnansweredStep ==
  ASSUME ProvisioningInv, NEW i \in Instances, CommitUnanswered(i)
  PROVE  ProvisioningInv'
<1> USE PersistWrites DEF ProvisioningInv, CommitUnanswered, Goto
<1>0. pc[i] = "commit"
  BY DEF Persist
<1>1. CASE job' = [job EXCEPT ![i] = "QUEUED"] /\ Leave(i)
  <2> USE <1>1 DEF Leave
  <2>1. TypeOK'
    BY BlankType, FaultsBounded DEF TypeOK
  <2>2. FlowInv(i)' /\ VmidInv(i)'
    BY DEF TypeOK, FlowInv, VmidInv, StepPcs
  <2>3. VMInv(i)'
    BY DEF TypeOK, VMInv, NoVM, RollbackPcs
  <2>4. OthersKept(i)
    BY DEF TypeOK, OthersKept
  <2> QED
    BY <2>1, <2>2, <2>3, <2>4, OneInstance DEF InstanceInv
<1>2. CASE TerminalFail(i)
  <2> USE <1>2 DEF TerminalFail
  <2>1. TypeOK'
    BY BlankType, FaultsBounded DEF TypeOK, RollbackPcs
  <2>2. FlowInv(i)' /\ VmidInv(i)'
    BY DEF TypeOK, FlowInv, VmidInv, StepPcs
  <2>3. ASSUME NEW v \in Vmids, vmOwner[v] = i
        PROVE  mem[i].vmid = v
    BY <1>0, <2>3 DEF InstanceInv, VmidInv, VMInv, StepPcs
  <2>4. VMInv(i)'
    BY <2>3 DEF TypeOK, VMInv, NoVM, RollbackPcs
  <2>5. OthersKept(i)
    BY DEF TypeOK, OthersKept
  <2> QED
    BY <2>1, <2>2, <2>4, <2>5, OneInstance DEF InstanceInv
<1> QED
  BY <1>1, <1>2 DEF FailOrRetry
-----------------------------------------------------------------------------
(* The rollback *)

(* A step of the rollback that writes neither the row nor its copy. *)
LEMMA RollbackMoves ==
  ASSUME ProvisioningInv, NEW i \in Instances, pc[i] \in RollbackPcs,
         NEW l \in RollbackPcs \ {"rbvm"}, Goto(i, l), RollbackFrame, UNCHANGED <<db, inst, record>>,
         NEW f \in BOOLEAN, Failures(i, f), Fault \/ NoFault, OutsideTypes',
         \A v \in Vmids : vmOwner'[v] \in {None, vmOwner[v]},
         pc[i] = "rbvm" => NoVM(i)' \/ failed'[i],
         l = "rbmark" => failed'[i]
  PROVE  ProvisioningInv'
<1> USE DEF ProvisioningInv, RollbackFrame, Failures, Goto
<1>1. TypeOK'
  BY FaultsBounded DEF TypeOK, OutsideTypes
<1>2. FlowInv(i)' /\ EvidenceInv(i)' /\ VmidInv(i)'
  BY DEF TypeOK, InstanceInv, FlowInv, EvidenceInv, VmidInv, StepPcs, RollbackPcs
<1>3. VMInv(i)'
  BY DEF TypeOK, InstanceInv, VMInv, NoVM, RollbackPcs
<1>4. OthersKept(i)
  BY DEF TypeOK, OthersKept
<1> QED
  BY <1>1, <1>2, <1>3, <1>4, OneInstance DEF InstanceInv

(* Deleting by the VMID of the copy removes the instance's VM, if it has    *)
(* one, or is remembered as a failure.                                      *)
LEMMA RollbackVMStep ==
  ASSUME ProvisioningInv, NEW i \in Instances, RollbackVM(i)
  PROVE  ProvisioningInv'
<1> DEFINE v == mem[i].vmid
<1>1. pc[i] = "rbvm" /\ Goto(i, "rbmapping") /\ RollbackFrame /\ UNCHANGED <<db, inst, record, ips, maps>>
  BY DEF RollbackVM
<1>2. v \in Vmids \cup {None}
  BY DEF ProvisioningInv, TypeOK, Checkpoints
<1>3. \A u \in Vmids : vmOwner[u] = i => u = v
  BY <1>1 DEF ProvisioningInv, InstanceInv, VMInv, RollbackPcs
<1>4. "rbmapping" \in RollbackPcs \ {"rbvm"} /\ "rbvm" \in RollbackPcs
  BY DEF RollbackPcs
<1>5. CASE UNCHANGED vms /\ v = None /\ Failures(i, FALSE) /\ NoFault
  <2>1. OutsideTypes'
    BY <1>1, <1>5 DEF ProvisioningInv, TypeOK, OutsideTypes
  <2>2. NoVM(i)'
    BY <1>2, <1>3, <1>5 DEF NoVM
  <2>3. \A u \in Vmids : vmOwner'[u] \in {None, vmOwner[u]}
    BY <1>5
  <2> QED
    BY <1>1, <1>4, <1>5, <2>1, <2>2, <2>3, RollbackMoves
<1>6. CASE Failures(i, TRUE) /\ (Fault \/ NoFault) /\ UNCHANGED vmOwner /\ vmUp' \subseteq vmUp
  <2>1. OutsideTypes'
    BY <1>1, <1>6 DEF ProvisioningInv, TypeOK, OutsideTypes
  <2>2. failed'[i]
    BY <1>6 DEF ProvisioningInv, TypeOK, Failures
  <2>3. \A u \in Vmids : vmOwner'[u] \in {None, vmOwner[u]}
    BY <1>6
  <2> QED
    BY <1>1, <1>4, <1>6, <2>1, <2>2, <2>3, RollbackMoves
<1>7. ASSUME NEW f \in BOOLEAN, Failures(i, f), Fault \/ NoFault, v # None,
             vmOwner' = [vmOwner EXCEPT ![v] = None], vmUp' = vmUp \ {v}
      PROVE  ProvisioningInv'
  <2>1. OutsideTypes'
    BY <1>1, <1>2, <1>7 DEF ProvisioningInv, TypeOK, OutsideTypes
  <2>2. NoVM(i)'
    BY <1>2, <1>3, <1>7 DEF ProvisioningInv, TypeOK, NoVM
  <2>3. \A u \in Vmids : vmOwner'[u] \in {None, vmOwner[u]}
    BY <1>7 DEF ProvisioningInv, TypeOK
  <2> QED
    BY <1>1, <1>4, <1>7, <2>1, <2>2, <2>3, RollbackMoves
<1> QED
  BY <1>5, <1>6, <1>7 DEF RollbackVM

(* Suspending and deleting the mapping touches no VM. *)
LEMMA RollbackMappingStep ==
  ASSUME ProvisioningInv, NEW i \in Instances, RollbackMapping(i)
  PROVE  ProvisioningInv'
<1>1. /\ pc[i] = "rbmapping" /\ Goto(i, "rbip") /\ RollbackFrame
      /\ UNCHANGED <<db, inst, record, ips, vms, mapOwner>> /\ (Fault \/ NoFault)
  BY DEF RollbackMapping
<1>2. \E f \in BOOLEAN : Failures(i, f)
  BY DEF RollbackMapping
<1>3. "rbip" \in RollbackPcs \ {"rbvm"} /\ "rbmapping" \in RollbackPcs
  BY DEF RollbackPcs
<1>4. mapState' \in [Mappings -> {"ABSENT", "INACTIVE", "ACTIVE", "SUSPENDED", "DELETED"}]
  <2>1. mapState \in [Mappings -> {"ABSENT", "INACTIVE", "ACTIVE", "SUSPENDED", "DELETED"}]
        /\ mem[i].mapping \in Mappings \cup {None}
    BY DEF ProvisioningInv, TypeOK, Checkpoints
  <2>2. \/ UNCHANGED mapState
        \/ \E k \in {mapState[mem[i].mapping], "SUSPENDED", "DELETED"} :
             mem[i].mapping # None /\ mapState' = [mapState EXCEPT ![mem[i].mapping] = k]
    BY DEF RollbackMapping
  <2> QED
    BY <2>1, <2>2
<1>5. OutsideTypes'
  BY <1>1, <1>4 DEF ProvisioningInv, TypeOK, OutsideTypes
<1>6. \A u \in Vmids : vmOwner'[u] \in {None, vmOwner[u]}
  BY <1>1
<1> QED
  BY <1>1, <1>2, <1>3, <1>5, <1>6, RollbackMoves

(* What is freed has no owner any more. *)
LEMMA FreeTypes ==
  ASSUME TypeOK, NEW S \in SUBSET Addrs, Free(S)
  PROVE  /\ ipState' \in [Addrs -> {"FREE", "RESERVED", "QUARANTINED"}]
         /\ ipOwner' \in [Addrs -> Instances \cup {None}]
         /\ ipOld' \subseteq Addrs
         /\ \A a \in Addrs : ipState'[a] = "FREE" <=> ipOwner'[a] = None
BY DEF TypeOK, Free

(* The address is released, or left to be quarantined once something has    *)
(* failed.                                                                  *)
LEMMA RollbackAddressStep ==
  ASSUME ProvisioningInv, NEW i \in Instances, RollbackAddress(i)
  PROVE  ProvisioningInv'
<1> DEFINE a == mem[i].ip
<1>1. /\ pc[i] = "rbip" /\ RollbackFrame
      /\ UNCHANGED <<db, inst, record, vms, maps>> /\ (Fault \/ NoFault)
  BY DEF RollbackAddress
<1>2. UNCHANGED ips \/ (a \in Addrs /\ Free({a}))
  <2>1. a \in Addrs \cup {None}
    BY DEF ProvisioningInv, TypeOK, Checkpoints
  <2>2. UNCHANGED ips \/ (a # None /\ Free({a}))
    BY DEF RollbackAddress, MayRelease
  <2> QED
    BY <2>1, <2>2
<1>3. OutsideTypes'
  <2>1. CASE UNCHANGED ips
    BY <1>1, <2>1 DEF ProvisioningInv, TypeOK, OutsideTypes
  <2>2. CASE a \in Addrs /\ Free({a})
    BY <1>1, <2>2, FreeTypes DEF ProvisioningInv, TypeOK, OutsideTypes
  <2> QED
    BY <1>2, <2>1, <2>2
<1>4. PICK l \in {"rbend", "rbmark"}, f \in BOOLEAN :
        Goto(i, l) /\ Failures(i, f) /\ (l = "rbmark" => f \/ failed[i])
  BY DEF RollbackAddress, MayRelease
<1>5. l \in RollbackPcs \ {"rbvm"} /\ pc[i] \in RollbackPcs
  BY <1>1 DEF RollbackPcs
<1>6. \A u \in Vmids : vmOwner'[u] \in {None, vmOwner[u]}
  BY <1>1
<1>7. l = "rbmark" => failed'[i]
  BY <1>4 DEF Failures, ProvisioningInv, TypeOK
<1> QED
  BY <1>1, <1>3, <1>4, <1>5, <1>6, <1>7, RollbackMoves

(* The address that was not released is quarantined, errors ignored. *)
LEMMA RollbackQuarantineStep ==
  ASSUME ProvisioningInv, NEW i \in Instances, RollbackQuarantine(i)
  PROVE  ProvisioningInv'
<1>1. /\ pc[i] = "rbmark" /\ Goto(i, "rbend") /\ RollbackFrame
      /\ UNCHANGED <<db, inst, record, ipOwner, ipOld, vms, maps, failed>> /\ (Fault \/ NoFault)
  BY DEF RollbackQuarantine
<1>2. OutsideTypes'
  BY <1>1, MarkTypes DEF RollbackQuarantine, ProvisioningInv, TypeOK, OutsideTypes
<1>3. Failures(i, FALSE)
  BY <1>1 DEF Failures, ProvisioningInv, TypeOK
<1>4. "rbend" \in RollbackPcs \ {"rbvm"} /\ "rbmark" \in RollbackPcs
  BY DEF RollbackPcs
<1>5. \A u \in Vmids : vmOwner'[u] \in {None, vmOwner[u]}
  BY <1>1
<1> QED
  BY <1>1, <1>2, <1>3, <1>4, <1>5, RollbackMoves

(* The last transaction writes the copy, which knows the VM if it is still  *)
(* there, and FAILED only if it is not.                                     *)
LEMMA RollbackEndStep ==
  ASSUME ProvisioningInv, NEW i \in Instances, RollbackEnd(i)
  PROVE  ProvisioningInv'
<1> USE DEF ProvisioningInv, RollbackEnd, KeptCheckpoint, Leave, Goto
<1>1. TypeOK'
  BY BlankType DEF TypeOK, InstStates, Terminal
<1>2. FlowInv(i)' /\ EvidenceInv(i)' /\ VmidInv(i)'
  BY DEF TypeOK, FlowInv, EvidenceInv, VmidInv, StepPcs, Building, Validating
<1>3. VMInv(i)'
  BY DEF TypeOK, InstanceInv, VMInv, NoVM, RollbackPcs, Early
<1>4. OthersKept(i)
  BY DEF TypeOK, OthersKept
<1> QED
  BY <1>1, <1>2, <1>3, <1>4, OneInstance DEF InstanceInv
-----------------------------------------------------------------------------
(* The reaper looks at addresses and jobs, and writes addresses. *)
LEMMA ReaperStep ==
  ASSUME ProvisioningInv,
         (\E a \in Addrs : ReservationExpires(a)) \/ ReleaseExpiredReservations
  PROVE  ProvisioningInv'
<1>1. UNCHANGED <<jobVars, db, inst, record, vms, maps, pc, mem, work, next, failed, faults, requeues>>
  BY DEF ReservationExpires, ReleaseExpiredReservations
<1>2. OutsideTypes'
  <2>1. CASE \E a \in Addrs : ReservationExpires(a)
    BY <2>1 DEF ReservationExpires, ProvisioningInv, TypeOK, OutsideTypes
  <2>2. CASE ReleaseExpiredReservations
    BY <1>1, <2>2, FreeTypes DEF ReleaseExpiredReservations, ProvisioningInv, TypeOK, OutsideTypes
  <2> QED
    BY <2>1, <2>2
<1>3. TypeOK'
  BY <1>1, <1>2 DEF ProvisioningInv, TypeOK, OutsideTypes
<1>4. \A i \in Instances : InstanceInv(i)'
  BY <1>1 DEF ProvisioningInv, InstanceInv, FlowInv, EvidenceInv, VmidInv, VMInv, NoVM
<1> QED
  BY <1>3, <1>4 DEF ProvisioningInv

(* The invariant holds before anything is provisioned. *)
LEMMA InitInv == Init => ProvisioningInv
<1> SUFFICES ASSUME Init PROVE ProvisioningInv
  OBVIOUS
<1>1. TypeOK
  BY BlankType DEF Init, TypeOK, InstStates
<1>2. ASSUME NEW i \in Instances
      PROVE  InstanceInv(i)
  BY DEF Init, InstanceInv, FlowInv, EvidenceInv, VmidInv, VMInv, NoVM, StepPcs, RollbackPcs,
     Building, Validating
<1> QED
  BY <1>1, <1>2 DEF ProvisioningInv

(* Every step keeps the invariant. *)
LEMMA InvariantStep == ProvisioningInv /\ [Next]_vars => ProvisioningInv'
<1> SUFFICES ASSUME ProvisioningInv, [Next]_vars PROVE ProvisioningInv'
  OBVIOUS
<1>1. CASE UNCHANGED vars
  BY <1>1 DEF vars, ProvisioningInv, TypeOK, InstanceInv, FlowInv, EvidenceInv, VmidInv, VMInv, NoVM
<1>2. ASSUME NEW i \in Instances, Handler(i)
      PROVE  ProvisioningInv'
  BY <1>2, RequestedStep, ReserveAddressStep, AllocateVmidStep, CloneStep, AwaitCloneStep, ConfigureStep,
     AwaitConfigureStep, CreateClientStep, CreateMappingStep, ActivateMappingStep, BootStep,
     ValidatePassStep, ValidateFailStep, IsolateStep, SaveCheckpointStep, CommitStep, CommitRefusedStep
     DEF Handler
<1>3. ASSUME NEW i \in Instances, RollbackStep(i)
      PROVE  ProvisioningInv'
  BY <1>3, RollbackVMStep, RollbackMappingStep, RollbackAddressStep, RollbackQuarantineStep,
     RollbackEndStep DEF RollbackStep
<1> QED
  BY <1>1, <1>2, <1>3, ClaimStep, FinishStep, InvalidTransitionStep, CallFailsStep, CommitUnansweredStep,
     CrashStep, RequeueStep, ReaperStep DEF Next
-----------------------------------------------------------------------------
(* The invariant holds of every state the workers and the reaper reach. *)
THEOREM ProvisioningInvariant == Spec => []ProvisioningInv
BY InitInv, InvariantStep, PTL DEF Spec

(* Types hold; an address is FREE exactly when it has no owner, and only    *)
(* VMs that exist run.                                                      *)
THEOREM ProvisioningTypeCorrect == Spec => []TypeOK
<1>1. ProvisioningInv => TypeOK
  BY DEF ProvisioningInv
<1> QED
  BY <1>1, ProvisioningInvariant, PTL

(* An instance is READY only with the persisted evidence of all three       *)
(* validations (engine.go), after any retries, crashes and lost replies.    *)
THEOREM ReadyHasEvidence == Spec => []ReadyHasPassEvidence
<1>1. ProvisioningInv => ReadyHasPassEvidence
  BY DEF ProvisioningInv, InstanceInv, EvidenceInv, ReadyHasPassEvidence
<1> QED
  BY <1>1, ProvisioningInvariant, PTL

(* Every VM can be found from the checkpoint of its instance: the VMID is   *)
(* persisted before the clone (handlers_reserve.go, handlers_provision.go)  *)
(* and no later write loses it.                                             *)
THEOREM VMsAreRecorded == Spec => []NoOrphanVM
<1>1. ProvisioningInv => NoOrphanVM
  BY DEF ProvisioningInv, InstanceInv, VMInv, NoOrphanVM
<1> QED
  BY <1>1, ProvisioningInvariant, PTL

(* Rollback.Execute frees an address only when the VM that used it is gone. *)
THEOREM AddressesAreFreedLast == Spec => []AddressFreedAfterVM
<1>1. ProvisioningInv => AddressFreedAfterVM
  BY DEF ProvisioningInv, InstanceInv, VMInv, NoVM, AddressFreedAfterVM, MayRelease, RollbackPcs
<1> QED
  BY <1>1, ProvisioningInvariant, PTL

(* FAILED means cleaned up: the rollback quarantines an instance whose VM   *)
(* it could not remove.                                                     *)
THEOREM FailedHasNoVM == Spec => [](\A i \in Instances : inst[i] = "FAILED" => NoVM(i))
<1>1. ProvisioningInv => \A i \in Instances : inst[i] = "FAILED" => NoVM(i)
  BY DEF ProvisioningInv, InstanceInv, VMInv
<1> QED
  BY <1>1, ProvisioningInvariant, PTL
-----------------------------------------------------------------------------
(* Who writes the owner of an address: a reservation, the release of a      *)
(* rollback, and the reaper.                                                *)
LEMMA OwnerWriters ==
  ASSUME Next
  PROVE  \/ UNCHANGED ipOwner
         \/ \E i \in Instances : ReserveAddress(i) \/ RollbackAddress(i)
         \/ ReleaseExpiredReservations
<1>1. ASSUME NEW i \in Instances, HandlerFails(i)
      PROVE  UNCHANGED ipOwner
  BY <1>1 DEF HandlerFails
<1>2. ASSUME NEW i \in Instances, Handler(i), ~ReserveAddress(i)
      PROVE  UNCHANGED ipOwner
  BY <1>1, <1>2 DEF Handler, Requested, AllocateVmid, Clone, AwaitClone, Configure, AwaitConfigure,
     CreateClient, CreateMapping, ActivateMapping, Boot, ValidatePass, ValidateFail, Isolate,
     SaveCheckpoint, Commit, CommitRefused
<1>3. ASSUME NEW i \in Instances, RollbackStep(i), ~RollbackAddress(i)
      PROVE  UNCHANGED ipOwner
  BY <1>3 DEF RollbackStep, RollbackVM, RollbackMapping, RollbackQuarantine, RollbackEnd
<1>4. ASSUME NEW i \in Instances,
             Claim(i) \/ Finish(i) \/ InvalidTransition(i) \/ CallFails(i) \/ CommitUnanswered(i)
               \/ Crash(i) \/ Requeue(i)
      PROVE  UNCHANGED ipOwner
  BY <1>1, <1>4 DEF Claim, Finish, InvalidTransition, CallFails, CommitUnanswered, Crash, Requeue
<1>5. ASSUME NEW a \in Addrs, ReservationExpires(a)
      PROVE  UNCHANGED ipOwner
  BY <1>5 DEF ReservationExpires
<1> QED
  BY <1>2, <1>3, <1>4, <1>5 DEF Next

(* An instance loses its address only in a rollback, its own or that of an  *)
(* instance whose copy names the same allocation (rollback.go: Release goes *)
(* by the id), or to the reaper when its job is settled (reaper.go).        *)
THEOREM AddressLosses == Spec => AddressLossIsAccounted
<1>1. ASSUME ProvisioningInv, Next, NEW i \in Instances, LosesAddress(i)
      PROVE  \/ pc[i] \in RollbackPcs
             \/ db[i].ip \in ipOld /\ job[i] \in {"SUCCEEDED", "FAILED"}
             \/ \E k \in Instances \ {i} : pc[k] = "rbip" /\ mem[k].ip = db[i].ip
  <2> DEFINE a == db[i].ip
  <2>1. a \in Addrs /\ ipOwner[a] = i /\ ipOwner'[a] # i
    BY <1>1 DEF LosesAddress, ProvisioningInv, TypeOK, Checkpoints
  <2>2. ipState[a] # "FREE"
    BY <1>1, <2>1 DEF ProvisioningInv, TypeOK
  <2>3. ASSUME NEW k \in Instances, ReserveAddress(k)
        PROVE  FALSE
    BY <1>1, <2>1, <2>2, <2>3 DEF ReserveAddress, HandlerFails, First, ProvisioningInv, TypeOK
  <2>4. ASSUME NEW k \in Instances, RollbackAddress(k)
        PROVE  pc[k] = "rbip" /\ mem[k].ip = a
    BY <2>1, <2>4 DEF RollbackAddress, Free
  <2>5. ASSUME ReleaseExpiredReservations
        PROVE  a \in ipOld /\ job[i] \in {"SUCCEEDED", "FAILED"}
    BY <1>1, <2>1, <2>5 DEF ReleaseExpiredReservations, Free, Reapable, ProvisioningInv, TypeOK
  <2> QED
    BY <1>1, <2>1, <2>3, <2>4, <2>5, OwnerWriters DEF RollbackPcs
<1>2. ProvisioningInv /\ [Next]_vars
        => [\A i \in Instances :
              LosesAddress(i) =>
                \/ pc[i] \in RollbackPcs
                \/ db[i].ip \in ipOld /\ job[i] \in {"SUCCEEDED", "FAILED"}
                \/ \E k \in Instances \ {i} : pc[k] = "rbip" /\ mem[k].ip = db[i].ip]_vars
  BY <1>1
<1> QED
  BY <1>2, ProvisioningInvariant, PTL DEF Spec, AddressLossIsAccounted
-----------------------------------------------------------------------------
(* Leaks *)

(* How far the copies of a worker are ahead of, or behind, the row: before  *)
(* there is an address nothing is in the row; only ReserveAddress and       *)
(* CreateMapping put something into the working copy that the row does not  *)
(* have; and after SaveCheckpoint the copy in memory may miss a mapping.    *)
CopiesInv(i) ==
  /\ pc[i] \notin StepPcs => work[i] = Blank
  /\ inst[i] \in Early => db[i].ip = None /\ db[i].mapping = None
  /\ pc[i] \in StepPcs =>
       /\ mem[i].ip = db[i].ip
       /\ mem[i].mapping = db[i].mapping \/ (inst[i] = "NETWORK_BINDING" /\ mem[i].mapping = None)
       /\ inst[i] # "RESERVING" => work[i].ip = db[i].ip
       /\ work[i].mapping = db[i].mapping
            \/ (pc[i] = "save" /\ inst[i] = "NETWORK_BINDING" /\ db[i].mapping = None)
  /\ pc[i] = "step" => work[i].ip = db[i].ip

(* A mapping belongs to the instance in whose checkpoint it is. *)
MappingInv(i) ==
  \A m \in {db[i].mapping, mem[i].mapping, work[i].mapping} \ {None} : mapOwner[m] = i

(* Who will still find an address or a mapping: a working copy, or the row, *)
(* unless a rollback is about to overwrite it with a copy that does not.    *)
KnowsAddr(i, a) ==
  work[i].ip = a \/ (db[i].ip = a /\ (pc[i] \in RollbackPcs => mem[i].ip = a))

KnowsMapping(i, m) ==
  work[i].mapping = m \/ (db[i].mapping = m /\ (pc[i] \in RollbackPcs => mem[i].mapping = m))

LostAddrs    == {a \in Addrs : ipState[a] = "RESERVED" /\ ~KnowsAddr(ipOwner[a], a)}
LostMappings == {m \in Mappings : mapState[m] \notin {"ABSENT", "DELETED"} /\ ~KnowsMapping(mapOwner[m], m)}

(* Each fault has lost one thing at most. *)
LossInv == Cardinality(LostAddrs) + Cardinality(LostMappings) <= faults

(* The invariant that bounds the leaks, on top of ProvisioningInv. *)
LeakInv ==
  /\ \A i \in Instances : CopiesInv(i) /\ MappingInv(i)
  /\ \A m \in Mappings : mapState[m] = "ABSENT" <=> mapOwner[m] = None
  /\ LossInv

(* What a step leaves of the other instances. *)
SameElsewhere(i) ==
  \A j \in Instances \ {i} :
    /\ inst'[j] = inst[j] /\ db'[j] = db[j] /\ pc'[j] = pc[j]
    /\ mem'[j] = mem[j] /\ work'[j] = work[j]

Live(m) == mapState[m] \notin {"ABSENT", "DELETED"}

(* What is in use was in use, by the same instance, unless i has just got   *)
(* it and knows it.                                                         *)
AddrsStay(i) ==
  \A a \in Addrs : ipState'[a] = "RESERVED" =>
    \/ ipState[a] = "RESERVED" /\ ipOwner'[a] = ipOwner[a]
    \/ ipOwner'[a] = i /\ KnowsAddr(i, a)'

MappingsStay(i) ==
  \A m \in Mappings :
    /\ mapState'[m] = "ABSENT" <=> mapOwner'[m] = None
    /\ mapOwner[m] # None => mapOwner'[m] = mapOwner[m]
    /\ Live(m)' => \/ Live(m) /\ mapOwner'[m] = mapOwner[m]
                   \/ mapOwner'[m] = i /\ KnowsMapping(i, m)'

(* i still knows what it knew and is still in use, but for A and M. *)
LosesAtMost(i, A, M) ==
  /\ \A a \in Addrs \ A : ipState'[a] = "RESERVED" /\ KnowsAddr(i, a) => KnowsAddr(i, a)'
  /\ \A m \in Mappings \ M : Live(m)' /\ KnowsMapping(i, m) => KnowsMapping(i, m)'

(* The sum of two losses grows by what is lost now. *)
LEMMA LossesAdd ==
  ASSUME TypeOK, TypeOK', LossInv,
         NEW A \in SUBSET Addrs, NEW M \in SUBSET Mappings,
         LostAddrs' \subseteq LostAddrs \cup A, LostMappings' \subseteq LostMappings \cup M,
         Cardinality(A) + Cardinality(M) + faults <= faults'
  PROVE  LossInv'
<1>1. /\ IsFiniteSet(A) /\ IsFiniteSet(LostAddrs) /\ IsFiniteSet(LostAddrs \cup A)
      /\ IsFiniteSet(M) /\ IsFiniteSet(LostMappings) /\ IsFiniteSet(LostMappings \cup M)
  <2>1. /\ LostAddrs \subseteq Addrs /\ LostAddrs \cup A \subseteq Addrs
        /\ LostMappings \subseteq Mappings /\ LostMappings \cup M \subseteq Mappings
    BY DEF LostAddrs, LostMappings
  <2> QED
    BY <2>1, FiniteAssumption, FS_Subset
<1>2. /\ Cardinality(LostAddrs') <= Cardinality(LostAddrs \cup A)
      /\ Cardinality(LostMappings') <= Cardinality(LostMappings \cup M)
      /\ IsFiniteSet(LostAddrs') /\ IsFiniteSet(LostMappings')
  BY <1>1, FS_Subset
<1>3. /\ Cardinality(LostAddrs \cup A) <= Cardinality(LostAddrs) + Cardinality(A)
      /\ Cardinality(LostMappings \cup M) <= Cardinality(LostMappings) + Cardinality(M)
  <2>1. ASSUME NEW S, NEW T, IsFiniteSet(S), IsFiniteSet(T)
        PROVE  Cardinality(S \cup T) <= Cardinality(S) + Cardinality(T)
    <3>1. Cardinality(S \cup T) = Cardinality(S) + Cardinality(T) - Cardinality(S \cap T)
      BY <2>1, FS_Union
    <3>2. IsFiniteSet(S \cap T)
      BY <2>1, FS_Intersection
    <3>3. Cardinality(S) \in Nat /\ Cardinality(T) \in Nat /\ Cardinality(S \cap T) \in Nat
      BY <2>1, <3>2, FS_CardinalityType
    <3> QED
      BY <3>1, <3>3
  <2> QED
    BY <1>1, <2>1
<1>4. /\ Cardinality(LostAddrs) \in Nat /\ Cardinality(A) \in Nat /\ Cardinality(LostAddrs \cup A) \in Nat
      /\ Cardinality(LostMappings) \in Nat /\ Cardinality(M) \in Nat
      /\ Cardinality(LostMappings \cup M) \in Nat
      /\ Cardinality(LostAddrs') \in Nat /\ Cardinality(LostMappings') \in Nat
  BY <1>1, <1>2, FS_CardinalityType
<1>5. faults \in Nat /\ faults' \in Nat
  BY DEF TypeOK
<1> DEFINE la == Cardinality(LostAddrs)   la2 == Cardinality(LostAddrs')   ua == Cardinality(LostAddrs \cup A)
           lm == Cardinality(LostMappings) lm2 == Cardinality(LostMappings') um == Cardinality(LostMappings \cup M)
           ca == Cardinality(A) cm == Cardinality(M)
<1>6. la + lm <= faults
  BY DEF LossInv
<1>7. la2 + lm2 <= faults'
  <2> HIDE DEF la, la2, ua, lm, lm2, um, ca, cm
  <2> QED
    BY <1>2, <1>3, <1>4, <1>5, <1>6 DEF la, la2, ua, lm, lm2, um, ca, cm
<1> QED
  BY <1>7 DEF LossInv

(* A step of the worker of i keeps the invariant if it pays for what it     *)
(* loses with a fault.                                                      *)
LEMMA WorkerLosses ==
  ASSUME TypeOK, TypeOK', LeakInv, NEW i \in Instances,
         SameElsewhere(i), AddrsStay(i), MappingsStay(i), CopiesInv(i)', MappingInv(i)',
         NEW A \in SUBSET Addrs, NEW M \in SUBSET Mappings, LosesAtMost(i, A, M),
         Cardinality(A) + Cardinality(M) + faults <= faults'
  PROVE  LeakInv'
<1>1. ASSUME NEW j \in Instances, j # i
      PROVE  CopiesInv(j)' /\ MappingInv(j)'
  <2>1. CopiesInv(j)'
    BY <1>1 DEF LeakInv, CopiesInv, SameElsewhere
  <2>2. \A m \in {db[j].mapping, mem[j].mapping, work[j].mapping} \ {None} :
          m \in Mappings /\ mapOwner[m] = j
    BY DEF LeakInv, MappingInv, TypeOK, Checkpoints
  <2>3. MappingInv(j)'
    BY <1>1, <2>2 DEF MappingInv, SameElsewhere, MappingsStay
  <2> QED
    BY <2>1, <2>3
<1>2. LostAddrs' \subseteq LostAddrs \cup A
  <2> SUFFICES ASSUME NEW a \in Addrs \ A, ipState'[a] = "RESERVED", ~KnowsAddr(ipOwner[a], a)'
               PROVE  ipState[a] = "RESERVED" /\ ~KnowsAddr(ipOwner[a], a)
    BY DEF LostAddrs
  <2>1. ipState[a] = "RESERVED" /\ ipOwner'[a] = ipOwner[a]
    BY DEF AddrsStay, KnowsAddr
  <2>2. ipOwner[a] \in Instances
    BY <2>1 DEF TypeOK
  <2>3. CASE ipOwner[a] = i
    BY <2>1, <2>3 DEF LosesAtMost, KnowsAddr
  <2>4. CASE ipOwner[a] # i
    BY <2>1, <2>2, <2>4 DEF SameElsewhere, KnowsAddr
  <2> QED
    BY <2>1, <2>3, <2>4
<1>3. LostMappings' \subseteq LostMappings \cup M
  <2> SUFFICES ASSUME NEW m \in Mappings \ M, Live(m)', ~KnowsMapping(mapOwner[m], m)'
               PROVE  Live(m) /\ ~KnowsMapping(mapOwner[m], m)
    BY DEF LostMappings, Live
  <2>1. Live(m) /\ mapOwner'[m] = mapOwner[m]
    BY DEF MappingsStay, KnowsMapping
  <2>2. mapOwner[m] \in Instances
    BY <2>1 DEF LeakInv, Live, TypeOK
  <2>3. CASE mapOwner[m] = i
    BY <2>1, <2>3 DEF LosesAtMost, KnowsMapping
  <2>4. CASE mapOwner[m] # i
    BY <2>1, <2>2, <2>4 DEF SameElsewhere, KnowsMapping
  <2> QED
    BY <2>1, <2>3, <2>4
<1>4. LossInv'
  BY <1>2, <1>3, LossesAdd DEF LeakInv
<1> QED
  BY <1>1, <1>4 DEF LeakInv, MappingsStay

(* Nothing is lost. *)
LEMMA NothingLost ==
  ASSUME TypeOK, TypeOK', LeakInv, NEW i \in Instances,
         SameElsewhere(i), AddrsStay(i), MappingsStay(i), CopiesInv(i)', MappingInv(i)',
         LosesAtMost(i, {}, {}), Fault \/ NoFault
  PROVE  LeakInv'
<1>1. Cardinality({}) = 0
  BY FS_EmptySet
<1>2. 0 + 0 + faults <= faults'
  BY DEF Fault, NoFault, TypeOK
<1> QED
  BY <1>1, <1>2, WorkerLosses

(* One address or one mapping is lost, to a fault. *)
LEMMA OneLost ==
  ASSUME TypeOK, TypeOK', LeakInv, NEW i \in Instances,
         SameElsewhere(i), AddrsStay(i), MappingsStay(i), CopiesInv(i)', MappingInv(i)', Fault,
         \/ \E a \in Addrs : LosesAtMost(i, {a}, {})
         \/ \E m \in Mappings : LosesAtMost(i, {}, {m})
  PROVE  LeakInv'
<1>1. Cardinality({}) = 0 /\ (\A x : Cardinality({x}) = 1)
  BY FS_EmptySet, FS_Singleton
<1>2. 1 + 0 + faults <= faults' /\ 0 + 1 + faults <= faults'
  BY DEF Fault, TypeOK
<1>3. ASSUME NEW a \in Addrs, LosesAtMost(i, {a}, {})
      PROVE  LeakInv'
  <2>1. /\ {a} \in SUBSET Addrs /\ {} \in SUBSET Mappings
        /\ Cardinality({a}) + Cardinality({}) + faults <= faults'
    BY <1>1, <1>2
  <2> QED
    BY <1>3, <2>1, WorkerLosses
<1>4. ASSUME NEW m \in Mappings, LosesAtMost(i, {}, {m})
      PROVE  LeakInv'
  <2>1. /\ {} \in SUBSET Addrs /\ {m} \in SUBSET Mappings
        /\ Cardinality({}) + Cardinality({m}) + faults <= faults'
    BY <1>1, <1>2
  <2> QED
    BY <1>4, <2>1, WorkerLosses
<1> QED
  BY <1>3, <1>4

(* Nobody loses or gets anything while the outside world stays. *)
LEMMA OutsideStays ==
  ASSUME LeakInv, NEW i \in Instances, UNCHANGED outside
  PROVE  AddrsStay(i) /\ MappingsStay(i)
BY DEF LeakInv, AddrsStay, MappingsStay, Live

(* The working copy has nothing outside that the row does not have. *)
Synced(i) == work[i].ip = db[i].ip /\ work[i].mapping = db[i].mapping

(* A worker that gives up forgets its working copy; at most one address or  *)
(* one mapping is only there.                                               *)
LEMMA LeaveLosses ==
  ASSUME ProvisioningInv, TypeOK', LeakInv, NEW i \in Instances, Leave(i),
         UNCHANGED <<db, inst, outside>>, Fault \/ (NoFault /\ Synced(i))
  PROVE  LeakInv'
<1> USE DEF Leave, Goto
<1>1. CopiesInv(i) /\ MappingInv(i) /\ TypeOK
  BY DEF LeakInv, ProvisioningInv
<1>2. /\ work'[i] = Blank /\ mem'[i] = Blank /\ pc'[i] = "idle"
      /\ db'[i] = db[i] /\ inst'[i] = inst[i]
  BY <1>1 DEF TypeOK
<1>3. SameElsewhere(i)
  BY <1>1 DEF SameElsewhere, TypeOK
<1>4. CopiesInv(i)'
  BY <1>1, <1>2 DEF CopiesInv, StepPcs
<1>5. MappingInv(i)'
  BY <1>1, <1>2 DEF MappingInv, Blank
<1>6. AddrsStay(i) /\ MappingsStay(i)
  BY OutsideStays
<1>7. /\ \A a \in Addrs : KnowsAddr(i, a)' <=> db[i].ip = a
      /\ \A m \in Mappings : KnowsMapping(i, m)' <=> db[i].mapping = m
  BY <1>2 DEF KnowsAddr, KnowsMapping, Blank, RollbackPcs
<1>8. CASE Synced(i) \/ work[i] = Blank
  <2>1. LosesAtMost(i, {}, {})
    BY <1>7, <1>8 DEF LosesAtMost, KnowsAddr, KnowsMapping, Synced, Blank
  <2> QED
    BY <1>1, <1>3, <1>4, <1>5, <1>6, <2>1, NothingLost
<1>9. CASE ~Synced(i) /\ work[i] # Blank
  <2>1. Fault /\ pc[i] \in StepPcs
    BY <1>1, <1>9 DEF CopiesInv
  <2>2. CASE work[i].ip # db[i].ip
    <3>1. work[i].ip \in Addrs /\ work[i].mapping = db[i].mapping
      BY <1>1, <2>1, <2>2 DEF CopiesInv, Early, TypeOK, Checkpoints
    <3>2. LosesAtMost(i, {work[i].ip}, {})
      BY <1>7, <3>1 DEF LosesAtMost, KnowsAddr, KnowsMapping
    <3> QED
      BY <1>1, <1>3, <1>4, <1>5, <1>6, <2>1, <3>1, <3>2, OneLost
  <2>3. CASE work[i].ip = db[i].ip
    <3>1. work[i].mapping \in Mappings
      BY <1>1, <1>9, <2>1, <2>3 DEF CopiesInv, Synced, TypeOK, Checkpoints
    <3>2. LosesAtMost(i, {}, {work[i].mapping})
      BY <1>7, <2>3 DEF LosesAtMost, KnowsAddr, KnowsMapping
    <3> QED
      BY <1>1, <1>3, <1>4, <1>5, <1>6, <2>1, <3>1, <3>2, OneLost
  <2> QED
    BY <2>2, <2>3
<1> QED
  BY <1>8, <1>9

(* terminalFail: the rollback knows what the copy in memory has.  Besides   *)
(* what is only in the working copy, it misses a mapping that was created   *)
(* in this run.                                                             *)
LEMMA TerminalFailLosses ==
  ASSUME ProvisioningInv, TypeOK', LeakInv, NEW i \in Instances, TerminalFail(i), pc[i] \in StepPcs,
         UNCHANGED <<db, inst, outside>>,
         \/ Fault
         \/ NoFault /\ Synced(i) /\ (mem[i].mapping = db[i].mapping \/ ~Live(db[i].mapping))
  PROVE  LeakInv'
<1> USE DEF TerminalFail, Goto
<1>1. CopiesInv(i) /\ MappingInv(i) /\ TypeOK
  BY DEF LeakInv, ProvisioningInv
<1>2. /\ work'[i] = Blank /\ mem'[i] = mem[i] /\ pc'[i] = "rbvm"
      /\ db'[i] = db[i] /\ inst'[i] = inst[i]
  BY <1>1 DEF TypeOK
<1>3. SameElsewhere(i)
  BY <1>1 DEF SameElsewhere, TypeOK
<1>4. CopiesInv(i)'
  BY <1>1, <1>2 DEF CopiesInv, StepPcs
<1>5. MappingInv(i)'
  BY <1>1, <1>2 DEF MappingInv, Blank
<1>6. AddrsStay(i) /\ MappingsStay(i)
  BY OutsideStays
<1>7. /\ \A a \in Addrs : KnowsAddr(i, a)' <=> db[i].ip = a
      /\ \A m \in Mappings : KnowsMapping(i, m)' <=> db[i].mapping = m /\ mem[i].mapping = m
  BY <1>1, <1>2 DEF KnowsAddr, KnowsMapping, CopiesInv, Blank, RollbackPcs
<1>8. /\ \A a \in Addrs : KnowsAddr(i, a) <=> db[i].ip = a \/ work[i].ip = a
      /\ \A m \in Mappings : KnowsMapping(i, m) <=> db[i].mapping = m \/ work[i].mapping = m
  BY DEF KnowsAddr, KnowsMapping, StepPcs, RollbackPcs
<1>9. CASE Synced(i) /\ (mem[i].mapping = db[i].mapping \/ ~Live(db[i].mapping))
  <2>1. \A m \in Mappings : Live(m)' <=> Live(m)
    BY DEF Live
  <2>2. LosesAtMost(i, {}, {})
    BY <1>7, <1>8, <1>9, <2>1 DEF LosesAtMost, Synced
  <2> QED
    BY <1>1, <1>3, <1>4, <1>5, <1>6, <2>2, NothingLost
<1>10. CASE Fault /\ work[i].ip # db[i].ip
  <2>1. work[i].ip \in Addrs /\ work[i].mapping = db[i].mapping /\ mem[i].mapping = db[i].mapping
    BY <1>1, <1>10 DEF CopiesInv, Early, TypeOK, Checkpoints
  <2>2. LosesAtMost(i, {work[i].ip}, {})
    BY <1>7, <1>8, <2>1 DEF LosesAtMost
  <2> QED
    BY <1>1, <1>3, <1>4, <1>5, <1>6, <1>10, <2>1, <2>2, OneLost
<1>11. CASE Fault /\ work[i].ip = db[i].ip /\ (~Synced(i) \/ mem[i].mapping # db[i].mapping)
  <2>1. work[i].mapping \in Mappings /\ db[i].mapping \in {work[i].mapping, None}
    BY <1>1, <1>11 DEF CopiesInv, Synced, TypeOK, Checkpoints
  <2>2. LosesAtMost(i, {}, {work[i].mapping})
    BY <1>7, <1>8, <1>11, <2>1 DEF LosesAtMost
  <2> QED
    BY <1>1, <1>3, <1>4, <1>5, <1>6, <1>11, <2>1, <2>2, OneLost
<1> QED
  BY <1>9, <1>10, <1>11 DEF Synced

(* A handler that fails without a fault has left nothing half done. *)
LEMMA HandlerFailsLosses ==
  ASSUME ProvisioningInv, TypeOK', LeakInv, NEW i \in Instances, HandlerFails(i), pc[i] \in StepPcs,
         \/ Fault
         \/ NoFault /\ Synced(i) /\ (mem[i].mapping = db[i].mapping \/ ~Live(db[i].mapping))
  PROVE  LeakInv'
BY LeaveLosses, TerminalFailLosses DEF HandlerFails, FailOrRetry

-----------------------------------------------------------------------------
(* The loop around the handlers *)

(* Claim reads the row and its checkpoint together. *)
LEMMA ClaimLosses ==
  ASSUME ProvisioningInv, TypeOK', LeakInv, NEW i \in Instances, Claim(i)
  PROVE  LeakInv'
<1> USE DEF Claim, Goto
<1>1. CopiesInv(i) /\ MappingInv(i) /\ TypeOK
  BY DEF LeakInv, ProvisioningInv
<1>2. /\ work'[i] = db[i] /\ mem'[i] = db[i] /\ pc[i] = "idle" /\ pc'[i] = "step"
      /\ db'[i] = db[i] /\ inst'[i] = inst[i]
  BY <1>1 DEF TypeOK
<1>3. SameElsewhere(i)
  BY <1>1 DEF SameElsewhere, TypeOK
<1>4. CopiesInv(i)' /\ MappingInv(i)'
  BY <1>1, <1>2 DEF CopiesInv, MappingInv, StepPcs
<1>5. AddrsStay(i) /\ MappingsStay(i)
  BY OutsideStays
<1>6. LosesAtMost(i, {}, {})
  BY <1>1, <1>2 DEF LosesAtMost, KnowsAddr, KnowsMapping, CopiesInv, StepPcs, RollbackPcs, Blank
<1> QED
  BY <1>1, <1>3, <1>4, <1>5, <1>6, NothingLost DEF NoFault

(* A manual retry touches the job row alone. *)
LEMMA RequeueLosses ==
  ASSUME TypeOK, TypeOK', LeakInv, NEW i \in Instances, Requeue(i)
  PROVE  LeakInv'
<1>1. SameElsewhere(i) /\ CopiesInv(i)' /\ MappingInv(i)' /\ AddrsStay(i) /\ MappingsStay(i)
  BY OutsideStays DEF Requeue, LeakInv, SameElsewhere, CopiesInv, MappingInv
<1>2. LosesAtMost(i, {}, {})
  BY DEF Requeue, LosesAtMost, KnowsAddr, KnowsMapping
<1> QED
  BY <1>1, <1>2, NothingLost DEF NoFault, Requeue

(* A job that succeeds has everything in its row. *)
LEMMA FinishLosses ==
  ASSUME ProvisioningInv, TypeOK', LeakInv, NEW i \in Instances, Finish(i)
  PROVE  LeakInv'
<1>1. Synced(i)
  BY DEF Finish, LeakInv, CopiesInv, Synced, StepPcs
<1> QED
  BY <1>1, LeaveLosses DEF Finish, NoFault

(* A crash loses the copies, and pays for it. *)
LEMMA CrashLosses ==
  ASSUME ProvisioningInv, TypeOK', LeakInv, NEW i \in Instances, Crash(i)
  PROVE  LeakInv'
BY LeaveLosses DEF Crash

(* A failed call loses what only the working copy has, and pays for it. *)
LEMMA CallFailsLosses ==
  ASSUME ProvisioningInv, TypeOK', LeakInv, NEW i \in Instances, CallFails(i)
  PROVE  LeakInv'
BY HandlerFailsLosses DEF CallFails

(* Between handlers the copies agree, so a refused transition loses nothing. *)
LEMMA InvalidTransitionLosses ==
  ASSUME ProvisioningInv, TypeOK', LeakInv, NEW i \in Instances, InvalidTransition(i)
  PROVE  LeakInv'
<1>1. Synced(i) /\ mem[i].mapping = db[i].mapping
  BY DEF InvalidTransition, LeakInv, CopiesInv, Synced, StepPcs
<1> QED
  BY <1>1, TerminalFailLosses DEF InvalidTransition, NoFault, StepPcs

(* A refused commit is that of CLONING, where the copies agree. *)
LEMMA CommitRefusedLosses ==
  ASSUME ProvisioningInv, TypeOK', LeakInv, NEW i \in Instances, CommitRefused(i)
  PROVE  LeakInv'
<1>1. Synced(i) /\ mem[i].mapping = db[i].mapping
  BY DEF CommitRefused, VmidTaken, LeakInv, CopiesInv, Synced, StepPcs
<1> QED
  BY <1>1, HandlerFailsLosses DEF CommitRefused, StepPcs

(* SaveCheckpoint records what only the working copy had. *)
LEMMA SaveCheckpointLosses ==
  ASSUME ProvisioningInv, TypeOK', LeakInv, NEW i \in Instances, SaveCheckpoint(i)
  PROVE  LeakInv'
<1> USE DEF SaveCheckpoint, Goto
<1>1. CopiesInv(i) /\ MappingInv(i) /\ TypeOK /\ inst[i] \in {"CLONING", "CONFIGURING", "NETWORK_BINDING"}
  BY DEF LeakInv, ProvisioningInv, InstanceInv, FlowInv
<1>2. /\ work'[i] = work[i] /\ mem'[i] = mem[i] /\ pc[i] = "save" /\ pc'[i] = "step"
      /\ db'[i] = work[i] /\ inst'[i] = inst[i]
  BY <1>1 DEF TypeOK
<1>3. SameElsewhere(i)
  BY <1>1 DEF SameElsewhere, TypeOK
<1>4. CopiesInv(i)' /\ MappingInv(i)'
  BY <1>1, <1>2 DEF CopiesInv, MappingInv, StepPcs, Early
<1>5. AddrsStay(i) /\ MappingsStay(i)
  BY OutsideStays
<1>6. LosesAtMost(i, {}, {})
  BY <1>1, <1>2 DEF LosesAtMost, KnowsAddr, KnowsMapping, CopiesInv, StepPcs, RollbackPcs
<1> QED
  BY <1>1, <1>3, <1>4, <1>5, <1>6, NothingLost DEF NoFault

(* The transaction of a transition writes the working copy, so that only a  *)
(* successor of REQUESTED has no address, and no copy has anything the row  *)
(* does not have.                                                           *)
LEMMA PersistCopies ==
  ASSUME ProvisioningInv, LeakInv, NEW i \in Instances, Persist(i)
  PROVE  /\ db'[i] = work[i] /\ work[i].mapping = db[i].mapping
         /\ work[i].ip = db[i].ip \/ (inst[i] = "RESERVING" /\ db[i].ip = None)
         /\ inst'[i] \in Early => work[i].ip = None /\ work[i].mapping = None
<1>1. CopiesInv(i) /\ TypeOK /\ pc[i] = "commit" /\ Successor(inst[i], next[i])
  BY DEF Persist, LeakInv, ProvisioningInv, InstanceInv, FlowInv
<1>2. db'[i] = work[i] /\ inst'[i] = next[i]
  BY <1>1 DEF Persist, TypeOK
<1>3. next[i] \in Early => inst[i] = "REQUESTED"
  BY <1>1 DEF Successor, Early, Validating, AfterPass
<1> QED
  BY <1>1, <1>2, <1>3 DEF CopiesInv, StepPcs, Early

(* After the transaction the row has what the working copy had, and the     *)
(* copy in memory is refreshed.                                             *)
LEMMA CommitLosses ==
  ASSUME ProvisioningInv, TypeOK', LeakInv, NEW i \in Instances, Commit(i)
  PROVE  LeakInv'
<1> USE DEF Commit, Goto
<1>1. CopiesInv(i) /\ MappingInv(i) /\ TypeOK /\ pc[i] = "commit"
  BY DEF LeakInv, ProvisioningInv, Persist
<1>2. /\ work'[i] = work[i] /\ mem'[i] = work[i] /\ pc'[i] = "step" /\ db'[i] = work[i]
      /\ work[i].mapping = db[i].mapping
      /\ work[i].ip = db[i].ip \/ (inst[i] = "RESERVING" /\ db[i].ip = None)
      /\ inst'[i] \in Early => work[i].ip = None /\ work[i].mapping = None
  BY <1>1, PersistCopies DEF TypeOK
<1>3. SameElsewhere(i)
  BY <1>1 DEF SameElsewhere, TypeOK, Persist
<1>4. CopiesInv(i)' /\ MappingInv(i)'
  BY <1>1, <1>2 DEF CopiesInv, MappingInv, StepPcs
<1>5. AddrsStay(i) /\ MappingsStay(i)
  BY OutsideStays
<1>6. LosesAtMost(i, {}, {})
  BY <1>1, <1>2 DEF LosesAtMost, KnowsAddr, KnowsMapping, StepPcs, RollbackPcs
<1> QED
  BY <1>1, <1>3, <1>4, <1>5, <1>6, NothingLost DEF NoFault

(* When the reply is lost the row has everything; a rollback from the copy  *)
(* in memory misses the address reserved, or the mapping created, in this   *)
(* run.                                                                     *)
LEMMA CommitUnansweredLosses ==
  ASSUME ProvisioningInv, TypeOK', LeakInv, NEW i \in Instances, CommitUnanswered(i)
  PROVE  LeakInv'
<1> USE DEF CommitUnanswered, FailOrRetry, Goto
<1>1. CopiesInv(i) /\ MappingInv(i) /\ TypeOK /\ pc[i] = "commit" /\ Fault
  BY DEF LeakInv, ProvisioningInv, Persist
<1>2. /\ work'[i] = Blank /\ db'[i] = work[i] /\ work[i].mapping = db[i].mapping
      /\ work[i].ip = db[i].ip \/ (inst[i] = "RESERVING" /\ db[i].ip = None)
      /\ inst'[i] \in Early => work[i].ip = None /\ work[i].mapping = None
      /\ \/ pc'[i] = "idle" /\ mem'[i] = Blank
         \/ pc'[i] = "rbvm" /\ mem'[i] = mem[i]
  BY <1>1, PersistCopies DEF TypeOK, Leave, TerminalFail
<1>3. SameElsewhere(i)
  BY <1>1 DEF SameElsewhere, TypeOK, Persist, Leave, TerminalFail
<1>4. CopiesInv(i)' /\ MappingInv(i)'
  BY <1>1, <1>2 DEF CopiesInv, MappingInv, StepPcs, Blank
<1>5. AddrsStay(i) /\ MappingsStay(i)
  BY OutsideStays
<1>6. CASE pc'[i] = "idle" \/ (mem[i].ip = work[i].ip /\ mem[i].mapping = work[i].mapping)
  <2>1. LosesAtMost(i, {}, {})
    BY <1>1, <1>2, <1>6 DEF LosesAtMost, KnowsAddr, KnowsMapping, StepPcs, RollbackPcs
  <2> QED
    BY <1>1, <1>3, <1>4, <1>5, <2>1, NothingLost
<1>7. CASE pc'[i] = "rbvm" /\ mem[i].ip # work[i].ip
  <2>1. work[i].ip \in Addrs /\ mem[i].mapping = work[i].mapping
    BY <1>1, <1>2, <1>7 DEF CopiesInv, StepPcs, TypeOK, Checkpoints
  <2>2. LosesAtMost(i, {work[i].ip}, {})
    BY <1>1, <1>2, <1>7, <2>1 DEF LosesAtMost, KnowsAddr, KnowsMapping, StepPcs, RollbackPcs
  <2> QED
    BY <1>1, <1>3, <1>4, <1>5, <2>1, <2>2, OneLost
<1>8. CASE pc'[i] = "rbvm" /\ mem[i].ip = work[i].ip /\ mem[i].mapping # work[i].mapping
  <2>1. work[i].mapping \in Mappings /\ mem[i].mapping = None
    BY <1>1, <1>2, <1>8 DEF CopiesInv, StepPcs, TypeOK, Checkpoints
  <2>2. LosesAtMost(i, {}, {work[i].mapping})
    BY <1>1, <1>2, <1>8, <2>1 DEF LosesAtMost, KnowsAddr, KnowsMapping, StepPcs, RollbackPcs
  <2> QED
    BY <1>1, <1>3, <1>4, <1>5, <2>1, <2>2, OneLost
<1> QED
  BY <1>2, <1>6, <1>7, <1>8

-----------------------------------------------------------------------------
(* The handlers *)

(* Nothing comes into use, and mappings that exist go on existing. *)
NothingNew ==
  /\ \A a \in Addrs : ipState'[a] = "RESERVED" => ipState[a] = "RESERVED" /\ ipOwner'[a] = ipOwner[a]
  /\ UNCHANGED mapOwner
  /\ \A m \in Mappings : /\ mapState'[m] = "ABSENT" <=> mapState[m] = "ABSENT"
                         /\ Live(m)' => Live(m)

(* A handler that keeps the address and the mapping of its working copy     *)
(* loses nothing.                                                           *)
LEMMA HandlerLosses ==
  ASSUME ProvisioningInv, TypeOK', LeakInv, NEW i \in Instances, Inside,
         pc[i] \in StepPcs \ {"save"}, NEW l \in StepPcs \ {"step"}, Goto(i, l),
         NEW w, work' = [work EXCEPT ![i] = w], w.ip = work[i].ip, w.mapping = work[i].mapping,
         NothingNew, Fault \/ NoFault
  PROVE  LeakInv'
<1> USE DEF Inside, Goto
<1>1. CopiesInv(i) /\ MappingInv(i) /\ TypeOK
  BY DEF LeakInv, ProvisioningInv
<1>2. /\ work'[i] = w /\ mem'[i] = mem[i] /\ pc'[i] = l
      /\ db'[i] = db[i] /\ inst'[i] = inst[i]
  BY <1>1 DEF TypeOK
<1>3. SameElsewhere(i)
  BY <1>1 DEF SameElsewhere, TypeOK
<1>4. CopiesInv(i)' /\ MappingInv(i)'
  BY <1>1, <1>2 DEF CopiesInv, MappingInv, NothingNew
<1>5. AddrsStay(i) /\ MappingsStay(i)
  BY DEF NothingNew, AddrsStay, MappingsStay, LeakInv
<1>6. LosesAtMost(i, {}, {})
  BY <1>2 DEF LosesAtMost, KnowsAddr, KnowsMapping, StepPcs, RollbackPcs
<1> QED
  BY <1>1, <1>3, <1>4, <1>5, <1>6, NothingLost

(* The same for a handler that leaves the working copy alone. *)
LEMMA ReadingHandlerLosses ==
  ASSUME ProvisioningInv, TypeOK', LeakInv, NEW i \in Instances, Inside, UNCHANGED work,
         pc[i] \in StepPcs \ {"save"}, NEW l \in StepPcs \ {"step"}, Goto(i, l),
         NothingNew, Fault \/ NoFault
  PROVE  LeakInv'
<1>1. work' = [work EXCEPT ![i] = work[i]]
  BY DEF ProvisioningInv, TypeOK
<1> QED
  BY <1>1, HandlerLosses

(* A handler that fails between two stashes has everything in the row. *)
LEMMA StepFailsLosses ==
  ASSUME ProvisioningInv, TypeOK', LeakInv, NEW i \in Instances, HandlerFails(i) /\ NoFault,
         pc[i] = "step", inst[i] # "NETWORK_BINDING" \/ ~Live(db[i].mapping)
  PROVE  LeakInv'
<1>1. Synced(i) /\ (mem[i].mapping = db[i].mapping \/ ~Live(db[i].mapping))
  BY DEF LeakInv, CopiesInv, Synced, StepPcs
<1> QED
  BY <1>1, HandlerFailsLosses DEF StepPcs

(* A field other than the address and the mapping *)
LEMMA OtherFields ==
  ASSUME NEW c \in Checkpoints
  PROVE  /\ \A v \in Vmids : [c EXCEPT !.vmid = v].ip = c.ip /\ [c EXCEPT !.vmid = v].mapping = c.mapping
         /\ \A k \in {"started", "doomed"} :
              [c EXCEPT !.clone = k].ip = c.ip /\ [c EXCEPT !.clone = k].mapping = c.mapping
         /\ \A k \in {"started", "doomed"} :
              [c EXCEPT !.config = k].ip = c.ip /\ [c EXCEPT !.config = k].mapping = c.mapping
         /\ [c EXCEPT !.client = TRUE].ip = c.ip /\ [c EXCEPT !.client = TRUE].mapping = c.mapping
BY DEF Checkpoints

(* The address reserved is in use, and in the working copy. *)
LEMMA ReserveAddressLosses ==
  ASSUME ProvisioningInv, TypeOK', LeakInv, NEW i \in Instances, ReserveAddress(i)
  PROVE  LeakInv'
<1>1. CopiesInv(i) /\ MappingInv(i) /\ TypeOK /\ pc[i] = "step" /\ inst[i] = "RESERVING"
  BY DEF LeakInv, ProvisioningInv, ReserveAddress, At
<1>2. CASE HandlerFails(i) /\ NoFault
  BY <1>1, <1>2, StepFailsLosses
<1>3. ASSUME NEW a \in Addrs, ipState[a] = "FREE",
             ipState' = [ipState EXCEPT ![a] = "RESERVED"], ipOwner' = [ipOwner EXCEPT ![a] = i],
             work' = [work EXCEPT ![i].ip = a], Goto(i, "nextid"),
             Inside, UNCHANGED <<ipOld, vms, maps, next, faults>>
      PROVE  LeakInv'
  <2> USE <1>3 DEF Inside, Goto
  <2>1. /\ work'[i] = [work[i] EXCEPT !.ip = a] /\ work[i] \in Checkpoints
        /\ mem'[i] = mem[i] /\ pc'[i] = "nextid" /\ db'[i] = db[i] /\ inst'[i] = inst[i]
    BY <1>1 DEF TypeOK
  <2>2. work'[i].ip = a /\ work'[i].mapping = work[i].mapping /\ db[i].ip = None /\ work[i].ip = None
    BY <1>1, <2>1 DEF Checkpoints, CopiesInv, Early
  <2>3. SameElsewhere(i)
    BY <1>1 DEF SameElsewhere, TypeOK
  <2>4. CopiesInv(i)' /\ MappingInv(i)'
    BY <1>1, <2>1, <2>2 DEF CopiesInv, MappingInv, StepPcs
  <2>5. AddrsStay(i) /\ MappingsStay(i)
    BY <1>1, <2>2 DEF AddrsStay, MappingsStay, LeakInv, Live, KnowsAddr, TypeOK
  <2>6. LosesAtMost(i, {}, {})
    BY <1>1, <2>1, <2>2 DEF LosesAtMost, KnowsAddr, KnowsMapping, StepPcs, RollbackPcs
  <2> QED
    BY <1>1, <2>3, <2>4, <2>5, <2>6, NothingLost DEF NoFault
<1> QED
  BY <1>2, <1>3 DEF ReserveAddress

(* The mapping created is in use, and in the working copy. *)
LEMMA CreateMappingLosses ==
  ASSUME ProvisioningInv, TypeOK', LeakInv, NEW i \in Instances, CreateMapping(i)
  PROVE  LeakInv'
<1> USE DEF CreateMapping, At, Stash, Goto, Inside
<1>1. CopiesInv(i) /\ MappingInv(i) /\ TypeOK
  BY DEF LeakInv, ProvisioningInv
<1>2. PICK m \in Mappings : /\ mapState[m] = "ABSENT"
                            /\ mapState' = [mapState EXCEPT ![m] = "INACTIVE"]
                            /\ mapOwner' = [mapOwner EXCEPT ![m] = i]
                            /\ work' = [work EXCEPT ![i] = [work[i] EXCEPT !.mapping = m]]
  BY DEF First
<1>3. /\ work'[i] = [work[i] EXCEPT !.mapping = m] /\ work[i] \in Checkpoints
      /\ mem'[i] = mem[i] /\ pc'[i] = "save" /\ db'[i] = db[i] /\ inst'[i] = inst[i]
  BY <1>1, <1>2 DEF TypeOK
<1>4. /\ work'[i].mapping = m /\ work'[i].ip = work[i].ip
      /\ work[i].mapping = None /\ db[i].mapping = None /\ work[i].ip = db[i].ip
  BY <1>1, <1>3 DEF Checkpoints, CopiesInv, StepPcs
<1>5. SameElsewhere(i)
  BY <1>1, <1>2 DEF SameElsewhere, TypeOK
<1>6. CopiesInv(i)'
  BY <1>1, <1>3, <1>4 DEF CopiesInv, StepPcs
<1>7. MappingInv(i)'
  BY <1>1, <1>2, <1>3, <1>4 DEF MappingInv, CopiesInv, StepPcs, TypeOK
<1>8. AddrsStay(i) /\ MappingsStay(i)
  BY <1>1, <1>2, <1>4 DEF AddrsStay, MappingsStay, LeakInv, Live, KnowsMapping, TypeOK
<1>9. LosesAtMost(i, {}, {})
  BY <1>1, <1>3, <1>4 DEF LosesAtMost, KnowsAddr, KnowsMapping, StepPcs, RollbackPcs
<1> QED
  BY <1>1, <1>5, <1>6, <1>7, <1>8, <1>9, NothingLost DEF NoFault

(* A mapping that can no longer be activated is not lost when the handler   *)
(* gives up.                                                                *)
LEMMA ActivateMappingLosses ==
  ASSUME ProvisioningInv, TypeOK', LeakInv, NEW i \in Instances, ActivateMapping(i)
  PROVE  LeakInv'
<1> USE DEF ActivateMapping, At
<1>1. CASE mapState[work[i].mapping] # "DELETED"
  <2>1. mapState' = [mapState EXCEPT ![work[i].mapping] = "ACTIVE"] /\ Done(i, "BOOTING")
        /\ Inside /\ UNCHANGED <<ips, vms, mapOwner, work, faults>>
    BY <1>1
  <2>2. work[i].mapping \in Mappings /\ mapOwner[work[i].mapping] = i
    BY DEF LeakInv, MappingInv, ProvisioningInv, TypeOK, Checkpoints
  <2>3. mapState[work[i].mapping] # "ABSENT"
    BY <2>2 DEF LeakInv
  <2>4. NothingNew
    BY <1>1, <2>1, <2>2, <2>3 DEF NothingNew, Live, ProvisioningInv, TypeOK
  <2> QED
    BY <2>1, <2>4, ReadingHandlerLosses DEF Done, StepPcs, NoFault
<1>2. CASE HandlerFails(i) /\ NoFault /\ mapState[work[i].mapping] = "DELETED"
  <2>1. ~Live(db[i].mapping)
    BY <1>2 DEF LeakInv, CopiesInv, StepPcs, Live
  <2> QED
    BY <1>2, <2>1, StepFailsLosses
<1> QED
  BY <1>1, <1>2

(* The handlers that touch no address and no mapping *)
LEMMA PlainHandlerLosses ==
  ASSUME ProvisioningInv, TypeOK', LeakInv, NEW i \in Instances,
         \/ Requested(i) \/ AllocateVmid(i) \/ Clone(i) \/ AwaitClone(i) \/ Configure(i)
         \/ AwaitConfigure(i) \/ CreateClient(i) \/ Boot(i) \/ ValidatePass(i)
  PROVE  LeakInv'
<1> USE DEF At, Done, Stash
<1>1. work[i] \in Checkpoints
  BY DEF ProvisioningInv, TypeOK, Checkpoints
<1>2. ASSUME UNCHANGED <<ips, maps>> PROVE NothingNew
  BY <1>2 DEF NothingNew, Live
<1>3. CASE Requested(i)
  BY <1>2, <1>3, ReadingHandlerLosses DEF Requested, StepPcs, NoFault
<1>4. CASE AllocateVmid(i)
  <2>1. PICK v \in Vmids : work' = [work EXCEPT ![i] = [work[i] EXCEPT !.vmid = v]]
    BY <1>4 DEF AllocateVmid
  <2>2. /\ pc[i] \in StepPcs \ {"save"} /\ "commit" \in StepPcs \ {"step"} /\ Goto(i, "commit")
        /\ Inside /\ NothingNew /\ NoFault
    BY <1>2, <1>4 DEF AllocateVmid, StepPcs, NoFault
  <2>3. /\ [work[i] EXCEPT !.vmid = v].ip = work[i].ip
        /\ [work[i] EXCEPT !.vmid = v].mapping = work[i].mapping
    BY <1>1, OtherFields
  <2> QED
    BY <2>1, <2>2, <2>3, HandlerLosses
<1>5. CASE Clone(i)
  <2>1. CASE HandlerFails(i) /\ NoFault
    BY <1>5, <2>1, StepFailsLosses DEF Clone
  <2>2. ASSUME NEW k \in {"started", "doomed"}, Stash(i, [work[i] EXCEPT !.clone = k]), Inside,
               UNCHANGED <<ips, maps>>, Fault \/ NoFault
        PROVE  LeakInv'
    BY <1>1, <1>2, <1>5, <2>2, OtherFields, HandlerLosses DEF Clone, StepPcs
  <2> QED
    BY <1>5, <2>1, <2>2 DEF Clone, NoFault
<1>6. CASE AwaitClone(i)
  BY <1>2, <1>6, ReadingHandlerLosses, StepFailsLosses DEF AwaitClone, StepPcs, NoFault
<1>7. CASE Configure(i)
  <2>1. CASE HandlerFails(i) /\ NoFault
    BY <1>7, <2>1, StepFailsLosses DEF Configure
  <2>2. ASSUME NEW k \in {"started", "doomed"}, Stash(i, [work[i] EXCEPT !.config = k]), Inside,
               UNCHANGED outside, Fault \/ NoFault
        PROVE  LeakInv'
    BY <1>1, <1>2, <1>7, <2>2, OtherFields, HandlerLosses DEF Configure, StepPcs
  <2> QED
    BY <1>7, <2>1, <2>2 DEF Configure
<1>8. CASE AwaitConfigure(i)
  BY <1>2, <1>8, ReadingHandlerLosses, StepFailsLosses DEF AwaitConfigure, StepPcs, NoFault
<1>9. CASE CreateClient(i)
  BY <1>1, <1>2, <1>9, OtherFields, HandlerLosses DEF CreateClient, StepPcs, NoFault
<1>10. CASE Boot(i)
  <2>1. CASE HandlerFails(i) /\ NoFault
    BY <1>10, <2>1, StepFailsLosses DEF Boot
  <2>2. CASE vmOwner[work[i].vmid] # None
    BY <1>2, <1>10, <2>2, HandlerLosses DEF Boot, BootedCheckpoint, StepPcs, NoFault
  <2> QED
    BY <1>10, <2>1, <2>2 DEF Boot
<1>11. CASE ValidatePass(i)
  BY <1>2, <1>11, ReadingHandlerLosses DEF ValidatePass, StepPcs, NoFault
<1> QED
  BY <1>3, <1>4, <1>5, <1>6, <1>7, <1>8, <1>9, <1>10, <1>11

(* What is quarantined is no longer reserved, and the rest stays. *)
LEMMA MarkLosses ==
  ASSUME TypeOK, NEW a, (MarkQuarantined(a) /\ UNCHANGED ipOwner) \/ UNCHANGED <<ipState, ipOwner>>
  PROVE  \A b \in Addrs : ipState'[b] = "RESERVED" => ipState[b] = "RESERVED" /\ ipOwner'[b] = ipOwner[b]
BY DEF TypeOK, MarkQuarantined

(* A bad verdict suspends the mapping, which stays in the row. *)
LEMMA ValidateFailLosses ==
  ASSUME ProvisioningInv, TypeOK', LeakInv, NEW i \in Instances, ValidateFail(i)
  PROVE  LeakInv'
<1> USE DEF ValidateFail
<1>1. CASE HandlerFails(i) /\ NoFault /\ inst[i] = "WAITING_GUEST"
  BY <1>1, StepFailsLosses
<1>2. CASE Goto(i, "isolate") /\ Inside /\ UNCHANGED <<ips, vms, mapOwner, work>>
           /\ (UNCHANGED mapState \/ (/\ mapState[work[i].mapping] = "ACTIVE"
                                      /\ mapState' = [mapState EXCEPT ![work[i].mapping] = "SUSPENDED"]))
  <2>1. NothingNew
    BY <1>2 DEF NothingNew, Live, ProvisioningInv, TypeOK
  <2> QED
    BY <1>2, <2>1, ReadingHandlerLosses DEF StepPcs
<1> QED
  BY <1>1, <1>2

(* MarkQuarantined takes the address out of the reservations. *)
LEMMA IsolateLosses ==
  ASSUME ProvisioningInv, TypeOK', LeakInv, NEW i \in Instances, Isolate(i)
  PROVE  LeakInv'
<1>1. NothingNew
  BY MarkLosses DEF Isolate, NothingNew, Live, ProvisioningInv
<1> QED
  BY <1>1, ReadingHandlerLosses DEF Isolate, StepPcs
-----------------------------------------------------------------------------
(* The rollback *)

(* A step of the rollback knows what the one before knew. *)
LEMMA RollbackLosses ==
  ASSUME ProvisioningInv, TypeOK', LeakInv, NEW i \in Instances, RollbackFrame, UNCHANGED <<db, inst>>,
         pc[i] \in RollbackPcs, NEW l \in RollbackPcs, Goto(i, l), NothingNew, Fault \/ NoFault
  PROVE  LeakInv'
<1> USE DEF RollbackFrame, Goto
<1>1. CopiesInv(i) /\ MappingInv(i) /\ TypeOK
  BY DEF LeakInv, ProvisioningInv
<1>2. SameElsewhere(i)
  BY <1>1 DEF SameElsewhere, TypeOK
<1>3. CopiesInv(i)' /\ MappingInv(i)'
  BY <1>1 DEF CopiesInv, MappingInv, NothingNew, StepPcs, RollbackPcs, TypeOK
<1>4. AddrsStay(i) /\ MappingsStay(i)
  BY DEF NothingNew, AddrsStay, MappingsStay, LeakInv
<1>5. LosesAtMost(i, {}, {})
  BY DEF LosesAtMost, KnowsAddr, KnowsMapping
<1> QED
  BY <1>1, <1>2, <1>3, <1>4, <1>5, NothingLost

(* Freed addresses are not lost, and the others stay. *)
LEMMA FreeLosses ==
  ASSUME TypeOK, NEW S \in SUBSET Addrs, Free(S)
  PROVE  \A b \in Addrs : ipState'[b] = "RESERVED" => ipState[b] = "RESERVED" /\ ipOwner'[b] = ipOwner[b]
BY DEF TypeOK, Free

(* Stopping and deleting the VM touches neither. *)
LEMMA RollbackVMLosses ==
  ASSUME ProvisioningInv, TypeOK', LeakInv, NEW i \in Instances, RollbackVM(i)
  PROVE  LeakInv'
<1>1. NothingNew
  BY DEF RollbackVM, NothingNew, Live
<1>2. pc[i] \in RollbackPcs /\ "rbmapping" \in RollbackPcs /\ Goto(i, "rbmapping") /\ RollbackFrame
      /\ UNCHANGED <<db, inst>> /\ (Fault \/ NoFault)
  BY DEF RollbackVM, RollbackPcs
<1> QED
  BY <1>1, <1>2, RollbackLosses

(* A mapping that is suspended or deleted has not been created anew. *)
LEMMA RollbackMappingLosses ==
  ASSUME ProvisioningInv, TypeOK', LeakInv, NEW i \in Instances, RollbackMapping(i)
  PROVE  LeakInv'
<1>1. ASSUME UNCHANGED mapState
      PROVE  NothingNew
  BY <1>1 DEF RollbackMapping, NothingNew, Live
<1>2. ASSUME mem[i].mapping # None,
             NEW k \in {mapState[mem[i].mapping], "SUSPENDED", "DELETED"},
             mapState[mem[i].mapping] = "DELETED" => k = "DELETED",
             mapState' = [mapState EXCEPT ![mem[i].mapping] = k]
      PROVE  NothingNew
  <2> DEFINE m == mem[i].mapping
  <2>1. m \in Mappings
    BY <1>2 DEF ProvisioningInv, TypeOK, Checkpoints
  <2>2. mapOwner[m] = i
    BY <1>2 DEF LeakInv, MappingInv
  <2>3. mapState[m] # "ABSENT"
    BY <2>1, <2>2 DEF LeakInv
  <2> QED
    BY <1>2, <2>1, <2>3 DEF RollbackMapping, NothingNew, Live, ProvisioningInv, TypeOK
<1>3. NothingNew
  BY <1>1, <1>2 DEF RollbackMapping
<1>4. pc[i] \in RollbackPcs /\ "rbip" \in RollbackPcs /\ Goto(i, "rbip") /\ RollbackFrame
      /\ UNCHANGED <<db, inst>> /\ (Fault \/ NoFault)
  BY DEF RollbackMapping, RollbackPcs
<1> QED
  BY <1>3, <1>4, RollbackLosses

(* The address released is not lost. *)
LEMMA RollbackAddressLosses ==
  ASSUME ProvisioningInv, TypeOK', LeakInv, NEW i \in Instances, RollbackAddress(i)
  PROVE  LeakInv'
<1>1. UNCHANGED ips \/ (mem[i].ip \in Addrs /\ Free({mem[i].ip}))
  <2>1. mem[i].ip \in Addrs \cup {None}
    BY DEF ProvisioningInv, TypeOK, Checkpoints
  <2>2. UNCHANGED ips \/ (mem[i].ip # None /\ Free({mem[i].ip}))
    BY DEF RollbackAddress, MayRelease
  <2> QED
    BY <2>1, <2>2
<1>2. NothingNew
  BY <1>1, FreeLosses DEF RollbackAddress, NothingNew, Live, ProvisioningInv
<1>3. /\ pc[i] \in RollbackPcs /\ RollbackFrame /\ UNCHANGED <<db, inst>> /\ (Fault \/ NoFault)
      /\ \E l \in RollbackPcs : Goto(i, l)
  BY DEF RollbackAddress, RollbackPcs
<1> QED
  BY <1>2, <1>3, RollbackLosses

(* The address quarantined is no longer reserved. *)
LEMMA RollbackQuarantineLosses ==
  ASSUME ProvisioningInv, TypeOK', LeakInv, NEW i \in Instances, RollbackQuarantine(i)
  PROVE  LeakInv'
<1>1. NothingNew
  BY MarkLosses DEF RollbackQuarantine, NothingNew, Live, ProvisioningInv
<1>2. pc[i] \in RollbackPcs /\ "rbend" \in RollbackPcs /\ Goto(i, "rbend") /\ RollbackFrame
      /\ UNCHANGED <<db, inst>> /\ (Fault \/ NoFault)
  BY DEF RollbackQuarantine, RollbackPcs
<1> QED
  BY <1>1, <1>2, RollbackLosses

(* The last transaction of a rollback overwrites the row with the copy in   *)
(* memory: what that does not know was lost when the job failed.            *)
LEMMA RollbackEndLosses ==
  ASSUME ProvisioningInv, TypeOK', LeakInv, NEW i \in Instances, RollbackEnd(i)
  PROVE  LeakInv'
<1> USE DEF RollbackEnd, KeptCheckpoint, Leave, Goto
<1>1. CopiesInv(i) /\ MappingInv(i) /\ TypeOK /\ pc[i] = "rbend"
  BY DEF LeakInv, ProvisioningInv
<1>2. /\ work'[i] = Blank /\ mem'[i] = Blank /\ pc'[i] = "idle"
      /\ db'[i] = mem[i] /\ inst'[i] \in {"FAILED", "QUARANTINED"}
  BY <1>1 DEF TypeOK
<1>3. SameElsewhere(i)
  BY <1>1 DEF SameElsewhere, TypeOK
<1>4. CopiesInv(i)' /\ MappingInv(i)'
  BY <1>1, <1>2 DEF CopiesInv, MappingInv, StepPcs, Early, Blank
<1>5. AddrsStay(i) /\ MappingsStay(i)
  BY OutsideStays
<1>6. LosesAtMost(i, {}, {})
  BY <1>1, <1>2 DEF LosesAtMost, KnowsAddr, KnowsMapping, CopiesInv, StepPcs, RollbackPcs, Blank
<1> QED
  BY <1>1, <1>3, <1>4, <1>5, <1>6, NothingLost DEF NoFault

(* The reaper frees addresses and touches nothing else. *)
LEMMA ReaperLosses ==
  ASSUME TypeOK, TypeOK', LeakInv, (\E a \in Addrs : ReservationExpires(a)) \/ ReleaseExpiredReservations
  PROVE  LeakInv'
<1>1. UNCHANGED <<db, inst, maps, pc, mem, work, faults>>
  BY DEF ReservationExpires, ReleaseExpiredReservations
<1>2. \A b \in Addrs : ipState'[b] = "RESERVED" => ipState[b] = "RESERVED" /\ ipOwner'[b] = ipOwner[b]
  BY FreeLosses DEF ReservationExpires, ReleaseExpiredReservations
<1>3. LostAddrs' \subseteq LostAddrs \cup {} /\ LostMappings' \subseteq LostMappings \cup {}
  BY <1>1, <1>2 DEF LostAddrs, LostMappings, KnowsAddr, KnowsMapping
<1>4. {} \in SUBSET Addrs /\ {} \in SUBSET Mappings /\ Cardinality({}) + Cardinality({}) + faults <= faults'
  BY <1>1, FS_EmptySet DEF TypeOK
<1>5. LossInv'
  BY <1>3, <1>4, LossesAdd DEF LeakInv
<1> QED
  BY <1>1, <1>5 DEF LeakInv, CopiesInv, MappingInv
-----------------------------------------------------------------------------
(* Nothing is lost before anything is reserved. *)
LEMMA InitLosses == Init => LeakInv
<1> SUFFICES ASSUME Init PROVE LeakInv
  OBVIOUS
<1>1. \A i \in Instances : CopiesInv(i) /\ MappingInv(i)
  BY DEF Init, CopiesInv, MappingInv, Blank, StepPcs
<1>2. \A m \in Mappings : mapState[m] = "ABSENT" <=> mapOwner[m] = None
  BY DEF Init
<1>3. LostAddrs = {} /\ LostMappings = {} /\ faults = 0
  BY DEF Init, LostAddrs, LostMappings
<1>4. LossInv
  BY <1>3, FS_EmptySet DEF LossInv
<1> QED
  BY <1>1, <1>2, <1>4 DEF LeakInv

(* Every step pays for what it loses. *)
LEMMA LeakStep == ProvisioningInv /\ ProvisioningInv' /\ LeakInv /\ [Next]_vars => LeakInv'
<1> SUFFICES ASSUME ProvisioningInv, TypeOK, TypeOK', LeakInv, [Next]_vars PROVE LeakInv'
  BY DEF ProvisioningInv
<1>1. CASE UNCHANGED vars
  BY <1>1 DEF vars, LeakInv, CopiesInv, MappingInv, LossInv, LostAddrs, LostMappings, KnowsAddr, KnowsMapping
<1>2. ASSUME NEW i \in Instances, Handler(i)
      PROVE  LeakInv'
  BY <1>2, PlainHandlerLosses, ReserveAddressLosses, CreateMappingLosses, ActivateMappingLosses,
     ValidateFailLosses, IsolateLosses, SaveCheckpointLosses, CommitLosses, CommitRefusedLosses DEF Handler
<1>3. ASSUME NEW i \in Instances, RollbackStep(i)
      PROVE  LeakInv'
  BY <1>3, RollbackVMLosses, RollbackMappingLosses, RollbackAddressLosses, RollbackQuarantineLosses,
     RollbackEndLosses DEF RollbackStep
<1> QED
  BY <1>1, <1>2, <1>3, ClaimLosses, FinishLosses, InvalidTransitionLosses, CallFailsLosses,
     CommitUnansweredLosses, CrashLosses, RequeueLosses, ReaperLosses DEF Next

(* An address or a mapping that neither a row nor a working copy knows was  *)
(* lost.                                                                    *)
LEMMA LeaksAreLosses ==
  ASSUME TypeOK, LossInv
  PROVE  LeaksNeedFaults
<1>1. LeakedAddrs \subseteq LostAddrs /\ LeakedMappings \subseteq LostMappings
  BY DEF LeakedAddrs, LeakedMappings, LostAddrs, LostMappings, KnowsAddr, KnowsMapping
<1>2. IsFiniteSet(LostAddrs) /\ IsFiniteSet(LostMappings)
  BY FiniteAssumption, FS_Subset DEF LostAddrs, LostMappings
<1>3. /\ Cardinality(LeakedAddrs) <= Cardinality(LostAddrs) /\ IsFiniteSet(LeakedAddrs)
      /\ Cardinality(LeakedMappings) <= Cardinality(LostMappings) /\ IsFiniteSet(LeakedMappings)
  BY <1>1, <1>2, FS_Subset
<1>4. /\ Cardinality(LeakedAddrs) \in Nat /\ Cardinality(LostAddrs) \in Nat
      /\ Cardinality(LeakedMappings) \in Nat /\ Cardinality(LostMappings) \in Nat /\ faults \in Nat
  BY <1>2, <1>3, FS_CardinalityType DEF TypeOK
<1> QED
  BY <1>3, <1>4 DEF LossInv, LeaksNeedFaults

(* Rollbacks, refused commits, bad verdicts, exhausted pools and conflicts  *)
(* leak nothing: there are never more addresses and mappings that nobody    *)
(* can find than calls have failed and workers have died.                   *)
THEOREM LeaksAreBounded == Spec => []LeaksNeedFaults
<1>1. Init => ProvisioningInv /\ LeakInv
  BY InitInv, InitLosses
<1>2. ProvisioningInv /\ LeakInv /\ [Next]_vars => (ProvisioningInv /\ LeakInv)'
  BY InvariantStep, LeakStep
<1>3. ProvisioningInv /\ LeakInv => LeaksNeedFaults
  BY LeaksAreLosses DEF ProvisioningInv, LeakInv
<1> QED
  BY <1>1, <1>2, <1>3, PTL DEF Spec
=============================================================================
