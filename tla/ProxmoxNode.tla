---------------------------- MODULE ProxmoxNode ----------------------------
(***************************************************************************)
(* One Proxmox node as its clients see it through the adapter              *)
(* (internal/proxmox), with the node itself as testlab/proxmoxmock has it: *)
(* a mutation takes effect when it is handled and is answered by a task,   *)
(* which ends some polls later.  Beyond the mock, a delete may turn out a  *)
(* task that fails, with the VM still there.                               *)
(*                                                                         *)
(* A client has one call and one task at a time.  A call can fail in two   *)
(* ways that look the same to the client: it was refused, or it was        *)
(* handled and the answer was lost.                                        *)
(***************************************************************************)
EXTENDS Naturals, FiniteSets

CONSTANTS
  Vmids,
  Clients,     \* whoever uses the adapter
  Strangers,   \* owners of VMs nobody here has asked for
  Nobody,
  MaxFaults    \* bound on calls that fail for no reason of the model

ASSUME NodeAssumption ==
  Clients \cap Strangers = {} /\ Nobody \notin Clients \cup Strangers /\ MaxFaults \in Nat

VARIABLES
  vmOwner,   \* vmOwner[v]: who cloned the VM that has VMID v
  vmUp,      \* the VMs that are running
  task,      \* task[c]: the task of c's last mutation
  faults

node == <<vmOwner, vmUp, task>>

TaskStates == {"none", "running", "OK", "failed"}

NodeInit ==
  /\ vmOwner = [v \in Vmids |-> Nobody]
  /\ vmUp = {}
  /\ task = [c \in Clients |-> "none"]
  /\ faults = 0

NodeTypeOK ==
  /\ vmOwner \in [Vmids -> Clients \cup Strangers \cup {Nobody}]
  /\ vmUp \subseteq {v \in Vmids : vmOwner[v] # Nobody}
  /\ task \in [Clients -> TaskStates]
  /\ faults \in 0..MaxFaults

Exists(v) == vmOwner[v] # Nobody
-----------------------------------------------------------------------------
(* The node *)

NewTask(c) == task' = [task EXCEPT ![c] = "running"]

(* faulty variant of NextID: VMIDs in use are suggested too *)
NextIDAnyOfRange == Vmids

(* a free VMID; suggesting it keeps it for nobody *)
NextID == {v \in Vmids : ~Exists(v)}

HandleClone(c, v) ==
  /\ ~Exists(v)
  /\ vmOwner' = [vmOwner EXCEPT ![v] = c]
  /\ NewTask(c) /\ UNCHANGED vmUp

HandleConfigure(c, v) == NewTask(c) /\ UNCHANGED <<vmOwner, vmUp>>

(* start and stop are answered by a task whether there is a VM or not *)
HandleStart(c, v) ==
  /\ vmUp' = IF Exists(v) THEN vmUp \cup {v} ELSE vmUp
  /\ NewTask(c) /\ UNCHANGED vmOwner

HandleStop(c, v) == vmUp' = vmUp \ {v} /\ NewTask(c) /\ UNCHANGED vmOwner

(* faulty variant of HandleDelete: the VM's process is left behind *)
HandleDeleteOfConfig(c, v) ==
  /\ Exists(v)
  /\ vmOwner' = [vmOwner EXCEPT ![v] = Nobody]
  /\ NewTask(c) /\ UNCHANGED vmUp

HandleDelete(c, v) ==
  /\ Exists(v)
  /\ vmOwner' = [vmOwner EXCEPT ![v] = Nobody]
  /\ vmUp' = vmUp \ {v}
  /\ NewTask(c)

(* a delete whose task fails: the VM stays *)
HandleDoomedDelete(c, v) ==
  /\ Exists(v)
  /\ task' = [task EXCEPT ![c] = "failed"]
  /\ UNCHANGED <<vmOwner, vmUp>>

(* the poll after which a task reads "stopped", with its exit status *)
TaskEnds(c) ==
  /\ task[c] = "running"
  /\ \E status \in {"OK", "failed"} : task' = [task EXCEPT ![c] = status]
  /\ UNCHANGED <<vmOwner, vmUp, faults>>

(* a VM that came about by other means, for example an instance's *)
RegisterVM(s, v) ==
  /\ ~Exists(v)
  /\ vmOwner' = [vmOwner EXCEPT ![v] = s]
  /\ \E up \in BOOLEAN : vmUp' = IF up THEN vmUp \cup {v} ELSE vmUp
  /\ UNCHANGED <<task, faults>>
-----------------------------------------------------------------------------
(* The adapter *)

NoFault == UNCHANGED faults
Fault   == faults < MaxFaults /\ faults' = faults + 1

Handled(handler, answered) == handler /\ answered /\ NoFault

(* the request was handled, its answer never arrived *)
AnswerLost(handler, failed) == handler /\ failed /\ Fault

(* the request never arrived, or an unclassified refusal *)
Unhandled(failed) == failed /\ Fault /\ UNCHANGED node

(* a request: what the node does, what the caller does next *)
Call(handler, answered, failed) ==
  Handled(handler, answered) \/ AnswerLost(handler, failed) \/ Unhandled(failed)

(* v is the suggestion *)
AllocateNextVMID(v, answered) == v \in NextID /\ answered /\ NoFault /\ UNCHANGED node

AllocationFails(failed) ==
  \/ NextID = {} /\ failed /\ NoFault /\ UNCHANGED node
  \/ Unhandled(failed)

(* PVE_VMID_CONFLICT is an answer of the node, no fault *)
Clone(c, v, answered, failed) ==
  \/ Call(HandleClone(c, v), answered, failed)
  \/ Exists(v) /\ failed /\ NoFault /\ UNCHANGED node

Configure(c, v, answered, failed) == Call(HandleConfigure(c, v), answered, failed)

Start(c, v, answered, failed) == Call(HandleStart(c, v), answered, failed)

Stop(c, v, answered, failed) == Call(HandleStop(c, v), answered, failed)

(* deleting a VM that is not there is refused *)
Delete(c, v, answered, doomed, lost, refused, unhandled) ==
  \/ Handled(HandleDelete(c, v), answered)
  \/ Handled(HandleDoomedDelete(c, v), doomed)
  \/ AnswerLost(HandleDelete(c, v), lost)
  \/ ~Exists(v) /\ refused /\ NoFault /\ UNCHANGED node
  \/ Unhandled(unhandled)

(* faulty variant of TimesOut: the deadline of WaitForTask is forgotten *)
NeverTimesOut(c) == FALSE

(* a task may take longer than any deadline *)
TimesOut(c) == task[c] = "running"

(* GetTask until the task is done or the deadline has passed *)
WaitForTask(c, success, failed) ==
  \/ task[c] = "OK" /\ success /\ NoFault /\ UNCHANGED node
  \/ task[c] = "failed" /\ failed /\ NoFault /\ UNCHANGED node
  \/ TimesOut(c) /\ failed /\ NoFault /\ UNCHANGED node
  \/ Unhandled(failed)

(* the guest agent answers only while the VM runs, and not at once *)
GuestPing(v, answered) == v \in vmUp /\ answered /\ NoFault /\ UNCHANGED node

WaitExec(v, result, failed) ==
  \/ v \in vmUp /\ result /\ NoFault /\ UNCHANGED node
  \/ v \notin vmUp /\ failed /\ NoFault /\ UNCHANGED node
  \/ Unhandled(failed)
=============================================================================
