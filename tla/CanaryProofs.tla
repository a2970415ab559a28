---------------------------- MODULE CanaryProofs ----------------------------
(***************************************************************************)
(* Proofs about Canary for every number of validations, VMIDs, strangers,  *)
(* checks and faults.                                                      *)
(***************************************************************************)
EXTENDS Canary, TLAPS

(* A VM of a run is at the run's target, from the clone call to the delete *)
(* call, and afterwards only if one of the two ways to leave it happened.  *)
OwnInv ==
  \A c \in Clients, v \in Vmids :
    vmOwner[v] = c =>
      /\ target[c] = v
      /\ pc[c] \notin {"new", "clone"}
      /\ pc[c] \in {"awaitDelete", "done"} => c \in crashed \cup uncleaned

(* A run that works with a VMID meets nobody else there, neither another   *)
(* run nor a VM that is not its own, unless the VMID is known as shared.   *)
Working(c) == pc[c] \notin {"new", "done"}

ShareInv ==
  \A c \in Clients :
    Working(c) =>
      /\ target[c] \in Vmids
      /\ vmOwner[target[c]] \notin {c, Nobody} => target[c] \in shared
      /\ \A d \in Clients \ {c} : Working(d) /\ target[d] = target[c] => target[c] \in shared

(* There is no verdict before there is a VMID. *)
VerdictInv == \A c \in Clients : pc[c] = "new" => result[c] = "none"

(* The inductive invariant. *)
CanaryInv == TypeOK /\ VerdictInv /\ OwnInv /\ ShareInv /\ OnlyContestedVmidsMixUp

USE NodeAssumption, ChecksAssumption
-----------------------------------------------------------------------------
(* What the node may do to itself without creating or deleting a VM. *)
NodeKeeps ==
  /\ UNCHANGED vmOwner
  /\ vmUp' \subseteq {v \in Vmids : Exists(v)}
  /\ task' \in [Clients -> TaskStates]
  /\ faults' \in 0 .. MaxFaults

(* One more fault is still within the bound. *)
LEMMA FaultsBounded ==
  ASSUME NodeTypeOK, Fault \/ NoFault
  PROVE  faults' \in 0 .. MaxFaults
BY DEF NodeTypeOK, Fault, NoFault

(* A run at work goes on to label l without touching a VM.  It may reach    *)
(* the end, or the wait for its delete task, only without a VM of its own   *)
(* or with an excuse; and it may find PASS only on facts of its own.        *)
LEMMA RunGoesOn ==
  ASSUME CanaryInv, NodeKeeps,
         NEW c \in Clients, NEW l \in Labels \ {"new", "clone"}, Working(c), Goto(c, l),
         NEW r \in {"none", "PASS", "FAIL", "error"},
         result' = [result EXCEPT ![c] = r],
         r = "PASS" => r = result[c] \/ facts[c] = Checks \/ target[c] \in shared,
         UNCHANGED <<target, facts, shared, lost>>,
         crashed' \in {crashed, crashed \cup {c}}, uncleaned' \in {uncleaned, uncleaned \cup {c}},
         l \in {"awaitDelete", "done"} =>
           vmOwner[target[c]] # c \/ c \in crashed' \cup uncleaned'
  PROVE  CanaryInv'
<1> USE DEF CanaryInv, Goto
<1>1. TypeOK'
  BY DEF TypeOK, NodeTypeOK, NodeKeeps, Exists
<1>2. OwnInv'
  BY DEF TypeOK, OwnInv, NodeKeeps, Working
<1>3. ShareInv'
  BY DEF TypeOK, ShareInv, NodeKeeps, Working
<1>4. VerdictInv' /\ OnlyContestedVmidsMixUp'
  BY DEF VerdictInv, TypeOK, OnlyContestedVmidsMixUp
<1> QED
  BY <1>1, <1>2, <1>3, <1>4

(* A run goes on to its next call, or returns with a verdict. *)
LEMMA ContinueStep ==
  ASSUME CanaryInv, NodeKeeps, NEW c \in Clients, Working(c),
         NEW l \in Labels \ {"new", "clone", "awaitDelete", "done"}, Continue(c, l)
  PROVE  CanaryInv'
<1>1. result[c] \in {"none", "PASS", "FAIL", "error"} /\ result' = [result EXCEPT ![c] = result[c]]
  BY DEF Continue, CanaryInv, TypeOK
<1> QED
  BY <1>1, RunGoesOn DEF Continue, hist

(* A run that returns PASS has all its checks, or shares its VMID. *)
LEMMA ReturnStep ==
  ASSUME CanaryInv, NodeKeeps, NEW c \in Clients, Working(c),
         NEW r \in {"PASS", "FAIL", "error"}, Return(c, r),
         r = "PASS" => facts[c] = Checks \/ target[c] \in shared
  PROVE  CanaryInv'
<1>1. "stop" \in Labels \ {"new", "clone"} /\ "stop" \notin {"awaitDelete", "done"}
  BY DEF Labels
<1>2. Goto(c, "stop") /\ result' = [result EXCEPT ![c] = r] /\ UNCHANGED <<target, facts, hist>>
  BY DEF Return
<1> QED
  BY <1>1, <1>2, RunGoesOn DEF hist

(* The deferred function goes on, whatever its call answered. *)
LEMMA CleaningStep ==
  ASSUME CanaryInv, NodeKeeps, NEW c \in Clients, Working(c), NEW ok \in BOOLEAN,
         NEW l \in Labels \ {"new", "clone"}, Cleaning(c, l, ok),
         l \in {"awaitDelete", "done"} => ~ok \/ vmOwner[target[c]] # c \/ c \in crashed \cup uncleaned
  PROVE  CanaryInv'
<1>1. result[c] \in {"none", "PASS", "FAIL", "error"} /\ result' = [result EXCEPT ![c] = result[c]]
  BY DEF Cleaning, CanaryInv, TypeOK
<1> QED
  BY <1>1, RunGoesOn DEF Cleaning

(* Configure, start and stop do not touch which VMs there are. *)
LEMMA QuietCalls ==
  ASSUME TypeOK, NEW c \in Clients, NEW v \in Vmids,
         \/ HandleConfigure(c, v) \/ HandleStart(c, v) \/ HandleStop(c, v) \/ UNCHANGED node,
         Fault \/ NoFault
  PROVE  NodeKeeps
BY FaultsBounded DEF TypeOK, NodeTypeOK, NodeKeeps, HandleConfigure, HandleStart, HandleStop, NewTask,
     TaskStates, Exists, node

(* The configuration is started, or the run returns. *)
LEMMA ConfigureStep ==
  ASSUME CanaryInv, NEW c \in Clients, ConfigureCanary(c)
  PROVE  CanaryInv'
<1>1. Working(c) /\ target[c] \in Vmids
  BY DEF ConfigureCanary, Working, CanaryInv, ShareInv
<1>2. NodeKeeps
  BY <1>1, QuietCalls DEF ConfigureCanary, Configure, Call, Handled, AnswerLost, Unhandled, CanaryInv
<1>3. Continue(c, "awaitConfigure") \/ Return(c, "error")
  BY DEF ConfigureCanary, Configure, Call, Handled, AnswerLost, Unhandled
<1> QED
  BY <1>1, <1>2, <1>3, ContinueStep, ReturnStep DEF Labels

(* The canary is started, or the run returns. *)
LEMMA StartStep ==
  ASSUME CanaryInv, NEW c \in Clients, StartCanary(c)
  PROVE  CanaryInv'
<1>1. Working(c) /\ target[c] \in Vmids
  BY DEF StartCanary, Working, CanaryInv, ShareInv
<1>2. NodeKeeps
  BY <1>1, QuietCalls DEF StartCanary, Start, Call, Handled, AnswerLost, Unhandled, CanaryInv
<1>3. Continue(c, "awaitStart") \/ Return(c, "error")
  BY DEF StartCanary, Start, Call, Handled, AnswerLost, Unhandled
<1> QED
  BY <1>1, <1>2, <1>3, ContinueStep, ReturnStep DEF Labels

(* A task is waited for, and the run goes on or returns. *)
LEMMA AwaitStep ==
  ASSUME CanaryInv, NEW c \in Clients, Await(c)
  PROVE  CanaryInv'
<1>1. PICK step \in {<<"awaitClone", "configure">>, <<"awaitConfigure", "start">>, <<"awaitStart", "agent">>} :
        pc[c] = step[1] /\ WaitForTask(c, Continue(c, step[2]), Return(c, "error"))
  BY DEF Await
<1>2. step[2] \in Labels \ {"new", "clone", "awaitDelete", "done"} /\ Working(c)
  BY <1>1 DEF Labels, Working
<1>3. target[c] \in Vmids
  BY <1>2 DEF CanaryInv, ShareInv
<1>4. NodeKeeps
  BY <1>1, <1>3, QuietCalls DEF WaitForTask, Unhandled, CanaryInv
<1>5. Continue(c, step[2]) \/ Return(c, "error")
  BY <1>1 DEF WaitForTask, Unhandled
<1> QED
  BY <1>2, <1>4, <1>5, ContinueStep, ReturnStep

(* The agent answers, or the run returns. *)
LEMMA WaitGuestAgentStep ==
  ASSUME CanaryInv, NEW c \in Clients, WaitGuestAgent(c)
  PROVE  CanaryInv'
<1>1. Working(c) /\ target[c] \in Vmids
  BY DEF WaitGuestAgent, Working, CanaryInv, ShareInv
<1>2. NodeKeeps
  BY <1>1, QuietCalls DEF WaitGuestAgent, GuestPing, CanaryInv
<1>3. Continue(c, "collect") \/ Return(c, "error")
  BY DEF WaitGuestAgent, GuestPing
<1> QED
  BY <1>1, <1>2, <1>3, ContinueStep, ReturnStep DEF Labels

(* The guest that answers is the run's own, whose facts decide, or one that *)
(* is there only because the VMID is shared.                                *)
LEMMA CollectStep ==
  ASSUME CanaryInv, NEW c \in Clients, Collect(c)
  PROVE  CanaryInv'
<1> DEFINE v == target[c]
           Verdict == \E observed \in Observable(vmOwner[v]) : Return(c, EvaluateCanaryFacts(observed))
<1>1. Working(c) /\ v \in Vmids
  BY DEF Collect, Working, CanaryInv, ShareInv
<1>2. NodeKeeps
  BY <1>1, QuietCalls DEF Collect, WaitExec, Unhandled, CanaryInv
<1>3. CASE Return(c, "error")
  BY <1>1, <1>2, <1>3, ReturnStep
<1>4. CASE v \in vmUp /\ Verdict
  <2>1. PICK observed \in Observable(vmOwner[v]) : Return(c, EvaluateCanaryFacts(observed))
    BY <1>4
  <2>2. vmOwner[v] # Nobody
    BY <1>4 DEF CanaryInv, TypeOK, NodeTypeOK
  <2>3. vmOwner[v] # c => v \in shared
    BY <1>1, <2>2 DEF CanaryInv, ShareInv
  <2>4. vmOwner[v] = c => observed = facts[c]
    BY <2>1 DEF Observable
  <2>5. EvaluateCanaryFacts(observed) \in {"PASS", "FAIL"}
    BY DEF EvaluateCanaryFacts
  <2>6. EvaluateCanaryFacts(observed) = "PASS" => facts[c] = Checks \/ v \in shared
    BY <2>3, <2>4 DEF EvaluateCanaryFacts
  <2> QED
    BY <1>1, <1>2, <2>1, <2>5, <2>6, ReturnStep
<1> QED
  BY <1>3, <1>4 DEF Collect, WaitExec, Unhandled

(* The clean-up's calls before its delete. *)
LEMMA StopStep ==
  ASSUME CanaryInv, NEW c \in Clients, StopCanary(c) \/ AwaitStop(c)
  PROVE  CanaryInv'
<1>1. Working(c) /\ target[c] \in Vmids
  BY DEF StopCanary, AwaitStop, Working, CanaryInv, ShareInv
<1>2. NodeKeeps
  BY <1>1, QuietCalls
     DEF StopCanary, AwaitStop, Stop, WaitForTask, Call, Handled, AnswerLost, Unhandled, CanaryInv
<1>3. Cleaning(c, "awaitStop", TRUE) \/ Cleaning(c, "delete", TRUE)
  BY DEF StopCanary, AwaitStop, Stop, WaitForTask, Call, Handled, AnswerLost, Unhandled
<1> QED
  BY <1>1, <1>2, <1>3, CleaningStep DEF Labels

(* The wait for the delete task: the VM is gone already, or known to stay. *)
LEMMA AwaitDeleteStep ==
  ASSUME CanaryInv, NEW c \in Clients, AwaitDelete(c)
  PROVE  CanaryInv'
<1>1. Working(c) /\ target[c] \in Vmids
  BY DEF AwaitDelete, Working, CanaryInv, ShareInv
<1>2. vmOwner[target[c]] # c \/ c \in crashed \cup uncleaned
  BY <1>1 DEF AwaitDelete, CanaryInv, OwnInv
<1>3. NodeKeeps
  BY <1>1, QuietCalls DEF AwaitDelete, WaitForTask, Unhandled, CanaryInv
<1>4. Cleaning(c, "done", TRUE)
  BY DEF AwaitDelete, WaitForTask, Unhandled
<1> QED
  BY <1>1, <1>2, <1>3, <1>4, CleaningStep DEF Labels
-----------------------------------------------------------------------------
(* A suggestion that somebody else works with becomes shared. *)
LEMMA AllocateStep ==
  ASSUME CanaryInv, NEW c \in Clients, Allocate(c)
  PROVE  CanaryInv'
<1>1. pc[c] = "new"
  BY DEF Allocate
<1>2. NodeKeeps
  BY FaultsBounded DEF Allocate, AllocateNextVMID, AllocationFails, Unhandled, CanaryInv, TypeOK, NodeTypeOK,
     NodeKeeps, node, Exists, NoFault
<1>3. ASSUME NEW v \in NextID, Goto(c, "clone"), target' = [target EXCEPT ![c] = v],
             shared' = (IF Pending(v) = {} THEN shared ELSE shared \cup {v}),
             UNCHANGED <<facts, result, crashed, uncleaned, lost>>
      PROVE  CanaryInv'
  <2> USE <1>1, <1>2, <1>3 DEF CanaryInv, Goto
  <2>0. v \in Vmids /\ vmOwner[v] = Nobody
    BY DEF NextID, Exists
  <2>1. TypeOK'
    BY <2>0 DEF TypeOK, NodeTypeOK, NodeKeeps, Exists, Labels
  <2>2. OwnInv'
    BY <2>0 DEF TypeOK, OwnInv, NodeKeeps
  <2>3. \A d \in Clients \ {c} : Working(d) /\ target[d] = v => v \in shared'
    BY DEF Working, Pending
  <2>4. ShareInv'
    BY <2>0, <2>3 DEF TypeOK, ShareInv, NodeKeeps, Working
  <2>5. VerdictInv' /\ OnlyContestedVmidsMixUp'
    BY <2>0 DEF VerdictInv, TypeOK, OnlyContestedVmidsMixUp
  <2> QED
    BY <2>1, <2>2, <2>4, <2>5
<1>4. ASSUME Goto(c, "done"), result' = [result EXCEPT ![c] = "error"], UNCHANGED <<target, facts, hist>>
      PROVE  CanaryInv'
  <2> USE <1>1, <1>2, <1>4 DEF CanaryInv, Goto, hist
  <2>1. TypeOK'
    BY DEF TypeOK, NodeTypeOK, NodeKeeps, Exists, Labels
  <2>2. OwnInv'
    BY DEF TypeOK, OwnInv, NodeKeeps
  <2>3. ShareInv'
    BY DEF TypeOK, ShareInv, NodeKeeps, Working
  <2>4. VerdictInv' /\ OnlyContestedVmidsMixUp'
    BY DEF VerdictInv, TypeOK, OnlyContestedVmidsMixUp
  <2> QED
    BY <2>1, <2>2, <2>3, <2>4
<1> QED
  BY <1>3, <1>4 DEF Allocate, AllocateNextVMID, AllocationFails, Unhandled

(* Where a clone comes to be nothing was before; who else works with the    *)
(* VMID has made it shared.                                                 *)
LEMMA CloneStep ==
  ASSUME CanaryInv, NEW c \in Clients, CloneTemplate(c)
  PROVE  CanaryInv'
<1> DEFINE v == target[c]
<1>1. pc[c] = "clone" /\ Working(c) /\ v \in Vmids
  BY DEF CloneTemplate, Working, CanaryInv, ShareInv
<1>2. Continue(c, "awaitClone") \/ Return(c, "error")
  BY DEF CloneTemplate, Clone, Call, Handled, AnswerLost, Unhandled, CloneFailed
<1>3. CASE UNCHANGED node /\ (Fault \/ NoFault)
  <2>1. NodeKeeps
    BY <1>1, <1>3, QuietCalls DEF CanaryInv
  <2> QED
    BY <1>1, <1>2, <2>1, ContinueStep, ReturnStep DEF Labels
<1>4. CASE HandleClone(c, v) /\ (Fault \/ NoFault)
  <2> USE <1>1, <1>2, <1>4 DEF CanaryInv, Goto, Continue, Return, HandleClone, NewTask, Exists, hist
  <2>0. faults' \in 0 .. MaxFaults
    BY FaultsBounded DEF TypeOK
  <2>1. TypeOK'
    BY <2>0 DEF TypeOK, NodeTypeOK, Labels, TaskStates
  <2>2. OwnInv'
    BY DEF TypeOK, NodeTypeOK, OwnInv
  <2>3. ShareInv'
    BY DEF TypeOK, NodeTypeOK, ShareInv, Working
  <2>4. VerdictInv' /\ OnlyContestedVmidsMixUp'
    BY DEF VerdictInv, TypeOK, OnlyContestedVmidsMixUp
  <2> QED
    BY <2>1, <2>2, <2>3, <2>4
<1> QED
  BY <1>3, <1>4 DEF CloneTemplate, Clone, Call, Handled, AnswerLost, Unhandled

(* The delete call removes whatever has the VMID: the run's own VM, or one  *)
(* that made the VMID shared.  What it leaves there is remembered.          *)
LEMMA DeleteStep ==
  ASSUME CanaryInv, NEW c \in Clients, DeleteCanary(c)
  PROVE  CanaryInv'
<1> DEFINE v == target[c]
<1>1. pc[c] = "delete" /\ Working(c) /\ v \in Vmids
  BY DEF DeleteCanary, Working, CanaryInv, ShareInv
<1>2. CASE UNCHANGED node /\ ((Cleaning(c, "done", TRUE) /\ ~Exists(v) /\ NoFault) \/ (Cleaning(c, "done", FALSE) /\ Fault))
  <2>1. NodeKeeps
    BY <1>1, <1>2, QuietCalls DEF CanaryInv
  <2>2. ~Exists(v) => vmOwner[v] # c
    BY DEF Exists
  <2> QED
    BY <1>1, <1>2, <2>1, <2>2, CleaningStep DEF Labels
<1>3. ASSUME HandleDelete(c, v), Fault \/ NoFault, NEW l \in {"awaitDelete", "done"}, Goto(c, l),
             lost' = (IF vmOwner[v] \in {c, Nobody} THEN lost ELSE lost \cup {v}),
             UNCHANGED <<target, facts, result, crashed, uncleaned, shared>>
      PROVE  CanaryInv'
  <2> USE <1>1, <1>3 DEF CanaryInv, Goto, HandleDelete, NewTask, Exists
  <2>0. faults' \in 0 .. MaxFaults
    BY FaultsBounded DEF TypeOK
  <2>1. TypeOK'
    BY <2>0 DEF TypeOK, NodeTypeOK, Labels, TaskStates
  <2>2. OwnInv'
    BY DEF TypeOK, NodeTypeOK, OwnInv
  <2>3. ShareInv'
    BY DEF TypeOK, NodeTypeOK, ShareInv, Working
  <2>4. VerdictInv' /\ OnlyContestedVmidsMixUp'
    BY DEF VerdictInv, TypeOK, OnlyContestedVmidsMixUp, ShareInv
  <2> QED
    BY <2>1, <2>2, <2>3, <2>4
<1>4. CASE HandleDoomedDelete(c, v) /\ Cleaning(c, "awaitDelete", FALSE) /\ NoFault
  <2>1. NodeKeeps
    BY <1>4, FaultsBounded DEF HandleDoomedDelete, NodeKeeps, CanaryInv, TypeOK, NodeTypeOK, TaskStates, Exists
  <2> QED
    BY <1>1, <1>4, <2>1, CleaningStep DEF Labels
<1> QED
  BY <1>2, <1>3, <1>4 DEF DeleteCanary, Delete, Handled, AnswerLost, Unhandled

(* A process that dies leaves its VM and is remembered for it. *)
LEMMA CrashStep ==
  ASSUME CanaryInv, NEW c \in Clients, Crash(c)
  PROVE  CanaryInv'
<1>1. Working(c)
  BY DEF Crash, Working
<1>2. NodeKeeps
  BY <1>1, QuietCalls DEF Crash, CanaryInv, ShareInv
<1> QED
  BY <1>1, <1>2, RunGoesOn DEF Crash, Labels

(* A VM that appears where a run works makes the VMID shared. *)
LEMMA OtherVMStep ==
  ASSUME CanaryInv, NEW s \in Strangers, NEW v \in Vmids, OtherVM(s, v)
  PROVE  CanaryInv'
<1> USE DEF CanaryInv, OtherVM, RegisterVM, Exists, run
<1>1. TypeOK'
  BY DEF TypeOK, NodeTypeOK
<1>2. OwnInv'
  BY DEF TypeOK, NodeTypeOK, OwnInv
<1>3. ShareInv'
  BY DEF TypeOK, NodeTypeOK, ShareInv, Working, Pending
<1>4. VerdictInv' /\ OnlyContestedVmidsMixUp'
  BY DEF VerdictInv, TypeOK, OnlyContestedVmidsMixUp
<1> QED
  BY <1>1, <1>2, <1>3, <1>4

(* A task ends; nobody but its client looks at it. *)
LEMMA EndTaskStep ==
  ASSUME CanaryInv, NEW c \in Clients, EndTask(c)
  PROVE  CanaryInv'
<1> USE DEF CanaryInv, EndTask, TaskEnds, run, hist
<1>1. TypeOK'
  BY DEF TypeOK, NodeTypeOK, TaskStates, Exists
<1>2. OwnInv' /\ ShareInv' /\ VerdictInv' /\ OnlyContestedVmidsMixUp'
  BY DEF VerdictInv, OwnInv, ShareInv, Working, OnlyContestedVmidsMixUp
<1> QED
  BY <1>1, <1>2

(* The invariant holds on an empty node. *)
LEMMA InitInv == Init => CanaryInv
<1> SUFFICES ASSUME Init PROVE CanaryInv
  OBVIOUS
<1> USE DEF Init, NodeInit
<1>1. TypeOK
  BY DEF TypeOK, NodeTypeOK, TaskStates, Labels
<1>2. OwnInv /\ ShareInv /\ VerdictInv /\ OnlyContestedVmidsMixUp
  BY DEF VerdictInv, OwnInv, ShareInv, Working, OnlyContestedVmidsMixUp
<1> QED
  BY <1>1, <1>2 DEF CanaryInv

(* Every step keeps the invariant. *)
LEMMA InvariantStep == CanaryInv /\ [Next]_vars => CanaryInv'
<1> SUFFICES ASSUME CanaryInv, [Next]_vars PROVE CanaryInv'
  OBVIOUS
<1>1. CASE UNCHANGED vars
  BY <1>1 DEF vars, node, run, hist, CanaryInv, TypeOK, NodeTypeOK, Exists, OwnInv, ShareInv, Working,
     VerdictInv, OnlyContestedVmidsMixUp
<1>2. ASSUME NEW c \in Clients, RunStep(c)
      PROVE  CanaryInv'
  BY <1>2, AllocateStep, CloneStep, ConfigureStep, StartStep, AwaitStep, WaitGuestAgentStep, CollectStep,
     StopStep, DeleteStep, AwaitDeleteStep DEF RunStep
<1> QED
  BY <1>1, <1>2, CrashStep, EndTaskStep, OtherVMStep DEF Next
-----------------------------------------------------------------------------
(* The invariant holds of every state that validations and strangers reach. *)
THEOREM CanaryInvariant == Spec => []CanaryInv
BY InitInv, InvariantStep, PTL DEF Spec

(* Types hold; only VMs that exist run. *)
THEOREM CanaryTypeCorrect == Spec => []TypeOK
<1>1. CanaryInv => TypeOK
  BY DEF CanaryInv
<1> QED
  BY <1>1, CanaryInvariant, PTL

(* Validate's deferred clean-up leaves no canary behind, unless the process *)
(* died or the delete call itself failed.                                   *)
THEOREM CanariesAreRemoved == Spec => []NothingLeftBehind
<1>1. CanaryInv => NothingLeftBehind
  BY DEF CanaryInv, OwnInv, NothingLeftBehind
<1> QED
  BY <1>1, CanaryInvariant, PTL

(* Cleaning up unconditionally, and trusting the guest under a VMID, go     *)
(* wrong only on a VMID that two were about to use.                         *)
THEOREM MixUpsNeedContest == Spec => []OnlyContestedVmidsMixUp
<1>1. CanaryInv => OnlyContestedVmidsMixUp
  BY DEF CanaryInv
<1> QED
  BY <1>1, CanaryInvariant, PTL
=============================================================================
