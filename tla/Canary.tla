------------------------------- MODULE Canary -------------------------------
(***************************************************************************)
(* CanaryValidator.Validate (internal/template/canary.go): clone a VM from *)
(* a template, configure and start it, collect facts from its guest, and   *)
(* remove it again by a deferred clean-up, whatever happened before.       *)
(*                                                                         *)
(* Several validations may run at a time, and other VMs come about on the  *)
(* node.  The VMID a validation works with is only a suggestion.           *)
(***************************************************************************)
EXTENDS ProxmoxNode

CONSTANTS
  Checks,    \* the checks of evaluateCanaryFacts
  Failing    \* those that a bad template fails

ASSUME ChecksAssumption == Failing \subseteq Checks /\ Failing # {}

VARIABLES
  pc, target,
  facts,     \* facts[c]: the checks the guest of c's template satisfies
  result,    \* the verdict, or why there is none
  crashed,   \* history: runs whose process died
  uncleaned, \* history: runs whose clean-up met an error or a timeout
  shared,    \* history: VMIDs that two were about to use
  lost       \* history: VMs that someone else than their owner deleted

run  == <<pc, target, facts, result>>
hist == <<crashed, uncleaned, shared, lost>>
vars == <<node, faults, run, hist>>

Labels == {"new", "clone", "awaitClone", "configure", "awaitConfigure", "start", "awaitStart",
           "agent", "collect", "stop", "awaitStop", "delete", "awaitDelete", "done"}

Guests == {Checks, Checks \ Failing}

(* runs whose target is, or may still become, a VM of theirs *)
Pending(v) == {c \in Clients : target[c] = v /\ pc[c] \notin {"new", "done"}}

Init ==
  /\ NodeInit
  /\ pc = [c \in Clients |-> "new"]
  /\ target = [c \in Clients |-> Nobody]
  /\ facts \in [Clients -> Guests]
  /\ result = [c \in Clients |-> "none"]
  /\ crashed = {} /\ uncleaned = {} /\ shared = {} /\ lost = {}

Goto(c, label) == pc' = [pc EXCEPT ![c] = label]

Continue(c, label) == Goto(c, label) /\ UNCHANGED <<target, facts, result, hist>>

(* return with a verdict or an error: the deferred function runs *)
Return(c, r) ==
  /\ Goto(c, "stop")
  /\ result' = [result EXCEPT ![c] = r]
  /\ UNCHANGED <<target, facts, hist>>
-----------------------------------------------------------------------------
(* the clean-up is deferred only once there is a VMID *)
Allocate(c) ==
  LET Use(v) == /\ Goto(c, "clone")
                /\ target' = [target EXCEPT ![c] = v]
                /\ shared' = IF Pending(v) = {} THEN shared ELSE shared \cup {v}
                /\ UNCHANGED <<facts, result, crashed, uncleaned, lost>>
      NoVMID == /\ Goto(c, "done")
                /\ result' = [result EXCEPT ![c] = "error"]
                /\ UNCHANGED <<target, facts, hist>>
  IN /\ pc[c] = "new"
     /\ (\E v \in Vmids : AllocateNextVMID(v, Use(v))) \/ AllocationFails(NoVMID)

(* faulty variant of CloneFailed: without a clone nothing is cleaned up *)
CloneFailedUncleaned(c) ==
  /\ Goto(c, "done")
  /\ result' = [result EXCEPT ![c] = "error"]
  /\ UNCHANGED <<target, facts, hist>>

CloneFailed(c) == Return(c, "error")

CloneTemplate(c) ==
  /\ pc[c] = "clone"
  /\ Clone(c, target[c], Continue(c, "awaitClone"), CloneFailed(c))

ConfigureCanary(c) ==
  /\ pc[c] = "configure"
  /\ Configure(c, target[c], Continue(c, "awaitConfigure"), Return(c, "error"))

StartCanary(c) ==
  /\ pc[c] = "start"
  /\ Start(c, target[c], Continue(c, "awaitStart"), Return(c, "error"))

(* err or !status.Success() ends the run *)
Await(c) ==
  \E step \in {<<"awaitClone", "configure">>, <<"awaitConfigure", "start">>, <<"awaitStart", "agent">>} :
    /\ pc[c] = step[1]
    /\ WaitForTask(c, Continue(c, step[2]), Return(c, "error"))

WaitGuestAgent(c) ==
  /\ pc[c] = "agent"
  /\ \/ GuestPing(target[c], Continue(c, "collect"))
     \/ Return(c, "error") /\ NoFault /\ UNCHANGED node   \* the boot timeout

EvaluateCanaryFacts(observed) == IF observed = Checks THEN "PASS" ELSE "FAIL"

(* A stranger's guest may show anything. *)
Observable(owner) == IF owner \in Clients THEN {facts[owner]} ELSE Guests

Collect(c) ==
  LET Verdict == \E observed \in Observable(vmOwner[target[c]]) : Return(c, EvaluateCanaryFacts(observed))
  IN /\ pc[c] = "collect"
     /\ WaitExec(target[c], Verdict, Return(c, "error"))
-----------------------------------------------------------------------------
(* The deferred function.  Errors are ignored, but not in the history. *)

Cleaning(c, label, ok) ==
  /\ Goto(c, label)
  /\ uncleaned' = IF ok THEN uncleaned ELSE uncleaned \cup {c}
  /\ UNCHANGED <<target, facts, result, crashed, shared, lost>>

StopCanary(c) ==
  /\ pc[c] = "stop"
  /\ Stop(c, target[c], Cleaning(c, "awaitStop", TRUE), Cleaning(c, "delete", TRUE))

AwaitStop(c) ==
  /\ pc[c] = "awaitStop"
  /\ WaitForTask(c, Cleaning(c, "delete", TRUE), Cleaning(c, "delete", TRUE))

DeleteCanary(c) ==
  LET v == target[c]
      Gone(label) ==
        /\ Goto(c, label)
        /\ lost' = IF vmOwner[v] \in {c, Nobody} THEN lost ELSE lost \cup {v}
        /\ UNCHANGED <<target, facts, result, crashed, uncleaned, shared>>
  IN /\ pc[c] = "delete"
     /\ Delete(c, v, Gone("awaitDelete"), Cleaning(c, "awaitDelete", FALSE),
               Gone("done"), Cleaning(c, "done", TRUE), Cleaning(c, "done", FALSE))

AwaitDelete(c) ==
  /\ pc[c] = "awaitDelete"
  /\ WaitForTask(c, Cleaning(c, "done", TRUE), Cleaning(c, "done", TRUE))

(* the process dies: nothing is deferred any more *)
Crash(c) ==
  /\ pc[c] \notin {"new", "done"}
  /\ Fault /\ UNCHANGED node
  /\ Goto(c, "done")
  /\ result' = [result EXCEPT ![c] = "error"]
  /\ crashed' = crashed \cup {c}
  /\ UNCHANGED <<target, facts, uncleaned, shared, lost>>

(* another VM appears, perhaps on a VMID that was suggested to a run *)
OtherVM(s, v) ==
  /\ RegisterVM(s, v)
  /\ shared' = IF Pending(v) = {} THEN shared ELSE shared \cup {v}
  /\ UNCHANGED <<run, crashed, uncleaned, lost>>

EndTask(c) == TaskEnds(c) /\ UNCHANGED <<run, hist>>
-----------------------------------------------------------------------------
RunStep(c) ==
  \/ Allocate(c) \/ CloneTemplate(c) \/ ConfigureCanary(c) \/ StartCanary(c) \/ Await(c)
  \/ WaitGuestAgent(c) \/ Collect(c) \/ StopCanary(c) \/ AwaitStop(c)
  \/ DeleteCanary(c) \/ AwaitDelete(c)

Next ==
  \/ \E c \in Clients : RunStep(c) \/ Crash(c) \/ EndTask(c)
  \/ \E s \in Strangers, v \in Vmids : OtherVM(s, v)

(* A validation keeps running.  Nothing is assumed of tasks and guests. *)
Fairness == \A c \in Clients : WF_vars(RunStep(c))

Spec == Init /\ [][Next]_vars /\ Fairness
-----------------------------------------------------------------------------
TypeOK ==
  /\ NodeTypeOK
  /\ pc \in [Clients -> Labels]
  /\ target \in [Clients -> Vmids \cup {Nobody}]
  /\ facts \in [Clients -> Guests]
  /\ result \in [Clients -> {"none", "PASS", "FAIL", "error"}]
  /\ crashed \subseteq Clients /\ uncleaned \subseteq Clients
  /\ shared \subseteq Vmids /\ lost \subseteq Vmids

(* A canary outlives its validation only if the process died or the delete  *)
(* itself or its task failed: even a clone whose answer was lost is removed *)
(* (the comment on Validate: the canary is always cleaned up).              *)
NothingLeftBehind ==
  \A c \in Clients, v \in Vmids :
    pc[c] = "done" /\ vmOwner[v] = c => c \in crashed \cup uncleaned

(* Users of the node meet in one VM only where its VMID was suggested to   *)
(* one and taken by another before it was used.  Only there does cleaning  *)
(* up unconditionally (canary.go:96) delete a VM of somebody else, and     *)
(* only there is a template that fails a check passed by the facts of      *)
(* another guest (canary.go:160).                                          *)
OnlyContestedVmidsMixUp ==
  /\ lost \subseteq shared
  /\ \A c \in Clients : result[c] = "PASS" => facts[c] = Checks \/ target[c] \in shared

(* However long tasks and guests take, a validation ends. *)
EveryRunEnds == \A c \in Clients : pc[c] # "new" ~> pc[c] = "done"
=============================================================================
