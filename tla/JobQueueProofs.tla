--------------------------- MODULE JobQueueProofs ---------------------------
(***************************************************************************)
(* Proofs about JobQueue for every number of jobs and slots, every lease   *)
(* length and every bound.                                                 *)
(***************************************************************************)
EXTENDS JobQueue, TLAPS

(* A slot past its claim holds a job, one inside a handler read a stage    *)
(* that has one, and one about to write RETRY_WAIT saw attempts left.      *)
SlotInv ==
  \A w \in Workers :
    /\ Working(w) => held[w] \in Jobs
    /\ pc[w] = "exec" => HasHandler(seen[w])
    /\ pc[w] = "retry" => RetriesLeft(w)

(* The inductive invariant of the queue. *)
QueueInv ==
  /\ TypeOK
  /\ SlotInv
  /\ LeaseColumns
  /\ ClaimsExclusive
  /\ OwnerHoldsLatestClaim
  /\ RetryOnlyWithAttemptsLeft

USE WorkersAssumption, BoundsAssumption
-----------------------------------------------------------------------------
(* Settling keeps the row typed, whether or not the slot owns it. *)
LEMMA SettleType ==
  ASSUME TypeOK, NEW w \in Workers, held[w] \in Jobs,
         NEW s \in JobStates, SettleIfOwner(w, s)
  PROVE  /\ state' \in [Jobs -> JobStates]
         /\ owner' \in [Jobs -> Workers \cup {NoWorker}]
         /\ lease' \in [Jobs -> 0 .. LeaseTicks]
         /\ attempt' \in [Jobs -> Nat]
BY DEF TypeOK, SettleIfOwner, ClearLease

(* So does returning to idle or moving on keep the slot typed. *)
LEMMA SlotType ==
  ASSUME TypeOK, NEW w \in Workers, NEW label \in SlotPcs,
         Return(w) \/ Continue(w, label)
  PROVE  /\ pc' \in [Workers -> SlotPcs]
         /\ held' \in [Workers -> Jobs \cup {NoJob}]
         /\ token' \in [Workers -> Nat] /\ mem' \in [Workers -> Nat]
         /\ seen' \in [Workers -> Stages]
         /\ beating' \in [Workers -> BOOLEAN]
BY DEF TypeOK, Return, Continue, Goto, SlotPcs

(* The fault budget stays within its bound. *)
LEMMA FaultType ==
  ASSUME TypeOK, Fault
  PROVE  faults' \in 0 .. MaxFaults /\ stalls' \in 0 .. MaxStalls /\ requeues' \in 0 .. MaxRequeues
BY DEF TypeOK, Fault

(* A transition leads to a stage. *)
LEMMA NextStagesType ==
  ASSUME NEW s \in Stages, HasHandler(s) PROVE NextStages(s) \subseteq Stages
BY DEF NextStages, HasHandler, Stages, Ready, Quarantined

(* Every step keeps the variables in their sets. *)
LEMMA TypeStep ==
  ASSUME TypeOK, SlotInv, ClaimsExclusive, [Next]_vars
  PROVE  TypeOK'
<1>1. ASSUME NEW j \in Jobs, Create(j) \/ Requeue(j) \/ BackoffElapses(j) PROVE TypeOK'
  <2>1. CASE Create(j)
    BY <2>1 DEF TypeOK, Create, JobStates, slot, budget
  <2>2. CASE Requeue(j)
    BY <2>2 DEF TypeOK, Requeue, JobStates, slot
  <2>3. CASE BackoffElapses(j)
    BY <2>3 DEF TypeOK, BackoffElapses, slot, budget
  <2> QED
    BY <1>1, <2>1, <2>2, <2>3
<1>2. ASSUME NEW w \in Workers, SlotStep(w) PROVE TypeOK'
  <2>1. ASSUME NEW j \in Jobs, ClaimSelect(w, j) PROVE TypeOK'
    BY <2>1 DEF TypeOK, ClaimSelect, Goto, SlotPcs, row, budget
  <2>2. CASE ClaimCommit(w)
    <3>1. held[w] \in Jobs
      BY <2>2 DEF ClaimCommit, ClaimsExclusive
    <3>2. Extended(held[w]) \in 0 .. LeaseTicks /\ ClaimedAttempt(held[w]) \in Nat
      BY <3>1 DEF TypeOK, Extended, ClaimedAttempt
    <3> QED
      BY <2>2, <3>1, <3>2 DEF TypeOK, ClaimCommit, Goto, SlotPcs, JobStates, budget
  <2>3. CASE Load(w)
    BY <2>3, SlotType DEF TypeOK, Load, SlotPcs, row, budget
  <2>4. CASE StepRead(w)
    <3>1. held[w] \in Jobs
      BY <2>4 DEF StepRead, SlotInv, Working
    <3> QED
      BY <2>4, <3>1 DEF TypeOK, StepRead, Goto, SlotPcs, row, budget
  <2>5. CASE StepCommit(w)
    <3>1. PICK s \in NextStages(seen[w]) : stage' = [stage EXCEPT ![held[w]] = s]
      BY <2>5 DEF StepCommit
    <3>2. s \in Stages
      BY <2>5, <3>1, NextStagesType DEF StepCommit, SlotInv, TypeOK
    <3> QED
      BY <2>5, <3>1, <3>2, SlotType DEF TypeOK, StepCommit, SlotPcs, row, budget
  <2>6. CASE StepError(w)
    BY <2>6, SlotType DEF TypeOK, StepError, SlotPcs, row, budget
  <2>7. CASE Refresh(w)
    <3>1. held[w] \in Jobs
      BY <2>7 DEF Refresh, SlotInv, Working
    <3> QED
      BY <2>7, <3>1 DEF TypeOK, Refresh, Goto, SlotPcs, row, budget
  <2>8. CASE FailOrRetry(w)
    <3>1. /\ Continue(w, "retry") \/ Continue(w, "fail") \/ Continue(w, "failonly")
          /\ UNCHANGED budget \/ Fault
          /\ UNCHANGED <<row, stage>>
      BY <2>8 DEF FailOrRetry
    <3>2. faults' \in 0 .. MaxFaults /\ stalls' \in 0 .. MaxStalls /\ requeues' \in 0 .. MaxRequeues
      BY <3>1, FaultType DEF TypeOK, budget
    <3> QED
      BY <3>1, <3>2, SlotType DEF TypeOK, SlotPcs, row
  <2>9. CASE Complete(w)
    <3>1. held[w] \in Jobs
      BY <2>9 DEF Complete, SlotInv, Working
    <3> QED
      BY <2>9, <3>1, SettleType, SlotType DEF TypeOK, Complete, SlotPcs, JobStates, budget
  <2>10. CASE FailRetry(w)
    <3>1. held[w] \in Jobs
      BY <2>10 DEF FailRetry, SlotInv, Working
    <3>2. due' \in [Jobs -> BOOLEAN]
      BY <2>10, <3>1 DEF FailRetry, TypeOK
    <3> QED
      BY <2>10, <3>1, <3>2, SettleType, SlotType DEF TypeOK, FailRetry, SlotPcs, JobStates, budget
  <2>11. CASE FailFinal(w)
    <3>1. held[w] \in Jobs
      BY <2>11 DEF FailFinal, SlotInv, Working
    <3>2. Return(w) \/ Continue(w, "rollback")
      BY <2>11 DEF FailFinal
    <3> QED
      BY <2>11, <3>1, <3>2, SettleType, SlotType DEF TypeOK, FailFinal, SlotPcs, JobStates, budget
  <2>12. CASE Rollback(w)
    <3>1. Failed \in Stages /\ Quarantined \in Stages
      BY DEF Failed, Quarantined, Stages
    <3>2. PICK s \in {Failed, Quarantined} : stage' = [stage EXCEPT ![held[w]] = s]
      BY <2>12 DEF Rollback
    <3>3. stage' \in [Jobs -> Stages]
      BY <3>1, <3>2 DEF TypeOK
    <3> QED
      BY <2>12, <3>3, SlotType DEF TypeOK, Rollback, SlotPcs, row, budget
  <2> QED
    BY <1>2, <2>1, <2>2, <2>3, <2>4, <2>5, <2>6, <2>7, <2>8, <2>9, <2>10, <2>11, <2>12
    DEF SlotStep
<1>3. ASSUME NEW w \in Workers, SlotFault(w) PROVE TypeOK'
  <2>1. CASE ClaimAbort(w) \/ GiveUp(w)
    <3>1. Return(w) /\ Fault /\ UNCHANGED <<row, stage>>
      BY <2>1 DEF ClaimAbort, GiveUp
    <3> QED
      BY <3>1, SlotType, FaultType DEF TypeOK, SlotPcs, row
  <2>2. CASE ReadError(w)
    BY <2>2, SlotType, FaultType DEF TypeOK, ReadError, SlotPcs, row
  <2>3. CASE HeartbeatError(w)
    BY <2>3, FaultType DEF TypeOK, HeartbeatError, row
  <2>4. CASE Crash(w)
    BY <2>4, FaultType DEF TypeOK, Crash, Goto, SlotPcs, row
  <2> QED
    BY <1>3, <2>1, <2>2, <2>3, <2>4 DEF SlotFault
<1>4. ASSUME NEW w \in Workers, Heartbeat(w) \/ Restart(w) PROVE TypeOK'
  <2>1. CASE Heartbeat(w)
    <3>1. lease' \in [Jobs -> 0 .. LeaseTicks]
      BY <2>1 DEF TypeOK, Heartbeat, Extended
    <3>2. beating' \in [Workers -> BOOLEAN]
      BY <2>1 DEF TypeOK, Heartbeat
    <3> QED
      BY <2>1, <3>1, <3>2 DEF TypeOK, Heartbeat, budget
  <2>2. CASE Restart(w)
    BY <2>2, SlotType DEF TypeOK, Restart, SlotPcs, row, budget
  <2> QED
    BY <1>4, <2>1, <2>2
<1>5. CASE Tick
  <2>1. lease' \in [Jobs -> 0 .. LeaseTicks]
    BY <1>5 DEF TypeOK, Tick
  <2>2. stalls' \in 0 .. MaxStalls
    BY <1>5 DEF TypeOK, Tick
  <2> QED
    BY <1>5, <2>1, <2>2 DEF TypeOK, Tick, slot
<1>6. CASE ReclaimExpiredLeases
  BY <1>6 DEF TypeOK, ReclaimExpiredLeases, JobStates, slot, budget
<1>7. CASE UNCHANGED vars
  BY <1>7 DEF TypeOK, vars, row, slot, budget
<1> QED
  BY <1>1, <1>2, <1>3, <1>4, <1>5, <1>6, <1>7 DEF Next
-----------------------------------------------------------------------------
(* The part of QueueInv that relates rows to slots. *)
RowInv ==
  LeaseColumns /\ ClaimsExclusive /\ OwnerHoldsLatestClaim /\ RetryOnlyWithAttemptsLeft

(* A slot that moves without claiming and without touching a row disturbs  *)
(* no row fact: it stays on its job, or lets go of it.                     *)
LEMMA SlotMove ==
  ASSUME QueueInv, TypeOK', NEW w \in Workers, NEW label \in SlotPcs \ {"claim"},
         pc' = [pc EXCEPT ![w] = label],
         \/ held' = held /\ (label \in {"down", "idle"} \/ Working(w))
         \/ held' = [held EXCEPT ![w] = NoJob] /\ label \in {"down", "idle"},
         UNCHANGED <<state, owner, lease, attempt, token>>,
         mem' = mem \/ (Working(w) /\ mem' = [mem EXCEPT ![w] = attempt[held[w]]])
  PROVE  RowInv'
<1> USE DEF QueueInv, RowInv
<1>1. LeaseColumns' /\ RetryOnlyWithAttemptsLeft'
  BY DEF LeaseColumns, RetryOnlyWithAttemptsLeft
<1>2. ClaimsExclusive'
  BY DEF ClaimsExclusive, TypeOK
<1>3. OwnerHoldsLatestClaim'
  BY DEF OwnerHoldsLatestClaim, OwnsRow, Working, TypeOK
<1> QED
  BY <1>1, <1>2, <1>3

(* A settlement touches at most the row the slot owns, which no claim is   *)
(* working on; a row goes to RETRY_WAIT only from a slot in "retry".       *)
LEMMA SettleMove ==
  ASSUME QueueInv, TypeOK', NEW w \in Workers, Working(w), NEW label \in {"idle", "rollback"},
         NEW s \in {"RETRY_WAIT", "SUCCEEDED", "FAILED"}, SettleIfOwner(w, s),
         s = "RETRY_WAIT" => pc[w] = "retry",
         pc' = [pc EXCEPT ![w] = label],
         held' = held \/ (held' = [held EXCEPT ![w] = NoJob] /\ label = "idle"),
         UNCHANGED <<token, mem>>
  PROVE  RowInv'
<1> USE DEF QueueInv, RowInv
<1>0. held[w] \in Jobs
  BY DEF SlotInv
<1>1. LeaseColumns'
  BY <1>0 DEF LeaseColumns, SettleIfOwner, ClearLease, OwnsRow, TypeOK
<1>2. ClaimsExclusive'
  BY <1>0 DEF ClaimsExclusive, SettleIfOwner, OwnsRow, TypeOK
<1>3. OwnerHoldsLatestClaim'
  BY <1>0 DEF OwnerHoldsLatestClaim, SettleIfOwner, ClearLease, OwnsRow, Working, TypeOK
<1>4. RetryOnlyWithAttemptsLeft'
  <2>1. s = "RETRY_WAIT" /\ OwnsRow(w, held[w]) => attempt[held[w]] < MaxAttempts
    BY <1>0 DEF OwnerHoldsLatestClaim, SlotInv, RetriesLeft
  <2> QED
    BY <1>0, <2>1 DEF RetryOnlyWithAttemptsLeft, SettleIfOwner, TypeOK
<1> QED
  BY <1>1, <1>2, <1>3, <1>4

(* Every step keeps the facts about single slots. *)
LEMMA SlotStepInv ==
  ASSUME QueueInv, TypeOK', [Next]_vars
  PROVE  SlotInv'
<1> USE DEF QueueInv
<1>1. ASSUME NEW j \in Jobs, Create(j) \/ Requeue(j) \/ BackoffElapses(j) PROVE SlotInv'
  BY <1>1 DEF Create, Requeue, BackoffElapses, SlotInv, Working, RetriesLeft, slot
<1>2. ASSUME NEW w \in Workers, SlotStep(w) PROVE SlotInv'
  <2>1. ASSUME NEW j \in Jobs, ClaimSelect(w, j) PROVE SlotInv'
    BY <2>1 DEF ClaimSelect, Goto, SlotInv, Working, RetriesLeft, TypeOK
  <2>2. CASE ClaimCommit(w)
    BY <2>2 DEF ClaimCommit, ClaimsExclusive, Goto, SlotInv, Working, RetriesLeft, TypeOK
  <2>3. CASE Load(w)
    BY <2>3 DEF Load, Continue, Goto, SlotInv, Working, RetriesLeft, TypeOK
  <2>4. CASE StepRead(w)
    BY <2>4 DEF StepRead, Goto, SlotInv, Working, RetriesLeft, TypeOK
  <2>5. CASE StepCommit(w)
    BY <2>5 DEF StepCommit, Continue, Goto, SlotInv, Working, RetriesLeft, TypeOK
  <2>6. CASE StepError(w)
    BY <2>6 DEF StepError, Continue, Goto, SlotInv, Working, RetriesLeft, TypeOK
  <2>7. CASE Refresh(w)
    BY <2>7 DEF Refresh, Goto, SlotInv, Working, RetriesLeft, TypeOK
  <2>8. CASE FailOrRetry(w)
    BY <2>8 DEF FailOrRetry, Continue, Goto, SlotInv, Working, RetriesLeft, TypeOK
  <2>9. CASE Complete(w) \/ FailRetry(w)
    BY <2>9 DEF Complete, FailRetry, Return, Goto, SlotInv, Working, RetriesLeft, TypeOK
  <2>10. CASE FailFinal(w) \/ Rollback(w)
    BY <2>10 DEF FailFinal, Rollback, Return, Continue, Goto, SlotInv, Working, RetriesLeft, TypeOK
  <2> QED
    BY <1>2, <2>1, <2>2, <2>3, <2>4, <2>5, <2>6, <2>7, <2>8, <2>9, <2>10 DEF SlotStep
<1>3. ASSUME NEW w \in Workers, SlotFault(w) PROVE SlotInv'
  <2>1. CASE ClaimAbort(w) \/ GiveUp(w)
    BY <2>1 DEF ClaimAbort, GiveUp, Return, Goto, SlotInv, Working, RetriesLeft, TypeOK
  <2>2. CASE ReadError(w)
    BY <2>2 DEF ReadError, Continue, Goto, SlotInv, Working, RetriesLeft, TypeOK
  <2>3. CASE HeartbeatError(w) \/ Crash(w)
    BY <2>3 DEF HeartbeatError, Crash, Goto, SlotInv, Working, RetriesLeft, TypeOK
  <2> QED
    BY <1>3, <2>1, <2>2, <2>3 DEF SlotFault
<1>4. ASSUME NEW w \in Workers, Heartbeat(w) \/ Restart(w) PROVE SlotInv'
  BY <1>4 DEF Heartbeat, Restart, Continue, Goto, SlotInv, Working, RetriesLeft, TypeOK
<1>5. CASE Tick \/ ReclaimExpiredLeases
  BY <1>5 DEF Tick, ReclaimExpiredLeases, SlotInv, Working, RetriesLeft, slot
<1>6. CASE UNCHANGED vars
  BY <1>6 DEF SlotInv, Working, RetriesLeft, vars, slot
<1> QED
  BY <1>1, <1>2, <1>3, <1>4, <1>5, <1>6 DEF Next

(* Every step keeps the facts that relate rows to slots. *)
LEMMA RowStep ==
  ASSUME QueueInv, TypeOK', [Next]_vars
  PROVE  RowInv'
<1> USE DEF QueueInv
<1>1. ASSUME NEW j \in Jobs, Create(j) \/ Requeue(j) \/ BackoffElapses(j) PROVE RowInv'
  <2>1. /\ state[j] \in {"ABSENT", "FAILED", "RETRY_WAIT"} /\ (pc' = pc /\ held' = held /\ token' = token /\ mem' = mem)
        /\ owner' = owner /\ lease' = lease /\ attempt' = attempt
        /\ state' = state \/ (state' = [state EXCEPT ![j] = "QUEUED"])
    BY <1>1 DEF Create, Requeue, BackoffElapses, slot
  <2>2. LeaseColumns'
    BY <2>1 DEF LeaseColumns, TypeOK
  <2>3. ClaimsExclusive'
    BY <2>1 DEF ClaimsExclusive, TypeOK
  <2>4. OwnerHoldsLatestClaim'
    BY <2>1 DEF OwnerHoldsLatestClaim, OwnsRow, Working, TypeOK
  <2>5. RetryOnlyWithAttemptsLeft'
    BY <2>1 DEF RetryOnlyWithAttemptsLeft, TypeOK
  <2> QED
    BY <2>2, <2>3, <2>4, <2>5 DEF RowInv
<1>2. ASSUME NEW w \in Workers, SlotStep(w) PROVE RowInv'
  <2>1. ASSUME NEW j \in Jobs, ClaimSelect(w, j) PROVE RowInv'
    <3> USE <2>1 DEF ClaimSelect, Goto, row
    <3>1. LeaseColumns' /\ RetryOnlyWithAttemptsLeft'
      BY DEF LeaseColumns, RetryOnlyWithAttemptsLeft
    <3>2. ClaimsExclusive'
      BY DEF ClaimsExclusive, MayLock, Claimable, Locked, TypeOK
    <3>3. OwnerHoldsLatestClaim'
      BY DEF OwnerHoldsLatestClaim, OwnsRow, Working, TypeOK
    <3> QED
      BY <3>1, <3>2, <3>3 DEF RowInv
  <2>2. CASE ClaimCommit(w)
    <3>1. held[w] \in Jobs /\ state[held[w]] \in {"QUEUED", "RETRY_WAIT"}
      BY <2>2 DEF ClaimCommit, ClaimsExclusive
    <3>2. owner[held[w]] = NoWorker
      BY <3>1 DEF LeaseColumns
    <3> USE <2>2, <3>1, <3>2 DEF ClaimCommit, Goto
    <3>3. LeaseColumns'
      BY DEF LeaseColumns, TypeOK
    <3>4. RetryOnlyWithAttemptsLeft'
      BY DEF RetryOnlyWithAttemptsLeft, TypeOK
    <3>5. ClaimsExclusive'
      BY DEF ClaimsExclusive, TypeOK
    <3>6. OwnerHoldsLatestClaim'
      BY DEF OwnerHoldsLatestClaim, OwnsRow, Working, ClaimedAttempt, TypeOK
    <3> QED
      BY <3>3, <3>4, <3>5, <3>6 DEF RowInv
  <2>3. CASE Load(w)
    BY <2>3, SlotMove DEF Load, Continue, Goto, Working, SlotPcs, row
  <2>4. CASE StepRead(w)
    BY <2>4, SlotMove DEF StepRead, Goto, Working, SlotPcs, row
  <2>5. CASE StepCommit(w)
    BY <2>5, SlotMove DEF StepCommit, Continue, Goto, Working, SlotPcs, row
  <2>6. CASE StepError(w)
    BY <2>6, SlotMove DEF StepError, Continue, Goto, Working, SlotPcs, row
  <2>7. CASE Refresh(w)
    BY <2>7, SlotMove DEF Refresh, Goto, Working, SlotPcs, row
  <2>8. CASE FailOrRetry(w)
    BY <2>8, SlotMove DEF FailOrRetry, Continue, Goto, Working, SlotPcs, row
  <2>9. CASE Complete(w)
    BY <2>9, SettleMove DEF Complete, Return, Goto, Working
  <2>10. CASE FailRetry(w)
    BY <2>10, SettleMove DEF FailRetry, Return, Goto, Working
  <2>11. CASE FailFinal(w)
    BY <2>11, SettleMove DEF FailFinal, Return, Continue, Goto, Working
  <2>12. CASE Rollback(w)
    BY <2>12, SlotMove DEF Rollback, Return, Goto, Working, SlotPcs, row
  <2> QED
    BY <1>2, <2>1, <2>2, <2>3, <2>4, <2>5, <2>6, <2>7, <2>8, <2>9, <2>10, <2>11, <2>12
    DEF SlotStep
<1>3. ASSUME NEW w \in Workers, SlotFault(w) PROVE RowInv'
  <2>1. CASE ClaimAbort(w) \/ GiveUp(w)
    BY <2>1, SlotMove DEF ClaimAbort, GiveUp, Return, Goto, SlotPcs, row
  <2>2. CASE ReadError(w)
    BY <2>2, SlotMove DEF ReadError, Continue, Goto, Working, SlotPcs, row
  <2>3. CASE HeartbeatError(w)
    BY <2>3 DEF HeartbeatError, row, RowInv, LeaseColumns, ClaimsExclusive,
                OwnerHoldsLatestClaim, OwnsRow, Working, RetryOnlyWithAttemptsLeft
  <2>4. CASE Crash(w)
    BY <2>4, SlotMove DEF Crash, Goto, SlotPcs, row
  <2> QED
    BY <1>3, <2>1, <2>2, <2>3, <2>4 DEF SlotFault
<1>4. ASSUME NEW w \in Workers, Heartbeat(w) PROVE RowInv'
  <2>1. LeaseColumns'
    BY <1>4 DEF Heartbeat, LeaseColumns, OwnsRow, TypeOK
  <2> QED
    BY <1>4, <2>1 DEF Heartbeat, RowInv, ClaimsExclusive,
                      OwnerHoldsLatestClaim, OwnsRow, Working, RetryOnlyWithAttemptsLeft
<1>5. ASSUME NEW w \in Workers, Restart(w) PROVE RowInv'
  BY <1>5, SlotMove DEF Restart, Continue, Goto, SlotPcs, row
<1>6. CASE Tick
  <2>1. LeaseColumns'
    BY <1>6 DEF Tick, LeaseColumns, TypeOK
  <2> QED
    BY <1>6, <2>1 DEF Tick, slot, RowInv, ClaimsExclusive,
                      OwnerHoldsLatestClaim, OwnsRow, Working, RetryOnlyWithAttemptsLeft
<1>7. CASE ReclaimExpiredLeases
  <2>1. LeaseColumns'
    BY <1>7 DEF ReclaimExpiredLeases, Expired, LeaseColumns, TypeOK
  <2>2. ClaimsExclusive'
    BY <1>7 DEF ReclaimExpiredLeases, Expired, ClaimsExclusive, slot
  <2>3. OwnerHoldsLatestClaim'
    BY <1>7 DEF ReclaimExpiredLeases, Expired, OwnerHoldsLatestClaim, OwnsRow, Working, slot
  <2>4. RetryOnlyWithAttemptsLeft'
    BY <1>7 DEF ReclaimExpiredLeases, Expired, RetryOnlyWithAttemptsLeft
  <2> QED
    BY <2>1, <2>2, <2>3, <2>4 DEF RowInv
<1>8. CASE UNCHANGED vars
  BY <1>8 DEF vars, row, slot, RowInv, LeaseColumns, ClaimsExclusive,
              OwnerHoldsLatestClaim, OwnsRow, Working, RetryOnlyWithAttemptsLeft
<1> QED
  BY <1>1, <1>2, <1>3, <1>4, <1>5, <1>6, <1>7, <1>8 DEF Next

(* The invariant holds of an empty table and idle slots. *)
LEMMA InitInv == Init => QueueInv
<1> SUFFICES ASSUME Init PROVE QueueInv
  OBVIOUS
<1>1. TypeOK
  BY DEF Init, TypeOK, JobStates, SlotPcs, Stages
<1>2. SlotInv
  BY DEF Init, SlotInv, Working
<1>3. LeaseColumns /\ RetryOnlyWithAttemptsLeft
  BY DEF Init, LeaseColumns, RetryOnlyWithAttemptsLeft
<1>4. ClaimsExclusive /\ OwnerHoldsLatestClaim
  BY DEF Init, ClaimsExclusive, OwnerHoldsLatestClaim, Working
<1> QED
  BY <1>1, <1>2, <1>3, <1>4 DEF QueueInv

(* Every reachable state satisfies the inductive invariant. *)
THEOREM QueueInvariant == Spec => []QueueInv
<1>1. QueueInv /\ [Next]_vars => QueueInv'
  BY TypeStep, SlotStepInv, RowStep DEF QueueInv, RowInv
<1> QED
  BY InitInv, <1>1, PTL DEF Spec

(* repository.go and the slot loop only ever put typed values in the       *)
(* columns; in particular no lease is ever longer than job_lease.          *)
THEOREM TypeCorrect == Spec => []TypeOK
<1>1. QueueInv => TypeOK
  BY DEF QueueInv
<1> QED
  BY <1>1, QueueInvariant, PTL

(* A row carries lease_owner exactly while it is RUNNING: no settlement,   *)
(* reclaim, requeue or crash leaves a stale owner that a later Heartbeat,  *)
(* Complete or Fail could match.                                           *)
THEOREM LeaseColumnsCorrect == Spec => []LeaseColumns
<1>1. QueueInv => LeaseColumns
  BY DEF QueueInv
<1> QED
  BY <1>1, QueueInvariant, PTL

(* FOR UPDATE SKIP LOCKED gives a row to one claiming transaction at most. *)
THEOREM ClaimsAreExclusive == Spec => []ClaimsExclusive
<1>1. QueueInv => ClaimsExclusive
  BY DEF QueueInv
<1> QED
  BY <1>1, QueueInvariant, PTL

(* The WHERE lease_owner = $w of Heartbeat, Complete and Fail is as good   *)
(* as a fencing token: a zombie slot never matches a row claimed again.    *)
THEOREM OwnerIsFenced == Spec => []OwnerHoldsLatestClaim
<1>1. QueueInv => OwnerHoldsLatestClaim
  BY DEF QueueInv
<1> QED
  BY <1>1, QueueInvariant, PTL

(* failOrRetry decides on a copy of attempt that may be old, and still no  *)
(* job out of attempts is put in RETRY_WAIT.                               *)
THEOREM RetriesAreBounded == Spec => []RetryOnlyWithAttemptsLeft
<1>1. QueueInv => RetryOnlyWithAttemptsLeft
  BY DEF QueueInv
<1> QED
  BY <1>1, QueueInvariant, PTL
-----------------------------------------------------------------------------
(* What a slot holds, as JobLifecycle sees it. *)
Grants == [w \in Workers |-> IF Working(w) THEN <<held[w], token[w]>> ELSE <<>>]

(* A slot that goes on with its job, or was not working and still is not,  *)
(* keeps its grant.                                                        *)
LEMMA GrantKept ==
  ASSUME TypeOK, NEW w \in Workers, NEW label,
         pc' = [pc EXCEPT ![w] = label],
         Working(w) <=> label \notin {"down", "idle", "claim"},
         Working(w) => held' = held,
         ~Working(w) => \A v \in Workers : v # w => held'[v] = held[v],
         token' = token
  PROVE  Grants' = Grants
<1>1. ASSUME NEW v \in Workers
      PROVE  Grants'[v] = Grants[v]
  <2>1. Working(v)' <=> Working(v)
    BY DEF Working, TypeOK
  <2>2. Working(v) => held'[v] = held[v]
    BY DEF Working, TypeOK
  <2> QED
    BY <2>1, <2>2 DEF Grants
<1> QED
  BY <1>1 DEF Grants

(* A slot that returns to idle, or dies, lets its grant go. *)
LEMMA GrantDropped ==
  ASSUME TypeOK, NEW w \in Workers, NEW label \in {"down", "idle"},
         pc' = [pc EXCEPT ![w] = label],
         held' = [held EXCEPT ![w] = NoJob],
         token' = token
  PROVE  Grants' = [Grants EXCEPT ![w] = <<>>]
<1>1. ASSUME NEW v \in Workers
      PROVE  Grants'[v] = [Grants EXCEPT ![w] = <<>>][v]
  BY DEF Grants, Working, TypeOK
<1> QED
  BY <1>1 DEF Grants

(* A slot's move that changes no row is a stutter or a Drop. *)
LEMMA MoveRefines ==
  ASSUME TypeOK, NEW w \in Workers, NEW label,
         pc' = [pc EXCEPT ![w] = label],
         \/ Working(w) /\ label \notin {"down", "idle", "claim"} /\ held' = held
         \/ label \in {"down", "idle"} /\ held' = [held EXCEPT ![w] = NoJob],
         UNCHANGED <<state, attempt, token>>
  PROVE  Lifecycle!Next \/ UNCHANGED <<state, attempt, Grants>>
<1>1. CASE Working(w) /\ label \notin {"down", "idle", "claim"} /\ held' = held
  <2>1. Grants' = Grants
    BY <1>1, GrantKept
  <2> QED
    BY <2>1
<1>2. CASE label \in {"down", "idle"} /\ held' = [held EXCEPT ![w] = NoJob]
  <2>1. Grants' = [Grants EXCEPT ![w] = <<>>]
    BY <1>2, GrantDropped
  <2>2. Lifecycle!Drop(w)
    BY <2>1 DEF Lifecycle!Drop, Lifecycle!NoGrant, Grants
  <2> QED
    BY <2>2 DEF Lifecycle!Next
<1> QED
  BY <1>1, <1>2

(* A settlement is a Settle of the latest grant, or nothing but a Drop     *)
(* when the lease was lost.                                                *)
LEMMA SettleRefines ==
  ASSUME QueueInv, NEW w \in Workers, Working(w), NEW label \in {"idle", "rollback"},
         NEW s \in {"RETRY_WAIT", "SUCCEEDED", "FAILED"}, SettleIfOwner(w, s),
         pc' = [pc EXCEPT ![w] = label],
         \/ label = "rollback" /\ held' = held
         \/ label = "idle" /\ held' = [held EXCEPT ![w] = NoJob],
         token' = token
  PROVE  Lifecycle!Next \/ UNCHANGED <<state, attempt, Grants>>
<1> USE DEF QueueInv
<1>1. held[w] \in Jobs
  BY DEF SlotInv
<1>2. Grants' = Grants \/ Grants' = [Grants EXCEPT ![w] = <<>>]
  BY GrantKept, GrantDropped
<1>3. CASE OwnsRow(w, held[w])
  <2>1. state' = [state EXCEPT ![held[w]] = s] /\ attempt' = attempt
    BY <1>3 DEF SettleIfOwner
  <2>2. Grants[w] = <<held[w], attempt[held[w]]>>
    BY <1>1, <1>3 DEF OwnerHoldsLatestClaim, Grants
  <2>3. PICK j \in Jobs : j = held[w]
    BY <1>1
  <2>4. Lifecycle!Settle(w, j)
    BY <1>2, <1>3, <2>1, <2>2, <2>3
    DEF OwnsRow, Lifecycle!Settle, Lifecycle!Settled, Lifecycle!NoGrant, Grants
  <2> QED
    BY <2>4 DEF Lifecycle!Next
<1>4. CASE ~OwnsRow(w, held[w])
  <2>1. state' = state /\ attempt' = attempt
    BY <1>4 DEF SettleIfOwner
  <2> QED
    BY <2>1, MoveRefines
<1> QED
  BY <1>3, <1>4

(* Every step of the table is a step of the lifecycle or a stutter. *)
LEMMA StepRefines ==
  ASSUME QueueInv, [Next]_vars
  PROVE  Lifecycle!Next \/ UNCHANGED <<state, attempt, Grants>>
<1> DEFINE Refined == Lifecycle!Next \/ UNCHANGED <<state, attempt, Grants>>
<1> USE DEF QueueInv
<1>1. ASSUME NEW j \in Jobs, Create(j) \/ Requeue(j) PROVE Refined
  <2>1. Grants' = Grants
    BY <1>1 DEF Create, Requeue, Grants, Working, slot
  <2>2. Lifecycle!Submit(j) \/ Lifecycle!Reopen(j)
    BY <1>1, <2>1 DEF Create, Requeue, Lifecycle!Submit, Lifecycle!Reopen, Grants
  <2> QED
    BY <2>2 DEF Lifecycle!Next
<1>2. ASSUME NEW w \in Workers, SlotStep(w) PROVE Refined
  <2>1. ASSUME NEW j \in Jobs, ClaimSelect(w, j) PROVE Refined
    <3>1. Grants' = Grants
      BY <2>1, GrantKept DEF ClaimSelect, Goto, Working, TypeOK
    <3> QED
      BY <2>1, <3>1 DEF ClaimSelect, row
  <2>2. CASE ClaimCommit(w)
    <3>1. held[w] \in Jobs /\ state[held[w]] \in {"QUEUED", "RETRY_WAIT"}
      BY <2>2 DEF ClaimCommit, ClaimsExclusive
    <3>2. Grants[w] = <<>>
      BY <2>2 DEF ClaimCommit, Grants, Working
    <3>3. Grants' = [Grants EXCEPT ![w] = <<held[w], attempt[held[w]] + 1>>]
      BY <2>2, <3>1 DEF ClaimCommit, Goto, Grants, Working, TypeOK
    <3>4. PICK j \in Jobs : j = held[w]
      BY <3>1
    <3>5. Lifecycle!Grant(w, j)
      BY <2>2, <3>1, <3>2, <3>3, <3>4
      DEF ClaimCommit, Lifecycle!Grant, Lifecycle!NoGrant, Grants
    <3> QED
      BY <3>5 DEF Lifecycle!Next
  <2>3. CASE Load(w)
    BY <2>3, MoveRefines DEF Load, Continue, Goto, Working, row
  <2>4. CASE StepRead(w)
    BY <2>4, MoveRefines DEF StepRead, Goto, Working, row
  <2>5. CASE StepCommit(w)
    BY <2>5, MoveRefines DEF StepCommit, Continue, Goto, Working, row
  <2>6. CASE StepError(w)
    BY <2>6, MoveRefines DEF StepError, Continue, Goto, Working, row
  <2>7. CASE Refresh(w)
    BY <2>7, MoveRefines DEF Refresh, Goto, Working, row
  <2>8. CASE FailOrRetry(w)
    BY <2>8, MoveRefines DEF FailOrRetry, Continue, Goto, Working, row
  <2>9. CASE Complete(w)
    BY <2>9, SettleRefines DEF Complete, Return, Goto, Working
  <2>10. CASE FailRetry(w)
    BY <2>10, SettleRefines DEF FailRetry, Return, Goto, Working
  <2>11. CASE FailFinal(w)
    BY <2>11, SettleRefines DEF FailFinal, Return, Continue, Goto, Working
  <2>12. CASE Rollback(w)
    BY <2>12, MoveRefines DEF Rollback, Return, Goto, row
  <2> QED
    BY <1>2, <2>1, <2>2, <2>3, <2>4, <2>5, <2>6, <2>7, <2>8, <2>9, <2>10, <2>11, <2>12
    DEF SlotStep
<1>3. ASSUME NEW w \in Workers, SlotFault(w) PROVE Refined
  <2>1. CASE ClaimAbort(w) \/ GiveUp(w)
    BY <2>1, MoveRefines DEF ClaimAbort, GiveUp, Return, Goto, row
  <2>2. CASE ReadError(w)
    BY <2>2, MoveRefines DEF ReadError, Continue, Goto, Working, row
  <2>3. CASE HeartbeatError(w)
    BY <2>3 DEF HeartbeatError, row, Grants, Working
  <2>4. CASE Crash(w)
    BY <2>4, MoveRefines DEF Crash, Goto, row
  <2> QED
    BY <1>3, <2>1, <2>2, <2>3, <2>4 DEF SlotFault
<1>4. ASSUME NEW w \in Workers, Restart(w) PROVE Refined
  <2>1. Grants' = Grants
    BY <1>4, GrantKept DEF Restart, Continue, Goto, Working, TypeOK
  <2> QED
    BY <1>4, <2>1 DEF Restart, row
<1>5. CASE ReclaimExpiredLeases
  <2> DEFINE S == {j \in Jobs : Expired(j)}
  <2>1. Grants' = Grants
    BY <1>5 DEF ReclaimExpiredLeases, Grants, Working, slot
  <2>2. Lifecycle!Withdraw(S)
    BY <1>5, <2>1 DEF ReclaimExpiredLeases, Expired, Lifecycle!Withdraw, Grants
  <2> QED
    BY <2>2 DEF Lifecycle!Next
<1>6. ASSUME \/ \E j \in Jobs : BackoffElapses(j)
             \/ \E w \in Workers : Heartbeat(w)
             \/ Tick
             \/ UNCHANGED vars
      PROVE  Refined
  BY <1>6 DEF BackoffElapses, Heartbeat, Tick, vars, row, slot, Grants, Working
<1> QED
  BY <1>1, <1>2, <1>3, <1>4, <1>5, <1>6 DEF Next

(* The table, with its leases, heartbeats, crashes and zombies, implements *)
(* JobLifecycle: only the latest grant of a job settles it.                *)
THEOREM QueueImplementsLifecycle == Spec => ImplementsLifecycle
<1>1. Init => Lifecycle!Init
  BY DEF Init, Lifecycle!Init, Lifecycle!NoGrant, Working
<1>2. QueueInv /\ [Next]_vars => [Lifecycle!Next]_(Lifecycle!lifecycleVars)
  BY StepRefines DEF Lifecycle!lifecycleVars, Grants
<1> QED
  BY <1>1, <1>2, QueueInvariant, PTL DEF Spec, ImplementsLifecycle, Lifecycle!Spec
=============================================================================
