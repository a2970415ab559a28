---------------------------- MODULE JobLifecycle ----------------------------
(***************************************************************************)
(* What the job table promises to the rest of the system, independently of *)
(* leases, heartbeats and clocks: every grant of a job gets a new number,  *)
(* and only the holder of the number granted last may settle the job.      *)
(* JobQueue, which fences a settlement with the NAME of the lease owner,   *)
(* is shown to implement it.                                               *)
(***************************************************************************)
EXTENDS Naturals

CONSTANTS Jobs, Workers

VARIABLES
  state,   \* state[j]: the job_state column
  epoch,   \* epoch[j]: how many times j has been granted
  grant    \* grant[w]: what worker w believes it was granted, or NoGrant

lifecycleVars == <<state, epoch, grant>>

NoGrant == <<>>
Settled == {"RETRY_WAIT", "SUCCEEDED", "FAILED"}

Init ==
  /\ state = [j \in Jobs |-> "ABSENT"]
  /\ epoch = [j \in Jobs |-> 0]
  /\ grant = [w \in Workers |-> NoGrant]

(* The API inserts the row. *)
Submit(j) ==
  /\ state[j] = "ABSENT"
  /\ state' = [state EXCEPT ![j] = "QUEUED"]
  /\ UNCHANGED <<epoch, grant>>

(* A worker takes a waiting job and receives the next number. *)
Grant(w, j) ==
  /\ grant[w] = NoGrant
  /\ state[j] \in {"QUEUED", "RETRY_WAIT"}
  /\ state' = [state EXCEPT ![j] = "RUNNING"]
  /\ epoch' = [epoch EXCEPT ![j] = @ + 1]
  /\ grant' = [grant EXCEPT ![w] = <<j, epoch[j] + 1>>]

(* Only the latest grant settles a job; the worker may keep the grant in   *)
(* hand (to roll back) or let it go.                                       *)
Settle(w, j) ==
  /\ state[j] = "RUNNING"
  /\ grant[w] = <<j, epoch[j]>>
  /\ \E s \in Settled : state' = [state EXCEPT ![j] = s]
  /\ grant' \in {grant, [grant EXCEPT ![w] = NoGrant]}
  /\ UNCHANGED epoch

(* A worker lets go of what it holds: it gave up, crashed or found out.    *)
Drop(w) ==
  /\ grant' = [grant EXCEPT ![w] = NoGrant]
  /\ UNCHANGED <<state, epoch>>

(* Jobs whose holder fell silent go back to the pool, holders unaware.     *)
Withdraw(S) ==
  /\ \A j \in S : state[j] = "RUNNING"
  /\ state' = [j \in Jobs |-> IF j \in S THEN "QUEUED" ELSE state[j]]
  /\ UNCHANGED <<epoch, grant>>

(* An operator puts a failed or waiting job back. *)
Reopen(j) ==
  /\ state[j] \in {"FAILED", "RETRY_WAIT"}
  /\ state' = [state EXCEPT ![j] = "QUEUED"]
  /\ UNCHANGED <<epoch, grant>>

Next ==
  \/ \E j \in Jobs : Submit(j) \/ Reopen(j)
  \/ \E w \in Workers : Drop(w) \/ \E j \in Jobs : Grant(w, j) \/ Settle(w, j)
  \/ \E S \in SUBSET Jobs : Withdraw(S)

Spec == Init /\ [][Next]_lifecycleVars
=============================================================================
