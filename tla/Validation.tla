----------------------------- MODULE Validation -----------------------------
(***************************************************************************)
(* VALIDATING_IDENTITY and VALIDATING_EGRESS (handlers_validation.go) of   *)
(* several instances at once, with the table identity_observations they    *)
(* compare themselves with (storage/identity.go), and the drift scan of    *)
(* the instances that passed (validation/drift.go).                        *)
(*                                                                         *)
(* A handler collects the facts, asks for duplicates in two queries and    *)
(* saves observation, verdict and state in one transaction.  A guest may   *)
(* change at any time, and the operator may retire an instance.            *)
(***************************************************************************)
EXTENDS ValidationRules

CONSTANTS
  Instances,
  Guests,      \* what the guests may show
  Fragile,     \* the outputs that may be lost
  MaxFaults,   \* bound on collections and transactions that fail and on outputs that are lost
  MaxChanges   \* bound on guests that change

ASSUME ValidationAssumption ==
  Guests \subseteq Facts /\ Fragile \subseteq Outputs /\ MaxFaults \in Nat /\ MaxChanges \in Nat

VARIABLES
  guest,      \* guest[i]: the truth
  state,      \* state[i]: of the instance
  retired,    \* retired_at is set
  observed,   \* identity_observations, in the order of the inserts
  pc, seen, machineDups, sshDups,  \* the handler's local variables, per instance
  drift,      \* drift[i]: what the last scan returned
  faults, changes,
  basis,      \* history: the guest when its facts were last collected, and the outputs that were lost
  proven,     \* history: the instances whose egress proof had nothing wrong
  scanned,    \* history: the guest at its last scan, and the outputs that were lost
  overlapped  \* history: pairs where one looked for duplicates before the other's insert

local == <<pc, seen, machineDups, sshDups>>
vars  == <<guest, state, retired, observed, local, drift, faults, changes, basis, proven, scanned, overlapped>>

States == {"VALIDATING_IDENTITY", "VALIDATING_EGRESS", "APPLYING_WORKLOAD", "QUARANTINED"}
Labels == {"collect", "machine", "ssh", "save", "done"}

Observation(i) == [instance : {i}, machine : MachineIds \cup {BadId}, ssh : Keys \cup {None}]

Init ==
  /\ guest \in [Instances -> Guests]
  /\ state = [i \in Instances |-> "VALIDATING_IDENTITY"]
  /\ retired = {} /\ observed = {}
  /\ pc = [i \in Instances |-> "collect"]
  /\ seen = [i \in Instances |-> None]
  /\ machineDups = [i \in Instances |-> {}]
  /\ sshDups = [i \in Instances |-> {}]
  /\ drift = [i \in Instances |-> {}]
  /\ faults = 0 /\ changes = 0
  /\ basis = [i \in Instances |-> None]
  /\ proven = {}
  /\ scanned = [i \in Instances |-> None]
  /\ overlapped = {}

(* the locals of a handler that is left *)
Forget(i) ==
  /\ seen' = [seen EXCEPT ![i] = None]
  /\ machineDups' = [machineDups EXCEPT ![i] = {}] /\ sshDups' = [sshDups EXCEPT ![i] = {}]

Goto(i, label) == pc' = [pc EXCEPT ![i] = label]
Fault == faults < MaxFaults /\ faults' = faults + 1
World == UNCHANGED <<guest, retired, changes, drift, proven, scanned>>
-----------------------------------------------------------------------------
Losses == {broken \in SUBSET Fragile : Cardinality(broken) <= MaxFaults}

(* Each lost output costs a fault; an error leaves the job to be retried. *)
CollectFacts(broken) == faults' = faults + Cardinality(broken) /\ faults' <= MaxFaults

Collect(i) ==
  /\ state[i] = "VALIDATING_IDENTITY" /\ pc[i] = "collect"
  /\ \E broken \in Losses :
       /\ CollectFacts(broken)
       /\ seen' = [seen EXCEPT ![i] = NormalizeFacts(guest[i], broken)]
       /\ basis' = [basis EXCEPT ![i] = [guest |-> guest[i], broken |-> broken]]
  /\ Goto(i, "machine")
  /\ UNCHANGED <<state, observed, machineDups, sshDups, overlapped>> /\ World

(* one match per other instance that has ever shown the value, retired as of now *)
FindDuplicateBy(i, column, value) ==
  {[instance |-> o.instance, retired |-> o.instance \in retired] :
     o \in {o \in observed : o.instance # i /\ o[column] = value}}

FindDuplicateMachineDigest(i) ==
  /\ pc[i] = "machine"
  /\ machineDups' = [machineDups EXCEPT ![i] = FindDuplicateBy(i, "machine", seen[i].machine)]
  /\ Goto(i, "ssh")
  /\ UNCHANGED <<state, observed, seen, sshDups, faults, basis, overlapped>> /\ World

(* without a host key there is no query *)
FindDuplicateSSHFingerprint(i) ==
  LET fingerprint == CanonicalSSHFingerprint(seen[i])
      matches == IF fingerprint = None THEN {} ELSE FindDuplicateBy(i, "ssh", fingerprint)
  IN /\ pc[i] = "ssh"
     /\ sshDups' = [sshDups EXCEPT ![i] = matches]
     /\ Goto(i, "save")
     /\ UNCHANGED <<state, observed, seen, machineDups, faults, basis, overlapped>> /\ World

IdentityResult(i) == Result(EvaluateIdentityAndNetwork(seen[i], machineDups[i], sshDups[i]))

(* anything but PASS is a quarantine *)
Successor(result, s) == IF result = "PASS" THEN s ELSE "QUARANTINED"

(* faulty variant of Observations: a guest that fails leaves no observation *)
ObservationsOfPass(i) ==
  IF IdentityResult(i) # "PASS" THEN observed
  ELSE observed \cup {[instance |-> i, machine |-> seen[i].machine, ssh |-> CanonicalSSHFingerprint(seen[i])]}

(* the observation is inserted with the verdict, whatever that is *)
Observations(i) == observed \cup
  {[instance |-> i, machine |-> seen[i].machine, ssh |-> CanonicalSSHFingerprint(seen[i])]}

(* those that have asked and not saved yet do not see this insert *)
Blind(i) == {j \in Instances \ {i} : pc[j] \in {"ssh", "save"}}

SaveIdentity(i) ==
  /\ pc[i] = "save" /\ state[i] = "VALIDATING_IDENTITY"
  /\ observed' = Observations(i)
  /\ state' = [state EXCEPT ![i] = Successor(IdentityResult(i), "VALIDATING_EGRESS")]
  /\ overlapped' = overlapped \cup {{i, j} : j \in Blind(i)}
  /\ Goto(i, IF state'[i] = "QUARANTINED" THEN "done" ELSE "collect")
  /\ Forget(i)
  /\ UNCHANGED <<faults, basis>> /\ World

(* a collection, a query or the transaction fails: everything is asked again *)
StepFails(i) ==
  /\ state[i] = "VALIDATING_IDENTITY"
  /\ Fault
  /\ Goto(i, "collect") /\ Forget(i)
  /\ UNCHANGED <<state, observed, basis, overlapped>> /\ World

(* proofs with at most one thing wrong *)
GatewayProofs == {p \in Proofs : Cardinality({f \in DOMAIN p : p[f] # SoundProof[f]}) <= 1}

(* nothing is wrong with it, or only what the configuration does not ask for *)
Faultless(p) == (IF DenyIPv6 THEN p ELSE [p EXCEPT !.ipv6Blocked = TRUE]) = SoundProof

(* the proof is the gateway's word; nothing else is read *)
ValidateEgress(i) ==
  /\ state[i] = "VALIDATING_EGRESS"
  /\ \E p \in GatewayProofs :
       /\ state' = [state EXCEPT ![i] = Successor(Result(EvaluateEgress(p)), "APPLYING_WORKLOAD")]
       /\ proven' = IF Faultless(p) THEN proven \cup {i} ELSE proven
  /\ Goto(i, "done")
  /\ UNCHANGED <<guest, retired, observed, seen, machineDups, sshDups, drift, faults, changes, basis, scanned, overlapped>>
-----------------------------------------------------------------------------
Latest(i) == LET mine == {o \in observed : o.instance = i}
             IN IF mine = {} THEN None ELSE (CHOOSE o \in mine : TRUE).machine

(* without duplicates, whatever the fleet has come to hold *)
ScanInstance(i) ==
  /\ state[i] = "APPLYING_WORKLOAD"
  /\ \E broken \in Losses :
       LET facts == NormalizeFacts(guest[i], broken) IN
       /\ CollectFacts(broken)
       /\ drift' = [drift EXCEPT ![i] =
            CompareDigestStability(Latest(i), facts.machine)
              \cup ClassifyFailedChecks(EvaluateIdentityAndNetwork(facts, {}, {}))]
       /\ scanned' = [scanned EXCEPT ![i] = [guest |-> guest[i], broken |-> broken]]
  /\ UNCHANGED <<guest, state, retired, observed, local, changes, basis, proven, overlapped>>

GuestChanges(i) ==
  /\ changes < MaxChanges /\ changes' = changes + 1
  /\ \E g \in Guests : guest' = [guest EXCEPT ![i] = g]
  /\ UNCHANGED <<state, retired, observed, local, drift, faults, basis, proven, scanned, overlapped>>

Retire(i) ==
  /\ i \notin retired
  /\ retired' = retired \cup {i}
  /\ UNCHANGED <<guest, state, observed, local, drift, faults, changes, basis, proven, scanned, overlapped>>

Next == \E i \in Instances :
  \/ Collect(i) \/ FindDuplicateMachineDigest(i) \/ FindDuplicateSSHFingerprint(i) \/ SaveIdentity(i)
  \/ StepFails(i) \/ ValidateEgress(i) \/ ScanInstance(i) \/ GuestChanges(i) \/ Retire(i)

Spec == Init /\ [][Next]_vars
-----------------------------------------------------------------------------
(* what a finding of the scan may be about: a rule, or the recorded digest *)
Categories ==
  {"ID-001", "ID-002", "ID-003", "ID-004", "ID-005", "ID-006", "ID-008", "NET-001", "NET-002", "NET-003",
   "NET-004", "NET-005", "NET-009", "identity_digest_stability"}

(* The tables and the handlers' local variables hold values of their kinds; an *)
(* observation is there from the verdict on, and only then.                    *)
TypeOK ==
  /\ guest \in [Instances -> Guests]
  /\ {basis, scanned} \subseteq [Instances -> [guest : Guests, broken : SUBSET Outputs] \cup {None}]
  /\ proven \subseteq Instances
  /\ state \in [Instances -> States] /\ retired \subseteq Instances
  /\ pc \in [Instances -> Labels] /\ seen \in [Instances -> Facts \cup {None}]
  /\ {machineDups, sshDups} \subseteq [Instances -> SUBSET [instance : Instances, retired : BOOLEAN]]
  /\ drift \in [Instances -> SUBSET [category : Categories, classification : {"quarantine", "repairable"}]]
  /\ \A i \in Instances :
       /\ \A m \in machineDups[i] \cup sshDups[i] : m.instance # i
       /\ {o \in observed : o.instance = i} = {} <=> state[i] = "VALIDATING_IDENTITY"
  /\ observed \subseteq [instance : Instances, machine : MachineIds \cup {BadId}, ssh : Keys \cup {None}]
  /\ faults \in 0..MaxFaults /\ changes \in 0..MaxChanges

Passed(i) == state[i] \in {"VALIDATING_EGRESS", "APPLYING_WORKLOAD"}
Strictest == RequireSingleNIC /\ RequireSingleDefaultRoute /\ DenyIPv6DefaultRoute

(* Said without the rules: what a guest must be, warnings aside. *)
InOrder(g) ==
  /\ g.machine \in MachineIds /\ \E type \in KeyTypes : g.keys[type] # None
  /\ [g EXCEPT !.cloudInit = TRUE, !.bootId = TRUE] = Sound(g.machine, g.keys)

(* a guest of which it is not known whether it has an IPv6 default route: the one *)
(* loss that looks like what the rules ask for (facts.go:36, NET-004)             *)
Unrouted(look) == IF "def6" \in look.broken THEN [look.guest EXCEPT !.v6routes = 0] ELSE look.guest

(* An instance goes on only if its guest, when it was asked, broke no hard rule,   *)
(* whatever else could not be read (facts.go, check.go:16), and reaches its        *)
(* workload only on a proof without a fault.                                       *)
PassIsSound ==
  \A i \in Instances :
    /\ Strictest /\ Passed(i) => InOrder(Unrouted(basis[i]))
    /\ state[i] = "APPLYING_WORKLOAD" => i \in proven

(* An unknown never passes (check.go:66-69): the guest of an instance that goes on *)
(* was in order, IPv6 routes included.                                             *)
UnknownNeverPasses == Strictest => \A i \in Instances : Passed(i) => InOrder(basis[i].guest)

(* A check that warns does not keep an instance from going on (check.go:16-17).    *)
WarningsOnlyWarn ==
  [][\A i \in Instances : state[i] = "VALIDATING_IDENTITY" /\ state'[i] = "QUARANTINED"
       => IdentityResult(i) = "FAIL"]_vars

(* one machine id, or one host key where all keys could be read *)
SameIdentity(one, other) ==
  \/ one.guest.machine = other.guest.machine
  \/ /\ CanonicalSSHFingerprint(one.guest) = CanonicalSSHFingerprint(other.guest)
     /\ (one.broken \cup other.broken) \cap KeyTypes = {}

(* Two live instances that show one identity both pass only if the look-up of one   *)
(* (handlers_validation.go:87-96) came before the insert of the other: no lock or    *)
(* unique index of the table closes that window.                                    *)
DuplicatesNeedOverlap ==
  \A i, j \in Instances \ retired :
    i # j /\ Passed(i) /\ Passed(j) /\ SameIdentity(basis[i], basis[j]) => {i, j} \in overlapped

(* A scan calls for a quarantine whenever the machine id is no longer the one that *)
(* was recorded or the guest breaks a hard rule, an IPv6 route that could not be   *)
(* counted excepted, and never for a guest that is as it was and that could be     *)
(* read, now and before (drift.go: ScanInstance).                                  *)
DriftNoticed ==
  Strictest => \A i \in Instances : scanned[i] # None =>
    LET now   == scanned[i].guest
        alarm == \E f \in drift[i] : f.classification = "quarantine"
    IN /\ now.machine # basis[i].guest.machine \/ ~InOrder(Unrouted(scanned[i])) => alarm
       /\ alarm => now # basis[i].guest \/ scanned[i].broken # {} \/ "def6" \in basis[i].broken
=============================================================================
