-------------------------- MODULE ValidationRules --------------------------
(***************************************************************************)
(* What a guest shows (internal/guest/facts.go), the ID, NET and EGR rules *)
(* over it (internal/validation), and how their results are summed up.     *)
(* A fact that a rule only compares with its expected value is a BOOLEAN.  *)
(***************************************************************************)
EXTENDS Naturals, FiniteSets

CONSTANTS
  MachineIds,   \* machine ids of the right form
  BadId,        \* one that is not
  Keys,         \* SSH host keys
  None,
  RequireSingleNIC, RequireSingleDefaultRoute, BlockRetiredDuplicate,  \* configuration
  DenyIPv6DefaultRoute,  \* ipv6_policy = deny, of the segment
  DenyIPv6               \* ipv6_policy = deny, of the configuration

ASSUME RulesAssumption ==
  /\ None \notin MachineIds \cup Keys \cup {BadId} /\ BadId \notin MachineIds
  /\ {RequireSingleNIC, RequireSingleDefaultRoute, BlockRetiredDuplicate} \subseteq BOOLEAN
  /\ {DenyIPv6DefaultRoute, DenyIPv6} \subseteq BOOLEAN

(* "other": the one key of a type that nobody prefers *)
KeyTypes == {"ed25519", "ecdsa", "rsa", "other"}

(* the expected address is among those a guest lists, or only others are, or it lists none *)
Listed == {"expected", "other", "none"}

Facts == [machine : MachineIds \cup {BadId}, keys : [KeyTypes -> Keys \cup {None}],
          hostname : BOOLEAN, mac : Listed, ipv4 : Listed, cloudInit : BOOLEAN, bootId : BOOLEAN,
          nics : 0..2, routes : 0..2, gateway : BOOLEAN, v6routes : 0..1, v6addrs : 0..1]

Sound(m, keys) ==
  [machine |-> m, keys |-> keys, hostname |-> TRUE, mac |-> "expected", ipv4 |-> "expected",
   cloudInit |-> TRUE, bootId |-> TRUE, nics |-> 1, routes |-> 1, gateway |-> TRUE, v6routes |-> 0, v6addrs |-> 0]

(* what the commands of the script print; each may fail on its own, which the script does not tell *)
Outputs == KeyTypes \cup {"machine", "bootId", "hostname", "cloudInit", "nics", "def4", "def6",
                          "link", "addr", "route4"}

(* what is not printed, or is no JSON where JSON is due, is empty or counted as zero *)
NormalizeFacts(raw, broken) ==
  LET read(output, value, empty) == IF output \in broken THEN empty ELSE value
  IN [machine   |-> read("machine", raw.machine, BadId),
      keys      |-> [type \in KeyTypes |-> read(type, raw.keys[type], None)],
      hostname  |-> read("hostname", raw.hostname, FALSE),
      mac       |-> read("link", raw.mac, "none"),
      ipv4      |-> read("addr", raw.ipv4, "none"),
      cloudInit |-> read("cloudInit", raw.cloudInit, FALSE),
      bootId    |-> read("bootId", raw.bootId, FALSE),
      nics      |-> read("nics", raw.nics, 0),
      routes    |-> read("def4", raw.routes, 0),
      gateway   |-> read("route4", raw.gateway, FALSE),
      v6routes  |-> read("def6", raw.v6routes, 0),
      v6addrs   |-> read("addr", raw.v6addrs, 0)]

(* the key that stands for all of them *)
CanonicalSSHFingerprint(f) ==
  CASE f.keys["ed25519"] # None -> f.keys["ed25519"]
    [] f.keys["ed25519"] = None /\ f.keys["ecdsa"] # None -> f.keys["ecdsa"]
    [] f.keys["ed25519"] = None /\ f.keys["ecdsa"] = None /\ f.keys["rsa"] # None -> f.keys["rsa"]
    [] OTHER -> f.keys["other"]
-----------------------------------------------------------------------------
Check(rule, severity, pass) == [rule |-> rule, severity |-> severity, pass |-> pass]

(* faulty variant of HasBlockingDuplicate: only retired matches are looked at *)
HasRetiredDuplicate(matches) == BlockRetiredDuplicate /\ \E m \in matches : m.retired

(* a match in the fleet blocks, one among the retired only by policy *)
HasBlockingDuplicate(matches) == \E m \in matches : ~m.retired \/ BlockRetiredDuplicate

(* faulty variant of IPv4Match: a guest that lists no address breaks no expectation *)
IPv4MatchIfListed(f) == f.ipv4 # "other"

IPv4Match(f) == f.ipv4 = "expected"

EvaluateIdentityAndNetwork(f, machineDups, sshDups) ==
  {Check("ID-001", "BLOCK", f.machine \in MachineIds),
   Check("ID-002", "BLOCK", ~HasBlockingDuplicate(machineDups)),
   Check("ID-003", "BLOCK", CanonicalSSHFingerprint(f) # None /\ ~HasBlockingDuplicate(sshDups)),
   Check("ID-004", "BLOCK", f.hostname),
   Check("ID-005", "BLOCK", f.mac = "expected"),
   Check("ID-006", "WARN", f.cloudInit),
   Check("ID-008", "WARN", f.bootId),
   Check("NET-001", "BLOCK", RequireSingleNIC => f.nics = 1),
   Check("NET-002", "BLOCK", IPv4Match(f)),
   Check("NET-003", "BLOCK", RequireSingleDefaultRoute => f.routes = 1 /\ f.gateway),
   Check("NET-004", "BLOCK", DenyIPv6DefaultRoute => f.v6routes = 0),
   Check("NET-005", "BLOCK", DenyIPv6DefaultRoute => f.v6addrs = 0),
   Check("NET-009", "BLOCK", f.nics <= 1 /\ f.routes <= 1)}

Proofs == [result : BOOLEAN, mapping : BOOLEAN, generation : BOOLEAN, ipv4 : BOOLEAN,
           ipv6Blocked : BOOLEAN, leaks : 0..1, healthy : BOOLEAN,
           age : {"negative", "fresh", "old", "unparseable"}]

SoundProof == [result |-> TRUE, mapping |-> TRUE, generation |-> TRUE, ipv4 |-> TRUE,
               ipv6Blocked |-> TRUE, leaks |-> 0, healthy |-> TRUE, age |-> "fresh"]

ProofIsFresh(age) == age = "fresh"

EvaluateEgress(p) ==
  {Check("EGR-001", "BLOCK", p.result /\ p.mapping),
   Check("EGR-002", "BLOCK", p.generation),
   Check("EGR-003", "BLOCK", p.ipv4),
   Check("EGR-004", "BLOCK", DenyIPv6 => p.ipv6Blocked),
   Check("EGR-005", "BLOCK", p.leaks = 0),
   Check("EGR-006", "BLOCK", p.healthy),
   Check("EGR-007", "BLOCK", ProofIsFresh(p.age))}

Failed(checks) == {c \in checks : ~c.pass}

(* Aggregate, and the result BuildEvidence makes of it *)
Result(checks) ==
  CASE \E c \in Failed(checks) : c.severity = "BLOCK" -> "FAIL"
    [] \A c \in Failed(checks) : c.severity = "WARN" -> IF Failed(checks) = {} THEN "PASS" ELSE "WARN"
-----------------------------------------------------------------------------
Finding(category, classification) == [category |-> category, classification |-> classification]

(* faulty variant of Classification: drift of the network can be repaired *)
ClassificationByArea(c) == IF c.rule \in {"NET-001", "NET-003", "NET-009"} THEN "repairable" ELSE "quarantine"

Classification(c) == IF c.severity = "BLOCK" THEN "quarantine" ELSE "repairable"

ClassifyFailedChecks(checks) == {Finding(c.rule, Classification(c)) : c \in Failed(checks)}

(* digests only: an instance that was never observed has nothing to compare with *)
CompareDigestStability(observed, fresh) ==
  IF observed \in {None, fresh} THEN {} ELSE {Finding("identity_digest_stability", "quarantine")}
=============================================================================
