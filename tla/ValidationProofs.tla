-------------------------- MODULE ValidationProofs --------------------------
(***************************************************************************)
(* Proofs about Validation for every number of instances, guests, machine  *)
(* ids, keys, faults and changes.                                          *)
(***************************************************************************)
EXTENDS Validation, FiniteSetTheorems, TLAPS

(* A look at a guest, and what it shows. *)
Looks == [guest : Guests, broken : SUBSET Outputs]

Shown(look) == NormalizeFacts(look.guest, look.broken)

(* Where a handler is fits the state; what it has seen is what its guest    *)
(* was when it was asked, but for what was lost.                            *)
Asked == {"machine", "ssh", "save"}

HandlerInv(i) ==
  /\ pc[i] \in Asked =>
       state[i] = "VALIDATING_IDENTITY" /\ basis[i] \in Looks /\ seen[i] = Shown(basis[i])
  /\ state[i] = "APPLYING_WORKLOAD" => pc[i] = "done"
  /\ state[i] = "QUARANTINED" => pc[i] = "done"

(* From the verdict on, the one observation of an instance is that of the   *)
(* look the verdict is about, and one that passed had a machine id in it.   *)
ObservationOf(i) ==
  [instance |-> i, machine |-> Shown(basis[i]).machine, ssh |-> CanonicalSSHFingerprint(Shown(basis[i]))]

ObservationInv(i) ==
  /\ state[i] # "VALIDATING_IDENTITY" =>
       basis[i] \in Looks /\ {o \in observed : o.instance = i} = {ObservationOf(i)}
  /\ Passed(i) => Shown(basis[i]).machine \in MachineIds

(* A live instance that has passed has been found by every look-up for its  *)
(* identity that came after its insert.                                     *)
LiveMatch(i) == [instance |-> i, retired |-> FALSE]

LookUpInv(i, j) ==
  Passed(i) /\ i \notin retired /\ {i, j} \notin overlapped =>
    /\ pc[j] \in {"ssh", "save"} /\ Shown(basis[j]).machine = Shown(basis[i]).machine =>
         LiveMatch(i) \in machineDups[j]
    /\ pc[j] = "save" /\ CanonicalSSHFingerprint(Shown(basis[j])) = CanonicalSSHFingerprint(Shown(basis[i]))
         /\ CanonicalSSHFingerprint(Shown(basis[j])) # None => LiveMatch(i) \in sshDups[j]

(* The inductive invariant. *)
ValidationInv ==
  /\ TypeOK
  /\ \A i \in Instances : HandlerInv(i) /\ ObservationInv(i)
  /\ \A i, j \in Instances : i # j => LookUpInv(i, j)
  /\ \A i \in Instances : scanned[i] # None => state[i] = "APPLYING_WORKLOAD"
  /\ PassIsSound /\ DuplicatesNeedOverlap /\ DriftNoticed
-----------------------------------------------------------------------------
(* What the rules and the normalisation of facts promise.                   *)

(* A summary is PASS only if every check has passed. *)
LEMMA PassMeansAll ==
  ASSUME NEW checks, \A c \in checks : c.severity \in {"BLOCK", "WARN"}, Result(checks) = "PASS"
  PROVE  \A c \in checks : c.pass
<1>1. CASE \E c \in Failed(checks) : c.severity = "BLOCK"
  <2>1. ~(\A c \in Failed(checks) : c.severity = "WARN")
    BY <1>1
  <2>2. Result(checks) = "FAIL"
    BY <1>1, <2>1 DEF Result
  <2> QED BY <2>2
<1>2. CASE ~(\E c \in Failed(checks) : c.severity = "BLOCK")
  <2>1. \A c \in Failed(checks) : c.severity = "WARN"
    BY <1>2 DEF Failed
  <2>2. Result(checks) = IF Failed(checks) = {} THEN "PASS" ELSE "WARN"
    BY <1>2, <2>1 DEF Result
  <2>3. Failed(checks) = {}
    BY <2>2
  <2> QED BY <2>3 DEF Failed
<1> QED BY <1>1, <1>2

(* Whoever is looked at, and whatever is lost, what is shown are facts. *)
LEMMA ShownFacts ==
  ASSUME NEW look \in [guest : Facts, broken : SUBSET Outputs]
  PROVE  Shown(look) \in Facts
<1>1. look.guest \in Facts
  OBVIOUS
<1>2. [type \in KeyTypes |-> IF type \in look.broken THEN None ELSE look.guest.keys[type]] \in [KeyTypes -> Keys \cup {None}]
  BY <1>1 DEF Facts
<1> DEFINE keys == [type \in KeyTypes |-> IF type \in look.broken THEN None ELSE look.guest.keys[type]]
<1> HIDE DEF keys
<1>3. /\ (IF "machine" \in look.broken THEN BadId ELSE look.guest.machine) \in MachineIds \cup {BadId}
      /\ (IF "link" \in look.broken THEN "none" ELSE look.guest.mac) \in Listed
      /\ (IF "addr" \in look.broken THEN "none" ELSE look.guest.ipv4) \in Listed
  BY <1>1 DEF Facts, Listed
<1>4. /\ (IF "nics" \in look.broken THEN 0 ELSE look.guest.nics) \in 0..2
      /\ (IF "def4" \in look.broken THEN 0 ELSE look.guest.routes) \in 0..2
      /\ (IF "def6" \in look.broken THEN 0 ELSE look.guest.v6routes) \in 0..1
      /\ (IF "addr" \in look.broken THEN 0 ELSE look.guest.v6addrs) \in 0..1
  BY <1>1 DEF Facts
<1>5. /\ (IF "hostname" \in look.broken THEN FALSE ELSE look.guest.hostname) \in BOOLEAN
      /\ (IF "cloudInit" \in look.broken THEN FALSE ELSE look.guest.cloudInit) \in BOOLEAN
      /\ (IF "bootId" \in look.broken THEN FALSE ELSE look.guest.bootId) \in BOOLEAN
      /\ (IF "route4" \in look.broken THEN FALSE ELSE look.guest.gateway) \in BOOLEAN
  BY <1>1 DEF Facts
<1> QED BY <1>2, <1>3, <1>4, <1>5 DEF Shown, NormalizeFacts, Facts, keys

(* What is lost makes facts emptier: one that is in order when it is shown  *)
(* is in order, but for a count of IPv6 routes that was lost.               *)
LEMMA NormalizeHidesNothing ==
  ASSUME NEW look \in [guest : Facts, broken : SUBSET Outputs]
  PROVE  LET f == Shown(look)
             g == look.guest
         IN /\ f.machine \in MachineIds => f.machine = g.machine
            /\ CanonicalSSHFingerprint(f) # None => \E type \in KeyTypes : g.keys[type] # None
            /\ f.mac = "expected" => g.mac = "expected"
            /\ f.ipv4 = "expected" => g.ipv4 = "expected" /\ f.v6addrs = g.v6addrs
            /\ f.gateway => g.gateway
            /\ f.hostname => g.hostname
            /\ f.nics = 1 => g.nics = 1
            /\ f.routes = 1 => g.routes = 1
            /\ "def6" \notin look.broken => f.v6routes = g.v6routes
<1> DEFINE f == Shown(look)
<1> DEFINE g == look.guest
<1>1. f.machine = (IF "machine" \in look.broken THEN BadId ELSE g.machine)
  BY DEF Shown, NormalizeFacts
<1>2. \A type \in KeyTypes : f.keys[type] = (IF type \in look.broken THEN None ELSE g.keys[type])
  BY DEF Shown, NormalizeFacts
<1>3. f.mac = (IF "link" \in look.broken THEN "none" ELSE g.mac)
      /\ f.ipv4 = (IF "addr" \in look.broken THEN "none" ELSE g.ipv4)
      /\ f.v6addrs = (IF "addr" \in look.broken THEN 0 ELSE g.v6addrs)
  BY DEF Shown, NormalizeFacts
<1>4. f.nics = (IF "nics" \in look.broken THEN 0 ELSE g.nics)
      /\ f.routes = (IF "def4" \in look.broken THEN 0 ELSE g.routes)
      /\ f.v6routes = (IF "def6" \in look.broken THEN 0 ELSE g.v6routes)
  BY DEF Shown, NormalizeFacts
<1>5. f.gateway => g.gateway
  BY DEF Shown, NormalizeFacts
<1>6. f.hostname => g.hostname
  BY DEF Shown, NormalizeFacts
<1> HIDE DEF f, g
<1>7. CanonicalSSHFingerprint(f) # None => \E type \in KeyTypes : f.keys[type] # None
  BY DEF CanonicalSSHFingerprint, KeyTypes
<1>8. CanonicalSSHFingerprint(f) # None => \E type \in KeyTypes : g.keys[type] # None
  BY <1>2, <1>7
<1>9. f.machine \in MachineIds => f.machine = g.machine
  BY <1>1, RulesAssumption
<1> QED BY <1>3, <1>4, <1>5, <1>6, <1>8, <1>9 DEF f, g

(* When no key is lost, the key that stands for all is the same. *)
LEMMA KeysRead ==
  ASSUME NEW look \in [guest : Facts, broken : SUBSET Outputs], look.broken \cap KeyTypes = {}
  PROVE  CanonicalSSHFingerprint(Shown(look)) = CanonicalSSHFingerprint(look.guest)
<1>1. \A type \in KeyTypes : Shown(look).keys[type] = look.guest.keys[type]
  BY DEF Shown, NormalizeFacts
<1>2. {"ed25519", "ecdsa", "rsa", "other"} \subseteq KeyTypes
  BY DEF KeyTypes
<1> QED BY <1>1, <1>2 DEF CanonicalSSHFingerprint

(* Every check blocks or warns, and a guest that is in order and shows an   *)
(* identity of its own fails none that blocks.                              *)
LEMMA ChecksListed ==
  ASSUME NEW f, NEW md, NEW sd
  PROVE  LET checks == EvaluateIdentityAndNetwork(f, md, sd) IN
    /\ \A c \in checks : c.severity \in {"BLOCK", "WARN"} /\ c.rule \in Categories
    /\ /\ f.machine \in MachineIds /\ CanonicalSSHFingerprint(f) # None
       /\ ~HasBlockingDuplicate(md) /\ ~HasBlockingDuplicate(sd)
       /\ f.mac = "expected" /\ f.ipv4 = "expected" /\ f.v6addrs = 0
       /\ f.nics = 1 /\ f.routes = 1 /\ f.v6routes = 0
       /\ f.hostname /\ f.gateway
       => \A c \in checks : c.severity = "BLOCK" => c.pass
<1> DEFINE P1 == f.machine \in MachineIds
<1> DEFINE P2 == ~HasBlockingDuplicate(md)
<1> DEFINE P3 == CanonicalSSHFingerprint(f) # None /\ ~HasBlockingDuplicate(sd)
<1> DEFINE P5 == f.mac = "expected"
<1> DEFINE P8 == RequireSingleNIC => f.nics = 1
<1> DEFINE P9 == IPv4Match(f)
<1> DEFINE P10 == RequireSingleDefaultRoute => f.routes = 1 /\ f.gateway
<1> DEFINE P11 == DenyIPv6DefaultRoute => f.v6routes = 0
<1> DEFINE P12 == DenyIPv6DefaultRoute => f.v6addrs = 0
<1> DEFINE P13 == f.nics <= 1 /\ f.routes <= 1
<1> DEFINE checks ==
  {Check("ID-001", "BLOCK", P1), Check("ID-002", "BLOCK", P2), Check("ID-003", "BLOCK", P3),
   Check("ID-004", "BLOCK", f.hostname), Check("ID-005", "BLOCK", P5), Check("ID-006", "WARN", f.cloudInit),
   Check("ID-008", "WARN", f.bootId), Check("NET-001", "BLOCK", P8), Check("NET-002", "BLOCK", P9),
   Check("NET-003", "BLOCK", P10), Check("NET-004", "BLOCK", P11), Check("NET-005", "BLOCK", P12),
   Check("NET-009", "BLOCK", P13)}
<1>1. EvaluateIdentityAndNetwork(f, md, sd) = checks
   BY DEF EvaluateIdentityAndNetwork
<1>2. /\ f.machine \in MachineIds /\ CanonicalSSHFingerprint(f) # None
       /\ ~HasBlockingDuplicate(md) /\ ~HasBlockingDuplicate(sd)
       /\ f.mac = "expected" /\ f.ipv4 = "expected" /\ f.v6addrs = 0
       /\ f.nics = 1 /\ f.routes = 1 /\ f.v6routes = 0 /\ f.gateway
       => P1 /\ P2 /\ P3 /\ P5 /\ P8 /\ P9 /\ P10 /\ P11 /\ P12 /\ P13
  BY DEF IPv4Match
<1> HIDE DEF P1, P2, P3, P5, P8, P9, P10, P11, P12, P13
<1>3. \A c \in checks : c.severity \in {"BLOCK", "WARN"} /\ c.rule \in Categories
  BY SMTT(60) DEF Check, Categories
<1>4. ASSUME P1, P2, P3, P5, P8, P9, P10, P11, P12, P13, f.hostname
      PROVE  \A c \in checks : c.severity = "BLOCK" => c.pass
  BY <1>4, SMTT(60) DEF Check
<1> QED BY <1>1, <1>2, <1>3, <1>4

(* When nothing that blocks fails, the instance shows an identity of its    *)
(* own.                                                                     *)
LEMMA IdentityIsItsOwn ==
  ASSUME NEW f, NEW md, NEW sd,
         \A c \in EvaluateIdentityAndNetwork(f, md, sd) : c.severity = "BLOCK" => c.pass
  PROVE  /\ f.machine \in MachineIds
         /\ CanonicalSSHFingerprint(f) # None
         /\ ~HasBlockingDuplicate(md) /\ ~HasBlockingDuplicate(sd)
<1>1. Check("ID-001", "BLOCK", f.machine \in MachineIds).pass
  BY DEF EvaluateIdentityAndNetwork, Check
<1>2. Check("ID-002", "BLOCK", ~HasBlockingDuplicate(md)).pass
  BY DEF EvaluateIdentityAndNetwork, Check
<1>3. Check("ID-003", "BLOCK", CanonicalSSHFingerprint(f) # None /\ ~HasBlockingDuplicate(sd)).pass
  BY DEF EvaluateIdentityAndNetwork, Check
<1> QED BY <1>1, <1>2, <1>3 DEF Check

(* Facts are their fields. *)
LEMMA FactsAreFields ==
  ASSUME NEW g \in Facts
  PROVE  g = [machine |-> g.machine, keys |-> g.keys, hostname |-> g.hostname, mac |-> g.mac, ipv4 |-> g.ipv4,
              cloudInit |-> g.cloudInit, bootId |-> g.bootId, nics |-> g.nics, routes |-> g.routes,
              gateway |-> g.gateway, v6routes |-> g.v6routes, v6addrs |-> g.v6addrs]
BY Zenon DEF Facts

(* What is asked of a guest, field by field. *)
LEMMA OrderlyFields ==
  ASSUME NEW g \in Facts, g.machine \in MachineIds, \E type \in KeyTypes : g.keys[type] # None,
         g.mac = "expected", g.ipv4 = "expected", g.v6addrs = 0,
         g.nics = 1, g.routes = 1, g.v6routes = 0, g.hostname, g.gateway
  PROVE  InOrder(g)
<1> DEFINE h == [g EXCEPT !.cloudInit = TRUE, !.bootId = TRUE]
<1>1. h.machine = g.machine /\ h.keys = g.keys
  BY DEF Facts
<1>3. g.hostname = TRUE /\ g.gateway = TRUE
  BY DEF Facts
<1>4. h \in Facts
  BY DEF Facts
<1>5. /\ h.hostname = TRUE /\ h.gateway = TRUE /\ h.cloudInit = TRUE /\ h.bootId = TRUE
      /\ h.mac = "expected" /\ h.ipv4 = "expected" /\ h.v6addrs = 0
      /\ h.nics = 1 /\ h.routes = 1 /\ h.v6routes = 0
  BY <1>3 DEF Facts
<1> HIDE DEF h
<1>6. h = Sound(h.machine, h.keys)
  BY <1>4, <1>5, FactsAreFields DEF Sound
<1> QED BY <1>1, <1>6 DEF InOrder, h

(* When nothing that blocks fails, under the strictest configuration, the   *)
(* guest is in order, but for a count of IPv6 routes that was lost.         *)
LEMMA GuestIsInOrder ==
  ASSUME NEW look \in [guest : Facts, broken : SUBSET Outputs], NEW md, NEW sd, Strictest,
         \A c \in EvaluateIdentityAndNetwork(Shown(look), md, sd) : c.severity = "BLOCK" => c.pass
  PROVE  InOrder(Unrouted(look))
<1> DEFINE f == Shown(look)
<1> DEFINE checks == EvaluateIdentityAndNetwork(f, md, sd)
<1>1. f.machine \in MachineIds /\ CanonicalSSHFingerprint(f) # None
  BY IdentityIsItsOwn
<1>3. f.hostname
  <2>1. Check("ID-004", "BLOCK", f.hostname).pass
    BY DEF EvaluateIdentityAndNetwork, Check
  <2> QED BY <2>1 DEF Check
<1>4. f.mac = "expected"
  <2>1. Check("ID-005", "BLOCK", f.mac = "expected").pass
    BY DEF EvaluateIdentityAndNetwork, Check
  <2> QED BY <2>1 DEF Check
<1>5. f.nics = 1
  <2>1. Check("NET-001", "BLOCK", RequireSingleNIC => f.nics = 1).pass
    BY DEF EvaluateIdentityAndNetwork, Check
  <2> QED BY <2>1 DEF Check, Strictest
<1>6. f.ipv4 = "expected"
  <2>1. Check("NET-002", "BLOCK", IPv4Match(f)).pass
    BY DEF EvaluateIdentityAndNetwork, Check
  <2> QED BY <2>1 DEF Check, IPv4Match
<1>7. f.routes = 1 /\ f.gateway
  <2>1. Check("NET-003", "BLOCK", RequireSingleDefaultRoute => f.routes = 1 /\ f.gateway).pass
    BY DEF EvaluateIdentityAndNetwork, Check
  <2> QED BY <2>1 DEF Check, Strictest
<1>8. f.v6routes = 0
  <2>1. Check("NET-004", "BLOCK", DenyIPv6DefaultRoute => f.v6routes = 0).pass
    BY DEF EvaluateIdentityAndNetwork, Check
  <2> QED BY <2>1 DEF Check, Strictest
<1>9. f.v6addrs = 0
  <2>1. Check("NET-005", "BLOCK", DenyIPv6DefaultRoute => f.v6addrs = 0).pass
    BY DEF EvaluateIdentityAndNetwork, Check
  <2> QED BY <2>1 DEF Check, Strictest
<1> HIDE DEF f
<1> DEFINE g == look.guest
<1>10. /\ g.mac = "expected" /\ g.ipv4 = "expected" /\ g.v6addrs = 0
       /\ g.nics = 1 /\ g.routes = 1 /\ ("def6" \notin look.broken => g.v6routes = 0)
  BY <1>4, <1>5, <1>6, <1>7, <1>8, <1>9, NormalizeHidesNothing DEF f
<1>11. g.hostname /\ g.gateway
  BY <1>3, <1>7, NormalizeHidesNothing DEF f
<1>12. g.machine \in MachineIds /\ \E type \in KeyTypes : g.keys[type] # None
  BY <1>1, NormalizeHidesNothing DEF f
<1>13. g \in Facts
  OBVIOUS
<1> HIDE DEF g
<1>14. CASE "def6" \notin look.broken
  BY <1>10, <1>11, <1>12, <1>13, <1>14, OrderlyFields DEF Unrouted, g
<1>15. CASE "def6" \in look.broken
  <2> DEFINE h == [g EXCEPT !.v6routes = 0]
  <2>1. h \in Facts
    BY <1>13 DEF Facts
  <2>2. /\ h.machine = g.machine /\ h.keys = g.keys /\ h.mac = g.mac /\ h.ipv4 = g.ipv4
        /\ h.v6addrs = g.v6addrs /\ h.nics = g.nics /\ h.routes = g.routes
        /\ h.hostname = g.hostname /\ h.gateway = g.gateway /\ h.v6routes = 0
    BY <1>13 DEF Facts
  <2> HIDE DEF h
  <2>3. InOrder(h)
    BY <1>10, <1>11, <1>12, <2>1, <2>2, OrderlyFields
  <2> QED BY <1>15, <2>3 DEF Unrouted, g, h
<1> QED BY <1>14, <1>15

(* A guest in order, of which nothing is lost and which is compared with    *)
(* nobody, fails nothing that blocks.                                       *)
LEMMA OrderMeansPass ==
  ASSUME NEW g \in Facts, InOrder(g)
  PROVE  \A c \in EvaluateIdentityAndNetwork(Shown([guest |-> g, broken |-> {}]), {}, {}) :
           c.severity = "BLOCK" => c.pass
<1> DEFINE f == Shown([guest |-> g, broken |-> {}])
<1> DEFINE h == [g EXCEPT !.cloudInit = TRUE, !.bootId = TRUE]
<1>1. /\ f.machine = g.machine /\ f.mac = g.mac /\ f.ipv4 = g.ipv4 /\ f.v6addrs = g.v6addrs
      /\ f.nics = g.nics /\ f.routes = g.routes /\ f.v6routes = g.v6routes
      /\ f.hostname = g.hostname /\ f.gateway = g.gateway
  BY DEF Shown, NormalizeFacts
<1>2. /\ g.mac = h.mac /\ g.ipv4 = h.ipv4 /\ g.v6addrs = h.v6addrs
      /\ g.nics = h.nics /\ g.routes = h.routes /\ g.v6routes = h.v6routes
      /\ g.hostname = h.hostname /\ g.gateway = h.gateway
  BY DEF Facts
<1>3. h = Sound(g.machine, g.keys)
  BY DEF InOrder
<1>4. CanonicalSSHFingerprint(f) = CanonicalSSHFingerprint(g)
  BY KeysRead
<1>5. CanonicalSSHFingerprint(g) # None
  BY DEF InOrder, CanonicalSSHFingerprint, KeyTypes
<1> HIDE DEF f, h
<1>6. /\ g.mac = "expected" /\ g.ipv4 = "expected" /\ g.v6addrs = 0
      /\ g.nics = 1 /\ g.routes = 1 /\ g.v6routes = 0 /\ g.hostname /\ g.gateway
  BY <1>2, <1>3 DEF Sound
<1>7. ~HasBlockingDuplicate({})
  BY DEF HasBlockingDuplicate
<1>8. g.machine \in MachineIds
  BY DEF InOrder
<1>9. \A c \in EvaluateIdentityAndNetwork(f, {}, {}) : c.severity = "BLOCK" => c.pass
  BY <1>1, <1>4, <1>5, <1>6, <1>7, <1>8, ChecksListed
<1> QED BY <1>9 DEF f

(* A proof that passes every EGR rule has no fault the configuration asks   *)
(* about.                                                                   *)
LEMMA EgressPassMeansSound ==
  ASSUME NEW p \in Proofs, Result(EvaluateEgress(p)) = "PASS"
  PROVE  Faultless(p)
<1>1. \A rule, pass : Check(rule, "BLOCK", pass).severity \in {"BLOCK", "WARN"}
  BY DEF Check
<1>2. \A c \in EvaluateEgress(p) : c.severity \in {"BLOCK", "WARN"}
  BY <1>1, SMTT(60) DEF EvaluateEgress
<1>3. \A c \in EvaluateEgress(p) : c.pass
  BY <1>2, PassMeansAll
<1>4. p.result /\ p.mapping
  <2>1. Check("EGR-001", "BLOCK", p.result /\ p.mapping).pass
    BY <1>3 DEF EvaluateEgress
  <2> QED BY <2>1 DEF Check
<1>5. p.generation
  <2>1. Check("EGR-002", "BLOCK", p.generation).pass
    BY <1>3 DEF EvaluateEgress
  <2> QED BY <2>1 DEF Check
<1>6. p.ipv4
  <2>1. Check("EGR-003", "BLOCK", p.ipv4).pass
    BY <1>3 DEF EvaluateEgress
  <2> QED BY <2>1 DEF Check
<1>7. DenyIPv6 => p.ipv6Blocked
  <2>1. Check("EGR-004", "BLOCK", DenyIPv6 => p.ipv6Blocked).pass
    BY <1>3 DEF EvaluateEgress
  <2> QED BY <2>1 DEF Check
<1>8. p.leaks = 0
  <2>1. Check("EGR-005", "BLOCK", p.leaks = 0).pass
    BY <1>3 DEF EvaluateEgress
  <2> QED BY <2>1 DEF Check
<1>9. p.healthy
  <2>1. Check("EGR-006", "BLOCK", p.healthy).pass
    BY <1>3 DEF EvaluateEgress
  <2> QED BY <2>1 DEF Check
<1>10. p.age = "fresh"
  <2>1. Check("EGR-007", "BLOCK", ProofIsFresh(p.age)).pass
    BY <1>3 DEF EvaluateEgress
  <2> QED BY <2>1 DEF Check, ProofIsFresh
<1>11. /\ p.result = TRUE /\ p.mapping = TRUE /\ p.generation = TRUE
       /\ p.ipv4 = TRUE /\ p.healthy = TRUE /\ (DenyIPv6 => p.ipv6Blocked = TRUE)
  BY <1>4, <1>5, <1>6, <1>7, <1>9 DEF Proofs
<1> DEFINE q == IF DenyIPv6 THEN p ELSE [p EXCEPT !.ipv6Blocked = TRUE]
<1>12. /\ q \in Proofs /\ q.result = TRUE /\ q.mapping = TRUE /\ q.generation = TRUE
       /\ q.ipv4 = TRUE /\ q.healthy = TRUE /\ q.ipv6Blocked = TRUE /\ q.leaks = 0 /\ q.age = "fresh"
  BY <1>8, <1>10, <1>11 DEF Proofs
<1> HIDE DEF q
<1>13. q = [result |-> q.result, mapping |-> q.mapping, generation |-> q.generation, ipv4 |-> q.ipv4,
            ipv6Blocked |-> q.ipv6Blocked, leaks |-> q.leaks, healthy |-> q.healthy, age |-> q.age]
  BY <1>12, Zenon DEF Proofs
<1>14. q = SoundProof
  BY <1>12, <1>13 DEF SoundProof
<1> QED BY <1>14 DEF Faultless, q

(* A look at a guest is a look at facts. *)
LEMMA LooksAreTyped == Looks \subseteq [guest : Facts, broken : SUBSET Outputs]
BY ValidationAssumption DEF Looks

(* A collection keeps within the bound on faults. *)
LEMMA CollectionIsBounded ==
  ASSUME faults \in 0..MaxFaults, NEW broken \in Losses, CollectFacts(broken)
  PROVE  faults' \in 0..MaxFaults /\ broken \in SUBSET Outputs
<1>1. /\ IsFiniteSet({"ed25519"}) /\ IsFiniteSet({"ed25519"} \cup {"ecdsa"})
      /\ IsFiniteSet(({"ed25519"} \cup {"ecdsa"}) \cup {"rsa"})
  BY FS_Singleton, FS_AddElement
<1>2. IsFiniteSet((({"ed25519"} \cup {"ecdsa"}) \cup {"rsa"}) \cup {"other"})
  BY <1>1, FS_AddElement
<1> DEFINE S0 == (({"ed25519"} \cup {"ecdsa"}) \cup {"rsa"}) \cup {"other"}
<1> HIDE DEF S0
<1>3. IsFiniteSet(S0 \cup {"machine"}) /\ IsFiniteSet((S0 \cup {"machine"}) \cup {"bootId"})
  BY <1>2, FS_AddElement DEF S0
<1> DEFINE S1 == (S0 \cup {"machine"}) \cup {"bootId"}
<1> HIDE DEF S1
<1>4. IsFiniteSet(S1 \cup {"hostname"}) /\ IsFiniteSet((S1 \cup {"hostname"}) \cup {"cloudInit"})
  BY <1>3, FS_AddElement DEF S1
<1> DEFINE S2 == (S1 \cup {"hostname"}) \cup {"cloudInit"}
<1> HIDE DEF S2
<1>5. IsFiniteSet(S2 \cup {"nics"}) /\ IsFiniteSet((S2 \cup {"nics"}) \cup {"def4"})
  BY <1>4, FS_AddElement DEF S2
<1> DEFINE S3 == (S2 \cup {"nics"}) \cup {"def4"}
<1> HIDE DEF S3
<1>6. IsFiniteSet(S3 \cup {"def6"}) /\ IsFiniteSet((S3 \cup {"def6"}) \cup {"link"})
  BY <1>5, FS_AddElement DEF S3
<1> DEFINE S4 == (S3 \cup {"def6"}) \cup {"link"}
<1> HIDE DEF S4
<1>7. IsFiniteSet(S4 \cup {"addr"}) /\ IsFiniteSet((S4 \cup {"addr"}) \cup {"route4"})
  BY <1>6, FS_AddElement DEF S4
<1>8. Outputs = (S4 \cup {"addr"}) \cup {"route4"}
  BY DEF Outputs, KeyTypes, S0, S1, S2, S3, S4
<1>9. broken \in SUBSET Outputs
  BY ValidationAssumption DEF Losses
<1>10. Cardinality(broken) \in Nat
  BY <1>7, <1>8, <1>9, FS_Subset, FS_CardinalityType
<1> QED BY <1>9, <1>10, ValidationAssumption DEF CollectFacts
-----------------------------------------------------------------------------
(* The scan of a guest that has passed: it raises the alarm for what breaks *)
(* a hard rule or is no longer what was recorded, and only for a guest that *)
(* has changed or could not be read.                                        *)
LEMMA ScanIsAccurate ==
  ASSUME NEW now \in [guest : Facts, broken : SUBSET Outputs],
         NEW recorded \in [guest : Facts, broken : SUBSET Outputs],
         Strictest, InOrder(Unrouted(recorded)), Shown(recorded).machine \in MachineIds
  PROVE  LET facts == Shown(now)
             found == CompareDigestStability(Shown(recorded).machine, facts.machine)
                        \cup ClassifyFailedChecks(EvaluateIdentityAndNetwork(facts, {}, {}))
             alarm == \E f \in found : f.classification = "quarantine"
         IN /\ now.guest.machine # recorded.guest.machine \/ ~InOrder(Unrouted(now)) => alarm
            /\ alarm => now.guest # recorded.guest \/ now.broken # {} \/ "def6" \in recorded.broken
<1> DEFINE facts  == Shown(now)
<1> DEFINE checks == EvaluateIdentityAndNetwork(facts, {}, {})
<1> DEFINE found  == CompareDigestStability(Shown(recorded).machine, facts.machine) \cup ClassifyFailedChecks(checks)
<1> DEFINE alarm  == \E f \in found : f.classification = "quarantine"
<1>1. Shown(recorded).machine = recorded.guest.machine
  BY NormalizeHidesNothing
<1>2. recorded.guest.machine # None /\ recorded.guest.machine # BadId
  BY <1>1, RulesAssumption
<1>3. ASSUME now.guest.machine # recorded.guest.machine
      PROVE  alarm
  <2>1. facts.machine # recorded.guest.machine
    BY <1>2, <1>3 DEF Shown, NormalizeFacts
  <2>2. Finding("identity_digest_stability", "quarantine") \in found
    BY <1>1, <1>2, <2>1 DEF CompareDigestStability
  <2> QED BY <2>2 DEF Finding
<1>4. ASSUME ~InOrder(Unrouted(now))
      PROVE  alarm
  <2>1. PICK c \in checks : c.severity = "BLOCK" /\ ~c.pass
    BY <1>4, GuestIsInOrder
  <2>2. Finding(c.rule, Classification(c)) \in found
    BY <2>1 DEF ClassifyFailedChecks, Failed
  <2>3. Classification(c) = "quarantine"
    BY <2>1 DEF Classification
  <2> QED BY <2>2, <2>3 DEF Finding
<1>5. ASSUME now.guest = recorded.guest, now.broken = {}, "def6" \notin recorded.broken
      PROVE  ~alarm
  <2>1. now = [guest |-> recorded.guest, broken |-> {}]
    BY <1>5
  <2>2. InOrder(recorded.guest) /\ recorded.guest \in Facts
    BY <1>5 DEF Unrouted
  <2>3. \A c \in checks : c.severity = "BLOCK" => c.pass
    BY <2>1, <2>2, OrderMeansPass
  <2>4. facts.machine = recorded.guest.machine
    BY <2>1 DEF Shown, NormalizeFacts
  <2>5. found = ClassifyFailedChecks(checks)
    BY <1>1, <2>4 DEF CompareDigestStability
  <2> HIDE DEF checks
  <2>6. ASSUME NEW c \in Failed(checks)
        PROVE  Finding(c.rule, Classification(c)).classification # "quarantine"
    BY <2>3 DEF Failed, Classification, Finding
  <2> QED BY <2>5, <2>6 DEF ClassifyFailedChecks
<1> HIDE DEF alarm
<1>6. alarm => now.guest # recorded.guest \/ now.broken # {} \/ "def6" \in recorded.broken
  BY <1>5
<1>7. now.guest.machine # recorded.guest.machine \/ ~InOrder(Unrouted(now)) => alarm
  BY <1>3, <1>4
<1> QED BY <1>6, <1>7 DEF alarm

(* What a scan writes down is of the right kind. *)
LEMMA FindingsAreTyped ==
  ASSUME NEW f, NEW recorded, NEW fresh
  PROVE  CompareDigestStability(recorded, fresh) \cup ClassifyFailedChecks(EvaluateIdentityAndNetwork(f, {}, {}))
           \in SUBSET [category : Categories, classification : {"quarantine", "repairable"}]
<1> DEFINE Kinds == [category : Categories, classification : {"quarantine", "repairable"}]
<1>1. CompareDigestStability(recorded, fresh) \subseteq Kinds
  BY DEF CompareDigestStability, Finding, Categories
<1>2. \A c \in EvaluateIdentityAndNetwork(f, {}, {}) : Finding(c.rule, Classification(c)) \in Kinds
  <2>1. \A c \in EvaluateIdentityAndNetwork(f, {}, {}) : c.rule \in Categories
    BY ChecksListed
  <2> QED BY <2>1 DEF Finding, Classification
<1>3. ClassifyFailedChecks(EvaluateIdentityAndNetwork(f, {}, {})) \subseteq Kinds
  BY <1>2 DEF ClassifyFailedChecks, Failed
<1> QED BY <1>1, <1>3
-----------------------------------------------------------------------------
(* A look-up answers with other instances only, and with every one that has *)
(* left an observation with the value.                                      *)
LEMMA LookUpsAreTyped ==
  ASSUME TypeOK, NEW i \in Instances, NEW column, NEW value
  PROVE  /\ FindDuplicateBy(i, column, value) \in SUBSET [instance : Instances, retired : BOOLEAN]
         /\ \A m \in FindDuplicateBy(i, column, value) : m.instance # i
<1>1. ASSUME NEW o \in observed, o.instance # i
      PROVE  /\ [instance |-> o.instance, retired |-> o.instance \in retired] \in [instance : Instances, retired : BOOLEAN]
             /\ [instance |-> o.instance, retired |-> o.instance \in retired].instance # i
  <2>1. o.instance \in Instances
    BY <1>1 DEF TypeOK
  <2>2. (o.instance \in retired) \in BOOLEAN
    OBVIOUS
  <2> QED BY <1>1, <2>1, <2>2
<1> QED BY <1>1 DEF FindDuplicateBy

(* A look-up asked for an identity finds the live instance that has it. *)
LEMMA LookUpsFind ==
  ASSUME NEW i, NEW j, i # j, i \notin retired, ObservationOf(i) \in observed,
         NEW column \in {"machine", "ssh"}
  PROVE  LiveMatch(i) \in FindDuplicateBy(j, column, ObservationOf(i)[column])
<1> DEFINE o == ObservationOf(i)
<1>1. o.instance = i
  BY DEF ObservationOf
<1>2. (o.instance \in retired) = FALSE
  BY <1>1
<1>3. o \in {x \in observed : x.instance # j /\ x[column] = o[column]}
  BY <1>1
<1> HIDE DEF o
<1>4. [instance |-> o.instance, retired |-> o.instance \in retired] \in FindDuplicateBy(j, column, o[column])
  BY <1>3 DEF FindDuplicateBy
<1>5. LiveMatch(i) = [instance |-> o.instance, retired |-> o.instance \in retired]
  BY <1>1, <1>2 DEF LiveMatch
<1> QED BY <1>4, <1>5 DEF o

(* A live match blocks. *)
LEMMA LiveMatchBlocks ==
  ASSUME NEW i, NEW matches, LiveMatch(i) \in matches
  PROVE  HasBlockingDuplicate(matches)
<1>1. ~LiveMatch(i).retired
  BY DEF LiveMatch
<1> QED BY <1>1 DEF HasBlockingDuplicate

(* The properties of those that have passed stand as long as their state    *)
(* and what they passed with do.                                            *)
LEMMA VerdictsStand ==
  ASSUME ValidationInv, UNCHANGED <<state, proven, scanned, drift, overlapped>>, retired \subseteq retired',
         \A i \in Instances : Passed(i) => basis'[i] = basis[i]
  PROVE  /\ PassIsSound' /\ DuplicatesNeedOverlap' /\ DriftNoticed'
         /\ (\A i \in Instances : scanned[i] # None => state[i] = "APPLYING_WORKLOAD")'
<1>1. \A i \in Instances : Passed(i)' <=> Passed(i)
  BY DEF Passed
<1>2. PassIsSound'
  BY <1>1 DEF ValidationInv, PassIsSound
<1>3. DuplicatesNeedOverlap'
  BY <1>1 DEF ValidationInv, DuplicatesNeedOverlap
<1>4. \A i \in Instances : scanned[i] # None => Passed(i)
  BY DEF ValidationInv, Passed
<1>5. DriftNoticed'
  <2> SUFFICES ASSUME Strictest, NEW i \in Instances, scanned[i] # None
               PROVE  LET now   == scanned[i].guest
                          alarm == \E f \in drift[i] : f.classification = "quarantine"
                      IN /\ now.machine # basis'[i].guest.machine \/ ~InOrder(Unrouted(scanned[i])) => alarm
                         /\ alarm => now # basis'[i].guest \/ scanned[i].broken # {} \/ "def6" \in basis'[i].broken
    BY DEF DriftNoticed
  <2>1. basis'[i] = basis[i]
    BY <1>4
  <2> QED BY <2>1 DEF ValidationInv, DriftNoticed
<1>6. (\A i \in Instances : scanned[i] # None => state[i] = "APPLYING_WORKLOAD")'
  BY DEF ValidationInv
<1> QED BY <1>2, <1>3, <1>5, <1>6

(* Observations are about the looks the verdicts were about. *)
LEMMA ObservationsStand ==
  ASSUME \A i \in Instances : ObservationInv(i), UNCHANGED <<state, observed, basis>>
  PROVE  \A i \in Instances : ObservationInv(i)'
<1> SUFFICES ASSUME NEW i \in Instances, ObservationInv(i)
             PROVE  ObservationInv(i)'
  OBVIOUS
<1>1. ObservationOf(i)' = ObservationOf(i) /\ Shown(basis[i])' = Shown(basis[i])
  BY DEF ObservationOf, Shown
<1>2. Passed(i)' <=> Passed(i)
  BY DEF Passed
<1> QED BY <1>1, <1>2 DEF ObservationInv

(* Asking for the facts starts the handler over; who has passed is not      *)
(* asked.                                                                   *)
LEMMA CollectKeeps ==
  ASSUME ValidationInv, NEW i \in Instances, Collect(i)
  PROVE  ValidationInv'
<1> USE DEF ValidationInv
<1>1. PICK broken \in Losses :
        /\ CollectFacts(broken)
        /\ seen' = [seen EXCEPT ![i] = NormalizeFacts(guest[i], broken)]
        /\ basis' = [basis EXCEPT ![i] = [guest |-> guest[i], broken |-> broken]]
  BY DEF Collect
<1> DEFINE look == [guest |-> guest[i], broken |-> broken]
<1>11. broken \in SUBSET Outputs /\ faults' \in 0..MaxFaults
  BY <1>1, CollectionIsBounded DEF TypeOK
<1>2. look \in Looks
  BY <1>11 DEF TypeOK, Looks
<1>12. seen' = [seen EXCEPT ![i] = Shown(look)] /\ basis' = [basis EXCEPT ![i] = look]
  BY <1>1 DEF Shown
<1>3. Shown(look) \in Facts
  BY <1>2, LooksAreTyped, ShownFacts
<1> HIDE DEF look
<1>4. TypeOK'
  <2>2. seen' \in [Instances -> Facts \cup {None}]
    BY <1>12, <1>3 DEF TypeOK
  <2>3. basis' \in [Instances -> [guest : Guests, broken : SUBSET Outputs] \cup {None}]
    BY <1>12, <1>2 DEF TypeOK, Looks
  <2>4. pc' \in [Instances -> Labels]
    BY DEF TypeOK, Collect, Goto, Labels
  <2>5. UNCHANGED <<guest, state, retired, observed, machineDups, sshDups, drift, changes, proven, scanned>>
    BY DEF Collect, World
  <2> QED BY <1>11, <2>2, <2>3, <2>4, <2>5 DEF TypeOK
<1>5. \A k \in Instances : HandlerInv(k)'
  <2> SUFFICES ASSUME NEW k \in Instances
               PROVE  HandlerInv(k)'
    OBVIOUS
  <2>1. CASE k = i
    <3>1. pc'[i] = "machine" /\ state'[i] = "VALIDATING_IDENTITY"
      BY DEF TypeOK, Collect, Goto
    <3>2. basis'[i] = look /\ seen'[i] = Shown(look)
      BY <1>12 DEF TypeOK
    <3> QED BY <1>2, <2>1, <3>1, <3>2 DEF HandlerInv, Shown
  <2>2. CASE k # i
    <3>1. pc'[k] = pc[k] /\ state'[k] = state[k] /\ basis'[k] = basis[k] /\ seen'[k] = seen[k]
      BY <1>12, <2>2 DEF TypeOK, Collect, Goto
    <3> QED BY <3>1 DEF HandlerInv, Shown
  <2> QED BY <2>1, <2>2
<1>6. \A k \in Instances : Passed(k) \/ state[k] # "VALIDATING_IDENTITY" => basis'[k] = basis[k]
  BY <1>12 DEF TypeOK, Collect, Passed
<1>7. \A k \in Instances : ObservationInv(k)'
  <2> SUFFICES ASSUME NEW k \in Instances, ObservationInv(k)
               PROVE  ObservationInv(k)'
    OBVIOUS
  <2>1. UNCHANGED <<state, observed>>
    BY DEF Collect
  <2>2. state[k] # "VALIDATING_IDENTITY" => ObservationOf(k)' = ObservationOf(k)
    BY <1>6 DEF ObservationOf, Shown
  <2>3. Passed(k)' => Passed(k) /\ Shown(basis[k])' = Shown(basis[k])
    BY <1>6, <2>1 DEF Passed, Shown
  <2> QED BY <1>6, <2>1, <2>2, <2>3 DEF ObservationInv
<1>8. \A j, k \in Instances : j # k => LookUpInv(j, k)'
  <2> SUFFICES ASSUME NEW j \in Instances, NEW k \in Instances, j # k, LookUpInv(j, k)
               PROVE  LookUpInv(j, k)'
    OBVIOUS
  <2>1. CASE k = i
    BY <2>1 DEF LookUpInv, TypeOK, Collect, Goto, Shown
  <2>2. CASE k # i
    <3>1. pc'[k] = pc[k] /\ Shown(basis[k])' = Shown(basis[k])
      BY <1>12, <2>2 DEF TypeOK, Collect, Goto, Shown
    <3>2. Passed(j)' => Passed(j) /\ Shown(basis[j])' = Shown(basis[j])
      BY <1>6 DEF Collect, Passed, Shown
    <3>3. UNCHANGED <<retired, overlapped, machineDups, sshDups>>
      BY DEF Collect, World
    <3> QED BY <3>1, <3>2, <3>3 DEF LookUpInv, LiveMatch
  <2> QED BY <2>1, <2>2
<1>9. UNCHANGED <<state, proven, scanned, drift, overlapped, retired>>
  BY DEF Collect, World
<1>10. PassIsSound' /\ DuplicatesNeedOverlap' /\ DriftNoticed'
       /\ (\A k \in Instances : scanned[k] # None => state[k] = "APPLYING_WORKLOAD")'
  BY <1>6, <1>9, VerdictsStand
<1> QED BY <1>4, <1>5, <1>7, <1>8, <1>10

(* The first query: who has shown the machine id is in its answer. *)
LEMMA FindMachineKeeps ==
  ASSUME ValidationInv, NEW i \in Instances, FindDuplicateMachineDigest(i)
  PROVE  ValidationInv'
<1> USE DEF ValidationInv
<1> DEFINE answer == FindDuplicateBy(i, "machine", seen[i].machine)
<1>1. /\ pc[i] = "machine" /\ pc' = [pc EXCEPT ![i] = "ssh"]
      /\ machineDups' = [machineDups EXCEPT ![i] = answer]
      /\ UNCHANGED <<guest, state, retired, observed, seen, sshDups, drift, faults, changes, basis, proven, scanned, overlapped>>
  BY DEF FindDuplicateMachineDigest, Goto, World
<1>2. /\ answer \in SUBSET [instance : Instances, retired : BOOLEAN]
      /\ \A m \in answer : m.instance # i
  BY LookUpsAreTyped
<1> HIDE DEF answer
<1>3. TypeOK'
  <2>1. pc' \in [Instances -> Labels]
    BY <1>1 DEF TypeOK, Labels
  <2>2. {machineDups', sshDups'} \subseteq [Instances -> SUBSET [instance : Instances, retired : BOOLEAN]]
    BY <1>1, <1>2 DEF TypeOK
  <2>3. \A k \in Instances : \A m \in machineDups'[k] \cup sshDups'[k] : m.instance # k
    BY <1>1, <1>2 DEF TypeOK
  <2> QED BY <1>1, <2>1, <2>2, <2>3 DEF TypeOK
<1>4. \A k \in Instances : HandlerInv(k)'
  BY <1>1 DEF HandlerInv, Asked, TypeOK, Shown
<1>5. \A k \in Instances : ObservationInv(k)'
  BY <1>1, ObservationsStand
<1>6. \A j, k \in Instances : j # k => LookUpInv(j, k)'
  <2> SUFFICES ASSUME NEW j \in Instances, NEW k \in Instances, j # k, LookUpInv(j, k)
               PROVE  LookUpInv(j, k)'
    OBVIOUS
  <2>1. CASE k = i
    <3>1. ASSUME Passed(j), j \notin retired, Shown(basis[i]).machine = Shown(basis[j]).machine
          PROVE  LiveMatch(j) \in answer
      <4>1. ObservationOf(j) \in observed
        BY <3>1 DEF ObservationInv, Passed
      <4>2. LiveMatch(j) \in FindDuplicateBy(i, "machine", ObservationOf(j)["machine"])
        BY <2>1, <3>1, <4>1, LookUpsFind
      <4>3. seen[i] = Shown(basis[i])
        BY <1>1 DEF HandlerInv, Asked
      <4>4. ObservationOf(j)["machine"] = seen[i].machine
        BY <3>1, <4>3 DEF ObservationOf
      <4> QED BY <4>2, <4>4 DEF answer
    <3>2. pc'[i] = "ssh" /\ machineDups'[i] = answer
      BY <1>1 DEF TypeOK
    <3> QED BY <1>1, <2>1, <3>1, <3>2 DEF LookUpInv, Passed, Shown, LiveMatch
  <2>2. CASE k # i
    <3>1. pc'[k] = pc[k] /\ machineDups'[k] = machineDups[k]
      BY <1>1, <2>2 DEF TypeOK
    <3> QED BY <1>1, <3>1 DEF LookUpInv, Passed, Shown, LiveMatch
  <2> QED BY <2>1, <2>2
<1>7. PassIsSound' /\ DuplicatesNeedOverlap' /\ DriftNoticed'
       /\ (\A k \in Instances : scanned[k] # None => state[k] = "APPLYING_WORKLOAD")'
  BY <1>1, VerdictsStand
<1> QED BY <1>3, <1>4, <1>5, <1>6, <1>7

(* The second query, for the host key. *)
LEMMA FindFingerprintKeeps ==
  ASSUME ValidationInv, NEW i \in Instances, FindDuplicateSSHFingerprint(i)
  PROVE  ValidationInv'
<1> USE DEF ValidationInv
<1> DEFINE fingerprint == CanonicalSSHFingerprint(seen[i])
<1> DEFINE answer == IF fingerprint = None THEN {} ELSE FindDuplicateBy(i, "ssh", fingerprint)
<1>1. /\ pc[i] = "ssh" /\ pc' = [pc EXCEPT ![i] = "save"]
      /\ sshDups' = [sshDups EXCEPT ![i] = answer]
      /\ UNCHANGED <<guest, state, retired, observed, seen, machineDups, drift, faults, changes, basis, proven, scanned, overlapped>>
  BY DEF FindDuplicateSSHFingerprint, Goto, World
<1>2. /\ answer \in SUBSET [instance : Instances, retired : BOOLEAN]
      /\ \A m \in answer : m.instance # i
  BY LookUpsAreTyped
<1>3. fingerprint = CanonicalSSHFingerprint(Shown(basis[i]))
  BY <1>1 DEF HandlerInv, Asked
<1> HIDE DEF answer
<1>4. TypeOK'
  <2>1. pc' \in [Instances -> Labels]
    BY <1>1 DEF TypeOK, Labels
  <2>2. {machineDups', sshDups'} \subseteq [Instances -> SUBSET [instance : Instances, retired : BOOLEAN]]
    BY <1>1, <1>2 DEF TypeOK
  <2>3. \A k \in Instances : \A m \in machineDups'[k] \cup sshDups'[k] : m.instance # k
    BY <1>1, <1>2 DEF TypeOK
  <2> QED BY <1>1, <2>1, <2>2, <2>3 DEF TypeOK
<1>5. \A k \in Instances : HandlerInv(k)'
  BY <1>1 DEF HandlerInv, Asked, TypeOK, Shown
<1>6. \A k \in Instances : ObservationInv(k)'
  BY <1>1, ObservationsStand
<1>7. \A j, k \in Instances : j # k => LookUpInv(j, k)'
  <2> SUFFICES ASSUME NEW j \in Instances, NEW k \in Instances, j # k, LookUpInv(j, k)
               PROVE  LookUpInv(j, k)'
    OBVIOUS
  <2>1. CASE k = i
    <3>1. ASSUME Passed(j), j \notin retired, fingerprint = CanonicalSSHFingerprint(Shown(basis[j])), fingerprint # None
          PROVE  LiveMatch(j) \in answer
      <4>1. ObservationOf(j) \in observed
        BY <3>1 DEF ObservationInv, Passed
      <4>2. LiveMatch(j) \in FindDuplicateBy(i, "ssh", ObservationOf(j)["ssh"])
        BY <2>1, <3>1, <4>1, LookUpsFind
      <4>3. ObservationOf(j)["ssh"] = fingerprint
        BY <3>1 DEF ObservationOf
      <4> QED BY <3>1, <4>2, <4>3 DEF answer
    <3>2. pc'[i] = "save" /\ sshDups'[i] = answer /\ machineDups'[i] = machineDups[i]
      BY <1>1 DEF TypeOK
    <3> HIDE DEF fingerprint
    <3> QED BY <1>1, <1>3, <2>1, <3>1, <3>2 DEF LookUpInv, Passed, Shown, LiveMatch
  <2>2. CASE k # i
    <3>1. pc'[k] = pc[k] /\ sshDups'[k] = sshDups[k]
      BY <1>1, <2>2 DEF TypeOK
    <3> QED BY <1>1, <3>1 DEF LookUpInv, Passed, Shown, LiveMatch
  <2> QED BY <2>1, <2>2
<1>8. PassIsSound' /\ DuplicatesNeedOverlap' /\ DriftNoticed'
       /\ (\A k \in Instances : scanned[k] # None => state[k] = "APPLYING_WORKLOAD")'
  BY <1>1, VerdictsStand
<1> QED BY <1>4, <1>5, <1>6, <1>7, <1>8

(* A failure forgets what was asked. *)
LEMMA StepFailsKeeps ==
  ASSUME ValidationInv, NEW i \in Instances, StepFails(i)
  PROVE  ValidationInv'
<1> USE DEF ValidationInv
<1>1. /\ state[i] = "VALIDATING_IDENTITY" /\ pc' = [pc EXCEPT ![i] = "collect"]
      /\ seen' = [seen EXCEPT ![i] = None]
      /\ machineDups' = [machineDups EXCEPT ![i] = {}] /\ sshDups' = [sshDups EXCEPT ![i] = {}]
      /\ faults < MaxFaults /\ faults' = faults + 1
      /\ UNCHANGED <<guest, state, retired, observed, drift, changes, basis, proven, scanned, overlapped>>
  BY DEF StepFails, Goto, Forget, Fault, World
<1>2. TypeOK'
  <2>1. pc' \in [Instances -> Labels] /\ seen' \in [Instances -> Facts \cup {None}]
    BY <1>1 DEF TypeOK, Labels
  <2>2. {machineDups', sshDups'} \subseteq [Instances -> SUBSET [instance : Instances, retired : BOOLEAN]]
    BY <1>1 DEF TypeOK
  <2>3. \A k \in Instances : \A m \in machineDups'[k] \cup sshDups'[k] : m.instance # k
    BY <1>1 DEF TypeOK
  <2>4. faults' \in 0..MaxFaults
    BY <1>1, ValidationAssumption DEF TypeOK
  <2> QED BY <1>1, <2>1, <2>2, <2>3, <2>4 DEF TypeOK
<1>3. \A k \in Instances : HandlerInv(k)'
  BY <1>1 DEF HandlerInv, Asked, TypeOK, Shown
<1>4. \A k \in Instances : ObservationInv(k)'
  BY <1>1, ObservationsStand
<1>5. \A j, k \in Instances : j # k => LookUpInv(j, k)'
  BY <1>1 DEF LookUpInv, Passed, TypeOK, Shown
<1>6. PassIsSound' /\ DuplicatesNeedOverlap' /\ DriftNoticed'
       /\ (\A k \in Instances : scanned[k] # None => state[k] = "APPLYING_WORKLOAD")'
  BY <1>1, VerdictsStand
<1> QED BY <1>2, <1>3, <1>4, <1>5, <1>6

(* The guest's own changes and the operator's touch no verdict. *)
LEMMA GuestChangesKeeps ==
  ASSUME ValidationInv, NEW i \in Instances, GuestChanges(i)
  PROVE  ValidationInv'
<1> USE DEF ValidationInv
<1>1. /\ changes < MaxChanges /\ changes' = changes + 1
      /\ \E g \in Guests : guest' = [guest EXCEPT ![i] = g]
      /\ UNCHANGED <<state, retired, observed, pc, seen, machineDups, sshDups, drift, faults, basis, proven, scanned, overlapped>>
  BY DEF GuestChanges, local
<1>2. TypeOK'
  <2>1. guest' \in [Instances -> Guests] /\ changes' \in 0..MaxChanges
    BY <1>1, ValidationAssumption DEF TypeOK
  <2> QED BY <1>1, <2>1 DEF TypeOK
<1>3. \A k \in Instances : HandlerInv(k)' /\ ObservationInv(k)'
  BY <1>1, ObservationsStand DEF HandlerInv, Shown
<1>4. \A j, k \in Instances : j # k => LookUpInv(j, k)'
  BY <1>1 DEF LookUpInv, Passed, Shown, LiveMatch
<1>5. PassIsSound' /\ DuplicatesNeedOverlap' /\ DriftNoticed'
       /\ (\A k \in Instances : scanned[k] # None => state[k] = "APPLYING_WORKLOAD")'
  BY <1>1, VerdictsStand
<1> QED BY <1>2, <1>3, <1>4, <1>5

(* Who is retired is no live match any more, and claims nothing.            *)
LEMMA RetireKeeps ==
  ASSUME ValidationInv, NEW i \in Instances, Retire(i)
  PROVE  ValidationInv'
<1> USE DEF ValidationInv
<1>1. /\ retired' = retired \cup {i}
      /\ UNCHANGED <<guest, state, observed, pc, seen, machineDups, sshDups, drift, faults, changes, basis, proven, scanned, overlapped>>
  BY DEF Retire, local
<1>2. TypeOK'
  BY <1>1 DEF TypeOK
<1>3. \A k \in Instances : HandlerInv(k)' /\ ObservationInv(k)'
  BY <1>1, ObservationsStand DEF HandlerInv, Shown
<1>4. \A j, k \in Instances : j # k => LookUpInv(j, k)'
  BY <1>1 DEF LookUpInv, Passed, Shown, LiveMatch
<1>5. PassIsSound' /\ DuplicatesNeedOverlap' /\ DriftNoticed'
       /\ (\A k \in Instances : scanned[k] # None => state[k] = "APPLYING_WORKLOAD")'
  BY <1>1, VerdictsStand
<1> QED BY <1>2, <1>3, <1>4, <1>5

(* The verdict: a PASS means that the guest is in order and that neither    *)
(* query has found a live instance, so any that passed with the identity    *)
(* came too late for it; those between their query and their verdict are    *)
(* counted as overlapping.                                                  *)
LEMMA SaveIdentityKeeps ==
  ASSUME ValidationInv, NEW i \in Instances, SaveIdentity(i)
  PROVE  ValidationInv'
<1> USE DEF ValidationInv
<1>1. /\ pc[i] = "save" /\ state[i] = "VALIDATING_IDENTITY"
      /\ seen' = [seen EXCEPT ![i] = None]
      /\ machineDups' = [machineDups EXCEPT ![i] = {}] /\ sshDups' = [sshDups EXCEPT ![i] = {}]
      /\ overlapped' = overlapped \cup {{i, j} : j \in Blind(i)}
      /\ UNCHANGED <<guest, retired, drift, faults, changes, basis, proven, scanned>>
  BY DEF SaveIdentity, Forget, World
<1>2. seen[i] = Shown(basis[i])
  BY <1>1 DEF HandlerInv, Asked
<1>3. basis[i] \in Looks /\ basis[i] \in [guest : Facts, broken : SUBSET Outputs]
  BY <1>1, LooksAreTyped DEF HandlerInv, Asked
<1>4. Shown(basis[i]) \in Facts
  BY <1>3, ShownFacts
<1>5. observed' = observed \cup {ObservationOf(i)}
  BY <1>2 DEF SaveIdentity, Observations, ObservationOf
<1>19. ASSUME Passed(i)'
       PROVE  /\ \A c \in EvaluateIdentityAndNetwork(Shown(basis[i]), machineDups[i], sshDups[i]) :
                   c.severity = "BLOCK" => c.pass
              /\ Shown(basis[i]).machine \in MachineIds
              /\ CanonicalSSHFingerprint(Shown(basis[i])) # None
              /\ ~HasBlockingDuplicate(machineDups[i]) /\ ~HasBlockingDuplicate(sshDups[i])
  <2>1. IdentityResult(i) = "PASS"
    BY <1>19 DEF SaveIdentity, Successor, TypeOK, Passed
  <2>2. \A c \in EvaluateIdentityAndNetwork(Shown(basis[i]), machineDups[i], sshDups[i]) : c.pass
    BY <1>2, <2>1, PassMeansAll, ChecksListed DEF IdentityResult
  <2> QED BY <2>2, IdentityIsItsOwn
<1>6. /\ state'[i] \in {"VALIDATING_EGRESS", "QUARANTINED"}
      /\ state'[i] = "VALIDATING_EGRESS" => IdentityResult(i) = "PASS"
      /\ \A k \in Instances \ {i} : state'[k] = state[k]
      /\ state' \in [Instances -> States]
  BY DEF SaveIdentity, Successor, TypeOK, States
<1>7. /\ pc'[i] = IF state'[i] = "QUARANTINED" THEN "done" ELSE "collect"
      /\ \A k \in Instances \ {i} : pc'[k] = pc[k]
      /\ pc' \in [Instances -> Labels]
  BY DEF SaveIdentity, Goto, TypeOK, Labels
<1>8. ObservationOf(i).instance = i
  BY DEF ObservationOf
<1>9. /\ {o \in observed' : o.instance = i} = {ObservationOf(i)}
      /\ \A k \in Instances \ {i} : {o \in observed' : o.instance = k} = {o \in observed : o.instance = k}
  <2>1. {o \in observed : o.instance = i} = {}
    BY <1>1 DEF TypeOK
  <2> QED BY <1>5, <1>8, <2>1
<1>10. TypeOK'
  <2>1. seen' \in [Instances -> Facts \cup {None}]
    BY <1>1 DEF TypeOK
  <2>2. {machineDups', sshDups'} \subseteq [Instances -> SUBSET [instance : Instances, retired : BOOLEAN]]
    BY <1>1 DEF TypeOK
  <2>3. \A k \in Instances : \A m \in machineDups'[k] \cup sshDups'[k] : m.instance # k
    BY <1>1 DEF TypeOK
  <2>4. observed' \subseteq [instance : Instances, machine : MachineIds \cup {BadId}, ssh : Keys \cup {None}]
    <3>1. ObservationOf(i) \in [instance : Instances, machine : MachineIds \cup {BadId}, ssh : Keys \cup {None}]
      BY <1>4 DEF ObservationOf, Facts, CanonicalSSHFingerprint, KeyTypes
    <3> QED BY <1>5, <3>1 DEF TypeOK
  <2>5. \A k \in Instances : {o \in observed' : o.instance = k} = {} <=> state'[k] = "VALIDATING_IDENTITY"
    <3>1. {o \in observed' : o.instance = i} # {} /\ state'[i] # "VALIDATING_IDENTITY"
      BY <1>6, <1>9
    <3>2. \A k \in Instances \ {i} : {o \in observed' : o.instance = k} = {} <=> state'[k] = "VALIDATING_IDENTITY"
      BY <1>6, <1>9 DEF TypeOK
    <3> QED BY <3>1, <3>2
  <2> QED BY <1>1, <1>6, <1>7, <2>1, <2>2, <2>3, <2>4, <2>5 DEF TypeOK
<1>11. \A k \in Instances : HandlerInv(k)'
  <2> SUFFICES ASSUME NEW k \in Instances, HandlerInv(k)
               PROVE  HandlerInv(k)'
    OBVIOUS
  <2>1. CASE k = i
    BY <1>6, <1>7, <2>1 DEF HandlerInv, Asked
  <2>2. CASE k # i
    <3>1. seen'[k] = seen[k]
      BY <1>1, <2>2 DEF TypeOK
    <3> QED BY <1>1, <1>6, <1>7, <2>2, <3>1 DEF HandlerInv, Shown
  <2> QED BY <2>1, <2>2
<1>12. \A k \in Instances : ObservationInv(k)'
  <2> SUFFICES ASSUME NEW k \in Instances, ObservationInv(k)
               PROVE  ObservationInv(k)'
    OBVIOUS
  <2>1. ObservationOf(k)' = ObservationOf(k) /\ Shown(basis[k])' = Shown(basis[k])
    BY <1>1 DEF ObservationOf, Shown
  <2>2. CASE k = i
    BY <1>1, <1>3, <1>9, <1>19, <2>1, <2>2 DEF ObservationInv
  <2>3. CASE k # i
    <3>1. Passed(k)' => Passed(k)
      BY <1>6, <2>3 DEF Passed
    <3> QED BY <1>1, <1>6, <1>9, <2>1, <2>3, <3>1 DEF ObservationInv
  <2> QED BY <2>2, <2>3
<1>13. \A j, k \in Instances : j # k => LookUpInv(j, k)'
  <2> SUFFICES ASSUME NEW j \in Instances, NEW k \in Instances, j # k, LookUpInv(j, k)
               PROVE  LookUpInv(j, k)'
    OBVIOUS
  <2>1. CASE k = i
    BY <1>7, <2>1 DEF LookUpInv
  <2>2. CASE j = i
    <3>1. pc[k] \in {"ssh", "save"} => {j, k} \in overlapped'
      BY <1>1, <2>2 DEF Blind
    <3> QED BY <1>7, <2>2, <3>1 DEF LookUpInv
  <2>3. CASE j # i /\ k # i
    <3>1. machineDups'[k] = machineDups[k] /\ sshDups'[k] = sshDups[k]
      BY <1>1, <2>3 DEF TypeOK
    <3>2. pc'[k] = pc[k] /\ (Passed(j)' => Passed(j)) /\ ({j, k} \in overlapped => {j, k} \in overlapped')
      BY <1>1, <1>6, <1>7, <2>3 DEF Passed
    <3>3. Shown(basis[k])' = Shown(basis[k]) /\ Shown(basis[j])' = Shown(basis[j])
      BY <1>1 DEF Shown
    <3> QED BY <1>1, <3>1, <3>2, <3>3 DEF LookUpInv
  <2> QED BY <2>1, <2>2, <2>3
<1>14. \A k \in Instances : scanned[k] # None => k # i /\ state'[k] = state[k]
  BY <1>1, <1>6
<1>15. (\A k \in Instances : scanned[k] # None => state[k] = "APPLYING_WORKLOAD")'
  BY <1>1, <1>14
<1>16. PassIsSound'
  <2> SUFFICES ASSUME NEW k \in Instances
               PROVE  /\ Strictest /\ Passed(k)' => InOrder(Unrouted(basis[k]))
                      /\ state'[k] = "APPLYING_WORKLOAD" => k \in proven
    BY <1>1 DEF PassIsSound
  <2>1. CASE k = i
    <3>1. Strictest /\ Passed(i)' => InOrder(Unrouted(basis[i]))
      BY <1>3, <1>19, GuestIsInOrder
    <3> QED BY <1>6, <2>1, <3>1
  <2>2. CASE k # i
    BY <1>6, <2>2 DEF PassIsSound, Passed
  <2> QED BY <2>1, <2>2
<1>17. DuplicatesNeedOverlap'
  <2>1. ASSUME NEW j \in Instances, j \notin retired, j # i, Passed(j), Passed(i)',
               SameIdentity(basis[j], basis[i])
        PROVE  {j, i} \in overlapped'
    <3>1. LiveMatch(j) \notin machineDups[i] /\ LiveMatch(j) \notin sshDups[i]
      BY <1>19, <2>1, LiveMatchBlocks
    <3>2. \/ Shown(basis[i]).machine = Shown(basis[j]).machine
          \/ CanonicalSSHFingerprint(Shown(basis[i])) = CanonicalSSHFingerprint(Shown(basis[j]))
      <4>1. basis[j] \in [guest : Facts, broken : SUBSET Outputs] /\ Shown(basis[j]).machine \in MachineIds
        BY <2>1, LooksAreTyped DEF ObservationInv, Passed
      <4>2. CASE basis[j].guest.machine = basis[i].guest.machine
        <5>1. Shown(basis[i]).machine = basis[i].guest.machine
          BY <1>3, <1>19, <2>1, NormalizeHidesNothing
        <5>2. Shown(basis[j]).machine = basis[j].guest.machine
          BY <4>1, NormalizeHidesNothing
        <5> QED BY <4>2, <5>1, <5>2
      <4>3. CASE /\ CanonicalSSHFingerprint(basis[j].guest) = CanonicalSSHFingerprint(basis[i].guest)
                 /\ (basis[j].broken \cup basis[i].broken) \cap KeyTypes = {}
        <5>1. basis[j].broken \cap KeyTypes = {} /\ basis[i].broken \cap KeyTypes = {}
          BY <4>3
        <5>2. CanonicalSSHFingerprint(Shown(basis[i])) = CanonicalSSHFingerprint(basis[i].guest)
          BY <1>3, <5>1, KeysRead
        <5>3. CanonicalSSHFingerprint(Shown(basis[j])) = CanonicalSSHFingerprint(basis[j].guest)
          BY <4>1, <5>1, KeysRead
        <5> QED BY <4>3, <5>2, <5>3
      <4> QED BY <2>1, <4>2, <4>3 DEF SameIdentity
    <3>3. CanonicalSSHFingerprint(Shown(basis[i])) # None
      BY <1>19, <2>1
    <3>4. {j, i} \in overlapped
      BY <1>1, <2>1, <3>1, <3>2, <3>3 DEF LookUpInv
    <3> QED BY <1>1, <3>4
  <2> SUFFICES ASSUME NEW j \in Instances, j \notin retired, NEW k \in Instances, k \notin retired,
                      j # k, Passed(j)', Passed(k)', SameIdentity(basis[j], basis[k])
               PROVE  {j, k} \in overlapped'
    BY <1>1 DEF DuplicatesNeedOverlap
  <2>2. CASE k = i
    <3>1. Passed(j)
      BY <1>6, <2>2 DEF Passed
    <3> QED BY <2>1, <2>2, <3>1
  <2>3. CASE j = i
    <3>1. Passed(k)
      BY <1>6, <2>3 DEF Passed
    <3>2. SameIdentity(basis[k], basis[j]) /\ {k, j} = {j, k}
      BY DEF SameIdentity
    <3> QED BY <2>1, <2>3, <3>1, <3>2
  <2>4. CASE j # i /\ k # i
    <3>1. Passed(j) /\ Passed(k)
      BY <1>6, <2>4 DEF Passed
    <3> QED BY <1>1, <3>1 DEF DuplicatesNeedOverlap
  <2> QED BY <2>2, <2>3, <2>4
<1>18. DriftNoticed'
  BY <1>1 DEF DriftNoticed
<1> QED BY <1>10, <1>11, <1>12, <1>13, <1>15, <1>16, <1>17, <1>18

(* The egress verdict is that of a faultless proof or a quarantine. *)
LEMMA ValidateEgressKeeps ==
  ASSUME ValidationInv, NEW i \in Instances, ValidateEgress(i)
  PROVE  ValidationInv'
<1> USE DEF ValidationInv
<1>1. PICK p \in GatewayProofs :
        /\ state' = [state EXCEPT ![i] = Successor(Result(EvaluateEgress(p)), "APPLYING_WORKLOAD")]
        /\ proven' = IF Faultless(p) THEN proven \cup {i} ELSE proven
  BY DEF ValidateEgress
<1>2. /\ state[i] = "VALIDATING_EGRESS" /\ pc' = [pc EXCEPT ![i] = "done"]
      /\ UNCHANGED <<guest, retired, observed, seen, machineDups, sshDups, drift, faults, changes, basis, scanned, overlapped>>
  BY DEF ValidateEgress, Goto
<1>3. /\ state'[i] \in {"APPLYING_WORKLOAD", "QUARANTINED"}
      /\ state'[i] = "APPLYING_WORKLOAD" => Result(EvaluateEgress(p)) = "PASS"
      /\ \A k \in Instances \ {i} : state'[k] = state[k]
      /\ state' \in [Instances -> States]
  BY <1>1 DEF Successor, TypeOK, States
<1>4. pc' \in [Instances -> Labels] /\ pc'[i] = "done" /\ \A k \in Instances \ {i} : pc'[k] = pc[k]
  BY <1>2 DEF TypeOK, Labels
<1>5. proven' \subseteq Instances /\ proven \subseteq proven'
  BY <1>1 DEF TypeOK
<1>6. \A k \in Instances : /\ Passed(k)' => Passed(k)
                           /\ state'[k] = "VALIDATING_IDENTITY" <=> state[k] = "VALIDATING_IDENTITY"
  BY <1>2, <1>3 DEF Passed
<1>7. TypeOK'
  BY <1>2, <1>3, <1>4, <1>5, <1>6 DEF TypeOK
<1>8. \A k \in Instances : HandlerInv(k)'
  <2> SUFFICES ASSUME NEW k \in Instances, HandlerInv(k)
               PROVE  HandlerInv(k)'
    OBVIOUS
  <2>1. CASE k = i
    BY <1>4, <2>1 DEF HandlerInv, Asked
  <2>2. CASE k # i
    BY <1>2, <1>3, <1>4, <2>2 DEF HandlerInv, Shown
  <2> QED BY <2>1, <2>2
<1>9. \A k \in Instances : ObservationInv(k)'
  <2> SUFFICES ASSUME NEW k \in Instances, ObservationInv(k)
               PROVE  ObservationInv(k)'
    OBVIOUS
  <2>1. ObservationOf(k)' = ObservationOf(k) /\ Shown(basis[k])' = Shown(basis[k])
    BY <1>2 DEF ObservationOf, Shown
  <2> QED BY <1>2, <1>6, <2>1 DEF ObservationInv
<1>10. \A j, k \in Instances : j # k => LookUpInv(j, k)'
  <2> SUFFICES ASSUME NEW j \in Instances, NEW k \in Instances, j # k, LookUpInv(j, k)
               PROVE  LookUpInv(j, k)'
    OBVIOUS
  <2>1. pc'[k] \in {"ssh", "save"} => pc'[k] = pc[k]
    BY <1>4
  <2>2. Passed(j)' => Passed(j)
    BY <1>6
  <2>3. Shown(basis[k])' = Shown(basis[k]) /\ Shown(basis[j])' = Shown(basis[j])
    BY <1>2 DEF Shown
  <2> QED BY <1>2, <2>1, <2>2, <2>3 DEF LookUpInv, LiveMatch
<1>11. \A k \in Instances : scanned[k] # None => state'[k] = "APPLYING_WORKLOAD"
  BY <1>2, <1>3
<1>12. PassIsSound'
  <2> SUFFICES ASSUME NEW k \in Instances
               PROVE  /\ Strictest /\ Passed(k)' => InOrder(Unrouted(basis[k]))
                      /\ state'[k] = "APPLYING_WORKLOAD" => k \in proven'
    BY <1>2 DEF PassIsSound
  <2>1. Strictest /\ Passed(k)' => InOrder(Unrouted(basis[k]))
    BY <1>6 DEF PassIsSound
  <2>2. CASE k = i
    <3>1. ASSUME state'[i] = "APPLYING_WORKLOAD"
          PROVE  Faultless(p)
      BY <1>3, <3>1, EgressPassMeansSound DEF GatewayProofs
    <3> QED BY <1>1, <2>1, <2>2, <3>1
  <2>3. CASE k # i
    BY <1>3, <1>5, <2>1, <2>3 DEF PassIsSound
  <2> QED BY <2>2, <2>3
<1>13. DuplicatesNeedOverlap' /\ DriftNoticed'
  BY <1>2, <1>6 DEF DuplicatesNeedOverlap, DriftNoticed
<1> QED BY <1>2, <1>7, <1>8, <1>9, <1>10, <1>11, <1>12, <1>13

(* A scan reports on its own instance. *)
LEMMA ScanInstanceKeeps ==
  ASSUME ValidationInv, NEW i \in Instances, ScanInstance(i)
  PROVE  ValidationInv'
<1> USE DEF ValidationInv
<1> DEFINE report(broken) ==
      LET facts == NormalizeFacts(guest[i], broken) IN
      CompareDigestStability(Latest(i), facts.machine)
        \cup ClassifyFailedChecks(EvaluateIdentityAndNetwork(facts, {}, {}))
<1>1. PICK broken \in Losses :
        /\ CollectFacts(broken)
        /\ drift' = [drift EXCEPT ![i] = report(broken)]
        /\ scanned' = [scanned EXCEPT ![i] = [guest |-> guest[i], broken |-> broken]]
  BY DEF ScanInstance
<1>2. /\ state[i] = "APPLYING_WORKLOAD"
      /\ UNCHANGED <<guest, state, retired, observed, pc, seen, machineDups, sshDups, changes, basis, proven, overlapped>>
  BY DEF ScanInstance, local
<1>3. report(broken) \in SUBSET [category : Categories, classification : {"quarantine", "repairable"}]
  BY FindingsAreTyped
<1> DEFINE look == [guest |-> guest[i], broken |-> broken]
<1>14. broken \in SUBSET Outputs /\ faults' \in 0..MaxFaults
  BY <1>1, CollectionIsBounded DEF TypeOK
<1>4. /\ Latest(i) = Shown(basis[i]).machine /\ Shown(basis[i]).machine \in MachineIds
      /\ basis[i] \in [guest : Facts, broken : SUBSET Outputs]
  <2>1. {o \in observed : o.instance = i} = {ObservationOf(i)}
    BY <1>2 DEF ObservationInv
  <2>5. basis[i] \in [guest : Facts, broken : SUBSET Outputs] /\ Shown(basis[i]).machine \in MachineIds
    BY <1>2, LooksAreTyped DEF ObservationInv, Passed
  <2>2. (CHOOSE o \in {ObservationOf(i)} : TRUE) = ObservationOf(i)
    OBVIOUS
  <2>3. ObservationOf(i).machine = Shown(basis[i]).machine
    BY DEF ObservationOf
  <2>4. Latest(i) = (CHOOSE o \in {ObservationOf(i)} : TRUE).machine
    BY <2>1 DEF Latest
  <2> QED BY <2>1, <2>2, <2>3, <2>4, <2>5
<1>5. look \in Looks /\ look \in [guest : Facts, broken : SUBSET Outputs]
  BY <1>14, LooksAreTyped DEF TypeOK, Looks
<1>6. Strictest =>
        LET alarm == \E f \in report(broken) : f.classification = "quarantine"
        IN /\ look.guest.machine # basis[i].guest.machine \/ ~InOrder(Unrouted(look)) => alarm
           /\ alarm => look.guest # basis[i].guest \/ look.broken # {} \/ "def6" \in basis[i].broken
  <2> SUFFICES ASSUME Strictest
               PROVE  LET alarm == \E f \in report(broken) : f.classification = "quarantine"
                      IN /\ look.guest.machine # basis[i].guest.machine \/ ~InOrder(Unrouted(look)) => alarm
                         /\ alarm => look.guest # basis[i].guest \/ look.broken # {} \/ "def6" \in basis[i].broken
    OBVIOUS
  <2>1. InOrder(Unrouted(basis[i]))
    BY <1>2 DEF PassIsSound, Passed
  <2>2. report(broken) = CompareDigestStability(Shown(basis[i]).machine, Shown(look).machine)
                           \cup ClassifyFailedChecks(EvaluateIdentityAndNetwork(Shown(look), {}, {}))
    BY <1>4 DEF Shown
  <2> HIDE DEF report, look
  <2> QED BY <1>4, <1>5, <2>1, <2>2, ScanIsAccurate
<1> HIDE DEF report, look
<1>7. TypeOK'
  <2>1. drift' \in [Instances -> SUBSET [category : Categories, classification : {"quarantine", "repairable"}]]
    BY <1>1, <1>3 DEF TypeOK
  <2>2. scanned' \in [Instances -> [guest : Guests, broken : SUBSET Outputs] \cup {None}]
    BY <1>1, <1>5 DEF TypeOK, Looks, look
  <2> QED BY <1>2, <1>14, <2>1, <2>2 DEF TypeOK
<1>8. \A k \in Instances : HandlerInv(k)' /\ ObservationInv(k)'
  BY <1>2, ObservationsStand DEF HandlerInv, Shown
<1>9. \A j, k \in Instances : j # k => LookUpInv(j, k)'
  BY <1>2 DEF LookUpInv, Passed, Shown, LiveMatch
<1>10. \A k \in Instances \ {i} : scanned'[k] = scanned[k] /\ drift'[k] = drift[k]
  BY <1>1 DEF TypeOK
<1>11. \A k \in Instances : scanned'[k] # None => state'[k] = "APPLYING_WORKLOAD"
  BY <1>2, <1>10
<1>12. PassIsSound' /\ DuplicatesNeedOverlap'
  BY <1>2 DEF PassIsSound, DuplicatesNeedOverlap, Passed
<1>13. DriftNoticed'
  <2> SUFFICES ASSUME Strictest, NEW k \in Instances, scanned'[k] # None
               PROVE  LET now   == scanned'[k].guest
                          alarm == \E f \in drift'[k] : f.classification = "quarantine"
                      IN /\ now.machine # basis[k].guest.machine \/ ~InOrder(Unrouted(scanned'[k])) => alarm
                         /\ alarm => now # basis[k].guest \/ scanned'[k].broken # {} \/ "def6" \in basis[k].broken
    BY <1>2 DEF DriftNoticed, Unrouted
  <2>1. CASE k = i
    <3>1. scanned'[i] = look /\ drift'[i] = report(broken)
      BY <1>1 DEF TypeOK, look
    <3> QED BY <1>6, <2>1, <3>1
  <2>2. CASE k # i
    BY <1>10, <2>2 DEF DriftNoticed
  <2> QED BY <2>1, <2>2
<1> QED BY <1>7, <1>8, <1>9, <1>11, <1>12, <1>13
-----------------------------------------------------------------------------
(* ValidationInv holds in every reachable state: what the properties of     *)
(* handlers_validation.go, identity.go and drift.go rest on.                *)
THEOREM ValidationInvariant == Spec => []ValidationInv
<1>1. Init => ValidationInv
  <2> SUFFICES ASSUME Init
               PROVE  ValidationInv
    OBVIOUS
  <2>1. TypeOK
    <3>1. /\ guest \in [Instances -> Guests] /\ proven \subseteq Instances /\ retired \subseteq Instances
          /\ state \in [Instances -> States] /\ pc \in [Instances -> Labels]
          /\ faults \in 0..MaxFaults /\ changes \in 0..MaxChanges
      BY ValidationAssumption DEF Init, States, Labels
    <3>2. /\ seen \in [Instances -> Facts \cup {None}]
          /\ {basis, scanned} \subseteq [Instances -> [guest : Guests, broken : SUBSET Outputs] \cup {None}]
      BY DEF Init
    <3>3. /\ {machineDups, sshDups} \subseteq [Instances -> SUBSET [instance : Instances, retired : BOOLEAN]]
          /\ \A i \in Instances : machineDups[i] = {} /\ sshDups[i] = {}
      BY DEF Init
    <3>4. drift \in [Instances -> SUBSET [category : Categories, classification : {"quarantine", "repairable"}]]
      BY DEF Init
    <3>5. /\ \A i \in Instances : {o \in observed : o.instance = i} = {} <=> state[i] = "VALIDATING_IDENTITY"
          /\ observed \subseteq [instance : Instances, machine : MachineIds \cup {BadId}, ssh : Keys \cup {None}]
      BY DEF Init
    <3> QED BY <3>1, <3>2, <3>3, <3>4, <3>5 DEF TypeOK
  <2>2. \A i \in Instances : HandlerInv(i) /\ ObservationInv(i)
    BY DEF Init, HandlerInv, ObservationInv, Asked, Passed
  <2>3. \A i, j \in Instances : i # j => LookUpInv(i, j)
    BY DEF Init, LookUpInv, Passed
  <2>4. \A i \in Instances : scanned[i] # None => state[i] = "APPLYING_WORKLOAD"
    BY DEF Init
  <2>5. PassIsSound /\ DuplicatesNeedOverlap /\ DriftNoticed
    BY DEF Init, PassIsSound, DuplicatesNeedOverlap, DriftNoticed, Passed
  <2> QED BY <2>1, <2>2, <2>3, <2>4, <2>5 DEF ValidationInv
<1>2. ValidationInv /\ [Next]_vars => ValidationInv'
  <2> SUFFICES ASSUME ValidationInv, [Next]_vars
               PROVE  ValidationInv'
    OBVIOUS
  <2>1. ASSUME NEW i \in Instances,
               \/ Collect(i) \/ FindDuplicateMachineDigest(i) \/ FindDuplicateSSHFingerprint(i) \/ SaveIdentity(i)
               \/ StepFails(i) \/ ValidateEgress(i) \/ ScanInstance(i) \/ GuestChanges(i) \/ Retire(i)
        PROVE  ValidationInv'
    BY <2>1, CollectKeeps, FindMachineKeeps, FindFingerprintKeeps, SaveIdentityKeeps, StepFailsKeeps,
       ValidateEgressKeeps, ScanInstanceKeeps, GuestChangesKeeps, RetireKeeps
  <2>2. CASE UNCHANGED vars
    <3>1. UNCHANGED <<guest, state, retired, observed, pc, seen, machineDups, sshDups, drift, faults, changes, basis, proven, scanned, overlapped>>
      BY <2>2 DEF vars, local
    <3>2. TypeOK'
      BY <3>1 DEF ValidationInv, TypeOK
    <3>3. \A i \in Instances : HandlerInv(i)' /\ ObservationInv(i)'
      BY <3>1, ObservationsStand DEF ValidationInv, HandlerInv, Shown
    <3>4. \A i, j \in Instances : i # j => LookUpInv(i, j)'
      BY <3>1 DEF ValidationInv, LookUpInv, Passed, Shown
    <3>5. PassIsSound' /\ DuplicatesNeedOverlap' /\ DriftNoticed'
          /\ (\A i \in Instances : scanned[i] # None => state[i] = "APPLYING_WORKLOAD")'
      BY <3>1, VerdictsStand
    <3> QED BY <3>2, <3>3, <3>4, <3>5 DEF ValidationInv
  <2> QED BY <2>1, <2>2 DEF Next
<1> QED BY <1>1, <1>2, PTL DEF Spec

(* The tables, the handlers' locals and the reports stay of their kinds. *)
THEOREM ValidationTypeCorrect == Spec => []TypeOK
<1>1. ValidationInv => TypeOK
  BY DEF ValidationInv
<1> QED BY <1>1, ValidationInvariant, PTL

(* Under the strictest configuration an instance goes on only with a guest  *)
(* that broke no hard rule, whatever outputs of its script were lost, the   *)
(* count of IPv6 routes excepted; and to its workload only with a proof     *)
(* that had nothing wrong (handlers_validation.go).                         *)
THEOREM PassesAreSound == Spec => []PassIsSound
<1>1. ValidationInv => PassIsSound
  BY DEF ValidationInv
<1> QED BY <1>1, ValidationInvariant, PTL

(* Two live instances with one identity pass only through the window        *)
(* between a look-up and an insert (handlers_validation.go:87-96).          *)
THEOREM DuplicatesAreRaces == Spec => []DuplicatesNeedOverlap
<1>1. ValidationInv => DuplicatesNeedOverlap
  BY DEF ValidationInv
<1> QED BY <1>1, ValidationInvariant, PTL

(* A scan raises the alarm for every guest that breaks a hard rule or shows *)
(* another machine id, an IPv6 route that could not be counted excepted,    *)
(* and only for one that has changed or could not be read (drift.go).       *)
THEOREM DriftIsNoticed == Spec => []DriftNoticed
<1>1. ValidationInv => DriftNoticed
  BY DEF ValidationInv
<1> QED BY <1>1, ValidationInvariant, PTL
=============================================================================
