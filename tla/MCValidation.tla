---------------------------- MODULE MCValidation ----------------------------
EXTENDS Validation, TLC
CONSTANTS m1, m2, k1, k2

InstanceSymmetry == Permutations(Instances)

With(keys) == [type \in KeyTypes |-> IF type \in DOMAIN keys THEN keys[type] ELSE None]

(* sound guests that share a machine id, a key, or neither, and unsound ones of each kind *)
One == Sound(m1, With([ed25519 |-> k1]))
MCGuests ==
  {One, Sound(m1, With([other |-> k2])), Sound(m2, With([ecdsa |-> k1, rsa |-> k2])),
   Sound(m2, With(<<>>)), Sound(BadId, With([ed25519 |-> k2]))}
  \cup {[One EXCEPT !.cloudInit = FALSE], [One EXCEPT !.ipv4 = "none"], [One EXCEPT !.nics = 2],
        [One EXCEPT !.gateway = FALSE], [One EXCEPT !.v6routes = 1], [One EXCEPT !.v6addrs = 1]}
=============================================================================
