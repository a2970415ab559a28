--------------------------- MODULE MCProvisioning ---------------------------
EXTENDS Provisioning, TLC

InstanceSymmetry == Permutations(Instances)
=============================================================================
