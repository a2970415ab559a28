------------------------- MODULE MCOperatorActions -------------------------
EXTENDS OperatorActions, TLC

RequestSymmetry == Permutations(Requests)
=============================================================================
