----------------------------- MODULE MCJobQueue -----------------------------
EXTENDS JobQueue, TLC

SlotSymmetry == Permutations(Workers)
=============================================================================
