-------------------------- MODULE MCJsonStateStore --------------------------
EXTENDS JsonStateStore, TLC

Symmetry == Permutations(Threads) \cup Permutations(Slots)
                \cup Permutations(Values) \cup Permutations(Inodes)
=============================================================================
