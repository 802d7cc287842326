------------------------ MODULE MCStorageOperations ------------------------
EXTENDS StorageOperations, TLC

CONSTANTS w1, w2, p1, p2

PathOwnerDef == [p \in Paths |-> w1]

PathSymmetry == Permutations(Paths)

=============================================================================
