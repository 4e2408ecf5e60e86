--------------------------- MODULE MCLogCollector ---------------------------
EXTENDS LogCollector

CONSTANTS web, db, boom, more

Symmetry == Permutations(Containers)
=============================================================================
