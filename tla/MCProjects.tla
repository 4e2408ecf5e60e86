----------------------------- MODULE MCProjects -----------------------------
EXTENDS Projects, TLC

CONSTANTS shop, blog, mine, other, r1, r2, w1, w2

Symmetry == Permutations(Requests) \cup Permutations(Slugs) \cup Permutations(Repos)
=============================================================================
