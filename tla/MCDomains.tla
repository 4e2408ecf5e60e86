----------------------------- MODULE MCDomains -----------------------------
EXTENDS Domains, TLC

CONSTANTS shop, blog, auto1, auto2, far, theirs, r1, r2

InOrder == <<blog, shop>>
Symmetry == Permutations(Requests) \cup Permutations(AutoHosts)
=============================================================================
