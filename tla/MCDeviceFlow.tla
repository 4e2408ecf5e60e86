---------------------------- MODULE MCDeviceFlow ----------------------------
(* DeviceFlow on a small instance: two people, two codes, two requests.     *)
EXTENDS DeviceFlow, TLC

CONSTANTS k1, k2, t1, t2, ana, luis, r1, r2

Symmetry == Permutations({k1, k2}) \cup Permutations({t1, t2})
              \cup Permutations({ana, luis}) \cup Permutations({r1, r2})
=============================================================================
