------------------------------- MODULE Lists -------------------------------
(***************************************************************************)
(* What the lists of the code are filtered with: SelectSeq, by a set of    *)
(* elements or of positions, in a form that can be reasoned about.         *)
(***************************************************************************)
EXTENDS Integers, Sequences

\* The elements of s at the positions in W, in their order.
Picked(s, W) ==
  LET picked[n \in 0 .. Len(s)] ==
        IF n = 0 THEN <<>> ELSE IF n \in W THEN Append(picked[n - 1], s[n]) ELSE picked[n - 1]
  IN  picked[Len(s)]

\* The elements of s that are in S, in their order.
Only(s, S) == Picked(s, {i \in DOMAIN s : s[i] \in S})
=============================================================================
