----------------------------- MODULE MCPaidRequest -----------------------------
(* Instances of PaidRequest for TLC. *)
EXTENDS PaidRequest, TLC

CONSTANTS r1, r2, r3, c1, c2, t1, t2

\* Requests are alike, and so are tokens and copies.
Symmetry == Permutations(Requests) \cup Permutations(Copies) \cup Permutations(Tokens)
===============================================================================
