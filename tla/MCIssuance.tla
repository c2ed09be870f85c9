------------------------------- MODULE MCIssuance -------------------------------
(* Instances of Issuance for TLC. *)
EXTENDS Issuance, TLC

CONSTANTS r1, r2, refill, copy, i1

\* Two epochs of one voucher each.
Daily2 == [seats |-> 1, perInvite |-> 2, perEpoch |-> 1, epochLength |-> 1, from |-> 0, until |-> 2]

\* A book made by hand, which the wallet accepts, and the generated one.
DailyBooks == {HandmadeBook(Daily2, 1), GeneratedBook(Daily2, 1)}

\* Requests are alike.
Symmetry == Permutations(Requests)
===============================================================================
