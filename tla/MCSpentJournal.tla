---------------------------- MODULE MCSpentJournal ----------------------------
(* Instances of SpentJournal for TLC. *)
EXTENDS SpentJournalProofs, TLC


CONSTANTS p1, p2, p3, t1, t2, k1, k2

\* Two tokens of one key epoch, and two of different ones.
OneKey == t1 :> k1 @@ t2 :> k1
OneToken == t1 :> k1
TwoKeys == t1 :> k1 @@ t2 :> k2

ProcSymmetry == Permutations(Procs)
===============================================================================
