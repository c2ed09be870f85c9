------------------------------ MODULE MCCouncil ------------------------------
(***************************************************************************)
(* Instances of Council and Relaying for TLC.  The client's pool takes the *)
(* documents as Council shows them to be, one body for each epoch; beyond  *)
(* that the two share no state, so each behaviour belongs to one of them.  *)
(***************************************************************************)
EXTENDS Council, Relaying, TLC

CONSTANTS a1, a2, a3, a4, o1, m1, b1, b2, x, y, c1, c2

VARIABLE half  \* the half of the directory that moves: "council" or "clients"

\* One relay is withdrawn, then the document lists none for the destination.
Withdrawal == 0 :> {x, y} @@ 1 :> {y} @@ 2 :> {}

DirectoryInit == Init /\ RelayingInit /\ half \in {"council", "clients"}

DirectoryNext ==
    \/ half = "council" /\ Next /\ UNCHANGED <<relayingVars, half>>
    \/ half = "clients" /\ RelayingNext /\ UNCHANGED <<vars, half>>

DirectorySpec == DirectoryInit /\ [][DirectoryNext]_<<vars, relayingVars, half>>

Symmetric ==
    Permutations(Conns) \cup Permutations(Bodies)
===============================================================================
