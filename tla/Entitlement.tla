------------------------------ MODULE Entitlement ------------------------------
(***************************************************************************)
(* What the mint promises for every payment or invitation (the Authorizer  *)
(* and ReceiptStore contracts of internal/mint): an entitlement buys one   *)
(* blind signature at most, whoever presents it and however often.         *)
(***************************************************************************)
EXTENDS Naturals

CONSTANT Ents  \* receipts: settled invoices, invite vouchers

VARIABLE signatures  \* blind signatures made against each entitlement

Init == signatures = [e \in Ents |-> 0]

Sign(e) ==
    /\ signatures[e] = 0
    /\ signatures' = [signatures EXCEPT ![e] = 1]

Next == \E e \in Ents : Sign(e)

Spec == Init /\ [][Next]_signatures
===============================================================================
