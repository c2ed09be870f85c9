------------------------------- MODULE Issuance -------------------------------
(***************************************************************************)
(* Buying tokens: wallets, mint, payment server and checkout together,     *)
(* with a second holder of the same book or receipt who presents it too.   *)
(***************************************************************************)
EXTENDS Wallets

CONSTANT MaxCopies  \* bound: calls of the other holder

ASSUME CopiesAssumption == MaxCopies \in Nat

VARIABLE copies  \* calls made by the other holder

vars == <<walletVars, mintVars, checkoutVars, now, faults, copies>>

TypeOK == CheckoutTypeOK /\ MintTypeOK /\ WalletTypeOK /\ copies \in 0..MaxCopies

\* The rail decides which half moves: an invite mint has no invoices.
Init ==
    /\ CheckoutInit /\ MintInit /\ WalletInit /\ copies = 0
    /\ invoice = [i \in Invoices |-> "none"]

\* Somebody with a copy of the book or of the invoice number presents it.
CopySends(e) ==
    /\ copies < MaxCopies /\ copies' = copies + 1
    /\ e \in IF rail = "invite" THEN Vouchers ELSE {Receipt}
    /\ Arrive(Copy, e)
    /\ UNCHANGED <<walletVars, rail, mintUp, mintKey, claimed, signatures, checkoutVars, now, faults>>

\* The end of a call nobody waits for: a copy's, or one its buyer left.
Abandoned(p) ==
    /\ At(p, "signed") \/ At(p, "refused")
    /\ p = Copy \/ (p # Copy => pc[p] # "wait")
    /\ call' = [call EXCEPT ![p] = None]
    /\ UNCHANGED <<walletVars, rail, mintUp, mintKey, claimed, signatures, checkoutVars, now, faults, copies>>

CheckoutStep ==
    /\ rail = "btcpay"
    /\ \/ \E i \in Invoices : CreateInvoice(i) \/ Settle(i)
       \/ CreateFails \/ RestartCheckout

Tick == now < MaxTime /\ now' = now + 1

Next ==
    \/ WalletStep /\ UNCHANGED copies
    \/ MintStep /\ UNCHANGED <<walletVars, checkoutVars, now, copies>>
    \/ CheckoutStep /\ UNCHANGED <<walletVars, mintVars, faults, copies>>
    \/ Tick /\ UNCHANGED <<walletVars, mintVars, checkoutVars, faults, copies>>
    \/ \E e \in Ents : CopySends(e)
    \/ \E p \in Callers : Abandoned(p)

Spec == Init /\ [][Next]_vars
--------------------------------------------------------------------------------
(* Properties *)

\* The mint keeps its contract: whoever presents a receipt, at once or again, and
\* wherever the mint is stopped, it is good for one blind signature (Authorize
\* claims before Issue signs).
OneSignature == Contract!Spec

\* A wallet shows no receipt twice in the life of its record, neither from the
\* refill loop and a request at the same time nor after a restart: a second
\* blinded message cannot recover the first token.
ShownOnce ==
    \A b \in Buyers : pc[b] = "send" =>
        token[b] \notin shown \cup {token[c] : c \in Buyers \ {b}}

\* A reserved receipt is a token on hand, was handed out, is being bought, or was
\* spoiled by a refusal or a failure: nothing else costs a voucher.
NothingLost ==
    reserved \subseteq stock \cup out \cup hit \cup {token[b] : b \in Midway}

\* The counter on the status page is the number of tokens that were taken and did
\* not come back, whatever the loop stocks and whichever transactions fail: those
\* included that a failing transaction took for nobody or Put failed to restore.
SpentIsWhatLeft == spent = Cardinality(out) /\ stock \cap out = {}

\* A wallet at its low-water mark has a refill running, pending or about to be
\* asked for by the request that took the token, unless the last one could not buy
\* or the token went in a transaction of Take that failed.
NoForgottenRefill ==
    \/ pc[Refill] # "select" \/ pending \/ gaveUp
    \/ \E b \in Requests : pc[b] \in {"low", "trigger"}
    \/ Cardinality(stock) > LowWater

\* The book and the manifest share nothing but the program's numbers.  At the time
\* on its clock, which may be ahead of the mint's, a wallet with an activated book
\* offers to reserve exactly the vouchers left that the mint accepts at that time:
\* it neither burns one that would be refused nor keeps back one that would not.
OffersAccepted ==
    book # None =>
        \A s \in Slots(Program) :
            s \in OpenSlots <=> /\ <<book.seat, s>> \notin reserved
                              /\ Accepts(Program, <<book.seat, s>>, now + skew)

\* docs/beta-invites.md: the client can import a book the generator made.  Refuted
\* for every program with daily epochs.
GeneratedBooksImport == ~refusedBook
===============================================================================
