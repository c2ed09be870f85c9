------------------------------- MODULE Checkout -------------------------------
(***************************************************************************)
(* The public checkout page (internal/checkout/server.go): anybody may ask *)
(* for an invoice, and a counter per minute keeps a burst from filling the *)
(* store of the payment server.  The invoices live in BTCPay, an external  *)
(* service known by what internal/btcpay/client.go relies on.              *)
(***************************************************************************)
EXTENDS Naturals, Sequences, FiniteSets

CONSTANTS
    Invoices,   \* invoices of the store
    Maximum,    \* MaxInvoicesPerMinute
    Minute,     \* ticks of the clock in a minute
    MaxTime,    \* bound: the clock stops here
    None

ASSUME CheckoutAssumption ==
    /\ IsFiniteSet(Invoices)
    /\ Maximum \in Nat \ {0} /\ Minute \in Nat \ {0}
    /\ MaxTime \in Nat /\ None \notin 0..MaxTime

VARIABLES
    now,      \* the clock of the server's machine
    start,    \* start of the minute counted, None before the first request
    used,     \* invoices asked for since
    recent,   \* history: when this process asked for invoices
    invoice   \* the state of each invoice

checkoutVars == <<start, used, recent, invoice>>

\* "settled" is settled in full at the price of a token; "other" is settled in
\* another amount or currency, an invoice of the same store made elsewhere.
InvoiceStates == {"none", "new", "settled", "invalid", "other"}

CheckoutTypeOK ==
    /\ now \in 0..MaxTime
    /\ start \in (0..MaxTime) \cup {None} /\ used \in 0..Maximum
    /\ \A i \in DOMAIN recent : recent[i] \in 0..MaxTime
    /\ invoice \in [Invoices -> InvoiceStates]

CheckoutInit == now = 0 /\ start = None /\ used = 0 /\ recent = <<>>

\* The minute is over, or the clock was set back.
NewMinute == start = None \/ (start # None => now >= start + Minute \/ now < start)

\* Mutant: the counter starts again and the minute does not.
CountOnly ==
    LET before == IF NewMinute THEN 0 ELSE used
    IN  /\ before < Maximum
        /\ used' = before + 1
        /\ start' = IF start = None THEN now ELSE start

\* Mutant: one request more than the maximum.
AllowOneMore ==
    LET before == IF NewMinute THEN 0 ELSE used
    IN  /\ before <= Maximum
        /\ used' = before + 1
        /\ start' = IF NewMinute THEN now ELSE start

\* Allow, when it says yes.  A new minute always has room, so a refusal changes
\* nothing.
Allow ==
    LET before == IF NewMinute THEN 0 ELSE used
    IN  /\ before < Maximum
        /\ used' = before + 1
        /\ start' = IF NewMinute THEN now ELSE start

\* create: the request counts whether the payment server makes the invoice or
\* not; an invoice it makes that the client does not accept stays unpaid.
CreateInvoice(i) ==
    /\ invoice[i] = "none"
    /\ Allow
    /\ recent' = Append(recent, now)
    /\ invoice' = [invoice EXCEPT ![i] = "new"]
    /\ UNCHANGED now

CreateFails ==
    /\ Allow
    /\ recent' = Append(recent, now)
    /\ UNCHANGED <<now, invoice>>

RestartCheckout ==
    /\ start # None
    /\ start' = None /\ used' = 0 /\ recent' = <<>>
    /\ UNCHANGED <<now, invoice>>

\* BTCPay: an invoice is paid, expires, or is settled at another price.
Settle(i) ==
    /\ invoice[i] = "new"
    /\ \E s \in {"settled", "invalid", "other"} : invoice' = [invoice EXCEPT ![i] = s]
    /\ UNCHANGED <<now, start, used, recent>>

\* The counter bounds the invoices of every span shorter than a minute, wherever
\* it lies on the minutes the counter drew.  A minute starts with a request, so
\* two of them give one less than twice the maximum (minuteLimiter).
InvoicesBounded ==
    \A i, j \in DOMAIN recent :
        i <= j /\ recent[j] < recent[i] + Minute => j - i + 1 < 2 * Maximum
===============================================================================
