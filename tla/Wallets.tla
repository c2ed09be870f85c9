-------------------------------- MODULE Wallets --------------------------------
(***************************************************************************)
(* The two wallets of the local client and the mint they buy from          *)
(* (internal/mint/invite_wallet.go and client.go).  The invite wallet is a *)
(* database that survives the client; the one of the BTCPay rail is memory *)
(* and holds one receipt.  Their buying, filling and taking are the same   *)
(* code twice and are modelled once, with the rail where they differ.      *)
(*                                                                         *)
(* A token is named by the receipt that bought it.  A request takes one    *)
(* token and uses it or puts it back (see PaidRequest for which); the      *)
(* process "refill" is the goroutine of Run.                               *)
(***************************************************************************)
EXTENDS Mint

CONSTANTS
    Requests,  \* requests, one token each
    Refill,    \* the refill loop
    Copy,      \* another holder of the same book or receipt
    Books,     \* invitation files the user may import
    Receipt,   \* the invoice the client was started with
    Batch,     \* tokens the loop stocks
    Ahead      \* bound: the wallet's clock is at most so far ahead of the mint's

Buyers == Requests \cup {Refill}

ASSUME WalletAssumption ==
    /\ Refill \notin Requests /\ Copy \notin Buyers /\ Callers = Buyers \cup {Copy}
    /\ Batch \in Nat \ {0} /\ Ahead \in Nat
    /\ Receipt \in Invoices
\* The files are books of the program's seats, generated or made by hand.
ASSUME BooksAssumption ==
    /\ \A b \in Books : \E seat \in 1..Program.seats :
            b \in {GeneratedBook(Program, seat), HandmadeBook(Program, seat)}
    /\ None \notin Books

LowWater == Batch \div 2

VARIABLES
    book,      \* the activated book
    reserved,  \* receipts presented or about to be: slots, or the invoice
    stock,     \* tokens on hand
    spent,     \* the counter the status page shows
    pinned,    \* the verified key is cached
    pending,   \* the refill channel, of capacity one
    gaveUp,    \* history: the last fill could not buy or stock, or a token is gone since
               \* in a failed transaction of Take, which asks for no refill
    pc,        \* where each buyer is
    token,     \* the receipt or token each buyer works with
    skew,      \* how far the wallet's clock is ahead
    shown,     \* history: receipts sent to the mint
    out,       \* history: tokens taken from the wallet that did not come back
    hit,       \* history: receipts whose purchase was refused or cut short
    refusedBook  \* history: the import of a generated book was refused

walletVars == <<book, reserved, stock, spent, pinned, pending, gaveUp, pc, token,
                skew, shown, out, hit, refusedBook>>

Steps == {"idle", "buy", "send", "wait", "bought", "low", "trigger",
          "hold", "done", "failed", "fill", "select"}

WalletTypeOK ==
    /\ book \in Books \cup {None} /\ reserved \subseteq Ents /\ stock \subseteq Ents
    /\ spent \in 0..Cardinality(Ents) /\ pinned \in BOOLEAN /\ pending \in BOOLEAN
    /\ gaveUp \in BOOLEAN /\ pc \in [Buyers -> Steps]
    /\ token \in [Buyers -> Ents \cup {None}] /\ skew \in 0..Ahead
    /\ shown \subseteq Ents /\ out \subseteq Ents /\ hit \subseteq Ents
    /\ refusedBook \in BOOLEAN

WalletInit ==
    /\ book = None /\ reserved = {} /\ stock = {} /\ spent = 0
    /\ pinned = FALSE /\ pending = FALSE /\ gaveUp = FALSE
    /\ pc = [b \in Buyers |-> IF b = Refill THEN "fill" ELSE "idle"]
    /\ token = [b \in Buyers |-> None]
    /\ skew \in 0..Ahead
    /\ shown = {} /\ out = {} /\ hit = {} /\ refusedBook = FALSE

To(b, step) == pc' = [pc EXCEPT ![b] = step]

\* A wallet of the invite rail answers nothing before a book is activated.
Usable == rail = "invite" => book # None

\* A purchase that ends without a token: Take returns the error to its request,
\* the loop waits for the next trigger.
Fail(b) ==
    /\ To(b, IF b = Refill THEN "select" ELSE "failed")
    /\ gaveUp' = (gaveUp \/ b = Refill)

Spoil(b) == hit' = hit \cup {token[b]} /\ token' = [token EXCEPT ![b] = None] /\ Fail(b)

mintSide == <<mintVars, checkoutVars, now, faults>>

\* A transaction of the database that fails may have been committed all the same.
TransactionFails == rail = "invite" /\ Fault
--------------------------------------------------------------------------------
(* Activation *)

\* ActivateInviteBook: a book that does not parse or is not the activated one is
\* refused, the activated one is accepted again; success wakes the loop.
Activate(b) ==
    /\ rail = "invite"
    /\ IF ParsesBook(b) /\ book \in {None, b}
       THEN book' = b /\ pending' = TRUE /\ UNCHANGED refusedBook
       ELSE refusedBook' = (refusedBook \/ book = None) /\ UNCHANGED <<book, pending>>
    /\ UNCHANGED <<reserved, stock, spent, pinned, gaveUp, pc, token, skew, shown, out, hit, mintSide>>

\* Its transaction fails, and the loop is not woken.
ActivateFails(b) ==
    /\ ParsesBook(b) /\ book \in {None, b} /\ TransactionFails
    /\ book' \in {book, b}
    /\ UNCHANGED <<reserved, stock, spent, pinned, pending, gaveUp, pc, token, skew, shown, out,
                   hit, refusedBook, mintVars, checkoutVars, now>>
--------------------------------------------------------------------------------
(* Take and Put *)

\* A token is taken off the stock and counted.
Remove(t) == stock' = stock \ {t} /\ spent' = spent + 1 /\ out' = out \cup {t}

\* takeStocked: removing a token and counting it are one transaction.  The
\* memory wallet looks at what is left under the same lock.
TakeStocked(b) ==
    /\ b \in Requests /\ pc[b] = "idle" /\ Usable
    /\ \E t \in stock :
        /\ Remove(t)
        /\ token' = [token EXCEPT ![b] = t]
        /\ To(b, IF rail = "invite" THEN "low"
                 ELSE IF Cardinality(stock') <= LowWater THEN "trigger" ELSE "hold")
    /\ UNCHANGED <<book, reserved, pinned, pending, gaveUp, skew, shown, hit, refusedBook, mintSide>>

\* Mutant: the loop is woken only when less than the low-water mark is left.
BelowLow(b) ==
    /\ pc[b] = "low"
    /\ To(b, IF Cardinality(stock) < LowWater THEN "trigger" ELSE "hold")
    /\ UNCHANGED <<book, reserved, stock, spent, pinned, pending, gaveUp, token, skew,
                   shown, out, hit, refusedBook, mintSide>>

\* Take of the invite wallet reads the stock again after the transaction.
CheckLow(b) ==
    /\ pc[b] = "low"
    /\ To(b, IF Cardinality(stock) <= LowWater THEN "trigger" ELSE "hold")
    /\ UNCHANGED <<book, reserved, stock, spent, pinned, pending, gaveUp, token, skew,
                   shown, out, hit, refusedBook, mintSide>>

Trigger(b) ==
    /\ pc[b] = "trigger"
    /\ pending' = TRUE /\ To(b, "hold")
    /\ UNCHANGED <<book, reserved, stock, spent, pinned, gaveUp, token, skew, shown,
                   out, hit, refusedBook, mintSide>>

TakeEmpty(b) ==
    /\ b \in Requests /\ pc[b] = "idle" /\ Usable /\ stock = {}
    /\ To(b, "buy")
    /\ UNCHANGED <<book, reserved, stock, spent, pinned, pending, gaveUp, token, skew,
                   shown, out, hit, refusedBook, mintSide>>

\* No book, or the transaction fails: the request gets nothing, and a token may be
\* gone from the stock.
TakeFails(b) ==
    /\ b \in Requests /\ pc[b] = "idle"
    /\ IF book = None
       THEN rail = "invite" /\ UNCHANGED <<stock, spent, out, gaveUp, faults>>
       ELSE /\ TransactionFails
            /\ \/ UNCHANGED <<stock, spent, out, gaveUp>>
               \/ gaveUp' = TRUE /\ \E t \in stock : Remove(t)
    /\ To(b, "failed")
    /\ UNCHANGED <<book, reserved, pinned, pending, token, skew, shown, hit,
                   refusedBook, mintVars, checkoutVars, now>>

\* A token bought for a request is counted.
Count(b) == spent' = spent + 1 /\ out' = out \cup {token[b]}

\* The request has it, and the loop is woken.
Bought(b) ==
    /\ b \in Requests /\ pc[b] = "bought"
    /\ Count(b)
    /\ To(b, "trigger")
    /\ UNCHANGED <<book, reserved, stock, pinned, pending, gaveUp, token, skew, shown,
                   hit, refusedBook, mintSide>>

\* incrementSpent fails: Take returns the error and drops the token, counted or
\* not.
CountFails(b) ==
    /\ b \in Requests /\ pc[b] = "bought"
    /\ TransactionFails /\ Spoil(b)
    /\ UNCHANGED <<spent, out>> \/ Count(b)
    /\ UNCHANGED <<book, reserved, stock, pinned, pending, skew, shown,
                   refusedBook, mintVars, checkoutVars, now>>

Use(b) ==
    /\ pc[b] = "hold"
    /\ token' = [token EXCEPT ![b] = None]
    /\ To(b, "done")
    /\ UNCHANGED <<book, reserved, stock, spent, pinned, pending, gaveUp, skew, shown,
                   out, hit, refusedBook, mintSide>>

\* Put of both wallets.
Put(b) ==
    /\ pc[b] = "hold"
    /\ stock' = stock \cup {token[b]}
    /\ spent' = IF spent > 0 THEN spent - 1 ELSE 0
    /\ out' = out \ {token[b]}
    /\ token' = [token EXCEPT ![b] = None]
    /\ To(b, "done")
    /\ UNCHANGED <<book, reserved, pinned, pending, gaveUp, skew, shown, hit, refusedBook, mintSide>>

\* The transaction of Put fails and nobody is told: the token is gone, and stays
\* counted.  One that was committed all the same is a Put.
PutFails(b) ==
    /\ pc[b] = "hold" /\ TransactionFails
    /\ token' = [token EXCEPT ![b] = None]
    /\ To(b, "done")
    /\ UNCHANGED <<book, reserved, stock, spent, pinned, pending, gaveUp, skew, shown, out,
                   hit, refusedBook, mintVars, checkoutVars, now>>
--------------------------------------------------------------------------------
(* Buying *)

\* Key: fetched once from a mint that has the pinned key, then cached.
GetKey(b) ==
    /\ pc[b] = "buy" /\ ~pinned
    /\ mintUp /\ mintKey = "pinned"
    /\ pinned' = TRUE
    /\ UNCHANGED <<book, reserved, stock, spent, pending, gaveUp, pc, token, skew, shown,
                   out, hit, refusedBook, mintSide>>

\* reserveVoucher: the first slot of the current epoch that is not reserved.
OpenSlots == {s \in CurrentSlots(book, now + skew) : <<book.seat, s>> \notin reserved}

FirstSlot == CHOOSE s \in OpenSlots : \A t \in OpenSlots : s <= t

\* Mutant: the voucher is reserved before the key is asked for.
KeyFailsLate(b) ==
    /\ pc[b] = "buy" /\ ~pinned
    /\ IF mintUp /\ mintKey = "pinned" THEN Fault ELSE UNCHANGED faults
    /\ reserved' = IF rail = "btcpay" THEN {Receipt}
                   ELSE IF book = None THEN reserved
                   ELSE reserved \cup {<<book.seat, s>> : s \in {t \in OpenSlots : t = FirstSlot}}
    /\ Fail(b)
    /\ UNCHANGED <<book, stock, spent, pinned, pending, token, skew, shown,
                   out, hit, refusedBook, mintVars, checkoutVars, now>>

\* The mint is away, answers with another key, or the answer is lost.  A failure
\* is not cached and nothing is reserved.
KeyFails(b) ==
    /\ pc[b] = "buy" /\ ~pinned
    /\ IF mintUp /\ mintKey = "pinned" THEN Fault ELSE UNCHANGED faults
    /\ Fail(b)
    /\ UNCHANGED <<book, reserved, stock, spent, pinned, pending, token, skew, shown,
                   out, hit, refusedBook, mintVars, checkoutVars, now>>

\* Mutant: the reservation is not written.
ReserveNothing(b) ==
    /\ pc[b] = "buy" /\ pinned /\ rail = "invite" /\ book # None
    /\ book # None => OpenSlots # {}
    /\ token' = [token EXCEPT ![b] = <<book.seat, FirstSlot>>]
    /\ To(b, "send")
    /\ UNCHANGED <<book, reserved, stock, spent, pinned, pending, gaveUp, skew, shown,
                   out, hit, refusedBook, mintSide>>

ReserveVoucher(b) ==
    /\ pc[b] = "buy" /\ pinned /\ rail = "invite" /\ book # None
    /\ book # None => OpenSlots # {}
    /\ LET e == <<book.seat, FirstSlot>> IN
        /\ token' = [token EXCEPT ![b] = e]
        /\ reserved' = reserved \cup {e}
    /\ To(b, "send")
    /\ UNCHANGED <<book, stock, spent, pinned, pending, gaveUp, skew, shown, out, hit,
                   refusedBook, mintSide>>

\* buy of the memory wallet: the receipt is marked before it is sent.
ReserveReceipt(b) ==
    /\ pc[b] = "buy" /\ pinned /\ rail = "btcpay" /\ Receipt \notin reserved
    /\ token' = [token EXCEPT ![b] = Receipt]
    /\ reserved' = reserved \cup {Receipt}
    /\ To(b, "send")
    /\ UNCHANGED <<book, stock, spent, pinned, pending, gaveUp, skew, shown, out, hit,
                   refusedBook, mintSide>>

\* No book, no window open, the epoch used up, or the receipt presented already.
NothingToReserve(b) ==
    /\ pc[b] = "buy" /\ pinned
    /\ IF rail = "btcpay" THEN Receipt \in reserved
                          ELSE book = None \/ (book # None => OpenSlots = {})
    /\ Fail(b)
    /\ UNCHANGED <<book, reserved, stock, spent, pinned, pending, token, skew, shown,
                   out, hit, refusedBook, mintSide>>

\* The transaction fails: a voucher may be spoiled without having been presented.
ReserveFails(b) ==
    /\ pc[b] = "buy" /\ pinned /\ book # None
    /\ book # None => OpenSlots # {}
    /\ TransactionFails
    /\ LET e == <<book.seat, FirstSlot>> IN
        \/ UNCHANGED <<reserved, hit>>
        \/ reserved' = reserved \cup {e} /\ hit' = hit \cup {e}
    /\ Fail(b)
    /\ UNCHANGED <<book, stock, spent, pinned, pending, token, skew, shown,
                   out, refusedBook, mintVars, checkoutVars, now>>

\* Token: the request reaches the mint.
Send(b) ==
    /\ pc[b] = "send"
    /\ (Arrive(b, token[b]) /\ UNCHANGED faults) \/ LookupFails(b, token[b])
    /\ shown' = shown \cup {token[b]}
    /\ To(b, "wait")
    /\ UNCHANGED <<book, reserved, stock, spent, pinned, pending, gaveUp, token, skew,
                   out, hit, refusedBook, rail, mintUp, mintKey, claimed, signatures,
                   checkoutVars, now>>

\* The signature comes back and unblinds under the pinned key.
Receive(b) ==
    /\ pc[b] = "wait" /\ At(b, "signed") /\ mintKey = "pinned"
    /\ call' = [call EXCEPT ![b] = None]
    /\ To(b, "bought")
    /\ UNCHANGED <<book, reserved, stock, spent, pinned, pending, gaveUp, token, skew,
                   shown, out, hit, refusedBook, rail, mintUp, mintKey, claimed, signatures,
                   checkoutVars, now, faults>>

\* Refused, signed with a key that is not the pinned one, or never reached.
Denied(b) ==
    /\ \/ pc[b] = "wait" /\ (At(b, "refused") \/ (At(b, "signed") /\ mintKey = "other"))
       \/ pc[b] = "wait" /\ call[b] = None
       \/ pc[b] = "send" /\ ~mintUp
    /\ call' = [call EXCEPT ![b] = None]
    /\ Spoil(b)
    /\ UNCHANGED <<book, reserved, stock, spent, pinned, pending, skew, shown, out,
                   refusedBook, rail, mintUp, mintKey, claimed, signatures, checkoutVars, now, faults>>

\* The request or the answer is lost; what arrived at the mint is served to its
\* end.
Lose(b) ==
    /\ pc[b] = "send" \/ (pc[b] = "wait" /\ call[b] # None)
    /\ Fault
    /\ Spoil(b)
    /\ UNCHANGED <<book, reserved, stock, spent, pinned, pending, skew, shown, out,
                   refusedBook, mintVars, checkoutVars, now>>
--------------------------------------------------------------------------------
(* The refill loop *)

Fill ==
    /\ pc[Refill] = "fill"
    /\ IF Cardinality(stock) < Batch
       THEN To(Refill, "buy") /\ UNCHANGED gaveUp
       ELSE To(Refill, "select") /\ gaveUp' = FALSE
    /\ UNCHANGED <<book, reserved, stock, spent, pinned, pending, token, skew, shown, out,
                   hit, refusedBook, mintSide>>

\* Mutant: the loop stocks with Put, which takes back a spend.
StockWithPut ==
    /\ pc[Refill] = "bought"
    /\ stock' = stock \cup {token[Refill]}
    /\ spent' = IF spent > 0 THEN spent - 1 ELSE 0
    /\ token' = [token EXCEPT ![Refill] = None]
    /\ To(Refill, "fill")
    /\ UNCHANGED <<book, reserved, pinned, pending, gaveUp, skew, shown, out, hit,
                   refusedBook, mintSide>>

\* stock and add: a token never handed out is not counted.
Stock ==
    /\ pc[Refill] = "bought"
    /\ stock' = stock \cup {token[Refill]}
    /\ token' = [token EXCEPT ![Refill] = None]
    /\ To(Refill, "fill")
    /\ UNCHANGED <<book, reserved, spent, pinned, pending, gaveUp, skew, shown, out, hit,
                   refusedBook, mintSide>>

\* Its transaction fails: the loop stops and the token is lost, or stocked.
StockFails ==
    /\ pc[Refill] = "bought"
    /\ TransactionFails /\ Spoil(Refill)
    /\ stock' \in {stock, stock \cup {token[Refill]}}
    /\ UNCHANGED <<book, reserved, spent, pinned, pending, skew, shown, out,
                   refusedBook, mintVars, checkoutVars, now>>

Wake ==
    /\ pc[Refill] = "select" /\ pending
    /\ pending' = FALSE /\ To(Refill, "fill")
    /\ UNCHANGED <<book, reserved, stock, spent, pinned, gaveUp, token, skew, shown, out,
                   hit, refusedBook, mintSide>>
--------------------------------------------------------------------------------
(* The client's process *)

Midway == {b \in Buyers : pc[b] \in {"send", "wait", "bought"}}

\* The client is killed and started again.  The database keeps its record; the
\* memory wallet starts empty, with a receipt not presented yet.
Restart ==
    /\ Fault
    /\ hit' = hit \cup {token[b] : b \in Midway}
    /\ pc' = [b \in Buyers |-> IF b = Refill THEN "fill"
                               ELSE IF pc[b] \in {"idle", "done"} THEN pc[b] ELSE "failed"]
    /\ token' = [b \in Buyers |-> None]
    /\ pinned' = FALSE /\ pending' = FALSE /\ gaveUp' = FALSE
    /\ IF rail = "invite" THEN UNCHANGED <<reserved, stock, spent, out, shown>>
       ELSE reserved' = {} /\ stock' = {} /\ spent' = 0 /\ out' = {} /\ shown' = {}
    /\ UNCHANGED <<book, skew, refusedBook, mintVars, checkoutVars, now>>

WalletStep ==
    \/ \E b \in Books : Activate(b) \/ ActivateFails(b)
    \/ \E b \in Buyers :
        \/ TakeStocked(b) \/ CheckLow(b) \/ Trigger(b) \/ TakeEmpty(b) \/ TakeFails(b)
        \/ Bought(b) \/ CountFails(b) \/ Use(b) \/ Put(b) \/ PutFails(b)
        \/ GetKey(b) \/ KeyFails(b) \/ ReserveVoucher(b) \/ ReserveReceipt(b)
        \/ NothingToReserve(b) \/ ReserveFails(b)
        \/ Send(b) \/ Receive(b) \/ Denied(b) \/ Lose(b)
    \/ Fill \/ Stock \/ StockFails \/ Wake \/ Restart
===============================================================================
