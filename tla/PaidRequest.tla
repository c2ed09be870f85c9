------------------------------ MODULE PaidRequest ------------------------------
(***************************************************************************)
(* One paid inference request, end to end: the bearer takes a token from   *)
(* its wallet and presents it (internal/bearer/bearer.go), the gateway     *)
(* reserves provider capacity, redeems the token, forwards the request and *)
(* tells the bearer what became of the token (internal/gateway/gateway.go).*)
(*                                                                         *)
(* The redemption store is the abstract one of Redemption, which           *)
(* SpentJournal implements; the budget is the set of requests it charges,  *)
(* see Budget for how it counts them.  A bearer request and its handler in *)
(* the gateway are two processes joined by a connection that may break.    *)
(***************************************************************************)
EXTENDS Naturals, FiniteSets

CONSTANTS
    Requests,   \* requests that pay from the wallet
    Copies,     \* requests that present a copy of a token: a restored wallet
    Tokens,     \* tokens the mint signed, in the wallet at first
    Capacity,   \* requests the budget admits
    MaxFaults,  \* bound: failures in a behaviour
    None

ASSUME RequestsAssumption == Requests \cap Copies = {}
ASSUME BoundsAssumption == Capacity \in Nat /\ MaxFaults \in Nat

VARIABLES
    wallet,      \* tokens on hand
    holder,      \* the redemption store: who redeemed each token
    charged,     \* requests that hold provider capacity
    dispatched,  \* requests that may have reached the provider
    token,       \* the token of each request
    bearer,      \* where each request is in the bearer
    gateway,     \* where each request is in the gateway
    outcome,     \* the token outcome the gateway answered with
    heard,       \* the outcome the bearer read in the answer's header
    presented,   \* requests whose token was written to the connection
    leaked,      \* history: requests whose capacity could not be released
    faults

vars == <<wallet, holder, charged, dispatched, token, bearer, gateway, outcome,
          heard, presented, leaked, faults>>

bearerVars  == <<wallet, token, bearer, heard, presented>>
gatewayVars == <<holder, charged, dispatched, gateway, outcome, leaked>>

All == Requests \cup Copies
Outcomes == {"spent", "invalid", "rejected", "refunded"}

ASSUME NoneAssumption == None \notin All \cup Tokens \cup Outcomes

Store == INSTANCE Redemption WITH Procs <- All, Keys <- {None}, KeyOf <- [t \in Tokens |-> None]

Init ==
    /\ wallet = Tokens
    /\ holder = [t \in Tokens |-> None]
    /\ charged = {} /\ dispatched = {} /\ presented = {} /\ leaked = {}
    /\ token = [r \in All |-> None]
    /\ bearer = [r \in All |-> "new"]
    /\ gateway = [r \in All |-> "idle"]
    /\ outcome = [r \in All |-> None]
    /\ heard = [r \in All |-> None]
    /\ faults = 0

Fault == faults < MaxFaults /\ faults' = faults + 1

BearerGoto(r, label)  == bearer' = [bearer EXCEPT ![r] = label]
GatewayGoto(r, label) == gateway' = [gateway EXCEPT ![r] = label]

-------------------------------------------------------------------------------
(* The bearer.                                                             *)

\* withToken: payment is taken before proxying.
Take(r) ==
    /\ r \in Requests /\ bearer[r] = "new"
    /\ \E t \in wallet :
          /\ wallet' = wallet \ {t}
          /\ token' = [token EXCEPT ![r] = t]
    /\ BearerGoto(r, "taken")
    /\ UNCHANGED <<gatewayVars, heard, presented, faults>>

\* Mutant: the handler answers 402 and does not return.
NoReturn(r) ==
    /\ r \in Requests /\ bearer[r] = "new" /\ wallet = {}
    /\ BearerGoto(r, "returned")
    /\ UNCHANGED <<wallet, token, heard, presented, gatewayVars, faults>>

\* No token on hand and none could be bought: 402, nothing is forwarded.
NoToken(r) ==
    /\ r \in Requests /\ bearer[r] = "new" /\ wallet = {}
    /\ BearerGoto(r, "done")
    /\ UNCHANGED <<wallet, token, heard, presented, gatewayVars, faults>>

\* The same token from another copy of the wallet.
TakeCopy(r) ==
    /\ r \in Copies /\ bearer[r] = "new"
    /\ \E t \in Tokens : token' = [token EXCEPT ![r] = t]
    /\ BearerGoto(r, "taken")
    /\ UNCHANGED <<wallet, heard, presented, gatewayVars, faults>>

\* WroteRequest fires; the request reaches the gateway, or is lost on the way.
Present(r) ==
    /\ bearer[r] = "taken"
    /\ presented' = presented \cup {r}
    /\ BearerGoto(r, "waiting")
    /\ \/ GatewayGoto(r, "arrived") /\ UNCHANGED faults
       \/ Fault /\ UNCHANGED gateway
    /\ UNCHANGED <<wallet, token, heard, holder, charged, dispatched, outcome, leaked>>

\* The tunnel could not be opened, or TLS failed: nothing was written.
TunnelFails(r) ==
    /\ Fault
    /\ bearer[r] = "taken"
    /\ BearerGoto(r, "returned")
    /\ UNCHANGED <<wallet, token, heard, presented, gatewayVars>>

\* modifyResponse: the outcome is read from the header of the answer.  The body
\* is then copied to the local tool; if that fails the reverse proxy panics with
\* ErrAbortHandler, and withToken does not go on.
Hear(r) ==
    /\ bearer[r] = "waiting" /\ outcome[r] # None
    /\ heard' = [heard EXCEPT ![r] = outcome[r]]
    /\ \/ BearerGoto(r, "returned") /\ UNCHANGED faults
       \/ BearerGoto(r, "aborted") /\ Fault
    /\ UNCHANGED <<wallet, token, presented, gatewayVars>>

\* The connection breaks, the tool goes away, or the answer is late.
GiveUp(r) ==
    /\ Fault
    /\ bearer[r] = "waiting"
    /\ BearerGoto(r, "returned")
    /\ UNCHANGED <<wallet, token, heard, presented, gatewayVars>>

\* Mutant: any refusal of the gateway gives the token back.
NotSpent(r) == r \notin presented \/ heard[r] \in {"refunded", "rejected", "invalid"}

\* The token never left, or the gateway said it may be used again.
Reusable(r) == r \notin presented \/ heard[r] \in {"refunded", "rejected"}

\* withToken, after the proxy returned.  A copy's token is not this wallet's.
Finish(r) ==
    /\ bearer[r] = "returned"
    /\ wallet' = IF r \in Requests /\ Reusable(r) THEN wallet \cup {token[r]} ELSE wallet
    /\ BearerGoto(r, "done")
    /\ UNCHANGED <<token, heard, presented, gatewayVars, faults>>

-------------------------------------------------------------------------------
(* The gateway.                                                            *)

Answer(r, o) ==
    /\ outcome' = [outcome EXCEPT ![r] = o]
    /\ GatewayGoto(r, "ended")

\* releaseBudget: a failure is logged, and the capacity stays charged.
ReleaseBudget(r) ==
    \/ charged' = charged \ {r} /\ UNCHANGED leaked
    \/ leaked' = leaked \cup {r} /\ UNCHANGED charged

\* n failures in this step, besides that of releaseBudget.
Failures(n) ==
    /\ faults' = faults + n + Cardinality(leaked' \ leaked)
    /\ faults' <= MaxFaults

\* The request is outside the policy, or cannot be priced.
Reject(r) ==
    /\ gateway[r] = "arrived"
    /\ Answer(r, "rejected")
    /\ UNCHANGED <<bearerVars, holder, charged, dispatched, leaked, faults>>

\* The token was signed by a key that has since been retired.
UnknownMint(r) ==
    /\ Fault
    /\ gateway[r] = "arrived"
    /\ Answer(r, "invalid")
    /\ UNCHANGED <<bearerVars, holder, charged, dispatched, leaked>>

\* Provider capacity is reserved before the token is redeemed.
Reserve(r) ==
    /\ gateway[r] = "arrived" /\ Cardinality(charged) < Capacity
    /\ charged' = charged \cup {r}
    /\ GatewayGoto(r, "reserved")
    /\ UNCHANGED <<bearerVars, holder, dispatched, outcome, leaked, faults>>

\* The budget is exhausted or fails.  It may fail with the request charged: at a
\* ceiling before the one that refused, which could not be released.
ReserveRefused(r) ==
    /\ gateway[r] = "arrived"
    /\ \/ Cardinality(charged) >= Capacity /\ UNCHANGED <<charged, leaked, faults>>
       \/ Fault /\ UNCHANGED <<charged, leaked>>
       \/ Fault /\ charged' = charged \cup {r} /\ leaked' = leaked \cup {r}
    /\ Answer(r, "rejected")
    /\ UNCHANGED <<bearerVars, holder, dispatched>>

\* Mutant: the token is redeemed whoever holds it.
SpendAgain(r) == holder' = [holder EXCEPT ![token[r]] = r]

\* Spent.Spend returns nil.
Spend(r) == Store!Accept(r, token[r])

Redeem(r) ==
    /\ gateway[r] = "reserved" /\ Spend(r)
    /\ GatewayGoto(r, "redeemed")
    /\ UNCHANGED <<bearerVars, charged, dispatched, outcome, leaked, faults>>

\* Mutant: the refusal of the store leaves the capacity charged.
KeepBudget(r) == UNCHANGED <<charged, leaked>>

\* What is given back when the store refuses the token.
UndoReserve(r) == ReleaseBudget(r)

\* ErrAlreadySpent: 409.
RedeemRefused(r) ==
    /\ gateway[r] = "reserved" /\ holder[token[r]] # None
    /\ UndoReserve(r) /\ Failures(0)
    /\ Answer(r, "invalid")
    /\ UNCHANGED <<bearerVars, holder, dispatched>>

\* Any other error of the store; the redemption may have been recorded.
RedeemFails(r) ==
    /\ gateway[r] = "reserved"
    /\ Spend(r) \/ UNCHANGED holder
    /\ UndoReserve(r) /\ Failures(1)
    /\ Answer(r, "invalid")
    /\ UNCHANGED <<bearerVars, dispatched>>

\* The transport has a connection and writes the request to it.
Dispatch(r) ==
    /\ gateway[r] = "redeemed"
    /\ dispatched' = dispatched \cup {r}
    /\ GatewayGoto(r, "sent")
    /\ UNCHANGED <<bearerVars, holder, charged, outcome, leaked, faults>>

\* The transport could not get a connection.
DialFails(r) ==
    /\ gateway[r] = "redeemed"
    /\ GatewayGoto(r, "failed")
    /\ UNCHANGED <<bearerVars, holder, charged, dispatched, outcome, leaked, faults>>

\* The client went away while the connection was being made: not a dial error.
Cancelled(r) ==
    /\ Fault
    /\ gateway[r] = "redeemed"
    /\ GatewayGoto(r, "broken")
    /\ UNCHANGED <<bearerVars, holder, charged, dispatched, outcome, leaked>>

\* The connection to the provider fails, or no answer comes in time.
ProviderFails(r) ==
    /\ gateway[r] = "sent"
    /\ GatewayGoto(r, "broken")
    /\ UNCHANGED <<bearerVars, holder, charged, dispatched, outcome, leaked, faults>>

\* modifyResponse: whatever the provider answered, the token is spent.
Respond(r) ==
    /\ gateway[r] = "sent"
    /\ Answer(r, "spent")
    /\ UNCHANGED <<bearerVars, holder, charged, dispatched, leaked, faults>>

\* Mutant: every transport error counts as never dispatched.
AnyError(r) == TRUE

\* Mutant: a dial error is not recognised.
NoError(r) == FALSE

\* The error proves that no part of the request reached the provider.
NeverDispatched(r) == gateway[r] = "failed"

\* handleError, first half: the capacity is released.
ReleaseUnused(r) ==
    /\ gateway[r] \in {"failed", "broken"} /\ NeverDispatched(r)
    /\ ReleaseBudget(r) /\ Failures(0)
    /\ GatewayGoto(r, "refunding")
    /\ UNCHANGED <<bearerVars, holder, dispatched, outcome>>

\* handleError, second half: the token is refunded.
Refund(r) ==
    /\ gateway[r] = "refunding"
    /\ Store!Release(token[r])
    /\ Answer(r, "refunded")
    /\ UNCHANGED <<bearerVars, charged, dispatched, leaked, faults>>

\* Mutant: the refund is announced whether it survived or not.
SayRefunded(r) == Answer(r, "refunded")

\* What the client is told when the refund failed.
SaySpent(r) == Answer(r, "spent")

\* The refund could not be recorded, or not durably.
RefundFails(r) ==
    /\ Fault
    /\ gateway[r] = "refunding"
    /\ Store!Release(token[r]) \/ UNCHANGED holder
    /\ SaySpent(r)
    /\ UNCHANGED <<bearerVars, charged, dispatched, leaked>>

\* handleError otherwise: the token remains spent.
KeepSpent(r) ==
    /\ gateway[r] \in {"failed", "broken"} /\ ~NeverDispatched(r)
    /\ Answer(r, "spent")
    /\ UNCHANGED <<bearerVars, holder, charged, dispatched, leaked, faults>>

\* The gateway dies: the store and the budget are durable, answers are not sent.
Crash ==
    /\ Fault
    /\ gateway' = [r \in All |-> IF gateway[r] \in {"idle", "ended"} THEN gateway[r] ELSE "dead"]
    /\ UNCHANGED <<bearerVars, holder, charged, dispatched, outcome, leaked>>

-------------------------------------------------------------------------------
Bearer(r) ==
    \/ Take(r) \/ NoToken(r) \/ TakeCopy(r) \/ Present(r) \/ TunnelFails(r)
    \/ Hear(r) \/ GiveUp(r) \/ Finish(r)

Gateway(r) ==
    \/ Reject(r) \/ UnknownMint(r) \/ Reserve(r) \/ ReserveRefused(r)
    \/ Redeem(r) \/ RedeemRefused(r) \/ RedeemFails(r)
    \/ Dispatch(r) \/ DialFails(r) \/ Cancelled(r) \/ ProviderFails(r) \/ Respond(r)
    \/ ReleaseUnused(r) \/ Refund(r) \/ RefundFails(r) \/ KeepSpent(r)

Next == (\E r \in All : Bearer(r) \/ Gateway(r)) \/ Crash

Spec == Init /\ [][Next]_vars

-------------------------------------------------------------------------------
(* Properties.                                                             *)

TypeOK ==
    /\ wallet \subseteq Tokens
    /\ holder \in [Tokens -> All \cup {None}]
    /\ charged \subseteq All /\ dispatched \subseteq All
    /\ presented \subseteq All /\ leaked \subseteq All
    /\ token \in [All -> Tokens \cup {None}]
    /\ bearer \in [All -> {"new", "taken", "waiting", "returned", "aborted", "done"}]
    /\ gateway \in [All -> {"idle", "arrived", "reserved", "redeemed", "failed", "sent",
                            "broken", "refunding", "ended", "dead"}]
    /\ outcome \in [All -> Outcomes \cup {None}]
    /\ heard \in [All -> Outcomes \cup {None}]
    /\ faults \in 0..MaxFaults

\* "Spend before forwarding, never after": however many copies of a token are
\* presented at once, and whatever is refunded, retried or lost in a crash, the
\* token buys at most one request that may have reached the provider.
OneDispatch ==
    \A r, q \in dispatched : token[r] = token[q] => r = q

\* "Once dispatch may have happened, the reservation remains charged even if
\* the provider fails": no path of the handler gives that capacity back.
DispatchedIsCharged == dispatched \subseteq charged

\* A request the gateway answered without using the provider holds no capacity,
\* unless the answer is that the token is spent or the release itself failed.
NoCapacityLeak ==
    \A r \in charged : outcome[r] \in {"invalid", "rejected", "refunded"} => r \in leaked

\* The bearer puts a token back on the word of the gateway: when it says
\* rejected or refunded, that request neither holds the token nor ever reached
\* the provider, then and afterwards.
OutcomeIsTrue ==
    \A r \in All : outcome[r] \in {"rejected", "refunded"} =>
        r \notin dispatched /\ holder[token[r]] # r

\* A token in the wallet, of which no copy was presented, can still buy a
\* request: it is not redeemed, and no handler still at work will redeem it.
WalletIsUnspent ==
    \A t \in wallet : (\A c \in Copies : token[c] # t) =>
        /\ holder[t] = None
        /\ \A r \in Requests : token[r] = t => gateway[r] \in {"idle", "ended", "dead"}

\* "a request that failed before the token was spent does not throw away
\* something already paid for": once the bearer is done with a request whose
\* token the gateway gave back, the token is in the wallet or paid for another
\* request since.
GivenBackIsKept ==
    \A r \in Requests :
        bearer[r] \in {"done", "aborted"} /\ heard[r] \in {"rejected", "refunded"} =>
            token[r] \in wallet \/ \E q \in Requests \ {r} : token[q] = token[r]
===============================================================================
