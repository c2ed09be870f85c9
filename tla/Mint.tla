--------------------------------- MODULE Mint ---------------------------------
(***************************************************************************)
(* The mint (internal/mint server.go, mint.go, receipts.go, invites.go and *)
(* btcpay.go): POST /issue checks that a receipt entitles its bearer to a  *)
(* token, claims it durably and signs one blinded message.  The deployment *)
(* has one rail: invite vouchers, or invoices settled at BTCPay.           *)
(*                                                                         *)
(* A call is one HTTP request.  The mint goes on with a call its client no *)
(* longer waits for.  Blind signatures are opaque: a signature is good if  *)
(* it was made with the key the client pinned.                             *)
(***************************************************************************)
EXTENDS Invites, Checkout

CONSTANTS
    Callers,    \* clients of the mint, one call each at a time
    Program,    \* the invite program of the mint
    MaxFaults   \* bound: failures in a behaviour

ASSUME MintAssumption == MaxFaults \in Nat
ASSUME ProgramAssumption ==
    Program \in [seats : Nat, perInvite : Nat, perEpoch : Nat, epochLength : Nat,
                 from : Nat, until : Nat]

VARIABLES
    rail,        \* "invite" or "btcpay"
    mintUp,
    mintKey,     \* "pinned": the key clients expect; "other": the mint rotated
    claimed,     \* the receipt store: receipts consumed
    signatures,  \* history: blind signatures made against each receipt
    call,        \* the call of each caller
    faults

mintVars == <<rail, mintUp, mintKey, claimed, signatures, call>>

Vouchers == (1..Program.seats) \X Slots(Program)
Ents == Vouchers \cup Invoices

Contract == INSTANCE Entitlement

Calls == [ent : Ents, step : {"checked", "claimed", "signed", "refused"}]

ASSUME NoneAssumption == None \notin Calls \cup Ents

MintTypeOK ==
    /\ rail \in {"invite", "btcpay"} /\ mintUp \in BOOLEAN
    /\ mintKey \in {"pinned", "other"} /\ claimed \subseteq Ents
    /\ signatures \in [Ents -> 0..2]
    /\ call \in [Callers -> Calls \cup {None}]
    /\ faults \in 0..MaxFaults

MintInit ==
    /\ rail \in {"invite", "btcpay"}
    /\ mintUp = TRUE /\ mintKey = "pinned" /\ claimed = {}
    /\ signatures = [e \in Ents |-> 0]
    /\ call = [p \in Callers |-> None]
    /\ faults = 0

Fault == faults < MaxFaults /\ faults' = faults + 1

At(p, step) == call[p] # None /\ (call[p] # None => call[p].step = step)

Advance(p, step) == call' = [call EXCEPT ![p].step = step]

\* The first half of the two Authorize functions, which changes nothing.
Entitled(e) == IF rail = "invite" THEN Accepts(Program, e, now)
                                  ELSE e \in Invoices /\ (e \in Invoices => invoice[e] = "settled")

\* handleIssue, up to the claim: a call arrives with a receipt and a blinded
\* message.  A message blinded for another key may be out of range of this one.
Arrive(p, e) ==
    /\ mintUp /\ call[p] = None
    /\ \E step \in IF ~Entitled(e) THEN {"refused"}
                   ELSE IF mintKey = "other" THEN {"checked", "refused"} ELSE {"checked"} :
        call' = [call EXCEPT ![p] = [ent |-> e, step |-> step]]

\* GetInvoice fails: BTCPay is away, slow, or answers about another invoice.
LookupFails(p, e) ==
    /\ mintUp /\ call[p] = None /\ rail = "btcpay"
    /\ Fault
    /\ call' = [call EXCEPT ![p] = [ent |-> e, step |-> "refused"]]

\* Mutant: the receipt is recorded and its earlier use is not looked for.
ClaimAnyway(p) ==
    /\ mintUp /\ At(p, "checked")
    /\ claimed' = claimed \cup {call[p].ent}
    /\ Advance(p, "claimed")
    /\ UNCHANGED <<rail, mintUp, mintKey, signatures, faults>>

\* Claim of the receipt store, one transaction.
Claim(p) ==
    /\ mintUp /\ At(p, "checked")
    /\ claimed' = claimed \cup {call[p].ent}
    /\ Advance(p, IF call[p].ent \in claimed THEN "refused" ELSE "claimed")
    /\ UNCHANGED <<rail, mintUp, mintKey, signatures, faults>>

\* The transaction fails; it may be durable all the same.
ClaimFails(p) ==
    /\ mintUp /\ At(p, "checked")
    /\ Fault
    /\ claimed' \in {claimed, claimed \cup {call[p].ent}}
    /\ Advance(p, "refused")
    /\ UNCHANGED <<rail, mintUp, mintKey, signatures>>

\* signValidatedBlinded, and the answer written to the connection.
Sign(p) ==
    /\ mintUp /\ At(p, "claimed")
    /\ Advance(p, "signed")
    /\ signatures' = [signatures EXCEPT ![call[p].ent] = @ + 1]
    /\ UNCHANGED <<rail, mintUp, mintKey, claimed, faults>>

StopMint ==
    /\ mintUp /\ Fault
    /\ mintUp' = FALSE
    /\ call' = [p \in Callers |-> None]
    /\ UNCHANGED <<rail, mintKey, claimed, signatures>>

\* A restart opens the receipt store and reads the manifest again.  A manifest
\* names one key, so an invite mint starts with no other.
StartMint(key) ==
    /\ ~mintUp
    /\ rail = "invite" => key = "pinned" /\ ValidProgram(Program) /\ ValidManifest(Program)
    /\ mintUp' = TRUE /\ mintKey' = key
    /\ UNCHANGED <<rail, claimed, signatures, call, faults>>

MintStep ==
    \/ \E p \in Callers : Claim(p) \/ ClaimFails(p) \/ Sign(p)
    \/ StopMint
    \/ \E key \in {"pinned", "other"} : StartMint(key)
===============================================================================
