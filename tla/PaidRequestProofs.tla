--------------------------- MODULE PaidRequestProofs ---------------------------
(***************************************************************************)
(* Proofs about PaidRequest, for any number of requests, copies, tokens    *)
(* and failures, and any capacity of the budget.                           *)
(***************************************************************************)
EXTENDS PaidRequest, FiniteSetTheorems, TLAPS

\* What the bearer and the connection have done so far.  A request the gateway
\* knows was presented; what the bearer heard is what the gateway said.
Connected ==
    \A r \in All :
        /\ bearer[r] = "new" => token[r] = None
        /\ bearer[r] \in {"taken", "waiting", "returned"} => token[r] \in Tokens
        /\ bearer[r] \in {"new", "taken"} => r \notin presented
        /\ gateway[r] # "idle" => r \in presented /\ token[r] \in Tokens
        /\ outcome[r] # None <=> gateway[r] = "ended"
        /\ heard[r] # None => heard[r] = outcome[r]

\* Which requests hold capacity, by where the handler is.
Charging ==
    \A r \in All :
        /\ gateway[r] \in {"reserved", "redeemed", "failed", "sent", "broken"} => r \in charged
        /\ r \in charged => gateway[r] \notin {"idle", "arrived"}
        /\ r \in charged /\ gateway[r] = "refunding" => r \in leaked
        /\ r \in dispatched => r \in charged

\* Who holds the tokens: a handler that redeemed one, or ended without giving it
\* back, and nobody takes it from a handler that may still use it.
Holding ==
    /\ \A r \in All :
        /\ gateway[r] \in {"redeemed", "failed", "sent", "broken", "refunding"} \/ r \in dispatched
            => holder[token[r]] = r
        /\ r \in dispatched => /\ gateway[r] \in {"sent", "broken", "ended", "dead"}
                               /\ gateway[r] = "ended" => outcome[r] = "spent"
    /\ \A t \in Tokens : holder[t] # None =>
        LET r == holder[t] IN
        /\ token[r] = t
        /\ gateway[r] \notin {"idle", "arrived", "reserved"}
        /\ gateway[r] = "ended" => outcome[r] \in {"spent", "invalid"}

\* The request is over and its token went back to the wallet.
Gone(r) == bearer[r] = "done" /\ token[r] # None /\ Reusable(r)

\* A token of the wallet belongs to one request until it is given back.
Owning ==
    /\ \A r \in Requests : token[r] \in wallet => Gone(r)
    /\ \A r, q \in Requests : r # q /\ token[r] = token[q] /\ token[r] # None => Gone(r) \/ Gone(q)

IInv == TypeOK /\ Connected /\ Charging /\ Holding /\ Owning /\ NoCapacityLeak

-------------------------------------------------------------------------------
\* The name for nobody is not a request, a token or an outcome.
LEMMA Names == /\ \A r \in All : r # None
               /\ \A t \in Tokens : t # None
               /\ \A o \in Outcomes : o # None
               /\ Requests \subseteq All /\ Copies \subseteq All
BY NoneAssumption DEF All

\* A step counts its failures, that of the release of the budget included.
LEMMA LeakCount ==
    ASSUME NEW n \in Nat, NEW r, TypeOK, Failures(n), ReleaseBudget(r)
    PROVE  faults' \in 0..MaxFaults
<1>1. leaked' \ leaked = {} \/ leaked' \ leaked = {r}
  BY DEF ReleaseBudget
<1>2. Cardinality({}) = 0 /\ Cardinality({r}) = 1
  BY FS_EmptySet, FS_Singleton
<1>3. Cardinality(leaked' \ leaked) \in {0, 1}
  BY <1>1, <1>2
<1> QED BY <1>3, BoundsAssumption DEF Failures, TypeOK

\* The steps of a request keep the types.
LEMMA TypedStep ==
    ASSUME TypeOK, Connected, NEW r \in All, Bearer(r) \/ Gateway(r)
    PROVE  TypeOK'
<1> USE Names, BoundsAssumption DEF TypeOK, Connected, Outcomes, BearerGoto,
     GatewayGoto, Answer, Fault, bearerVars, gatewayVars
<1>1. CASE Take(r)
  BY <1>1 DEF Take
<1>2. CASE NoToken(r)
  BY <1>2 DEF NoToken
<1>3. CASE TakeCopy(r)
  BY <1>3 DEF TakeCopy
<1>4. CASE Present(r)
  BY <1>4 DEF Present
<1>5. CASE TunnelFails(r) \/ Hear(r) \/ GiveUp(r) \/ Finish(r)
  BY <1>5 DEF TunnelFails, Hear, GiveUp, Finish, Reusable
<1>6. CASE Reject(r)
  BY <1>6 DEF Reject
<1>7. CASE UnknownMint(r)
  BY <1>7 DEF UnknownMint
<1>8. CASE Reserve(r)
  BY <1>8 DEF Reserve
<1>9. CASE ReserveRefused(r)
  BY <1>9 DEF ReserveRefused
<1>10. CASE Redeem(r)
  BY <1>10 DEF Redeem, Spend, Store!Accept
<1>11. CASE RedeemRefused(r)
  <2>1. faults' \in 0..MaxFaults
    BY <1>11, LeakCount DEF RedeemRefused, UndoReserve
  <2> QED BY <1>11, <2>1 DEF RedeemRefused, UndoReserve, ReleaseBudget
<1>12. CASE RedeemFails(r)
  <2>1. faults' \in 0..MaxFaults
    BY <1>12, LeakCount DEF RedeemFails, UndoReserve
  <2> QED BY <1>12, <2>1 DEF RedeemFails, UndoReserve, ReleaseBudget, Spend, Store!Accept
<1>13. CASE Dispatch(r)
  BY <1>13 DEF Dispatch
<1>14. CASE DialFails(r)
  BY <1>14 DEF DialFails
<1>15. CASE Cancelled(r)
  BY <1>15 DEF Cancelled
<1>16. CASE ProviderFails(r)
  BY <1>16 DEF ProviderFails
<1>17. CASE Respond(r)
  BY <1>17 DEF Respond
<1>18. CASE ReleaseUnused(r)
  <2>1. faults' \in 0..MaxFaults
    BY <1>18, LeakCount DEF ReleaseUnused
  <2> QED BY <1>18, <2>1 DEF ReleaseUnused, ReleaseBudget
<1>19. CASE Refund(r)
  BY <1>19 DEF Refund, Store!Release
<1>20. CASE RefundFails(r)
  BY <1>20 DEF RefundFails, Store!Release, SaySpent
<1>21. CASE KeepSpent(r)
  BY <1>21 DEF KeepSpent, NeverDispatched
<1> QED BY <1>1, <1>2, <1>3, <1>4, <1>5, <1>6, <1>7, <1>8, <1>9, <1>10, <1>11,
     <1>12, <1>13, <1>14, <1>15, <1>16, <1>17, <1>18, <1>19, <1>20, <1>21 DEF Bearer, Gateway

\* A token is chosen before it is presented and kept, a request is presented before
\* it arrives, and an answer is given once.
LEMMA ConnectedStep ==
    ASSUME TypeOK, Connected, NEW r \in All, Bearer(r) \/ Gateway(r)
    PROVE  Connected'
<1> USE Names DEF TypeOK, Connected, Outcomes, BearerGoto, GatewayGoto, Answer,
     bearerVars, gatewayVars
<1>1. CASE Take(r)
  BY <1>1 DEF Take
<1>2. CASE NoToken(r)
  BY <1>2 DEF NoToken
<1>3. CASE TakeCopy(r)
  BY <1>3 DEF TakeCopy
<1>4. CASE Present(r)
  BY <1>4 DEF Present
<1>5. CASE TunnelFails(r)
  BY <1>5 DEF TunnelFails
<1>6. CASE Hear(r)
  BY <1>6 DEF Hear
<1>7. CASE GiveUp(r)
  BY <1>7 DEF GiveUp
<1>8. CASE Finish(r)
  BY <1>8 DEF Finish, Reusable
<1>9. CASE Reject(r) \/ UnknownMint(r)
  BY <1>9 DEF Reject, UnknownMint
<1>10. CASE Reserve(r)
  BY <1>10 DEF Reserve
<1>11. CASE ReserveRefused(r)
  BY <1>11 DEF ReserveRefused
<1>12. CASE Redeem(r)
  BY <1>12 DEF Redeem, Spend, Store!Accept
<1>13. CASE RedeemRefused(r)
  BY <1>13 DEF RedeemRefused, UndoReserve, ReleaseBudget
<1>14. CASE RedeemFails(r)
  BY <1>14 DEF RedeemFails, UndoReserve, ReleaseBudget, Spend, Store!Accept
<1>15. CASE Dispatch(r)
  BY <1>15 DEF Dispatch
<1>16. CASE DialFails(r)
  BY <1>16 DEF DialFails
<1>17. CASE Cancelled(r)
  BY <1>17 DEF Cancelled
<1>18. CASE ProviderFails(r)
  BY <1>18 DEF ProviderFails
<1>19. CASE Respond(r)
  BY <1>19 DEF Respond
<1>20. CASE ReleaseUnused(r)
  BY <1>20 DEF ReleaseUnused, ReleaseBudget, NeverDispatched
<1>21. CASE Refund(r)
  BY <1>21 DEF Refund, Store!Release
<1>22. CASE RefundFails(r)
  BY <1>22 DEF RefundFails, Store!Release, SaySpent
<1>23. CASE KeepSpent(r)
  BY <1>23 DEF KeepSpent, NeverDispatched
<1> QED BY <1>1, <1>2, <1>3, <1>4, <1>5, <1>6, <1>7, <1>8, <1>9, <1>10, <1>11,
     <1>12, <1>13, <1>14, <1>15, <1>16, <1>17, <1>18, <1>19, <1>20, <1>21, <1>22,
     <1>23 DEF Bearer, Gateway

\* A handler that goes on keeps its capacity.
LEMMA ChargingStep ==
    ASSUME TypeOK, Connected, Charging, Holding, NEW r \in All, Bearer(r) \/ Gateway(r)
    PROVE  Charging'
<1> USE Names DEF TypeOK, Connected, Charging, Holding, BearerGoto, GatewayGoto,
     Answer, bearerVars, gatewayVars
<1>1. CASE Take(r) \/ NoToken(r) \/ TakeCopy(r) \/ Present(r) \/ TunnelFails(r)
    \/ Hear(r) \/ GiveUp(r) \/ Finish(r)
  BY <1>1 DEF Take, NoToken, TakeCopy, Present, TunnelFails, Hear, GiveUp, Finish,
     Reusable
<1>2. CASE Reject(r) \/ UnknownMint(r)
  BY <1>2 DEF Reject, UnknownMint
<1>3. CASE Reserve(r)
  BY <1>3 DEF Reserve
<1>4. CASE ReserveRefused(r)
  BY <1>4 DEF ReserveRefused
<1>5. CASE Redeem(r)
  BY <1>5 DEF Redeem, Spend, Store!Accept
<1>6. CASE RedeemRefused(r)
  BY <1>6 DEF RedeemRefused, UndoReserve, ReleaseBudget
<1>7. CASE RedeemFails(r)
  BY <1>7 DEF RedeemFails, UndoReserve, ReleaseBudget, Spend, Store!Accept
<1>8. CASE Dispatch(r)
  BY <1>8 DEF Dispatch
<1>9. CASE DialFails(r)
  BY <1>9 DEF DialFails
<1>10. CASE Cancelled(r)
  BY <1>10 DEF Cancelled
<1>11. CASE ProviderFails(r)
  BY <1>11 DEF ProviderFails
<1>12. CASE Respond(r)
  BY <1>12 DEF Respond
<1>13. CASE ReleaseUnused(r)
  BY <1>13 DEF ReleaseUnused, ReleaseBudget, NeverDispatched
<1>14. CASE Refund(r)
  BY <1>14 DEF Refund, Store!Release
<1>15. CASE RefundFails(r)
  BY <1>15 DEF RefundFails, Store!Release, SaySpent
<1>16. CASE KeepSpent(r)
  BY <1>16 DEF KeepSpent, NeverDispatched
<1> QED BY <1>1, <1>2, <1>3, <1>4, <1>5, <1>6, <1>7, <1>8, <1>9, <1>10, <1>11,
     <1>12, <1>13, <1>14, <1>15, <1>16 DEF Bearer, Gateway

\* A token is redeemed when nobody holds it and released by its holder only.
LEMMA HoldingStep ==
    ASSUME TypeOK, Connected, Charging, Holding, NEW r \in All, Bearer(r) \/ Gateway(r)
    PROVE  Holding'
<1> USE Names DEF TypeOK, Connected, Holding, BearerGoto, GatewayGoto, Answer,
     bearerVars, gatewayVars
<1>1. CASE Take(r) \/ TakeCopy(r)
  BY <1>1 DEF Take, TakeCopy
<1>2. CASE NoToken(r) \/ TunnelFails(r) \/ Hear(r) \/ GiveUp(r) \/ Finish(r)
  BY <1>2 DEF NoToken, TunnelFails, Hear, GiveUp, Finish, Reusable
<1>3. CASE Present(r)
  BY <1>3 DEF Present
<1>4. CASE Reject(r) \/ UnknownMint(r)
  BY <1>4 DEF Reject, UnknownMint
<1>5. CASE Reserve(r)
  BY <1>5 DEF Reserve
<1>6. CASE ReserveRefused(r)
  BY <1>6 DEF ReserveRefused
<1>7. CASE Redeem(r)
  BY <1>7 DEF Redeem, Spend, Store!Accept
<1>8. CASE RedeemRefused(r)
  BY <1>8 DEF RedeemRefused, UndoReserve, ReleaseBudget
<1>9. CASE RedeemFails(r)
  BY <1>9 DEF RedeemFails, UndoReserve, ReleaseBudget, Spend, Store!Accept
<1>10. CASE Dispatch(r)
  BY <1>10 DEF Dispatch
<1>11. CASE DialFails(r)
  BY <1>11 DEF DialFails
<1>12. CASE Cancelled(r)
  BY <1>12 DEF Cancelled
<1>13. CASE ProviderFails(r)
  BY <1>13 DEF ProviderFails
<1>14. CASE Respond(r)
  BY <1>14 DEF Respond
<1>15. CASE ReleaseUnused(r)
  BY <1>15 DEF ReleaseUnused, ReleaseBudget, NeverDispatched
<1>16. CASE Refund(r)
  BY <1>16 DEF Refund, Store!Release
<1>17. CASE RefundFails(r)
  BY <1>17 DEF RefundFails, Store!Release, SaySpent
<1>18. CASE KeepSpent(r)
  BY <1>18 DEF KeepSpent, NeverDispatched
<1> QED BY <1>1, <1>2, <1>3, <1>4, <1>5, <1>6, <1>7, <1>8, <1>9, <1>10, <1>11,
     <1>12, <1>13, <1>14, <1>15, <1>16, <1>17, <1>18 DEF Bearer, Gateway

\* A token leaves the wallet with one request and comes back from that one.
LEMMA OwningStep ==
    ASSUME TypeOK, Connected, Owning, NEW r \in All, Bearer(r) \/ Gateway(r)
    PROVE  Owning'
<1> USE Names, RequestsAssumption DEF TypeOK, Connected, Owning, Gone, Reusable,
     BearerGoto, GatewayGoto, Answer, bearerVars, gatewayVars
<1>1. CASE Take(r)
  BY <1>1 DEF Take
<1>2. CASE NoToken(r)
  BY <1>2 DEF NoToken
<1>3. CASE TakeCopy(r)
  BY <1>3 DEF TakeCopy
<1>4. CASE Present(r)
  BY <1>4 DEF Present
<1>5. CASE TunnelFails(r)
  BY <1>5 DEF TunnelFails
<1>6. CASE Hear(r)
  BY <1>6 DEF Hear
<1>7. CASE GiveUp(r)
  BY <1>7 DEF GiveUp
<1>8. CASE Finish(r)
  BY <1>8 DEF Finish, Reusable
<1>9. CASE Reject(r) \/ UnknownMint(r) \/ Reserve(r) \/ ReserveRefused(r)
    \/ Redeem(r) \/ RedeemRefused(r) \/ RedeemFails(r) \/ Dispatch(r)
    \/ DialFails(r) \/ Cancelled(r) \/ ProviderFails(r) \/ Respond(r)
    \/ ReleaseUnused(r) \/ Refund(r) \/ RefundFails(r) \/ KeepSpent(r)
  BY <1>9 DEF Reject, UnknownMint, Reserve, ReserveRefused, Redeem, RedeemRefused,
     RedeemFails, Dispatch, DialFails, Cancelled, ProviderFails, Respond,
     ReleaseUnused, Refund, RefundFails, KeepSpent, Spend, Store!Accept,
     UndoReserve, ReleaseBudget, NeverDispatched, Store!Release, SaySpent
<1> QED BY <1>1, <1>2, <1>3, <1>4, <1>5, <1>6, <1>7, <1>8, <1>9 DEF Bearer, Gateway

\* A refusal or a refund releases the capacity or remembers that it could not.
LEMMA AccountingStep ==
    ASSUME TypeOK, Connected, Charging, NoCapacityLeak, NEW r \in All, Bearer(r) \/ Gateway(r)
    PROVE  NoCapacityLeak'
<1> USE Names DEF TypeOK, Connected, Charging, NoCapacityLeak, Outcomes, BearerGoto,
     GatewayGoto, Answer, bearerVars, gatewayVars
<1>1. CASE Take(r) \/ NoToken(r) \/ TakeCopy(r) \/ Present(r) \/ TunnelFails(r)
    \/ Hear(r) \/ GiveUp(r) \/ Finish(r)
  BY <1>1 DEF Take, NoToken, TakeCopy, Present, TunnelFails, Hear, GiveUp, Finish,
     Reusable
<1>2. CASE Reject(r) \/ UnknownMint(r) \/ ReserveRefused(r)
  BY <1>2 DEF Reject, UnknownMint, ReserveRefused
<1>3. CASE Reserve(r)
  BY <1>3 DEF Reserve
<1>4. CASE Redeem(r)
  BY <1>4 DEF Redeem, Spend, Store!Accept
<1>5. CASE RedeemRefused(r)
  BY <1>5 DEF RedeemRefused, UndoReserve, ReleaseBudget
<1>6. CASE RedeemFails(r)
  BY <1>6 DEF RedeemFails, UndoReserve, ReleaseBudget, Spend, Store!Accept
<1>7. CASE Dispatch(r)
  BY <1>7 DEF Dispatch
<1>8. CASE DialFails(r)
  BY <1>8 DEF DialFails
<1>9. CASE Cancelled(r)
  BY <1>9 DEF Cancelled
<1>10. CASE ProviderFails(r)
  BY <1>10 DEF ProviderFails
<1>11. CASE Respond(r)
  BY <1>11 DEF Respond
<1>12. CASE ReleaseUnused(r)
  BY <1>12 DEF ReleaseUnused, ReleaseBudget, NeverDispatched
<1>13. CASE Refund(r)
  BY <1>13 DEF Refund, Store!Release
<1>14. CASE RefundFails(r)
  BY <1>14 DEF RefundFails, Store!Release, SaySpent
<1>15. CASE KeepSpent(r)
  BY <1>15 DEF KeepSpent, NeverDispatched
<1> QED BY <1>1, <1>2, <1>3, <1>4, <1>5, <1>6, <1>7, <1>8, <1>9, <1>10, <1>11,
     <1>12, <1>13, <1>14, <1>15 DEF Bearer, Gateway

\* A crash stops handlers where they are; neither tokens nor capacity move.
LEMMA CrashStep == ASSUME IInv, Crash PROVE IInv'
<1> USE Names DEF IInv, Crash, TypeOK, Connected, Fault, bearerVars
<1>1. TypeOK'
  BY BoundsAssumption
<1>2. Connected'
  OBVIOUS
<1>3. Charging'
  BY DEF Charging
<1>4. Holding'
  BY DEF Holding
<1>5. Owning' /\ NoCapacityLeak'
  BY DEF Owning, Gone, Reusable, NoCapacityLeak
<1> QED BY <1>1, <1>2, <1>3, <1>4, <1>5

\* What the requests, the tokens and the capacity have to do with each other, at
\* every moment of a request and after any failure of the bearer, the gateway, the
\* store, the budget or the provider.
THEOREM Invariant == Spec => []IInv
<1>1. Init => IInv
  BY Names, BoundsAssumption DEF Init, IInv, TypeOK, Connected, Charging, Holding,
       Owning,
     Gone, NoCapacityLeak
<1>2. IInv /\ [Next]_vars => IInv'
  <2>1. ASSUME IInv, NEW r \in All, Bearer(r) \/ Gateway(r) PROVE IInv'
    BY <2>1, TypedStep, ConnectedStep, ChargingStep, HoldingStep, OwningStep,
         AccountingStep
       DEF IInv
  <2>2. ASSUME IInv, UNCHANGED vars PROVE IInv'
    BY <2>2 DEF vars, IInv, TypeOK, Connected, Charging, Holding, Owning, Gone,
         Reusable,
       NoCapacityLeak
  <2> QED BY <2>1, <2>2, CrashStep DEF Next
<1> QED BY <1>1, <1>2, PTL DEF Spec

\* Type correctness.
THEOREM Typed == Spec => []TypeOK
<1>1. IInv => TypeOK
  BY DEF IInv
<1> QED BY <1>1, Invariant, PTL

-------------------------------------------------------------------------------
\* A token buys at most one request that may have reached the provider, however
\* many copies of it are presented and whatever fails (the order of Spend, forward
\* and Refund in ServeHTTP and handleError).
THEOREM PaidOnce == Spec => []OneDispatch
<1>1. IInv => OneDispatch
  BY DEF IInv, TypeOK, Holding, OneDispatch
<1> QED BY <1>1, Invariant, PTL

\* No path of the handler gives back the capacity of a request that may have
\* reached the provider (releaseBudget is called before the dispatch only).
THEOREM StaysCharged == Spec => []DispatchedIsCharged
<1>1. IInv => DispatchedIsCharged
  BY DEF IInv, TypeOK, Charging, DispatchedIsCharged
<1> QED BY <1>1, Invariant, PTL

\* A request answered without the provider holds no capacity, unless its release
\* failed or its answer is that the token is spent.
THEOREM NothingLeaks == Spec => []NoCapacityLeak
<1>1. IInv => NoCapacityLeak
  BY DEF IInv
<1> QED BY <1>1, Invariant, PTL

\* What the gateway says of a token is so, then and afterwards: a request whose
\* token was rejected or refunded neither holds it nor reached the provider.
THEOREM OutcomeTrue == Spec => []OutcomeIsTrue
<1>1. IInv => OutcomeIsTrue
  BY Names DEF IInv, TypeOK, Outcomes, Connected, Holding, OutcomeIsTrue
<1> QED BY <1>1, Invariant, PTL

\* A token of the wallet that was not copied is good: withToken puts back only what
\* the gateway did not redeem and will not redeem.
THEOREM WalletGood == Spec => []WalletIsUnspent
<1>1. ASSUME IInv PROVE WalletIsUnspent
  <2> USE <1>1, Names DEF IInv, TypeOK, Outcomes, Connected
  <2> SUFFICES ASSUME NEW t \in wallet, \A c \in Copies : token[c] # t
               PROVE  /\ holder[t] = None
                      /\ \A r \in Requests : token[r] = t => gateway[r] \in {"idle", "ended", "dead"}
    BY DEF WalletIsUnspent
  <2>1. ASSUME NEW r \in Requests, token[r] = t
        PROVE  /\ gateway[r] \in {"idle", "ended"}
               /\ gateway[r] = "ended" => outcome[r] \in {"rejected", "refunded"}
    <3>1. r \in All /\ Gone(r)
      BY <2>1 DEF Owning, All
    <3>2. CASE r \notin presented
      BY <3>1, <3>2
    <3>3. CASE heard[r] \in {"refunded", "rejected"}
      BY <3>1, <3>3
    <3> QED BY <3>1, <3>2, <3>3 DEF Gone, Reusable
  <2>2. ASSUME holder[t] # None PROVE FALSE
    <3> DEFINE q == holder[t]
    <3>1. q \in Requests /\ token[q] = t
      BY <2>2 DEF Holding, All
    <3> QED BY <2>1, <2>2, <3>1 DEF Holding
  <2> QED BY <2>1, <2>2
<1> QED BY <1>1, Invariant, PTL

\* What SpentJournal assumes of its callers (a process refunds what it spent itself,
\* in Call): a handler refunds a token only while it holds that token.
THEOREM RefundsItsOwn ==
    Spec => [][\A r \in All : Refund(r) \/ RefundFails(r) => holder[token[r]] = r]_vars
<1>1. IInv => \A r \in All : Refund(r) \/ RefundFails(r) => holder[token[r]] = r
  BY DEF IInv, Holding, Refund, RefundFails
<1> QED BY <1>1, Invariant, PTL DEF Spec

\* The gateway uses the store by its contract: whatever it calls and whatever fails,
\* the holders change as Redemption allows, which SpentJournal implements.
THEOREM UsesStore == Spec => Store!Spec
<1>1. Init => Store!Init
  BY DEF Init, Store!Init
<1>2. IInv /\ [Next]_vars => [Store!Next]_holder
  <2> SUFFICES ASSUME IInv, Next, ~UNCHANGED holder PROVE Store!Next
    BY DEF vars
  <2>1. PICK r \in All : Redeem(r) \/ RedeemFails(r) \/ Refund(r) \/ RefundFails(r)
    BY DEF Next, Bearer, Gateway, Crash, Take, NoToken, TakeCopy, Present,
         TunnelFails, Hear,
       GiveUp, Finish, Reject, UnknownMint, Reserve, ReserveRefused, RedeemRefused, Dispatch,
       DialFails, Cancelled, ProviderFails, Respond, ReleaseUnused, KeepSpent, gatewayVars
  <2>2. token[r] \in Tokens
    BY <2>1 DEF IInv, Connected, Redeem, RedeemFails, Refund, RefundFails
  <2> QED BY <2>1, <2>2 DEF Redeem, RedeemFails, Refund, RefundFails, Spend, Store!Next
<1> QED BY <1>1, <1>2, Invariant, PTL DEF Spec, Store!Spec
===============================================================================
