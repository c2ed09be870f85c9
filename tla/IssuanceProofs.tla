----------------------------- MODULE IssuanceProofs -----------------------------
(***************************************************************************)
(* Theorems about buying tokens: the mint, the wallets, the checkout page  *)
(* and the invite programs, for any number of buyers, receipts, tokens and *)
(* ticks of the clock.                                                     *)
(***************************************************************************)
EXTENDS Issuance, FiniteSetTheorems, SequenceTheorems, TLAPS

\* Every nonempty set of natural numbers has a least element.
LEMMA Least == ASSUME NEW S \in SUBSET Nat, S # {} PROVE \E s \in S : \A t \in S : s <= t
<1> DEFINE R == OpToRel(<, Nat)
<1>1. IsWellFoundedOn(R, Nat)
  BY NatLessThanWellFounded, Zenon
<1>2. \A x, y \in Nat : x < y => <<x, y>> \in R
  BY DEF OpToRel
<1> HIDE DEF R
<1>3. PICK s \in S : \A t \in S : ~(<<t, s>> \in R)
  BY <1>1, WFMin
<1>4. \A t \in S : ~(t < s)
  BY <1>2, <1>3
<1> QED BY <1>4

-------------------------------------------------------------------------------
(* The mint's contract.                                                    *)

CallsOK == claimed \subseteq Ents /\ call \in [Callers -> Calls \cup {None}]

\* A signature follows a claim, and a claim that is not signed yet has one call.
Once ==
    /\ signatures \in [Ents -> {0, 1}]
    /\ \A e \in Ents : signatures[e] = 1 => e \in claimed
    /\ \A p \in Callers : At(p, "claimed") =>
        /\ call[p].ent \in claimed /\ signatures[call[p].ent] = 0
        /\ \A q \in Callers : q # p /\ At(q, "claimed") => call[q].ent # call[p].ent

MintInv == CallsOK /\ Once

\* A call that arrives, is refused or is over leaves the other calls as they are.
LEMMA CallStep ==
    ASSUME MintInv, NEW p \in Callers, NEW k \in Calls \cup {None},
           call' = [call EXCEPT ![p] = k], k # None => k.step # "claimed",
           claimed \subseteq claimed', claimed' \subseteq Ents, UNCHANGED signatures
    PROVE  MintInv'
<1> USE DEF MintInv
<1>1. CallsOK'
  BY DEF CallsOK
<1>2. call'[p] = k /\ \A q \in Callers : q # p => call'[q] = call[q]
  BY DEF CallsOK
<1>3. ASSUME NEW q \in Callers, At(q, "claimed")' PROVE call'[q] = call[q] /\ At(q, "claimed")
  BY <1>2, <1>3 DEF At
<1>4. Once'
  BY <1>3 DEF Once
<1> QED BY <1>1, <1>4

\* The receipt of a call is claimed, or it was before.
LEMMA ClaimStep == ASSUME MintInv, NEW p \in Callers, Claim(p) PROVE MintInv'
<1> USE DEF MintInv
<1> DEFINE e == call[p].ent
           k == [call[p] EXCEPT !.step = IF e \in claimed THEN "refused" ELSE "claimed"]
<1>1. At(p, "checked") /\ call[p] \in Calls /\ e \in Ents
  BY DEF Claim, CallsOK, At, Calls
<1>2. claimed' = claimed \cup {e} /\ call' = [call EXCEPT ![p] = k] /\ UNCHANGED signatures
  BY DEF Claim, Advance
<1>3. k \in Calls /\ k.ent = e /\ k.step = IF e \in claimed THEN "refused" ELSE "claimed"
  BY <1>1 DEF Calls
<1>4. k # None
  BY <1>3, NoneAssumption
<1>5. CASE e \in claimed
  <2>1. k.step # "claimed"
    BY <1>3, <1>5
  <2> HIDE DEF k, e
  <2> QED BY <1>1, <1>2, <1>3, <2>1, CallStep DEF CallsOK
<1>6. CASE e \notin claimed
  <2>1. call'[p] = k /\ \A q \in Callers : q # p => call'[q] = call[q]
    BY <1>2 DEF CallsOK
  <2>2. CallsOK'
    BY <1>1, <1>2, <1>3 DEF CallsOK
  <2> HIDE DEF k
  <2>3. \A q \in Callers : q # p => (At(q, "claimed")' <=> At(q, "claimed"))
    BY <2>1 DEF At
  <2>4. signatures[e] = 0
    BY <1>1, <1>6 DEF Once
  <2>5. \A q \in Callers : At(q, "claimed") => call[q].ent # e
    BY <1>6 DEF Once
  <2>6. Once'
    <3>1. signatures' \in [Ents -> {0, 1}] /\ \A f \in Ents : signatures'[f] = 1 => f \in claimed'
      BY <1>2 DEF Once
    <3>2. ASSUME NEW q \in Callers, At(q, "claimed")'
          PROVE  /\ call'[q].ent \in claimed' /\ signatures'[call'[q].ent] = 0
                 /\ \A r \in Callers : r # q /\ At(r, "claimed")' => call'[r].ent # call'[q].ent
      <4>1. CASE q = p
        BY <4>1, <1>2, <1>3, <2>1, <2>3, <2>4, <2>5
      <4>2. CASE q # p
        <5>1. At(q, "claimed") /\ call'[q] = call[q] /\ call[q].ent \in claimed
              /\ signatures[call[q].ent] = 0 /\ call[q].ent # e
          BY <4>2, <3>2, <2>1, <2>3, <2>5 DEF Once
        <5>2. ASSUME NEW r \in Callers, r # q, At(r, "claimed")' PROVE call'[r].ent # call'[q].ent
          <6>1. CASE r = p
            BY <6>1, <5>1, <1>3, <2>1
          <6>2. CASE r # p
            BY <6>2, <5>1, <5>2, <2>1, <2>3 DEF Once
          <6> QED BY <6>1, <6>2
        <5> QED BY <5>1, <5>2, <1>2
      <4> QED BY <4>1, <4>2
    <3> QED BY <3>1, <3>2 DEF Once
  <2> QED BY <2>2, <2>6
<1> QED BY <1>5, <1>6

\* A claimed receipt is signed for.
LEMMA SignStep ==
    ASSUME MintInv, NEW p \in Callers, Sign(p)
    PROVE  MintInv' /\ \E e \in Ents : Contract!Sign(e)
<1> USE DEF MintInv
<1> DEFINE k == [call[p] EXCEPT !.step = "signed"]
<1>1. At(p, "claimed") /\ call[p] \in Calls /\ UNCHANGED claimed
  BY DEF Sign, CallsOK, At
<1> PICK e \in Ents : e = call[p].ent
  BY <1>1 DEF Calls
<1>2. signatures[e] = 0 /\ e \in claimed
  BY <1>1 DEF Once
<1>3. signatures' = [signatures EXCEPT ![e] = 1]
  <2>1. signatures' = [signatures EXCEPT ![e] = @ + 1]
    BY DEF Sign
  <2> QED BY <2>1, <1>2 DEF Once
<1>4. Contract!Sign(e)
  BY <1>2, <1>3 DEF Contract!Sign
<1>5. call' = [call EXCEPT ![p] = k] /\ k \in Calls /\ k.step = "signed"
  BY <1>1 DEF Sign, Advance, Calls
<1> HIDE DEF k
<1>6. call'[p] = k /\ \A q \in Callers : q # p => call'[q] = call[q]
  BY <1>5 DEF CallsOK
<1>7. CallsOK'
  BY <1>1, <1>5 DEF CallsOK
<1>8. ASSUME NEW q \in Callers, At(q, "claimed")'
      PROVE  q # p /\ call'[q] = call[q] /\ At(q, "claimed") /\ call[q].ent # e
  <2>1. q # p /\ call'[q] = call[q]
    BY <1>5, <1>6, <1>8 DEF At
  <2>2. At(q, "claimed")
    BY <2>1, <1>8 DEF At
  <2> QED BY <2>1, <2>2, <1>1 DEF Once
<1>9. signatures'[e] = 1 /\ \A f \in Ents : f # e => signatures'[f] = signatures[f]
  BY <1>3 DEF Once
<1>10. Once'
  <2>1. signatures' \in [Ents -> {0, 1}]
    BY <1>3 DEF Once
  <2>2. \A f \in Ents : signatures'[f] = 1 => f \in claimed'
    BY <1>1, <1>2, <1>9 DEF Once
  <2>3. ASSUME NEW q \in Callers, At(q, "claimed")'
        PROVE  /\ call'[q].ent \in claimed' /\ signatures'[call'[q].ent] = 0
               /\ \A r \in Callers : r # q /\ At(r, "claimed")' => call'[r].ent # call'[q].ent
    <3>1. call[q].ent \in Ents
      BY <1>8, <2>3 DEF CallsOK, At, Calls
    <3> QED BY <1>1, <1>8, <1>9, <2>3, <3>1 DEF Once
  <2> QED BY <2>1, <2>2, <2>3 DEF Once
<1> QED BY <1>4, <1>7, <1>10

\* The mint stops: no call survives.
LEMMA StopStep ==
    ASSUME MintInv, call' = [p \in Callers |-> None], UNCHANGED <<claimed, signatures>>
    PROVE  MintInv'
<1>1. CallsOK'
  BY DEF MintInv, CallsOK
<1>2. Once'
  BY DEF MintInv, Once, At
<1> QED BY <1>1, <1>2 DEF MintInv

-------------------------------------------------------------------------------
(* The wallets: who holds which receipt.                                   *)

\* Buyers with a token that left the wallet for them.
Holding == {b \in Buyers : pc[b] \in {"low", "trigger", "hold"}}

Active == Holding \cup Midway

RecordOK ==
    /\ reserved \subseteq Ents /\ stock \subseteq Ents /\ out \subseteq Ents
    /\ shown \subseteq Ents /\ hit \subseteq Ents
    /\ pc \in [Buyers -> Steps] /\ token \in [Buyers -> Ents \cup {None}]

\* Each buyer at work holds a receipt of its own, reserved for it: one still being
\* bought is neither on hand nor handed out.
Owned ==
    /\ \A b \in Buyers \ Active : token[b] = None
    /\ \A b \in Active : token[b] \in Ents /\ token[b] \in reserved
    /\ \A b \in Holding : token[b] \in out
    /\ \A b \in Midway : token[b] \notin stock \cup out
    /\ \A b, c \in Active : b # c => token[b] # token[c]

\* Whatever was bought, handed out or shown is reserved.
Kept == stock \subseteq reserved /\ out \subseteq reserved /\ shown \subseteq reserved

Fresh == \A b \in Buyers : pc[b] = "send" => token[b] \notin shown

WalletInv == RecordOK /\ Owned /\ Kept /\ Fresh /\ SpentIsWhatLeft /\ NothingLost

\* There are finitely many receipts.
LEMMA FiniteEnts == IsFiniteSet(Ents)
<1>1. IsFiniteSet(1..Program.seats) /\ IsFiniteSet(Slots(Program))
  BY ProgramAssumption, FS_Interval DEF Slots
<1>2. IsFiniteSet(Vouchers)
  BY <1>1, FS_Product DEF Vouchers
<1> QED BY <1>2, CheckoutAssumption, FS_Union DEF Ents

\* The counter is a number of receipts.
LEMMA SpentType == ASSUME WalletInv PROVE spent \in 0..Cardinality(Ents) /\ IsFiniteSet(out)
BY FiniteEnts, FS_Subset, FS_CardinalityType DEF WalletInv, RecordOK, SpentIsWhatLeft

\* A buyer goes on with what it has; the receipt it sends is shown.
LEMMA WalkStep ==
    ASSUME WalletInv, NEW b \in Buyers, NEW step \in Steps \ {"send"},
           pc' = [pc EXCEPT ![b] = step],
           UNCHANGED <<reserved, stock, spent, out, hit, token>>,
           \/ UNCHANGED shown
           \/ pc[b] = "send" /\ shown' = shown \cup {token[b]},
           step \in {"low", "trigger", "hold"} <=> b \in Holding,
           step \in {"wait", "bought"} <=> b \in Midway
    PROVE  WalletInv'
<1> USE DEF WalletInv
<1>1. pc'[b] = step /\ \A c \in Buyers : c # b => pc'[c] = pc[c]
  BY DEF RecordOK
<1>2. Holding' = Holding
  BY <1>1 DEF Holding
<1>3. Midway' = Midway
  BY <1>1 DEF Midway
<1>4. pc[b] = "send" => b \in Midway
  BY DEF Midway
<1>5. RecordOK'
  BY <1>4 DEF RecordOK, Owned, Active
<1>6. Owned'
  BY <1>2, <1>3 DEF Owned, Active
<1>7. Kept'
  BY <1>4 DEF Kept, Owned, Active
<1>8. Fresh'
  <2> SUFFICES ASSUME NEW c \in Buyers, pc'[c] = "send" PROVE token[c] \notin shown'
    BY DEF Fresh
  <2>1. c # b /\ pc[c] = "send" /\ c \in Midway
    BY <1>1 DEF Midway
  <2> QED BY <2>1, <1>4 DEF Fresh, Owned, Active
<1>9. SpentIsWhatLeft' /\ NothingLost'
  BY <1>3 DEF SpentIsWhatLeft, NothingLost
<1> QED BY <1>5, <1>6, <1>7, <1>8, <1>9

\* A step of the rest of the system.
LEMMA SameWallet ==
    ASSUME WalletInv, UNCHANGED <<reserved, stock, spent, out, hit, token, shown, pc>>
    PROVE  WalletInv'
<1> USE DEF WalletInv
<1>1. Holding' = Holding /\ Midway' = Midway
  BY DEF Holding, Midway
<1> QED BY <1>1 DEF RecordOK, Owned, Active, Kept, Fresh, SpentIsWhatLeft, NothingLost

\* A token on hand is taken.
LEMMA TakeStep ==
    ASSUME WalletInv, NEW b \in Buyers, TakeStocked(b)
    PROVE  WalletInv'
<1> USE DEF WalletInv
<1> PICK t \in stock : /\ stock' = stock \ {t} /\ spent' = spent + 1 /\ out' = out \cup {t}
                       /\ token' = [token EXCEPT ![b] = t]
  BY DEF TakeStocked, Remove
<1> PICK step \in {"low", "trigger", "hold"} : pc' = [pc EXCEPT ![b] = step]
  BY DEF TakeStocked, To
<1>1. pc[b] = "idle" /\ UNCHANGED <<reserved, shown, hit>> /\ t \in Ents /\ t \notin out
  BY DEF TakeStocked, RecordOK, SpentIsWhatLeft
<1>2. /\ pc'[b] = step /\ token'[b] = t
      /\ \A c \in Buyers : c # b => pc'[c] = pc[c] /\ token'[c] = token[c]
  BY DEF RecordOK
<1>3. Holding' = Holding \cup {b} /\ Midway' = Midway /\ b \notin Holding /\ b \notin Midway
  BY <1>1, <1>2 DEF Holding, Midway
<1>4. RecordOK'
  BY <1>1 DEF RecordOK, Steps
<1>5. Owned'
  <2>1. \A c \in Active : c # b /\ token[c] # t
    BY <1>1, <1>3 DEF Owned, Active, SpentIsWhatLeft
  <2> QED BY <1>1, <1>2, <1>3, <2>1 DEF Owned, Active, Kept
<1>6. Kept'
  BY <1>1 DEF Kept
<1>7. Fresh'
  BY <1>1, <1>2 DEF Fresh
<1>8. SpentIsWhatLeft'
  <2>1. Cardinality(out') = Cardinality(out) + 1
    BY <1>1, SpentType, FS_AddElement
  <2> QED BY <1>1, <2>1 DEF SpentIsWhatLeft
<1>9. NothingLost'
  BY <1>1, <1>2, <1>3 DEF NothingLost
<1> QED BY <1>4, <1>5, <1>6, <1>7, <1>8, <1>9

\* A token is gone in a transaction that failed: nobody holds it.
LEMMA TakeLostStep ==
    ASSUME WalletInv, NEW b \in Buyers, NEW t \in stock, Remove(t), pc[b] = "idle",
           pc' = [pc EXCEPT ![b] = "failed"], UNCHANGED <<reserved, token, shown, hit>>
    PROVE  WalletInv'
<1> USE DEF WalletInv
<1>1. /\ stock' = stock \ {t} /\ spent' = spent + 1 /\ out' = out \cup {t}
      /\ t \in Ents /\ t \notin out /\ t \in reserved
  BY DEF Remove, RecordOK, SpentIsWhatLeft, Kept
<1>2. pc'[b] = "failed" /\ \A c \in Buyers : c # b => pc'[c] = pc[c]
  BY DEF RecordOK
<1>3. Holding' = Holding /\ Midway' = Midway
  BY <1>2 DEF Holding, Midway
<1>4. RecordOK' /\ Kept'
  BY <1>1 DEF RecordOK, Steps, Kept
<1>5. Owned'
  <2>1. \A c \in Midway : token[c] \notin stock
    BY DEF Owned
  <2> QED BY <1>1, <1>3, <2>1 DEF Owned, Active
<1>6. Fresh'
  BY <1>2 DEF Fresh
<1>7. SpentIsWhatLeft'
  <2>1. Cardinality(out') = Cardinality(out) + 1
    BY <1>1, SpentType, FS_AddElement
  <2> QED BY <1>1, <2>1 DEF SpentIsWhatLeft
<1>8. NothingLost'
  BY <1>1, <1>3 DEF NothingLost
<1> QED BY <1>4, <1>5, <1>6, <1>7, <1>8

\* A token bought for a request leaves the wallet.
LEMMA BoughtStep ==
    ASSUME WalletInv, NEW b \in Buyers, Bought(b)
    PROVE  WalletInv'
<1> USE DEF WalletInv
<1>1. /\ pc[b] = "bought" /\ pc' = [pc EXCEPT ![b] = "trigger"] /\ spent' = spent + 1
      /\ out' = out \cup {token[b]} /\ UNCHANGED <<reserved, stock, token, shown, hit>>
  BY DEF Bought, Count, To
<1>2. pc'[b] = "trigger" /\ \A c \in Buyers : c # b => pc'[c] = pc[c]
  BY <1>1 DEF RecordOK
<1>3. Holding' = Holding \cup {b} /\ Midway' = Midway \ {b} /\ b \in Midway
  BY <1>1, <1>2 DEF Holding, Midway
<1>4. /\ token[b] \in Ents /\ token[b] \in reserved /\ token[b] \notin stock \cup out
      /\ \A c \in Active : c # b => token[c] # token[b]
  BY <1>3 DEF Owned, Active
<1>5. RecordOK'
  BY <1>1, <1>4 DEF RecordOK, Steps
<1>6. Owned'
  BY <1>1, <1>3, <1>4 DEF Owned, Active
<1>7. Kept'
  BY <1>1, <1>4 DEF Kept
<1>8. Fresh'
  BY <1>1, <1>2 DEF Fresh
<1>9. SpentIsWhatLeft'
  <2>1. Cardinality(out') = Cardinality(out) + 1
    BY <1>1, <1>4, SpentType, FS_AddElement
  <2> QED BY <1>1, <1>4, <2>1 DEF SpentIsWhatLeft
<1>10. NothingLost'
  BY <1>1, <1>3 DEF NothingLost
<1> QED BY <1>5, <1>6, <1>7, <1>8, <1>9, <1>10

\* A token is used, put back, or lost on its way back.
LEMMA GiveStep ==
    ASSUME WalletInv, NEW b \in Buyers, Use(b) \/ Put(b) \/ PutFails(b)
    PROVE  WalletInv'
<1> USE DEF WalletInv
<1>1. /\ pc[b] = "hold" /\ pc' = [pc EXCEPT ![b] = "done"] /\ token' = [token EXCEPT ![b] = None]
      /\ UNCHANGED <<reserved, shown, hit>>
  BY DEF Use, Put, PutFails, To
<1>2. /\ pc'[b] = "done" /\ token'[b] = None
      /\ \A c \in Buyers : c # b => pc'[c] = pc[c] /\ token'[c] = token[c]
  BY <1>1 DEF RecordOK
<1>3. Holding' = Holding \ {b} /\ Midway' = Midway /\ b \in Holding /\ b \notin Midway
  BY <1>1, <1>2 DEF Holding, Midway
<1>4. /\ token[b] \in Ents /\ token[b] \in reserved /\ token[b] \in out /\ token[b] \notin stock
      /\ \A c \in Active : c # b => token[c] # token[b]
  BY <1>3 DEF Owned, Active, SpentIsWhatLeft
<1>5. Fresh'
  BY <1>1, <1>2 DEF Fresh
<1>6. \A c \in Midway : c # b /\ token'[c] = token[c]
  BY <1>2, <1>3 DEF Midway
<1>7. CASE Use(b) \/ PutFails(b)
  <2>1. UNCHANGED <<stock, spent, out>>
    BY <1>7 DEF Use, PutFails
  <2>2. RecordOK'
    BY <1>1, <2>1 DEF RecordOK, Steps
  <2>3. Owned'
    BY <1>2, <1>3, <1>1, <2>1 DEF Owned, Active
  <2>4. Kept' /\ SpentIsWhatLeft'
    BY <1>1, <2>1 DEF Kept, SpentIsWhatLeft
  <2>5. NothingLost'
    BY <1>1, <1>3, <1>6, <2>1 DEF NothingLost
  <2> QED BY <1>5, <2>2, <2>3, <2>4, <2>5
<1>8. CASE Put(b)
  <2>1. /\ stock' = stock \cup {token[b]} /\ out' = out \ {token[b]}
        /\ spent' = IF spent > 0 THEN spent - 1 ELSE 0
    BY <1>8 DEF Put
  <2>2. RecordOK'
    BY <1>1, <1>4, <2>1 DEF RecordOK, Steps
  <2>3. Owned'
    BY <1>2, <1>3, <1>1, <1>4, <2>1 DEF Owned, Active
  <2>4. Kept'
    BY <1>1, <1>4, <2>1 DEF Kept
  <2>5. SpentIsWhatLeft'
    <3>1. Cardinality(out') = Cardinality(out) - 1 /\ Cardinality(out) \in Nat
          /\ IsFiniteSet(out') /\ Cardinality(out') \in Nat
      BY <1>4, <2>1, SpentType, FS_RemoveElement, FS_CardinalityType
    <3> QED BY <1>4, <2>1, <3>1 DEF SpentIsWhatLeft
  <2>6. NothingLost'
    BY <1>1, <1>3, <1>6, <2>1 DEF NothingLost
  <2> QED BY <1>5, <2>2, <2>3, <2>4, <2>5, <2>6
<1> QED BY <1>7, <1>8

\* A purchase is refused or cut short: its receipt is spoiled.  A transaction that
\* failed may have stocked the token or counted it.
LEMMA SpoilStep ==
    ASSUME WalletInv, NEW b \in Midway, Spoil(b), UNCHANGED <<reserved, shown>>,
           \/ stock' \in {stock, stock \cup {token[b]}} /\ UNCHANGED <<spent, out>>
           \/ Count(b) /\ UNCHANGED stock
    PROVE  WalletInv'
<1> USE DEF WalletInv
<1> PICK step \in {"select", "failed"} : pc' = [pc EXCEPT ![b] = step]
  BY DEF Spoil, Fail, To
<1>1. /\ hit' = hit \cup {token[b]} /\ token' = [token EXCEPT ![b] = None] /\ b \in Buyers
  BY DEF Spoil, Midway
<1>2. /\ pc'[b] = step /\ token'[b] = None
      /\ \A c \in Buyers : c # b => pc'[c] = pc[c] /\ token'[c] = token[c]
  BY <1>1 DEF RecordOK
<1>3. Holding' = Holding /\ Midway' = Midway \ {b} /\ b \notin Holding
  BY <1>1, <1>2 DEF Holding, Midway
<1>4. /\ token[b] \in Ents /\ token[b] \in reserved /\ token[b] \notin stock \cup out
      /\ \A c \in Active : c # b => token[c] # token[b]
  BY DEF Owned, Active
<1>0. stock \subseteq stock' /\ stock' \subseteq stock \cup {token[b]} /\ out \subseteq out'
      /\ out' \subseteq out \cup {token[b]}
  BY DEF Count
<1>5. RecordOK'
  BY <1>0, <1>1, <1>4 DEF RecordOK, Steps
<1>6. Owned'
  <2>1. Active' = Active \ {b} /\ \A c \in Active' : c # b /\ c \in Buyers
    BY <1>3 DEF Active, Midway, Holding
  <2>2. \A c \in Active' : token'[c] = token[c]
    BY <1>2, <2>1
  <2>3. \A c \in Buyers \ Active' : token'[c] = None
    BY <1>2, <2>1 DEF Owned
  <2>4. \A c \in Holding' : token'[c] \in out'
    BY <1>0, <1>3, <2>2 DEF Owned, Active
  <2>5. \A c \in Midway' : token'[c] \notin stock' \cup out'
    BY <1>0, <1>3, <1>4, <2>1, <2>2 DEF Owned, Active
  <2> QED BY <2>1, <2>2, <2>3, <2>4, <2>5 DEF Owned, Active
<1>7. Kept'
  BY <1>0, <1>4 DEF Kept
<1>8. Fresh'
  BY <1>2 DEF Fresh
<1>9. NothingLost'
  BY <1>0, <1>1, <1>2, <1>3 DEF NothingLost, Midway
<1>10. SpentIsWhatLeft'
  <2>1. CASE stock' \in {stock, stock \cup {token[b]}} /\ UNCHANGED <<spent, out>>
    BY <1>4, <2>1 DEF SpentIsWhatLeft
  <2>2. CASE Count(b) /\ UNCHANGED stock
    <3>1. spent' = spent + 1 /\ out' = out \cup {token[b]} /\ UNCHANGED stock
      BY <2>2 DEF Count
    <3>2. Cardinality(out') = Cardinality(out) + 1
      BY <1>4, <3>1, SpentType, FS_AddElement
    <3> QED BY <1>4, <3>1, <3>2 DEF SpentIsWhatLeft
  <2> QED BY <2>1, <2>2
<1> QED BY <1>5, <1>6, <1>7, <1>8, <1>9, <1>10

\* A receipt that was not reserved is reserved, before it is sent.
LEMMA ReserveStep ==
    ASSUME WalletInv, NEW b \in Buyers, pc[b] = "buy", NEW e \in Ents \ reserved,
           token' = [token EXCEPT ![b] = e], reserved' = reserved \cup {e},
           pc' = [pc EXCEPT ![b] = "send"], UNCHANGED <<stock, spent, shown, out, hit>>
    PROVE  WalletInv'
<1> USE DEF WalletInv
<1>1. /\ pc'[b] = "send" /\ token'[b] = e
      /\ \A c \in Buyers : c # b => pc'[c] = pc[c] /\ token'[c] = token[c]
  BY DEF RecordOK
<1>2. Holding' = Holding /\ Midway' = Midway \cup {b} /\ b \notin Active
  BY <1>1 DEF Holding, Midway, Active
<1>3. e \notin stock \cup out \cup shown /\ \A c \in Active : token[c] # e
  BY DEF Kept, Owned
<1>4. RecordOK'
  BY DEF RecordOK, Steps
<1>5. Owned'
  BY <1>1, <1>2, <1>3 DEF Owned, Active
<1>6. Kept' /\ SpentIsWhatLeft'
  BY DEF Kept, SpentIsWhatLeft
<1>7. Fresh'
  BY <1>1, <1>3 DEF Fresh
<1>8. NothingLost'
  <2>1. \A c \in Midway : token'[c] = token[c] /\ c \in Midway'
    BY <1>1, <1>2 DEF Active
  <2>2. b \in Midway'
    BY <1>2
  <2> QED BY <1>1, <2>1, <2>2 DEF NothingLost
<1> QED BY <1>4, <1>5, <1>6, <1>7, <1>8

\* A receipt is spoiled by a transaction that failed, before anybody has it.
LEMMA WasteStep ==
    ASSUME WalletInv, NEW b \in Buyers, pc[b] = "buy", NEW e \in Ents \ reserved,
           reserved' = reserved \cup {e}, hit' = hit \cup {e}, Fail(b),
           UNCHANGED <<token, stock, spent, shown, out>>
    PROVE  WalletInv'
<1> USE DEF WalletInv
<1> PICK step \in {"select", "failed"} : pc' = [pc EXCEPT ![b] = step]
  BY DEF Fail, To
<1>1. pc'[b] = step /\ \A c \in Buyers : c # b => pc'[c] = pc[c]
  BY DEF RecordOK
<1>2. Holding' = Holding /\ Midway' = Midway
  BY <1>1 DEF Holding, Midway
<1>3. RecordOK'
  BY DEF RecordOK, Steps
<1>4. Owned' /\ Kept' /\ SpentIsWhatLeft'
  BY <1>2 DEF Owned, Active, Kept, SpentIsWhatLeft
<1>5. Fresh'
  BY <1>1 DEF Fresh
<1>6. NothingLost'
  BY <1>2 DEF NothingLost
<1> QED BY <1>3, <1>4, <1>5, <1>6

\* The loop stocks what it bought.
LEMMA StockStep == ASSUME WalletInv, Stock PROVE WalletInv'
<1> USE DEF WalletInv
<1> PICK b \in Buyers : b = Refill
  BY DEF Buyers
<1>1. /\ pc[b] = "bought" /\ pc' = [pc EXCEPT ![b] = "fill"] /\ stock' = stock \cup {token[b]}
      /\ token' = [token EXCEPT ![b] = None] /\ UNCHANGED <<reserved, spent, out, shown, hit>>
  BY DEF Stock, To
<1>2. /\ pc'[b] = "fill" /\ token'[b] = None
      /\ \A c \in Buyers : c # b => pc'[c] = pc[c] /\ token'[c] = token[c]
  BY <1>1 DEF RecordOK
<1>3. Holding' = Holding /\ Midway' = Midway \ {b} /\ b \in Midway /\ b \notin Holding
  BY <1>1, <1>2 DEF Holding, Midway
<1>4. /\ token[b] \in Ents /\ token[b] \in reserved /\ token[b] \notin stock \cup out
      /\ \A c \in Active : c # b => token[c] # token[b]
  BY <1>3 DEF Owned, Active
<1>5. RecordOK'
  BY <1>1, <1>4 DEF RecordOK, Steps
<1>6. Owned'
  BY <1>1, <1>2, <1>3, <1>4 DEF Owned, Active
<1>7. Kept' /\ SpentIsWhatLeft'
  BY <1>1, <1>4 DEF Kept, SpentIsWhatLeft
<1>8. Fresh'
  BY <1>1, <1>2 DEF Fresh
<1>9. NothingLost'
  BY <1>1, <1>2, <1>3 DEF NothingLost, Midway
<1> QED BY <1>5, <1>6, <1>7, <1>8, <1>9

\* The client is killed and started again.
LEMMA RestartStep == ASSUME WalletInv, Restart PROVE WalletInv'
<1> USE DEF WalletInv
<1>1. /\ hit' = hit \cup {token[b] : b \in Midway} /\ token' = [b \in Buyers |-> None]
      /\ pc' = [b \in Buyers |-> IF b = Refill THEN "fill"
                                 ELSE IF pc[b] \in {"idle", "done"} THEN pc[b] ELSE "failed"]
  BY DEF Restart
<1>2. Holding' = {} /\ Midway' = {} /\ \A b \in Buyers : pc'[b] # "send"
  BY <1>1 DEF Holding, Midway
<1>3. {token[b] : b \in Midway} \subseteq Ents
  BY DEF Owned, Active
<1>4. Owned' /\ Fresh'
  BY <1>1, <1>2 DEF Owned, Active, Fresh
<1>5. pc' \in [Buyers -> Steps] /\ token' \in [Buyers -> Ents \cup {None}] /\ hit' \subseteq Ents
  BY <1>1, <1>3 DEF RecordOK, Steps
<1>6. CASE rail = "invite"
  <2>1. UNCHANGED <<reserved, stock, spent, out, shown>>
    BY <1>6 DEF Restart
  <2> QED BY <1>1, <1>2, <1>4, <1>5, <2>1 DEF RecordOK, Kept, SpentIsWhatLeft, NothingLost
<1>7. CASE rail # "invite"
  <2>1. reserved' = {} /\ stock' = {} /\ spent' = 0 /\ out' = {} /\ shown' = {}
    BY <1>7 DEF Restart
  <2>2. Cardinality({}) = 0
    BY FS_EmptySet
  <2>3. RecordOK' /\ Kept'
    BY <1>5, <2>1 DEF RecordOK, Kept
  <2>4. SpentIsWhatLeft' /\ NothingLost'
    BY <2>1, <2>2 DEF SpentIsWhatLeft, NothingLost
  <2> QED BY <1>4, <2>3, <2>4
<1> QED BY <1>6, <1>7

-------------------------------------------------------------------------------
(* The book, and the vouchers it offers.                                   *)

\* The activated book is one of the program's, and it parses.
BookOK == book # None => book \in Books /\ ParsesBook(book)

\* Multiples and quotients.
LEMMA Divided ==
    ASSUME NEW n \in Nat, NEW p \in Nat \ {0}
    PROVE  n \div p \in Nat /\ n % p \in 0..(p - 1) /\ (n \div p) * p + (n % p) = n
<1>1. n \div p \in Nat
  OBVIOUS
<1>2. n % p \in 0..(p - 1)
  OBVIOUS
<1>3. (n \div p) * p + (n % p) = n
  OBVIOUS
<1> QED BY <1>1, <1>2, <1>3

LEMMA Multiples ==
    ASSUME NEW i \in Nat, NEW q \in Nat, i <= q, NEW p \in Nat
    PROVE  i * p \in Nat /\ q * p \in Nat /\ i * p <= q * p
<1>1. PICK d \in Nat : q = i + d
  <2>1. q - i \in Nat /\ q = i + (q - i)
    OBVIOUS
  <2> QED BY <2>1
<1>2. q * p = i * p + d * p
  BY <1>1
<1>3. d * p \in Nat /\ i * p \in Nat
  OBVIOUS
<1> QED BY <1>2, <1>3

\* The slots of the i-th epoch, p in each, are among n slots.
LEMMA SlotsOfEpoch ==
    ASSUME NEW n \in Nat, NEW p \in Nat \ {0}, NEW i \in 1..(n \div p)
    PROVE  ((i - 1) * p)..(i * p - 1) \subseteq 0..(n - 1)
<1> PICK q \in Nat : q = n \div p /\ q * p <= n
  <2>1. n \div p \in Nat /\ n % p \in Nat /\ (n \div p) * p + (n % p) = n
    BY Divided
  <2>2. (n \div p) * p \in Nat
    BY <2>1, Multiples
  <2> QED BY <2>1, <2>2
<1>1. i \in Nat /\ i - 1 \in Nat /\ i <= q
  OBVIOUS
<1>2. i * p \in Nat /\ i * p <= q * p /\ q * p \in Nat
  BY <1>1, Multiples
<1>3. (i - 1) * p \in Nat
  BY <1>1, Multiples
<1> QED BY <1>2, <1>3

\* There are finitely many epochs.
LEMMA EpochCountType ==
    ASSUME NEW c \in [seats : Nat, perInvite : Nat, perEpoch : Nat, epochLength : Nat,
                      from : Nat, until : Nat]
    PROVE  EpochCount(c) \in Nat /\ Len(Epochs(c)) = EpochCount(c) /\ DOMAIN Epochs(c) = 1..EpochCount(c)
<1>1. EpochCount(c) \in Nat
  <2> DEFINE all == 0..(c.until - c.from)
             starts == {i \in all : c.from + i * c.epochLength < c.until}
  <2>1. IsFiniteSet(all)
    BY FS_Interval
  <2>2. IsFiniteSet(starts)
    BY <2>1, FS_Subset
  <2>3. Cardinality(starts) \in Nat
    BY <2>2, FS_CardinalityType
  <2> HIDE DEF starts, all
  <2> QED BY <2>3 DEF EpochCount, all, starts
<1>2. DOMAIN Epochs(c) = 1..EpochCount(c)
  BY DEF Epochs
<1>3. Len(Epochs(c)) = EpochCount(c)
  BY <1>1 DEF Epochs
<1> QED BY <1>1, <1>2, <1>3

\* The slots a book offers are slots of the program.
LEMMA OfferedSlots ==
    ASSUME NEW b \in Books, ParsesBook(b), NEW t
    PROVE  b.seat \in 1..Program.seats /\ CurrentSlots(b, t) \subseteq Slots(Program)
<1> PICK seat \in 1..Program.seats : b \in {GeneratedBook(Program, seat), HandmadeBook(Program, seat)}
  BY BooksAssumption
<1>1. /\ b.seat = seat /\ b.count = Program.perInvite /\ b.perEpoch = Program.perEpoch
      /\ b.epochs = Epochs(Program)
  BY DEF GeneratedBook, HandmadeBook
<1>2. Program.perInvite \in Nat /\ Program.perEpoch \in Nat
  BY ProgramAssumption
<1>3. CASE b.schema = 1
  BY <1>1, <1>3 DEF CurrentSlots, Slots
<1>4. CASE b.schema # 1
  <2> DEFINE n == Program.perInvite  p == Program.perEpoch
  <2>1. p >= 1 /\ n % p = 0 /\ Len(b.epochs) = n \div p
    BY <1>1, <1>4 DEF ParsesBook
  <2>2. DOMAIN b.epochs = 1..(n \div p)
    BY <1>1, <2>1, ProgramAssumption, EpochCountType
  <2> SUFFICES ASSUME NEW i \in DOMAIN b.epochs
               PROVE  ((i - 1) * p)..(i * p - 1) \subseteq 0..(n - 1)
    BY <1>1, <1>4 DEF CurrentSlots, Slots
  <2>3. p \in Nat \ {0}
    BY <1>2, <2>1
  <2> HIDE DEF n, p
  <2> QED BY <1>2, <2>2, <2>3, SlotsOfEpoch DEF n
<1> QED BY <1>1, <1>3, <1>4

\* The first open slot is a voucher of the program that is not reserved.
LEMMA FirstOpen ==
    ASSUME BookOK, book # None, OpenSlots # {}
    PROVE  <<book.seat, FirstSlot>> \in Ents \ reserved
<1>1. book \in Books /\ ParsesBook(book)
  BY DEF BookOK
<1>2. book.seat \in 1..Program.seats /\ OpenSlots \subseteq Slots(Program)
  BY <1>1, OfferedSlots DEF OpenSlots
<1>3. Slots(Program) \subseteq Nat
  BY ProgramAssumption DEF Slots
<1>4. PICK s \in OpenSlots : \A t \in OpenSlots : s <= t
  BY <1>2, <1>3, Least
<1>5. FirstSlot \in OpenSlots
  BY <1>4 DEF FirstSlot
<1> QED BY <1>2, <1>5 DEF OpenSlots, Ents, Vouchers

\* Every step of the wallets.
LEMMA WalletSteps == ASSUME WalletInv, BookOK, WalletStep PROVE WalletInv'
<1> USE DEF WalletInv
<1>1. ASSUME NEW b \in Books, Activate(b) \/ ActivateFails(b) PROVE WalletInv'
  BY <1>1, SameWallet DEF Activate, ActivateFails
<1>2. ASSUME NEW b \in Buyers, CheckLow(b) \/ Trigger(b) \/ TakeEmpty(b) PROVE WalletInv'
  <2>1. PICK step \in Steps \ {"send"} : pc' = [pc EXCEPT ![b] = step]
    BY <1>2 DEF CheckLow, Trigger, TakeEmpty, To, Steps
  <2>2. UNCHANGED <<reserved, stock, spent, out, hit, token, shown>>
    BY <1>2 DEF CheckLow, Trigger, TakeEmpty
  <2>3. pc'[b] = step
    BY <2>1 DEF RecordOK
  <2>4. CASE pc[b] \in {"low", "trigger"} /\ step \in {"trigger", "hold"}
    BY <2>1, <2>2, <2>4, WalkStep DEF Holding, Midway
  <2>5. CASE pc[b] = "idle" /\ step = "buy"
    BY <2>1, <2>2, <2>5, WalkStep DEF Holding, Midway
  <2> QED BY <1>2, <2>1, <2>3, <2>4, <2>5 DEF CheckLow, Trigger, TakeEmpty, To, RecordOK
<1>3. ASSUME NEW b \in Buyers, GetKey(b) PROVE WalletInv'
  BY <1>3, SameWallet DEF GetKey
<1>4. ASSUME NEW b \in Buyers, pc[b] = "buy", Fail(b),
             UNCHANGED <<reserved, stock, spent, out, hit, token, shown>>
      PROVE  WalletInv'
  <2>1. PICK step \in {"select", "failed"} : pc' = [pc EXCEPT ![b] = step]
    BY <1>4 DEF Fail, To
  <2>2. step \in Steps \ {"send"}
    BY DEF Steps
  <2> QED BY <1>4, <2>1, <2>2, WalkStep DEF Holding, Midway
<1>5. ASSUME NEW b \in Buyers, Send(b) PROVE WalletInv'
  <2>1. /\ pc[b] = "send" /\ pc' = [pc EXCEPT ![b] = "wait"] /\ shown' = shown \cup {token[b]}
        /\ UNCHANGED <<reserved, stock, spent, out, hit, token>>
    BY <1>5 DEF Send, To
  <2>2. "wait" \in Steps \ {"send"}
    BY DEF Steps
  <2> QED BY <2>1, <2>2, WalkStep DEF Holding, Midway
<1>6. ASSUME NEW b \in Buyers, Receive(b) PROVE WalletInv'
  <2>1. /\ pc[b] = "wait" /\ pc' = [pc EXCEPT ![b] = "bought"]
        /\ UNCHANGED <<reserved, stock, spent, out, hit, token, shown>>
    BY <1>6 DEF Receive, To
  <2>2. "bought" \in Steps \ {"send"}
    BY DEF Steps
  <2> QED BY <2>1, <2>2, WalkStep DEF Holding, Midway
<1>7. ASSUME NEW b \in Buyers, CountFails(b) \/ Denied(b) \/ Lose(b) PROVE WalletInv'
  <2>1. /\ b \in Midway /\ Spoil(b) /\ UNCHANGED <<reserved, shown, stock>>
        /\ UNCHANGED <<spent, out>> \/ Count(b)
    BY <1>7 DEF CountFails, Denied, Lose, Midway
  <2> QED BY <2>1, SpoilStep
<1>8. CASE StockFails
  <2>1. /\ Refill \in Midway /\ Spoil(Refill) /\ UNCHANGED <<reserved, shown, spent, out>>
        /\ stock' \in {stock, stock \cup {token[Refill]}}
    BY <1>8 DEF StockFails, Midway, Buyers
  <2> QED BY <2>1, SpoilStep
<1>9. ASSUME NEW b \in Buyers, ReserveVoucher(b) PROVE WalletInv'
  <2> PICK e \in Ents \ reserved : e = <<book.seat, FirstSlot>>
    BY <1>9, FirstOpen DEF ReserveVoucher
  <2> QED BY <1>9, ReserveStep DEF ReserveVoucher, To
<1>10. ASSUME NEW b \in Buyers, ReserveReceipt(b) PROVE WalletInv'
  <2> PICK e \in Ents \ reserved : e = Receipt
    BY <1>10, WalletAssumption DEF ReserveReceipt, Ents
  <2> QED BY <1>10, ReserveStep DEF ReserveReceipt, To
<1>11. CASE Fill \/ Wake
  <2> PICK b \in Buyers : b = Refill
    BY DEF Buyers
  <2>1. PICK step \in {"buy", "select", "fill"} : pc' = [pc EXCEPT ![b] = step]
    BY <1>11 DEF Fill, Wake, To
  <2>2. pc[b] \in {"fill", "select"} /\ UNCHANGED <<reserved, stock, spent, out, hit, token, shown>>
    BY <1>11 DEF Fill, Wake
  <2>3. step \in Steps \ {"send"}
    BY DEF Steps
  <2> QED BY <2>1, <2>2, <2>3, WalkStep DEF Holding, Midway
<1>12. ASSUME NEW b \in Buyers, TakeFails(b) PROVE WalletInv'
  <2>1. pc[b] = "idle" /\ pc' = [pc EXCEPT ![b] = "failed"] /\ UNCHANGED <<reserved, token, shown, hit>>
    BY <1>12 DEF TakeFails, To
  <2>2. CASE UNCHANGED <<stock, spent, out>>
    <3>1. "failed" \in Steps \ {"send"}
      BY DEF Steps
    <3> QED BY <2>1, <2>2, <3>1, WalkStep DEF Holding, Midway
  <2>3. CASE \E t \in stock : Remove(t)
    BY <2>1, <2>3, TakeLostStep
  <2> QED BY <1>12, <2>2, <2>3 DEF TakeFails
<1>13. ASSUME NEW b \in Buyers, KeyFails(b) \/ NothingToReserve(b) PROVE WalletInv'
  BY <1>4, <1>13 DEF KeyFails, NothingToReserve
<1>14. ASSUME NEW b \in Buyers, ReserveFails(b) PROVE WalletInv'
  <2> PICK e \in Ents \ reserved : e = <<book.seat, FirstSlot>>
    BY <1>14, FirstOpen DEF ReserveFails
  <2>1. pc[b] = "buy" /\ Fail(b) /\ UNCHANGED <<token, stock, spent, shown, out>>
    BY <1>14 DEF ReserveFails
  <2>2. CASE UNCHANGED <<reserved, hit>>
    BY <1>4, <2>1, <2>2
  <2>3. CASE reserved' = reserved \cup {e} /\ hit' = hit \cup {e}
    BY <2>1, <2>3, WasteStep
  <2> QED BY <1>14, <2>2, <2>3 DEF ReserveFails
<1> HIDE DEF WalletInv
<1> QED BY <1>1, <1>2, <1>3, <1>5, <1>6, <1>7, <1>8, <1>9, <1>10, <1>11, <1>12, <1>13, <1>14,
        TakeStep, BoughtStep, GiveStep, StockStep, RestartStep DEF WalletStep

\* A book becomes the activated one when it parses.
LEMMA BookSteps == ASSUME BookOK, WalletStep PROVE BookOK'
<1>1. ASSUME NEW b \in Books, Activate(b) \/ ActivateFails(b) PROVE BookOK'
  BY <1>1 DEF Activate, ActivateFails, BookOK
<1>2. ASSUME UNCHANGED book PROVE BookOK'
  BY <1>2 DEF BookOK
<1> QED BY <1>1, <1>2 DEF WalletStep, TakeStocked, CheckLow, Trigger, TakeEmpty, TakeFails, Bought,
        CountFails, Use, Put, PutFails, GetKey, KeyFails, ReserveVoucher, ReserveReceipt,
        NothingToReserve, ReserveFails, Send, Receive, Denied, Lose, Fill, Stock, StockFails, Wake,
        Restart

-------------------------------------------------------------------------------
(* The refill loop.                                                        *)

\* The low-water mark is below what the loop stocks.
LEMMA LowWaterType == LowWater \in Nat /\ Batch \in Nat /\ LowWater < Batch
BY WalletAssumption DEF LowWater

\* A buyer that was not about to wake the loop moves, and takes nothing away.
LEMMA RefillMoves ==
    ASSUME RecordOK, NoForgottenRefill, NEW b \in Buyers, NEW step,
           pc' = [pc EXCEPT ![b] = step], pc[b] \notin {"low", "trigger"},
           b = Refill => step # "select" \/ gaveUp',
           pending => pending', gaveUp => gaveUp', Cardinality(stock) <= Cardinality(stock'),
           IsFiniteSet(stock), IsFiniteSet(stock')
    PROVE  NoForgottenRefill'
<1>1. pc'[b] = step /\ \A c \in Buyers : c # b => pc'[c] = pc[c]
  BY DEF RecordOK
<1>2. Refill \in Buyers /\ Requests \subseteq Buyers
  BY DEF Buyers
<1>3. Cardinality(stock) > LowWater => Cardinality(stock') > LowWater
  BY LowWaterType, FS_CardinalityType
<1>4. CASE pc[Refill] # "select"
  BY <1>1, <1>2, <1>4 DEF NoForgottenRefill
<1>5. CASE \E c \in Requests : pc[c] \in {"low", "trigger"}
  BY <1>1, <1>2, <1>5 DEF NoForgottenRefill
<1> QED BY <1>3, <1>4, <1>5 DEF NoForgottenRefill

\* No step of the wallets leaves a low stock without a refill.
LEMMA RefillKept == ASSUME WalletInv, NoForgottenRefill, WalletStep PROVE NoForgottenRefill'
<1> USE DEF WalletInv
<1>1. IsFiniteSet(stock) /\ Cardinality(stock) \in Nat
  BY FiniteEnts, FS_Subset, FS_CardinalityType DEF RecordOK
<1>2. Refill \in Buyers /\ Requests \subseteq Buyers /\ Refill \notin Requests
  BY WalletAssumption DEF Buyers
<1>3. ASSUME NEW b \in Books, Activate(b) \/ ActivateFails(b) PROVE NoForgottenRefill'
  BY <1>3 DEF Activate, ActivateFails, NoForgottenRefill
<1>4. ASSUME NEW b \in Buyers, TakeStocked(b) PROVE NoForgottenRefill'
  <2>1. /\ pc[b] = "idle" /\ b \in Requests
        /\ \/ pc' = [pc EXCEPT ![b] = "low"]
           \/ pc' = [pc EXCEPT ![b] = "trigger"]
           \/ pc' = [pc EXCEPT ![b] = "hold"] /\ ~(Cardinality(stock') <= LowWater)
    BY <1>4 DEF TakeStocked, Remove, To
  <2>2. Cardinality(stock') \in Nat
    <3>1. stock' \subseteq stock
      BY <1>4 DEF TakeStocked, Remove
    <3> QED BY <1>1, <3>1, FS_Subset, FS_CardinalityType
  <2> QED BY <2>1, <2>2, LowWaterType DEF NoForgottenRefill, RecordOK
<1>5. ASSUME NEW b \in Buyers, CheckLow(b) PROVE NoForgottenRefill'
  <2>1. /\ UNCHANGED stock
        /\ \/ pc' = [pc EXCEPT ![b] = "trigger"]
           \/ pc' = [pc EXCEPT ![b] = "hold"] /\ ~(Cardinality(stock) <= LowWater)
    BY <1>5 DEF CheckLow, To
  <2>2. b = Refill \/ b \in Requests
    BY DEF Buyers
  <2> QED BY <1>1, <1>2, <2>1, <2>2, LowWaterType DEF NoForgottenRefill, RecordOK
<1>6. ASSUME NEW b \in Buyers, Trigger(b) PROVE NoForgottenRefill'
  BY <1>6 DEF Trigger, NoForgottenRefill
<1>7. ASSUME NEW b \in Buyers, TakeEmpty(b) \/ Bought(b) \/ Use(b) \/ PutFails(b)
      PROVE  NoForgottenRefill'
  <2>1. PICK step \in Steps \ {"select"} : pc' = [pc EXCEPT ![b] = step]
    BY <1>7 DEF TakeEmpty, Bought, Use, PutFails, To, Steps
  <2>2. pc[b] \notin {"low", "trigger"} /\ UNCHANGED <<pending, gaveUp, stock>>
    BY <1>7 DEF TakeEmpty, Bought, Use, PutFails
  <2>3. Cardinality(stock) <= Cardinality(stock') /\ IsFiniteSet(stock')
    BY <1>1, <2>2
  <2> QED BY <1>1, <2>1, <2>2, <2>3, RefillMoves
<1>8. ASSUME NEW b \in Buyers,
             ReserveVoucher(b) \/ ReserveReceipt(b) \/ Send(b) \/ Receive(b)
      PROVE  NoForgottenRefill'
  <2>1. PICK step \in Steps \ {"select"} : pc' = [pc EXCEPT ![b] = step]
    BY <1>8 DEF ReserveVoucher, ReserveReceipt, Send, Receive, To, Steps
  <2>2. pc[b] \notin {"low", "trigger"} /\ UNCHANGED <<pending, gaveUp, stock>>
    BY <1>8 DEF ReserveVoucher, ReserveReceipt, Send, Receive
  <2>3. Cardinality(stock) <= Cardinality(stock') /\ IsFiniteSet(stock')
    BY <1>1, <2>2
  <2> QED BY <1>1, <2>1, <2>2, <2>3, RefillMoves
<1>9. ASSUME NEW b \in Buyers, GetKey(b) PROVE NoForgottenRefill'
  BY <1>9 DEF GetKey, NoForgottenRefill
<1>10. ASSUME NEW b \in Buyers, Put(b) \/ (Stock /\ b = Refill) PROVE NoForgottenRefill'
  <2>1. pc' = [pc EXCEPT ![b] = "done"] \/ pc' = [pc EXCEPT ![b] = "fill"]
    BY <1>10 DEF Put, Stock, To
  <2>2. pc[b] \in {"hold", "bought"} /\ UNCHANGED <<pending, gaveUp>> /\ stock' = stock \cup {token[b]}
    BY <1>10 DEF Put, Stock
  <2>3. Cardinality(stock) <= Cardinality(stock') /\ IsFiniteSet(stock')
    <3>1. IsFiniteSet(stock') /\ stock \subseteq stock'
      BY <1>1, <2>2, FS_AddElement
    <3> QED BY <3>1, FS_Subset
  <2> QED BY <1>1, <2>1, <2>2, <2>3, RefillMoves
<1>11. ASSUME NEW b \in Buyers,
              \/ CountFails(b) \/ KeyFails(b) \/ NothingToReserve(b) \/ ReserveFails(b)
              \/ Denied(b) \/ Lose(b)
              \/ StockFails /\ b = Refill
       PROVE  NoForgottenRefill'
  <2>1. /\ Fail(b) /\ pc[b] \notin {"low", "trigger"} /\ UNCHANGED pending
        /\ stock' \in {stock, stock \cup {token[b]}}
    BY <1>11 DEF CountFails, KeyFails, NothingToReserve, ReserveFails, Denied, Lose, StockFails, Spoil
  <2>2. PICK step : pc' = [pc EXCEPT ![b] = step]
    BY <2>1 DEF Fail, To
  <2>3. (b = Refill => gaveUp') /\ (gaveUp => gaveUp')
    BY <2>1 DEF Fail
  <2>4. Cardinality(stock) <= Cardinality(stock') /\ IsFiniteSet(stock')
    <3>1. IsFiniteSet(stock') /\ stock \subseteq stock'
      BY <1>1, <2>1, FS_AddElement
    <3> QED BY <3>1, FS_Subset
  <2> QED BY <1>1, <2>1, <2>2, <2>3, <2>4, RefillMoves
<1>12. CASE Fill
  <2>1. /\ UNCHANGED stock
        /\ \/ pc' = [pc EXCEPT ![Refill] = "buy"]
           \/ ~(Cardinality(stock) < Batch)
    BY <1>12 DEF Fill, To
  <2> QED BY <1>1, <1>2, <2>1, LowWaterType DEF NoForgottenRefill, RecordOK
<1>13. CASE Wake
  BY <1>2, <1>13 DEF Wake, To, NoForgottenRefill, RecordOK
<1>14. CASE Restart
  BY <1>2, <1>14 DEF Restart, NoForgottenRefill
<1>15. ASSUME NEW b \in Buyers, TakeFails(b) PROVE NoForgottenRefill'
  <2>1. b # Refill /\ pc[b] = "idle" /\ pc' = [pc EXCEPT ![b] = "failed"] /\ UNCHANGED pending
    BY <1>2, <1>15 DEF TakeFails, To
  <2>2. CASE UNCHANGED <<stock, gaveUp>>
    <3>1. Cardinality(stock) <= Cardinality(stock') /\ IsFiniteSet(stock')
      BY <1>1, <2>2
    <3> QED BY <1>1, <2>1, <2>2, <3>1, RefillMoves
  <2>3. CASE gaveUp' = TRUE
    BY <2>3 DEF NoForgottenRefill
  <2> QED BY <1>15, <2>2, <2>3 DEF TakeFails
<1> QED BY <1>2, <1>3, <1>4, <1>5, <1>6, <1>7, <1>8, <1>9, <1>10, <1>11, <1>12, <1>13, <1>14,
        <1>15 DEF WalletStep

-------------------------------------------------------------------------------
(* The mint and its callers.                                               *)

\* A call that arrives is checked or refused.
LEMMA ArriveStep ==
    ASSUME MintInv, NEW p \in Callers, NEW e \in Ents,
           Arrive(p, e) \/ LookupFails(p, e), UNCHANGED <<claimed, signatures>>
    PROVE  MintInv'
<1> PICK step \in {"checked", "refused"} : call' = [call EXCEPT ![p] = [ent |-> e, step |-> step]]
  BY DEF Arrive, LookupFails
<1> DEFINE k == [ent |-> e, step |-> step]
<1>1. k \in Calls \cup {None} /\ k.step # "claimed"
  BY DEF Calls
<1>2. claimed' \subseteq Ents
  BY DEF MintInv, CallsOK
<1> HIDE DEF k
<1> QED BY <1>1, <1>2, CallStep DEF k

\* A call is over.
LEMMA HangUp ==
    ASSUME MintInv, NEW p \in Callers, call' = [call EXCEPT ![p] = None],
           UNCHANGED <<claimed, signatures>>
    PROVE  MintInv'
<1>1. claimed' \subseteq Ents
  BY DEF MintInv, CallsOK
<1> QED BY <1>1, CallStep

\* What the wallets do signs nothing and keeps the mint's books.
LEMMA MintOfWallets ==
    ASSUME MintInv, WalletInv, WalletStep
    PROVE  MintInv' /\ UNCHANGED signatures
<1>1. Buyers \subseteq Callers
  BY WalletAssumption
<1>2. ASSUME NEW b \in Buyers, Send(b) PROVE MintInv' /\ UNCHANGED signatures
  <2>1. token[b] \in Ents
    BY <1>2 DEF Send, WalletInv, Owned, Active, Midway
  <2>2. UNCHANGED <<claimed, signatures>> /\ (Arrive(b, token[b]) \/ LookupFails(b, token[b]))
    BY <1>2 DEF Send
  <2> QED BY <1>1, <2>1, <2>2, ArriveStep
<1>3. ASSUME NEW b \in Buyers, Receive(b) \/ Denied(b) PROVE MintInv' /\ UNCHANGED signatures
  <2>1. UNCHANGED <<claimed, signatures>> /\ call' = [call EXCEPT ![b] = None]
    BY <1>3 DEF Receive, Denied
  <2> QED BY <1>1, <2>1, HangUp
<1>4. ASSUME UNCHANGED mintVars PROVE MintInv' /\ UNCHANGED signatures
  BY <1>4 DEF mintVars, MintInv, CallsOK, Once, At
<1>5. ASSUME NEW b \in Books, Activate(b) \/ ActivateFails(b) PROVE UNCHANGED mintVars
  BY <1>5 DEF Activate, ActivateFails, mintSide
<1>6. ASSUME NEW b \in Buyers,
             \/ TakeStocked(b) \/ CheckLow(b) \/ Trigger(b) \/ TakeEmpty(b) \/ TakeFails(b)
             \/ Bought(b) \/ CountFails(b) \/ Use(b) \/ Put(b) \/ PutFails(b)
      PROVE  UNCHANGED mintVars
  BY <1>6 DEF TakeStocked, CheckLow, Trigger, TakeEmpty, TakeFails, Bought, CountFails, Use, Put,
      PutFails, mintSide
<1>7. ASSUME NEW b \in Buyers,
             \/ GetKey(b) \/ KeyFails(b) \/ ReserveVoucher(b) \/ ReserveReceipt(b)
             \/ NothingToReserve(b) \/ ReserveFails(b) \/ Lose(b)
      PROVE  UNCHANGED mintVars
  BY <1>7 DEF GetKey, KeyFails, ReserveVoucher, ReserveReceipt, NothingToReserve, ReserveFails, Lose,
      mintSide
<1>8. ASSUME Fill \/ Stock \/ StockFails \/ Wake \/ Restart PROVE UNCHANGED mintVars
  BY <1>8 DEF Fill, Stock, StockFails, Wake, Restart, mintSide
<1> QED BY <1>2, <1>3, <1>4, <1>5, <1>6, <1>7, <1>8 DEF WalletStep

\* The mint's own steps sign for a receipt that was not signed for.
LEMMA MintSteps ==
    ASSUME MintInv, MintStep
    PROVE  MintInv' /\ ((\E e \in Ents : Contract!Sign(e)) \/ UNCHANGED signatures)
<1>1. ASSUME NEW p \in Callers, Claim(p) PROVE MintInv' /\ UNCHANGED signatures
  BY <1>1, ClaimStep DEF Claim
<1>2. ASSUME NEW p \in Callers, ClaimFails(p) PROVE MintInv' /\ UNCHANGED signatures
  <2> DEFINE k == [call[p] EXCEPT !.step = "refused"]
  <2>1. call[p] \in Calls
    BY <1>2 DEF ClaimFails, At, MintInv, CallsOK
  <2>2. k \in Calls /\ k.step = "refused" /\ call[p].ent \in Ents
    BY <2>1 DEF Calls
  <2>3. call' = [call EXCEPT ![p] = k] /\ UNCHANGED signatures
    BY <1>2 DEF ClaimFails, Advance
  <2>4. claimed \subseteq claimed' /\ claimed' \subseteq Ents
    BY <1>2, <2>2 DEF ClaimFails, MintInv, CallsOK
  <2> HIDE DEF k
  <2> QED BY <2>2, <2>3, <2>4, CallStep
<1>3. CASE StopMint
  BY <1>3, StopStep DEF StopMint
<1>4. ASSUME NEW key \in {"pinned", "other"}, StartMint(key) PROVE MintInv' /\ UNCHANGED signatures
  BY <1>4 DEF StartMint, MintInv, CallsOK, Once, At
<1> QED BY <1>1, <1>2, <1>3, <1>4, SignStep DEF MintStep, StopMint

-------------------------------------------------------------------------------
(* The checkout page.                                                      *)

\* The requests of this process are in the order of the clock.
Ordered ==
    /\ recent \in Seq(0..MaxTime)
    /\ \A i \in DOMAIN recent : recent[i] <= now
    /\ \A i, j \in DOMAIN recent : i <= j => recent[i] <= recent[j]

\* The minute counted began with the first of the requests it counted, and
\* fewer than the maximum before them are less than a minute older.
Counted ==
    LET n == Len(recent) IN
    /\ start = None => recent = <<>> /\ used = 0
    /\ start # None =>
        /\ used \in 1..Maximum /\ used <= n /\ recent[n - used + 1] = start
        /\ \A i \in 1..(n - used) : start < recent[i] + Minute => n - used + 1 - i < Maximum

CheckoutInv ==
    /\ now \in 0..MaxTime /\ start \in (0..MaxTime) \cup {None} /\ used \in 0..Maximum
    /\ invoice \in [Invoices -> InvoiceStates]
    /\ Ordered /\ Counted /\ InvoicesBounded

\* What the order of the requests says, in numbers.
LEMMA Numbers ==
    ASSUME CheckoutInv
    PROVE  /\ Len(recent) \in Nat /\ DOMAIN recent = 1..Len(recent) /\ now \in Nat
           /\ \A i \in 1..Len(recent) : recent[i] \in 0..MaxTime /\ recent[i] \in Nat /\ recent[i] <= now
           /\ \A i, j \in 1..Len(recent) : i <= j => recent[i] <= recent[j]
           /\ Maximum \in Nat \ {0} /\ Minute \in Nat \ {0} /\ MaxTime \in Nat
<1> USE DEF CheckoutInv, Ordered
<1>1. Len(recent) \in Nat /\ DOMAIN recent = 1..Len(recent)
  BY LenProperties
<1>2. MaxTime \in Nat /\ now \in Nat /\ Maximum \in Nat \ {0} /\ Minute \in Nat \ {0}
  BY CheckoutAssumption
<1>3. \A i \in 1..Len(recent) : recent[i] \in 0..MaxTime
  BY <1>1, ElementOfSeq
<1>4. \A i \in 1..Len(recent) : recent[i] \in Nat
  BY <1>2, <1>3
<1> QED BY <1>1, <1>2, <1>3, <1>4

\* A request is counted.
LEMMA AllowStep ==
    ASSUME CheckoutInv, Allow, recent' = Append(recent, now), now' = now,
           invoice' \in [Invoices -> InvoiceStates]
    PROVE  CheckoutInv'
<1> PICK n \in Nat : n = Len(recent)
  BY Numbers
<1>n. /\ DOMAIN recent = 1..n /\ now \in Nat /\ now \in 0..MaxTime
      /\ \A i \in 1..n : recent[i] \in 0..MaxTime /\ recent[i] \in Nat /\ recent[i] <= now
      /\ \A i, j \in 1..n : i <= j => recent[i] <= recent[j]
      /\ Maximum \in Nat \ {0} /\ Minute \in Nat \ {0} /\ MaxTime \in Nat
  BY Numbers DEF CheckoutInv
<1>o. /\ recent \in Seq(0..MaxTime) /\ used \in 0..Maximum /\ start \in (0..MaxTime) \cup {None}
      /\ Counted /\ InvoicesBounded
  BY DEF CheckoutInv, Ordered
<1> PICK before \in 0..Maximum :
            /\ before = IF NewMinute THEN 0 ELSE used
            /\ before < Maximum /\ used' = before + 1
            /\ start' = IF NewMinute THEN now ELSE start
  BY <1>n, <1>o DEF Allow
<1>1. /\ Len(recent') = n + 1 /\ DOMAIN recent' = 1..(n + 1) /\ recent'[n + 1] = now
      /\ \A i \in 1..n : recent'[i] = recent[i]
  BY <1>n, <1>o, AppendProperties
<1>2. start' \in 0..MaxTime /\ used' \in 1..Maximum
  BY <1>n, <1>o DEF NewMinute
<1>3. Ordered'
  <2>1. recent' \in Seq(0..MaxTime)
    BY <1>n, <1>o, AppendProperties
  <2>2. \A i \in 1..(n + 1) : recent'[i] <= now
    BY <1>1, <1>n
  <2>3. \A i, j \in 1..(n + 1) : i <= j => recent'[i] <= recent'[j]
    <3> SUFFICES ASSUME NEW i \in 1..(n + 1), NEW j \in 1..(n + 1), i <= j PROVE recent'[i] <= recent'[j]
      OBVIOUS
    <3>1. CASE j = n + 1
      BY <3>1, <1>1, <2>2
    <3>2. CASE j # n + 1
      BY <3>2, <1>1, <1>n
    <3> QED BY <3>1, <3>2
  <2> QED BY <1>1, <2>1, <2>2, <2>3 DEF Ordered
<1>4. start' # None
  BY <1>2, CheckoutAssumption
<1>5. CASE NewMinute
  <2>1. start' = now /\ used' = 1
    BY <1>5
  \* The minute that is over, if there was one, began a minute ago.
  <2>2. \A i \in 1..n : now < recent[i] + Minute => n + 1 - i < Maximum
    <3>1. CASE start = None
      <4>1. Len(recent) = 0
        BY <3>1, <1>o DEF Counted
      <4> QED BY <4>1
    <3>2. CASE start # None
      <4>1. /\ used \in 1..Maximum /\ used <= n /\ recent[n - used + 1] = start
            /\ start \in 0..MaxTime
        BY <3>2, <1>o DEF Counted
      <4>2. start \in Nat /\ start <= now /\ used \in Nat /\ n - used + 1 \in 1..n
        BY <4>1, <1>n
      <4>3. now >= start + Minute
        BY <1>5, <3>2, <4>2, <1>n DEF NewMinute
      <4> SUFFICES ASSUME NEW i \in 1..n, now < recent[i] + Minute PROVE n + 1 - i < Maximum
        OBVIOUS
      <4>4. recent[i] > start
        BY <1>n, <4>2, <4>3
      <4>5. ~(i <= n - used + 1)
        BY <1>n, <4>1, <4>2, <4>4
      <4> QED BY <4>1, <4>2, <4>5, <1>n
    <3> QED BY <3>1, <3>2
  <2>3. Counted'
    <3>1. \A i \in 1..n : now < recent'[i] + Minute => n + 1 - i < Maximum
      BY <2>2, <1>1
    <3> QED BY <3>1, <1>1, <1>2, <1>4, <1>n, <2>1 DEF Counted
  <2>4. InvoicesBounded'
    <3> SUFFICES ASSUME NEW i \in 1..(n + 1), NEW j \in 1..(n + 1), i <= j,
                        recent'[j] < recent'[i] + Minute
                 PROVE  j - i + 1 < 2 * Maximum
      BY <1>1 DEF InvoicesBounded
    <3>1. CASE j = n + 1 /\ i # n + 1
      BY <3>1, <1>1, <1>n, <2>2
    <3>2. CASE j = n + 1 /\ i = n + 1
      BY <3>2, <1>n
    <3>3. CASE j # n + 1
      <4>1. /\ i \in DOMAIN recent /\ j \in DOMAIN recent
            /\ recent'[i] = recent[i] /\ recent'[j] = recent[j]
        BY <3>3, <1>1, <1>n
      <4> QED BY <4>1, <1>o DEF InvoicesBounded
    <3> QED BY <3>1, <3>2, <3>3
  <2> QED BY <1>2, <1>3, <1>n, <2>3, <2>4 DEF CheckoutInv
<1>6. CASE ~NewMinute
  <2>1. start' = start /\ used' = used + 1 /\ used < Maximum /\ start # None
    BY <1>6, <1>o DEF NewMinute
  <2>2. /\ used \in 1..Maximum /\ used <= n /\ recent[n - used + 1] = start
        /\ start \in 0..MaxTime
        /\ \A i \in 1..(n - used) : start < recent[i] + Minute => n - used + 1 - i < Maximum
    BY <2>1, <1>o DEF Counted
  <2>3. start \in Nat /\ start <= now /\ used \in Nat /\ n - used + 1 \in 1..n
    BY <2>2, <1>n
  <2>4. Counted'
    <3> PICK m \in Nat : m = n + 1 /\ m = Len(recent')
      BY <1>1
    <3>1. m - used' = n - used /\ m - used' + 1 \in 1..n /\ used' <= m
      BY <2>1, <2>2, <2>3
    <3>2. recent'[m - used' + 1] = start'
      BY <3>1, <1>1, <2>1, <2>2
    <3>3. ASSUME NEW i \in 1..(m - used'), start' < recent'[i] + Minute
          PROVE  m - used' + 1 - i < Maximum
      <4>1. i \in 1..(n - used) /\ i \in 1..n
        BY <3>1, <2>3
      <4>2. start < recent[i] + Minute
        BY <3>3, <4>1, <1>1, <2>1
      <4> QED BY <3>1, <4>1, <4>2, <2>2
    <3> QED BY <3>1, <3>2, <3>3, <1>2, <1>4 DEF Counted
  <2>5. InvoicesBounded'
    <3> SUFFICES ASSUME NEW i \in 1..(n + 1), NEW j \in 1..(n + 1), i <= j,
                        recent'[j] < recent'[i] + Minute
                 PROVE  j - i + 1 < 2 * Maximum
      BY <1>1 DEF InvoicesBounded
    <3>1. CASE j = n + 1 /\ i \in 1..(n - used)
      <4>1. i \in 1..n /\ recent'[i] = recent[i] /\ recent'[j] = now /\ recent[i] \in Nat
        BY <3>1, <1>1, <1>n, <2>3
      <4>2. start < recent[i] + Minute
        BY <4>1, <1>n, <2>3
      <4>3. n - used + 1 - i < Maximum
        BY <3>1, <4>2, <2>2
      <4> QED BY <3>1, <4>1, <4>3, <2>1, <2>3, <1>n
    <3>2. CASE j = n + 1 /\ i \notin 1..(n - used)
      <4>1. i > n - used
        BY <3>2, <2>3
      <4> QED BY <3>2, <4>1, <2>1, <2>3, <1>n
    <3>3. CASE j # n + 1
      <4>1. /\ i \in DOMAIN recent /\ j \in DOMAIN recent
            /\ recent'[i] = recent[i] /\ recent'[j] = recent[j]
        BY <3>3, <1>1, <1>n
      <4> QED BY <4>1, <1>o DEF InvoicesBounded
    <3> QED BY <3>1, <3>2, <3>3
  <2> QED BY <1>2, <1>3, <1>n, <2>4, <2>5 DEF CheckoutInv
<1> QED BY <1>5, <1>6

\* The clock goes on, or another part of the system does something.
LEMMA ClockStep ==
    ASSUME CheckoutInv, now' \in 0..MaxTime, now <= now', UNCHANGED checkoutVars
    PROVE  CheckoutInv'
<1> USE DEF checkoutVars
<1>1. now' \in Nat
  BY CheckoutAssumption
<1>2. Ordered'
  BY <1>1, Numbers DEF Ordered, CheckoutInv
<1>3. Counted' /\ InvoicesBounded'
  BY DEF Counted, InvoicesBounded, CheckoutInv
<1> QED BY <1>2, <1>3 DEF CheckoutInv

\* The server's process is started again, or an invoice is paid.
LEMMA PageSteps == ASSUME CheckoutInv, CheckoutStep PROVE CheckoutInv'
<1>1. ASSUME NEW i \in Invoices, CreateInvoice(i) PROVE CheckoutInv'
  <2>1. invoice' \in [Invoices -> InvoiceStates]
    BY <1>1 DEF CreateInvoice, CheckoutInv, InvoiceStates
  <2> QED BY <1>1, <2>1, AllowStep DEF CreateInvoice
<1>2. CASE CreateFails
  BY <1>2, AllowStep DEF CreateFails, CheckoutInv
<1>3. CASE RestartCheckout
  BY <1>3, CheckoutAssumption DEF RestartCheckout, CheckoutInv, Ordered, Counted, InvoicesBounded
<1>4. ASSUME NEW i \in Invoices, Settle(i) PROVE CheckoutInv'
  <2>1. invoice' \in [Invoices -> InvoiceStates] /\ UNCHANGED <<now, start, used, recent>>
    BY <1>4 DEF Settle, CheckoutInv, InvoiceStates
  <2> QED BY <2>1 DEF CheckoutInv, Ordered, Counted, InvoicesBounded
<1> QED BY <1>1, <1>2, <1>3, <1>4 DEF CheckoutStep

-------------------------------------------------------------------------------
(* The whole system.                                                       *)

\* The flags and the bounds.
Plain ==
    /\ rail \in {"invite", "btcpay"} /\ mintUp \in BOOLEAN /\ mintKey \in {"pinned", "other"}
    /\ faults \in 0..MaxFaults /\ copies \in 0..MaxCopies /\ skew \in 0..Ahead
    /\ pinned \in BOOLEAN /\ pending \in BOOLEAN /\ gaveUp \in BOOLEAN /\ refusedBook \in BOOLEAN

IInv == WalletInv /\ BookOK /\ NoForgottenRefill /\ MintInv /\ CheckoutInv /\ Plain

LEMMA FaultType == ASSUME faults \in 0..MaxFaults, Fault PROVE faults' \in 0..MaxFaults
BY MintAssumption DEF Fault

\* The flags of the wallets keep their types, whichever step they take.
LEMMA FlagTypes ==
    ASSUME Plain, WalletStep
    PROVE  pinned' \in BOOLEAN /\ pending' \in BOOLEAN /\ gaveUp' \in BOOLEAN /\ refusedBook' \in BOOLEAN
<1> USE DEF Plain
<1>1. ASSUME NEW b, Fail(b) PROVE gaveUp' \in BOOLEAN
  <2>1. (gaveUp \/ b = Refill) \in BOOLEAN
    OBVIOUS
  <2> QED BY <1>1, <2>1 DEF Fail
<1>2. ASSUME NEW b \in Books, Activate(b) PROVE pending' \in BOOLEAN /\ refusedBook' \in BOOLEAN
  <2>1. (refusedBook \/ book = None) \in BOOLEAN
    OBVIOUS
  <2>2. /\ pending' = TRUE \/ pending' = pending
        /\ refusedBook' = refusedBook \/ refusedBook' = (refusedBook \/ book = None)
    BY <1>2 DEF Activate
  <2> QED BY <2>1, <2>2
<1>3. ASSUME NEW b \in Books, Activate(b) PROVE UNCHANGED <<pinned, gaveUp>>
  BY <1>3 DEF Activate
<1>4. ASSUME NEW b \in Buyers,
             \/ TakeStocked(b) \/ CheckLow(b) \/ TakeEmpty(b) \/ Bought(b)
             \/ Use(b) \/ Put(b) \/ PutFails(b) \/ ReserveVoucher(b) \/ ReserveReceipt(b)
             \/ Send(b) \/ Receive(b) \/ Stock
      PROVE  UNCHANGED <<pinned, pending, gaveUp, refusedBook>>
  BY <1>4 DEF TakeStocked, CheckLow, TakeEmpty, Bought, Use, Put, PutFails, ReserveVoucher,
      ReserveReceipt, Send, Receive, Stock
<1>5. ASSUME NEW b \in Buyers,
             \/ CountFails(b) \/ KeyFails(b) \/ NothingToReserve(b) \/ ReserveFails(b)
             \/ Denied(b) \/ Lose(b)
             \/ StockFails /\ b = Refill
      PROVE  Fail(b) /\ UNCHANGED <<pinned, pending, refusedBook>>
  BY <1>5 DEF CountFails, KeyFails, NothingToReserve, ReserveFails, Denied, Lose, StockFails, Spoil
<1>6. ASSUME NEW b \in Buyers, Trigger(b) \/ GetKey(b)
      PROVE  pinned' \in BOOLEAN /\ pending' \in BOOLEAN /\ UNCHANGED <<gaveUp, refusedBook>>
  BY <1>6 DEF Trigger, GetKey
<1>7. CASE Fill \/ Wake \/ Restart
  BY <1>7 DEF Fill, Wake, Restart
<1>8. Refill \in Buyers
  BY DEF Buyers
<1>9. ASSUME NEW b \in Books, ActivateFails(b) PROVE UNCHANGED <<pinned, pending, gaveUp, refusedBook>>
  BY <1>9 DEF ActivateFails
<1>10. ASSUME NEW b \in Buyers, TakeFails(b)
       PROVE  gaveUp' \in {gaveUp, TRUE} /\ UNCHANGED <<pinned, pending, refusedBook>>
  BY <1>10 DEF TakeFails
<1> QED BY <1>1, <1>2, <1>3, <1>4, <1>5, <1>6, <1>7, <1>8, <1>9, <1>10 DEF WalletStep

\* What the wallets do leaves the rail, the mint, the clocks and the page alone.
LEMMA WalletFrame ==
    ASSUME faults \in 0..MaxFaults, WalletStep
    PROVE  UNCHANGED <<rail, mintUp, mintKey, skew, now, checkoutVars>> /\ faults' \in 0..MaxFaults
<1> USE DEF mintSide, mintVars
<1>1. ASSUME NEW b \in Books, Activate(b)
      PROVE  UNCHANGED <<rail, mintUp, mintKey, skew, now, checkoutVars, faults>>
  BY <1>1 DEF Activate
<1>2. ASSUME NEW b \in Buyers,
             \/ TakeStocked(b) \/ CheckLow(b) \/ Trigger(b) \/ TakeEmpty(b) \/ Bought(b)
             \/ Use(b) \/ Put(b) \/ GetKey(b) \/ ReserveVoucher(b) \/ ReserveReceipt(b)
             \/ NothingToReserve(b) \/ Receive(b) \/ Denied(b)
      PROVE  UNCHANGED <<rail, mintUp, mintKey, skew, now, checkoutVars, faults>>
  BY <1>2 DEF TakeStocked, CheckLow, Trigger, TakeEmpty, Bought, Use, Put, GetKey,
      ReserveVoucher, ReserveReceipt, NothingToReserve, Receive, Denied
<1>3. ASSUME NEW b \in Buyers,
             \/ TakeFails(b) \/ CountFails(b) \/ PutFails(b) \/ KeyFails(b) \/ ReserveFails(b)
             \/ Send(b) \/ Lose(b)
      PROVE  UNCHANGED <<rail, mintUp, mintKey, skew, now, checkoutVars>> /\ (UNCHANGED faults \/ Fault)
  BY <1>3 DEF TakeFails, CountFails, PutFails, KeyFails, ReserveFails, Send, Lose, LookupFails,
      TransactionFails
<1>4. CASE Fill \/ Stock \/ StockFails \/ Wake \/ Restart
  BY <1>4, FaultType DEF Fill, Stock, StockFails, Wake, Restart, TransactionFails
<1>5. ASSUME NEW b \in Books, ActivateFails(b)
      PROVE  UNCHANGED <<rail, mintUp, mintKey, skew, now, checkoutVars>> /\ Fault
  BY <1>5 DEF ActivateFails, TransactionFails
<1> QED BY <1>1, <1>2, <1>3, <1>4, <1>5, FaultType DEF WalletStep

LEMMA InitOK == Init => IInv
<1> SUFFICES ASSUME Init PROVE IInv
  OBVIOUS
<1> USE DEF Init, WalletInit, MintInit, CheckoutInit
<1>1. Holding = {} /\ Midway = {} /\ \A b \in Buyers : pc[b] # "send"
  BY DEF Holding, Midway
<1>2. WalletInv
  <2>1. Cardinality({}) = 0
    BY FS_EmptySet
  <2>2. RecordOK
    BY DEF RecordOK, Steps
  <2>3. Owned /\ Fresh /\ Kept /\ NothingLost
    BY <1>1 DEF Owned, Active, Fresh, Kept, NothingLost
  <2> QED BY <2>1, <2>2, <2>3 DEF WalletInv, SpentIsWhatLeft
<1>3. BookOK
  BY DEF BookOK
<1>4. NoForgottenRefill
  BY DEF NoForgottenRefill, Buyers
<1>5. MintInv
  BY DEF MintInv, CallsOK, Once, At
<1>6. CheckoutInv
  <2>1. invoice \in [Invoices -> InvoiceStates]
    BY DEF InvoiceStates
  <2>2. recent = <<>> /\ start = None /\ used = 0 /\ now = 0
    OBVIOUS
  <2> QED BY <2>1, <2>2, CheckoutAssumption DEF CheckoutInv, Ordered, Counted, InvoicesBounded
<1>7. Plain
  <2>1. 0 \in 0..MaxFaults /\ 0 \in 0..MaxCopies
    BY MintAssumption, CopiesAssumption
  <2> QED BY <2>1, Zenon DEF Plain
<1> QED BY <1>2, <1>3, <1>4, <1>5, <1>6, <1>7 DEF IInv

LEMMA StepOK == IInv /\ [Next]_vars => IInv'
<1> SUFFICES ASSUME IInv, [Next]_vars PROVE IInv'
  OBVIOUS
<1> USE DEF IInv
<1>0. now \in 0..MaxTime /\ now \in Nat /\ now <= now
  BY CheckoutAssumption DEF CheckoutInv
<1>1. CASE WalletStep /\ UNCHANGED copies
  <2>1. WalletInv' /\ BookOK' /\ NoForgottenRefill' /\ MintInv'
    BY <1>1, WalletSteps, BookSteps, RefillKept, MintOfWallets
  <2>2. UNCHANGED <<rail, mintUp, mintKey, skew, now, checkoutVars>> /\ faults' \in 0..MaxFaults
    BY <1>1, WalletFrame DEF Plain
  <2>3. CheckoutInv'
    BY <1>0, <2>2, ClockStep
  <2>4. Plain'
    BY <1>1, <2>2, FlagTypes DEF Plain
  <2> QED BY <2>1, <2>3, <2>4
<1>2. ASSUME UNCHANGED walletVars PROVE WalletInv' /\ BookOK' /\ NoForgottenRefill'
  BY <1>2, SameWallet DEF walletVars, BookOK, NoForgottenRefill
<1>3. CASE MintStep /\ UNCHANGED <<walletVars, checkoutVars, now, copies>>
  <2>1. MintInv' /\ CheckoutInv'
    BY <1>0, <1>3, MintSteps, ClockStep
  <2>2. rail' \in {"invite", "btcpay"} /\ mintUp' \in BOOLEAN /\ mintKey' \in {"pinned", "other"}
        /\ faults' \in 0..MaxFaults
    BY <1>3, FaultType DEF Plain, MintStep, Claim, ClaimFails, Sign, StopMint, StartMint
  <2>3. Plain'
    BY <1>3, <2>2 DEF Plain, walletVars
  <2> QED BY <1>2, <1>3, <2>1, <2>3
<1>4. CASE CheckoutStep /\ UNCHANGED <<walletVars, mintVars, faults, copies>>
  <2>1. MintInv'
    BY <1>4 DEF MintInv, CallsOK, Once, At, mintVars
  <2>2. Plain'
    BY <1>4 DEF Plain, walletVars, mintVars
  <2> QED BY <1>2, <1>4, <2>1, <2>2, PageSteps
<1>5. CASE Tick /\ UNCHANGED <<walletVars, mintVars, checkoutVars, faults, copies>>
  <2>1. MintInv'
    BY <1>5 DEF MintInv, CallsOK, Once, At, mintVars
  <2>2. Plain'
    BY <1>5 DEF Plain, walletVars, mintVars
  <2>3. now' \in 0..MaxTime /\ now <= now'
    BY <1>0, <1>5, CheckoutAssumption DEF Tick
  <2> QED BY <1>2, <1>5, <2>1, <2>2, <2>3, ClockStep
<1>6. ASSUME NEW e \in Ents, CopySends(e) PROVE IInv'
  <2>1. MintInv'
    BY <1>6, ArriveStep, WalletAssumption DEF CopySends
  <2>2. UNCHANGED <<walletVars, rail, mintUp, mintKey, checkoutVars, now, faults>>
    BY <1>6 DEF CopySends
  <2>3. Plain'
    BY <1>6, <2>2, CopiesAssumption DEF CopySends, Plain, walletVars
  <2> QED BY <1>0, <1>2, <2>1, <2>2, <2>3, ClockStep
<1>7. ASSUME NEW p \in Callers, Abandoned(p) PROVE IInv'
  <2>1. MintInv'
    BY <1>7, HangUp DEF Abandoned
  <2>2. UNCHANGED <<walletVars, rail, mintUp, mintKey, checkoutVars, now, faults, copies>>
    BY <1>7 DEF Abandoned
  <2>3. Plain'
    BY <2>2 DEF Plain, walletVars
  <2> QED BY <1>0, <1>2, <2>1, <2>2, <2>3, ClockStep
<1>8. CASE UNCHANGED vars
  <2>1. MintInv'
    BY <1>8 DEF MintInv, CallsOK, Once, At, vars, mintVars
  <2>2. Plain' /\ UNCHANGED <<walletVars, checkoutVars, now>>
    BY <1>8 DEF Plain, vars, walletVars, mintVars
  <2> QED BY <1>0, <1>2, <2>1, <2>2, ClockStep
<1> QED BY <1>1, <1>3, <1>4, <1>5, <1>6, <1>7, <1>8 DEF Next

\* The inductive invariant of the system.
THEOREM Invariant == Spec => []IInv
BY InitOK, StepOK, PTL DEF Spec

\* Every variable keeps its type.
LEMMA InvTyped == IInv => TypeOK
<1> SUFFICES ASSUME IInv PROVE TypeOK
  OBVIOUS
<1> USE DEF IInv
<1>1. CheckoutTypeOK
  BY Numbers DEF CheckoutTypeOK, CheckoutInv
<1>2. MintTypeOK
  BY DEF MintTypeOK, MintInv, CallsOK, Once, Plain
<1>3. WalletTypeOK
  BY SpentType DEF WalletTypeOK, WalletInv, RecordOK, BookOK, Plain
<1> QED BY <1>1, <1>2, <1>3 DEF TypeOK, Plain

THEOREM Typed == Spec => []TypeOK
BY Invariant, InvTyped, PTL

\* The detailed system implements the contract of the mint: whoever presents a
\* receipt, at once or again, at most one blind signature is made against it.
THEOREM OneEach == Spec => OneSignature
<1>1. Init => Contract!Init
  BY DEF Init, MintInit, Contract!Init
<1>2. IInv /\ [Next]_vars => [Contract!Next]_signatures
  <2> SUFFICES ASSUME IInv, [Next]_vars PROVE (\E e \in Ents : Contract!Sign(e)) \/ UNCHANGED signatures
    BY DEF Contract!Next
  <2>1. CASE WalletStep
    BY <2>1, MintOfWallets DEF IInv
  <2>2. CASE MintStep
    BY <2>2, MintSteps DEF IInv
  <2>3. ASSUME NEW e \in Ents, CopySends(e) PROVE UNCHANGED signatures
    BY <2>3 DEF CopySends
  <2>4. ASSUME NEW p \in Callers, Abandoned(p) PROVE UNCHANGED signatures
    BY <2>4 DEF Abandoned
  <2>5. ASSUME UNCHANGED mintVars PROVE UNCHANGED signatures
    BY <2>5 DEF mintVars
  <2>6. CASE UNCHANGED vars
    BY <2>6, <2>5 DEF vars
  <2> QED BY <2>1, <2>2, <2>3, <2>4, <2>5, <2>6 DEF Next
<1> QED BY <1>1, <1>2, Invariant, PTL DEF Spec, OneSignature, Contract!Spec

\* A receipt a wallet is about to present was presented by nobody in the life of
\* its record, and no other buyer has it.
LEMMA InvShownOnce == WalletInv => ShownOnce
<1> SUFFICES ASSUME WalletInv, NEW b \in Buyers, pc[b] = "send"
             PROVE  token[b] \notin shown /\ \A c \in Buyers \ {b} : token[c] # token[b]
  BY DEF ShownOnce
<1>1. b \in Active /\ token[b] \in Ents /\ token[b] # None
  BY NoneAssumption DEF WalletInv, Owned, Active, Midway
<1>2. \A c \in Buyers \ {b} : token[c] # token[b]
  BY <1>1 DEF WalletInv, Owned
<1> QED BY <1>2 DEF WalletInv, Fresh

\* A wallet shows no receipt twice.
THEOREM Shown == Spec => []ShownOnce
BY Invariant, InvShownOnce, PTL DEF IInv

\* A reserved receipt is a token, is being bought, or was spoiled.
THEOREM Nothing == Spec => []NothingLost
<1>1. IInv => NothingLost
  BY DEF IInv, WalletInv
<1> QED BY <1>1, Invariant, PTL

\* The counter shown to the user is the number of tokens that left, also after a
\* transaction of Take, Put, count or stock failed, committed or not.
THEOREM SpentExactly == Spec => []SpentIsWhatLeft
<1>1. IInv => SpentIsWhatLeft
  BY DEF IInv, WalletInv
<1> QED BY <1>1, Invariant, PTL

\* A low stock has a refill running, pending or about to be asked for, unless the
\* last one could not buy or a failed transaction of Take took the token.
THEOREM RefillRemembered == Spec => []NoForgottenRefill
BY Invariant, PTL DEF IInv

\* No span shorter than a minute has twice the maximum of invoices.
THEOREM PageBounded == Spec => []InvoicesBounded
<1>1. IInv => InvoicesBounded
  BY DEF IInv, CheckoutInv
<1> QED BY <1>1, Invariant, PTL

-------------------------------------------------------------------------------
(* Invite programs: the arithmetic of slots and epochs.                    *)

\* The seats of a program can be counted.
LEMMA UpTo == ASSUME NEW k \in Nat PROVE IsFiniteSet(1..k) /\ Cardinality(1..k) = k
BY FS_Interval

\* Programs of any size.
AnyProgram == [seats : Nat, perInvite : Nat, perEpoch : Nat, epochLength : Nat, from : Nat, until : Nat]

\* One epoch more is one length more.
LEMMA NextMultiple ==
    ASSUME NEW i \in Nat, NEW j \in Nat, i < j, NEW p \in Nat \ {0}
    PROVE  i * p + p <= j * p /\ i * p \in Nat /\ j * p \in Nat
<1>1. i + 1 \in Nat /\ i + 1 <= j /\ p \in Nat
  OBVIOUS
<1>2. (i + 1) * p <= j * p /\ j * p \in Nat /\ i * p \in Nat
  BY <1>1, Multiples
<1>3. (i + 1) * p = i * p + p
  OBVIOUS
<1> QED BY <1>2, <1>3

\* The slots of an epoch are those whose quotient is its number.
LEMMA SlotEpoch ==
    ASSUME NEW s \in Nat, NEW p \in Nat \ {0}, NEW i \in Nat \ {0}
    PROVE  (s \div p) + 1 = i <=> s \in ((i - 1) * p)..(i * p - 1)
<1> PICK d \in Nat, r \in 0..(p - 1) : d = s \div p /\ d * p + r = s
  BY Divided
<1>1. i - 1 \in Nat /\ (i - 1) * p \in Nat /\ i * p \in Nat /\ d * p \in Nat
  BY Multiples
<1>2. (i - 1) * p + p = i * p
  OBVIOUS
<1>3. CASE d + 1 = i
  <2>1. d = i - 1
    BY <1>3
  <2>2. d * p = (i - 1) * p
    BY <2>1
  <2> QED BY <1>1, <1>2, <1>3, <2>2
<1>4. CASE d + 1 < i
  <2>1. d < i - 1
    BY <1>4
  <2>2. d * p + p <= (i - 1) * p
    BY <1>1, <2>1, NextMultiple
  <2> QED BY <1>1, <1>4, <2>2
<1>5. CASE d + 1 > i
  <2>1. i <= d
    BY <1>5
  <2>2. i * p <= d * p
    BY <2>1, Multiples
  <2> QED BY <1>1, <1>5, <2>2
<1> QED BY <1>3, <1>4, <1>5

\* What the generator's checks mean for a program with epochs.
LEMMA DailyNumbers ==
    ASSUME NEW c \in AnyProgram, ValidProgram(c), Daily(c)
    PROVE  \E q \in Nat \ {0} :
             /\ q = c.perInvite \div c.perEpoch /\ q * c.perEpoch = c.perInvite
             /\ c.until - c.from = q * c.epochLength
             /\ c.perEpoch \in Nat \ {0} /\ c.epochLength \in Nat \ {0}
<1> DEFINE n == c.perInvite  p == c.perEpoch
<1>1. /\ n \in Nat \ {0} /\ p \in Nat \ {0} /\ n % p = 0 /\ c.epochLength \in Nat \ {0}
      /\ c.until - c.from = (n \div p) * c.epochLength
  BY DEF AnyProgram, ValidProgram, EpochsPartition
<1> HIDE DEF n, p
<1> PICK q \in Nat : q = n \div p
  BY <1>1, Divided
<1>2. q * p + (n % p) = n
  BY <1>1, Divided
<1>3. q * p \in Nat
  BY <1>1, Multiples
<1>4. q * p = n
  BY <1>1, <1>2, <1>3
<1>5. q # 0
  BY <1>1, <1>4
<1> QED BY <1>1, <1>4, <1>5 DEF n, p

\* The loop of the generator makes one epoch for each of them.
LEMMA EpochsCounted ==
    ASSUME NEW c \in AnyProgram, NEW q \in Nat \ {0}, Daily(c),
           c.until - c.from = q * c.epochLength, c.epochLength \in Nat \ {0}
    PROVE  EpochCount(c) = q
<1> DEFINE len == c.epochLength
           starts == {i \in 0..(c.until - c.from) : c.from + i * c.epochLength < c.until}
<1>1. len \in Nat \ {0} /\ q * len \in Nat /\ c.from \in Nat /\ c.until \in Nat /\ c.until = c.from + q * len
  BY Multiples DEF AnyProgram
<1>2. ASSUME NEW i \in starts PROVE i \in 0..(q - 1)
  <2>1. i \in Nat /\ c.from + i * len < c.until
    BY <1>1
  <2>2. i * len \in Nat /\ i * len < q * len
    BY <1>1, <2>1, Multiples
  <2>3. CASE q <= i
    BY <1>1, <2>1, <2>2, <2>3, Multiples
  <2> QED BY <2>1, <2>3
<1>3. ASSUME NEW i \in 0..(q - 1) PROVE i \in starts
  <2>1. i \in Nat /\ i < q
    OBVIOUS
  <2>2. i * len + len <= q * len /\ i * len \in Nat
    BY <1>1, <2>1, NextMultiple
  <2>3. i * 1 <= i * len
    <3>1. PICK d \in Nat : len = 1 + d
      <4>1. len - 1 \in Nat /\ len = 1 + (len - 1)
        BY <1>1
      <4> QED BY <4>1
    <3>2. i * len = i + i * d /\ i * d \in Nat
      BY <3>1, <2>1, Multiples
    <3> QED BY <3>2, <2>1
  <2>4. i \in 0..(c.until - c.from)
    BY <1>1, <2>1, <2>2, <2>3
  <2> QED BY <1>1, <2>2, <2>4
<1> HIDE DEF len, starts
<1>4. starts = 0..(q - 1)
  BY <1>2, <1>3 DEF starts
<1>5. Cardinality(0..(q - 1)) = q
  BY FS_Interval
<1> QED BY <1>4, <1>5 DEF EpochCount, starts

\* The epochs follow one another from the start of the program to its end.
LEMMA EpochsFollow ==
    ASSUME NEW c \in AnyProgram, NEW q \in Nat \ {0}, EpochCount(c) = q,
           c.until - c.from = q * c.epochLength, c.epochLength \in Nat \ {0}
    PROVE  /\ DOMAIN Epochs(c) = 1..q /\ Len(Epochs(c)) = q
           /\ \A i \in 1..q :
                /\ Epochs(c)[i].from = IF i = 1 THEN c.from ELSE Epochs(c)[i - 1].until
                /\ Epochs(c)[i].from < Epochs(c)[i].until /\ Epochs(c)[i].until <= c.until
           /\ Epochs(c)[q].until = c.until
<1> DEFINE len == c.epochLength
<1>1. DOMAIN Epochs(c) = 1..q /\ Len(Epochs(c)) = q
  BY EpochCountType DEF AnyProgram
<1>2. \A i \in 1..q :
        Epochs(c)[i].from = c.from + (i - 1) * len /\ Epochs(c)[i].until = c.from + i * len
  BY DEF Epochs, Window
<1>3. len \in Nat \ {0} /\ q * len \in Nat /\ c.from \in Nat /\ c.until = c.from + q * len
  BY Multiples DEF AnyProgram
<1> HIDE DEF len
<1>4. ASSUME NEW i \in 1..q
      PROVE  /\ Epochs(c)[i].from = IF i = 1 THEN c.from ELSE Epochs(c)[i - 1].until
             /\ Epochs(c)[i].from < Epochs(c)[i].until /\ Epochs(c)[i].until <= c.until
  <2>1. i \in Nat /\ i - 1 \in Nat /\ i <= q /\ i - 1 < i
    OBVIOUS
  <2>2. (i - 1) * len + len <= i * len /\ (i - 1) * len \in Nat /\ i * len \in Nat
    BY <1>3, <2>1, NextMultiple
  <2>3. i * len <= q * len
    BY <1>3, <2>1, Multiples
  <2>4. Epochs(c)[i].from = c.from + (i - 1) * len /\ Epochs(c)[i].until = c.from + i * len
    BY <1>2
  <2>5. Epochs(c)[i].from = IF i = 1 THEN c.from ELSE Epochs(c)[i - 1].until
    <3>1. CASE i = 1
      <4>1. (i - 1) * len = 0
        BY <3>1, <1>3
      <4> QED BY <3>1, <4>1, <2>4, <1>3
    <3>2. CASE i # 1
      <4>1. i - 1 \in 1..q
        BY <3>2
      <4>2. Epochs(c)[i - 1].until = c.from + (i - 1) * len
        BY <4>1, <1>2
      <4> QED BY <3>2, <4>2, <2>4
    <3> QED BY <3>1, <3>2
  <2> QED BY <1>3, <2>2, <2>3, <2>4, <2>5
<1>5. Epochs(c)[q].until = c.until
  <2>1. q \in 1..q
    OBVIOUS
  <2> QED BY <1>2, <1>3, <2>1
<1> QED BY <1>1, <1>4, <1>5

\* Every slot has its epoch in the manifest, and the epoch of a slot is the one
\* that starts with as many slots before it.
LEMMA EpochsOfSlots ==
    ASSUME NEW c \in AnyProgram, NEW q \in Nat \ {0}, q * c.perEpoch = c.perInvite,
           c.perEpoch \in Nat \ {0}
    PROVE  /\ \A s \in Slots(c) : EpochOfSlot(c, s) + 1 \in 1..q
           /\ \A s \in Slots(c), i \in 1..q :
                EpochOfSlot(c, s) + 1 = i <=> s \in ((i - 1) * c.perEpoch)..(i * c.perEpoch - 1)
           /\ \A i \in 1..q : ((i - 1) * c.perEpoch)..(i * c.perEpoch - 1) \subseteq Slots(c)
<1> DEFINE p == c.perEpoch
<1>1. p \in Nat \ {0} /\ q * p \in Nat /\ q * p = c.perInvite
  BY Multiples
<1>2. Slots(c) = 0..(q * p - 1) /\ Slots(c) \subseteq Nat
  BY <1>1 DEF Slots
<1> HIDE DEF p
<1>3. \A s \in Slots(c) : EpochOfSlot(c, s) = s \div p
  BY DEF EpochOfSlot, p
<1>4. ASSUME NEW s \in Slots(c) PROVE (s \div p) + 1 \in 1..q
  <2> PICK d \in Nat, r \in 0..(p - 1) : d = s \div p /\ d * p + r = s
    BY <1>1, <1>2, Divided
  <2>0. d * p \in Nat
    BY <1>1, Multiples
  <2>1. d * p < q * p
    <3>1. s < q * p /\ s \in Nat
      BY <1>1, <1>2
    <3> QED BY <2>0, <3>1, <1>1
  <2>2. CASE q <= d
    BY <1>1, <2>0, <2>1, <2>2, Multiples
  <2> QED BY <2>1, <2>2
<1>5. ASSUME NEW s \in Slots(c), NEW i \in 1..q
      PROVE  (s \div p) + 1 = i <=> s \in ((i - 1) * p)..(i * p - 1)
  <2>1. s \in Nat /\ i \in Nat \ {0}
    BY <1>2
  <2> QED BY <1>1, <2>1, SlotEpoch
<1>6. ASSUME NEW i \in 1..q PROVE ((i - 1) * p)..(i * p - 1) \subseteq Slots(c)
  <2>1. i \in Nat /\ i - 1 \in Nat /\ i <= q
    OBVIOUS
  <2>2. i * p \in Nat /\ i * p <= q * p /\ (i - 1) * p \in Nat
    BY <1>1, <2>1, Multiples
  <2> QED BY <1>1, <1>2, <2>2
<1> QED BY <1>3, <1>4, <1>5, <1>6 DEF p

\* What the generator's checks mean for any program.
LEMMA ProgramNumbers ==
    ASSUME NEW c \in AnyProgram, ValidProgram(c)
    PROVE  /\ c.seats \in Nat \ {0} /\ c.perInvite \in 1..MaxVouchers
           /\ c.from \in Nat /\ c.until \in Nat /\ c.from < c.until
           /\ c.perEpoch \in Nat /\ c.epochLength \in Nat
<1>1. /\ c.seats \in Nat \ {0} /\ c.perInvite \in Nat \ {0} /\ c.perInvite <= MaxVouchers
      /\ c.from \in Nat /\ c.until \in Nat /\ c.from < c.until
      /\ c.perEpoch \in Nat /\ c.epochLength \in Nat
  BY DEF AnyProgram, ValidProgram
<1> QED BY <1>1, InvitesAssumption

\* A program the generator accepts gives a manifest the mint loads: its epochs
\* follow one another and cover the program, each with as many fingerprints of
\* every seat as the mint counts.
THEOREM ManifestLoads ==
    ASSUME NEW c \in AnyProgram, ValidProgram(c)
    PROVE  ValidManifest(c)
<1>1. CASE ~Daily(c)
  BY <1>1 DEF ValidManifest
<1>2. CASE Daily(c)
  <2> PICK q \in Nat \ {0} :
             /\ q = c.perInvite \div c.perEpoch /\ q * c.perEpoch = c.perInvite
             /\ c.until - c.from = q * c.epochLength
             /\ c.perEpoch \in Nat \ {0} /\ c.epochLength \in Nat \ {0}
    BY <1>2, DailyNumbers
  <2> DEFINE p == c.perEpoch
             offered(i) == ((i - 1) * p)..(i * p - 1)
  <2>1. EpochCount(c) = q
    BY <1>2, EpochsCounted
  <2>2. /\ DOMAIN Epochs(c) = 1..q /\ Len(Epochs(c)) = q
        /\ \A i \in 1..q :
             /\ Epochs(c)[i].from = IF i = 1 THEN c.from ELSE Epochs(c)[i - 1].until
             /\ Epochs(c)[i].from < Epochs(c)[i].until /\ Epochs(c)[i].until <= c.until
        /\ Epochs(c)[q].until = c.until
    BY <2>1, EpochsFollow
  <2>3. /\ \A s \in Slots(c), i \in 1..q : EpochOfSlot(c, s) + 1 = i <=> s \in offered(i)
        /\ \A i \in 1..q : offered(i) \subseteq Slots(c)
    BY EpochsOfSlots
  <2>4. DOMAIN Manifest(c) = (1..c.seats) \X Slots(c)
    BY DEF Manifest
  <2>5. ASSUME NEW i \in 1..q
        PROVE  Cardinality({v \in DOMAIN Manifest(c) : EpochOfSlot(c, v[2]) + 1 = i}) = c.seats * c.perEpoch
    <3>1. {v \in DOMAIN Manifest(c) : EpochOfSlot(c, v[2]) + 1 = i} = (1..c.seats) \X offered(i)
      <4> HIDE DEF offered
      <4> QED BY <2>3, <2>4
    <3>2. IsFiniteSet(offered(i)) /\ Cardinality(offered(i)) = p
      <4>1. p \in Nat \ {0} /\ i \in Nat /\ i - 1 \in Nat /\ i - 1 < i
        OBVIOUS
      <4>2. (i - 1) * p + p <= i * p /\ (i - 1) * p \in Nat /\ i * p \in Nat
        BY <4>1, NextMultiple
      <4>3. (i - 1) * p + p = i * p
        BY <4>1
      <4> HIDE DEF p
      <4>4. IsFiniteSet(offered(i)) /\ Cardinality(offered(i)) = (i * p - 1) - (i - 1) * p + 1
        <5> PICK lo \in Nat, hi \in Int : lo = (i - 1) * p /\ hi = i * p - 1 /\ lo <= hi
          BY <4>1, <4>2
        <5>1. IsFiniteSet(lo..hi) /\ Cardinality(lo..hi) = hi - lo + 1
          BY FS_Interval
        <5> QED BY <5>1 DEF offered
      <4> QED BY <4>1, <4>2, <4>3, <4>4
    <3>3. IsFiniteSet(1..c.seats) /\ Cardinality(1..c.seats) = c.seats
      BY ProgramNumbers, UpTo
    <3> HIDE DEF offered
    <3> QED BY <3>1, <3>2, <3>3, FS_Product DEF p
  <2> QED BY <2>1, <2>2, <2>5 DEF ValidManifest
<1> QED BY <1>1, <1>2

\* A book the generator writes can be activated exactly when its program has one
\* fixed window: whatever its numbers, no daily program has a book that imports.
THEOREM GeneratedImports ==
    ASSUME NEW c \in AnyProgram, ValidProgram(c), NEW seat
    PROVE  ParsesBook(GeneratedBook(c, seat)) <=> ~Daily(c)
<1> DEFINE b == GeneratedBook(c, seat)
<1>1. /\ b.schema = 1 /\ b.perEpoch = c.perEpoch /\ b.count = c.perInvite /\ b.epochs = Epochs(c)
      /\ b.from = c.from /\ b.until = c.until
  BY DEF GeneratedBook
<1> HIDE DEF b
<1>2. CASE ~Daily(c)
  <2>1. Epochs(c) = <<>>
    <3>1. EpochCount(c) = 0
      BY <1>2 DEF EpochCount
    <3>2. Epochs(c) \in [1..0 -> {}] /\ <<>> \in [1..0 -> {}]
      BY <3>1 DEF Epochs
    <3> QED BY <3>2
  <2>2. c.perEpoch = 0
    BY <1>2 DEF Daily
  <2>3. ParsesBook(b)
    BY <1>1, <2>1, <2>2, ProgramNumbers DEF ParsesBook
  <2> QED BY <1>2, <2>3 DEF b
<1>3. CASE Daily(c)
  <2>1. b.perEpoch # 0
    BY <1>1, <1>3, ProgramNumbers DEF ValidProgram
  <2>2. ~ParsesBook(b)
    BY <1>1, <2>1 DEF ParsesBook
  <2> QED BY <1>3, <2>2 DEF b
<1> QED BY <1>2, <1>3

\* A book that can be activated and the manifest read the clock alike, whichever
\* of the two kinds the program is of.
LEMMA BookReads ==
    ASSUME NEW c \in AnyProgram, ValidProgram(c), NEW seat \in 1..c.seats,
           NEW b \in {GeneratedBook(c, seat), HandmadeBook(c, seat)}, ParsesBook(b), NEW t
    PROVE  CurrentSlots(b, t) = {s \in Slots(c) : Accepts(c, <<seat, s>>, t)}
<1>1. /\ b.schema \in {1, 2} /\ b.perEpoch = c.perEpoch /\ b.count = c.perInvite
      /\ b.epochs = Epochs(c) /\ b.from = c.from /\ b.until = c.until
  BY DEF HandmadeBook, GeneratedBook
<1>2. b.schema = 1 <=> b.perEpoch = 0
  BY <1>1, ProgramNumbers DEF ParsesBook
<1>3. Daily(c) <=> c.perEpoch # 0
  BY ProgramNumbers DEF Daily, ValidProgram
<1>4. CASE ~Daily(c)
  <2>1. CurrentSlots(b, t) = {s \in Slots(c) : Inside(Window(c, c.from, c.until), t)}
    BY <1>1, <1>2, <1>3, <1>4 DEF CurrentSlots, Slots, Window
  <2>2. \A s \in Slots(c) : Accepts(c, <<seat, s>>, t) <=> Inside(Window(c, c.from, c.until), t)
    BY <1>4 DEF Accepts, Manifest
  <2> QED BY <2>1, <2>2
<1>5. CASE Daily(c)
  <2> PICK q \in Nat \ {0} :
             /\ q = c.perInvite \div c.perEpoch /\ q * c.perEpoch = c.perInvite
             /\ c.until - c.from = q * c.epochLength
             /\ c.perEpoch \in Nat \ {0} /\ c.epochLength \in Nat \ {0}
    BY <1>5, DailyNumbers
  <2> DEFINE offered(i) == ((i - 1) * c.perEpoch)..(i * c.perEpoch - 1)
  <2>1. DOMAIN Epochs(c) = 1..q
    BY <1>5, EpochsCounted, EpochsFollow
  <2>2. /\ \A s \in Slots(c) : EpochOfSlot(c, s) + 1 \in 1..q
        /\ \A s \in Slots(c), i \in 1..q : EpochOfSlot(c, s) + 1 = i <=> s \in offered(i)
        /\ \A i \in 1..q : offered(i) \subseteq Slots(c)
    BY EpochsOfSlots
  <2>3. \A s \in Slots(c) : Accepts(c, <<seat, s>>, t) <=> Inside(Epochs(c)[EpochOfSlot(c, s) + 1], t)
    BY <1>5 DEF Accepts, Manifest
  <2>4. CurrentSlots(b, t) = UNION {offered(i) : i \in {j \in 1..q : Inside(Epochs(c)[j], t)}}
    BY <1>1, <1>2, <1>3, <1>5, <2>1 DEF CurrentSlots
  <2> HIDE DEF offered
  <2>5. ASSUME NEW s \in CurrentSlots(b, t) PROVE s \in Slots(c) /\ Accepts(c, <<seat, s>>, t)
    <3>1. PICK i \in 1..q : Inside(Epochs(c)[i], t) /\ s \in offered(i)
      BY <2>4
    <3> QED BY <2>2, <2>3, <3>1
  <2>6. ASSUME NEW s \in Slots(c), Accepts(c, <<seat, s>>, t) PROVE s \in CurrentSlots(b, t)
    <3>1. PICK i \in 1..q : i = EpochOfSlot(c, s) + 1 /\ s \in offered(i)
      BY <2>2
    <3>2. Inside(Epochs(c)[i], t)
      BY <2>3, <2>6, <3>1
    <3> QED BY <2>4, <3>1, <3>2
  <2> QED BY <2>5, <2>6
<1> QED BY <1>4, <1>5

\* For every program the generator accepts, at every moment of every run, the
\* wallet offers exactly the vouchers left that the mint would accept.
THEOREM Offered ==
    ASSUME ValidProgram(Program)
    PROVE  Spec => []OffersAccepted
<1>1. IInv => OffersAccepted
  <2> SUFFICES ASSUME IInv, book # None, NEW s \in Slots(Program)
               PROVE  s \in OpenSlots <=> /\ <<book.seat, s>> \notin reserved
                                         /\ Accepts(Program, <<book.seat, s>>, now + skew)
    BY DEF OffersAccepted
  <2>1. book \in Books /\ ParsesBook(book)
    BY DEF IInv, BookOK
  <2> PICK seat \in 1..Program.seats :
             book \in {GeneratedBook(Program, seat), HandmadeBook(Program, seat)}
    BY <2>1, BooksAssumption
  <2>2. book.seat = seat
    BY DEF GeneratedBook, HandmadeBook
  <2>3. CurrentSlots(book, now + skew) = {x \in Slots(Program) : Accepts(Program, <<seat, x>>, now + skew)}
    BY <2>1, ProgramAssumption, BookReads DEF AnyProgram
  <2> QED BY <2>2, <2>3 DEF OpenSlots
<1> QED BY <1>1, Invariant, PTL
===============================================================================
