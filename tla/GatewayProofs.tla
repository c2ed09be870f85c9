----------------------------- MODULE GatewayProofs ----------------------------
(***************************************************************************)
(* Proofs about the gateway: Budget, for any number of requests and        *)
(* ceilings, windows and limits of any size, and any behaviour of the      *)
(* clock; the arithmetic of Pricing, for words and units of any size;      *)
(* Translation, for streams of any length and any lines; and Admission,    *)
(* for requests and configurations of any size.                            *)
(***************************************************************************)
EXTENDS Budget, Pricing, Translation, Admission, FiniteSetTheorems, TLAPS

\* The units a set of requests asks for, each the request and a number.
Shares(S) == UNION {{r} \X (1..Weight[r]) : r \in S}

\* What is charged to the ceilings of a request, by where its handler is.
Charges ==
    \A r \in Requests :
        /\ pc[r] = "new" => \A c \in 1..Ceilings : charge[r][c] = 0
        /\ pc[r] \in {"commit", "unwind"} => at[r] \in 1..Ceilings
        /\ pc[r] = "commit" =>
            /\ start[r] # 0
            /\ \A c \in 1..Ceilings : charge[r][c] = 0 <=> c >= at[r]
        /\ pc[r] = "unwind" => \A c \in 1..Ceilings :
            /\ c <= at[r] => charge[r][c] # 0
            /\ c > at[r] /\ charge[r][c] # 0 => <<r, c>> \in stuck
        /\ pc[r] \in {"held", "sent"} => \A c \in 1..Ceilings : charge[r][c] # 0
        /\ pc[r] = "refused" => \A c \in 1..Ceilings : charge[r][c] # 0 => <<r, c>> \in stuck

\* As long as no transaction committed for an older window, nobody is charged in
\* a window after the recorded one.
NoneAhead ==
    \A c \in (1..Ceilings) \ late : \A r \in Requests : charge[r][c] <= record[c].start

\* Only finitely many requests have been charged so far.
Finite == \A c \in 1..Ceilings, w \in Nat : IsFiniteSet(Charged(c, w))

\* The ceilings, of every window there ever was.
Limits == \A c \in (1..Ceilings) \ late : \A w \in Nat : WithinLimits(c, w)

IInv == TypeOK /\ Charges /\ NoneAhead /\ Finite /\ CountersAreExact /\ Limits

-------------------------------------------------------------------------------
(* Units of sets of requests.                                              *)

LEMMA SharesOf == \A S : Units(S) = Cardinality(Shares(S))
BY DEF Units, Shares

\* The units of one request.
LEMMA OneShare ==
    ASSUME NEW r \in Requests
    PROVE  IsFiniteSet(Shares({r})) /\ Units({r}) = Weight[r]
<1>1. Weight[r] \in Nat /\ Weight[r] >= 1
  BY WeightAssumption
<1>2. IsFiniteSet({r}) /\ Cardinality({r}) = 1
  BY FS_Singleton
<1>3. IsFiniteSet(1..Weight[r]) /\ Cardinality(1..Weight[r]) = Weight[r]
  BY <1>1, FS_Interval
<1>4. Shares({r}) = {r} \X (1..Weight[r])
  BY DEF Shares
<1>5. IsFiniteSet({r} \X (1..Weight[r])) /\ Cardinality({r} \X (1..Weight[r])) = 1 * Weight[r]
  BY <1>2, <1>3, FS_Product
<1>6. 1 * Weight[r] = Weight[r]
  BY <1>1
<1> QED BY <1>1, <1>4, <1>5, <1>6, SharesOf

\* A finite set of requests asks for finitely many units.
LEMMA FiniteShares ==
    ASSUME NEW S \in SUBSET Requests, IsFiniteSet(S)
    PROVE  IsFiniteSet(Shares(S)) /\ Units(S) \in Nat
<1> DEFINE T == {{r} \X (1..Weight[r]) : r \in S}
           f == [r \in S |-> {r} \X (1..Weight[r])]
<1>1. f \in Surjection(S, T)
  BY DEF Surjection
<1>2. IsFiniteSet(T)
  BY <1>1, FS_Surjection
<1>3. ASSUME NEW r \in S PROVE IsFiniteSet({r} \X (1..Weight[r]))
  BY OneShare DEF Shares
<1>4. IsFiniteSet(UNION T)
  BY <1>2, <1>3, FS_UNION
<1> QED BY <1>4, SharesOf, FS_CardinalityType DEF Shares

\* Another request adds its units.
LEMMA AddUnits ==
    ASSUME NEW S \in SUBSET Requests, IsFiniteSet(S), NEW r \in Requests \ S
    PROVE  Units(S \cup {r}) = Units(S) + Weight[r]
<1>1. Shares(S \cup {r}) = Shares(S) \cup Shares({r})
  BY DEF Shares
<1>2. Shares(S) \cap Shares({r}) = {}
  BY DEF Shares
<1>3. IsFiniteSet(Shares(S)) /\ Units(S) \in Nat
  BY FiniteShares
<1>4. IsFiniteSet(Shares({r})) /\ Units({r}) = Weight[r] /\ Weight[r] \in Nat
  BY OneShare, WeightAssumption
<1>5. Units(S \cup {r}) = Units(S) + Units({r}) - Cardinality(Shares(S) \cap Shares({r}))
  BY <1>1, <1>3, <1>4, FS_Union, SharesOf
<1>6. Cardinality(Shares(S) \cap Shares({r})) = 0
  BY <1>2, FS_EmptySet
<1> QED BY <1>3, <1>4, <1>5, <1>6

\* Fewer requests ask for no more.
LEMMA FewerUnits ==
    ASSUME NEW S \in SUBSET Requests, IsFiniteSet(S), NEW T \in SUBSET S
    PROVE  /\ IsFiniteSet(T) /\ Cardinality(T) <= Cardinality(S)
           /\ Units(T) <= Units(S)
<1>1. Shares(T) \subseteq Shares(S)
  BY DEF Shares
<1>2. IsFiniteSet(Shares(S))
  BY FiniteShares
<1> QED BY <1>1, <1>2, FS_Subset, SharesOf

\* Nobody asks for nothing.
LEMMA NoUnits == IsFiniteSet({}) /\ Cardinality({}) = 0 /\ Units({}) = 0
<1>1. Shares({}) = {}
  BY DEF Shares
<1> QED BY <1>1, SharesOf, FS_EmptySet

\* The constants are numbers.
LEMMA CeilingsNat == Ceilings \in Nat /\ Ceilings >= 1
BY CeilingsAssumption

LEMMA WeightNat == \A r \in Requests : Weight[r] \in Nat /\ Weight[r] >= 1
BY WeightAssumption

LEMMA LimitsNat == \A c \in 1..Ceilings : MaxRequests[c] \in Nat /\ MaxUnits[c] \in Nat
BY LimitsAssumption

LEMMA BoundsNat == MaxNow \in Nat /\ MaxFaults \in Nat
BY LimitsAssumption

\* Windows are numbered from one.
LEMMA WindowType == ASSUME TypeOK, NEW c \in 1..Ceilings PROVE Window(c) \in Nat /\ Window(c) # 0
<1>1. now \in Nat
  BY BoundsNat DEF TypeOK
<1>2. Length[c] \in Nat /\ Length[c] > 0
  BY LengthAssumption
<1>3. now \div Length[c] \in Nat
  BY <1>1, <1>2
<1> QED BY <1>3 DEF Window

\* What the record of a ceiling holds.
Records == [start : Nat, requests : Nat, units : Nat]

-------------------------------------------------------------------------------
\* The steps of a request keep the types.
LEMMA TypedStep == ASSUME TypeOK, Charges, NEW r \in Requests, Step(r) PROVE TypeOK'
<1>0. /\ at \in [Requests -> 0..Ceilings] /\ pc \in [Requests -> Labels]
      /\ pc[r] \in {"commit", "unwind"} => at[r] \in 1..Ceilings
  BY DEF TypeOK, Charges
<1>1. CASE Reserve(r)
  <2>0. Window(1) \in Nat
    BY CeilingsNat, WindowType
  <2>1. at' \in [Requests -> 0..Ceilings] /\ start' \in [Requests -> Nat]
    BY <1>1, <2>0, CeilingsNat DEF Reserve, ReadClock, TypeOK
  <2> QED BY <1>1, <2>1 DEF Reserve, ReadClock, TypeOK, Goto, Labels
<1>2. CASE Admit(r)
  <2> DEFINE c == at[r]
             w == start[r]
  <2>1. c \in 1..Ceilings /\ w \in Nat
    BY <1>0, <1>2 DEF Admit, TypeOK
  <2>2. Counters(c, w) \in Records
    BY <2>1 DEF Counters, TypeOK, Records
  <2>3. record' \in [1..Ceilings -> Records]
    <3> DEFINE new == [start |-> w, requests |-> Counters(c, w).requests + 1,
                       units |-> Counters(c, w).units + Weight[r]]
    <3>1. new \in Records
      BY <2>1, <2>2, WeightNat DEF Records
    <3>2. record' = [record EXCEPT ![c] = new]
      BY <1>2 DEF Admit
    <3> QED BY <2>1, <3>1, <3>2 DEF TypeOK, Records
  <2>4. charge' \in [Requests -> [1..Ceilings -> Nat]] /\ late' \subseteq 1..Ceilings
    BY <1>2, <2>1 DEF Admit, TypeOK
  <2>5. at' \in [Requests -> 0..Ceilings]
    BY <1>0, <1>2, <2>1, CeilingsNat DEF Admit, ReadClock
  <2>6. start' \in [Requests -> Nat]
    <3>1. c < Ceilings => Window(c + 1) \in Nat
      BY <2>1, WindowType, CeilingsNat
    <3> QED BY <1>2, <3>1 DEF Admit, ReadClock, TypeOK
  <2>7. pc' \in [Requests -> Labels]
    BY <1>0, <1>2 DEF Admit, ReadClock, Goto, Labels
  <2> QED BY <1>2, <2>3, <2>4, <2>5, <2>6, <2>7 DEF Admit, TypeOK, Records
<1>3. CASE Refuse(r) \/ ReserveFails(r)
  <2>1. at' \in [Requests -> 0..Ceilings]
    BY <1>0, <1>3, CeilingsNat DEF Refuse, ReserveFails
  <2>2. faults' \in 0..MaxFaults
    BY <1>3, BoundsNat DEF Refuse, ReserveFails, TypeOK, Fault
  <2> QED BY <1>3, <2>1, <2>2 DEF Refuse, ReserveFails, TypeOK, Goto, Labels
<1>4. CASE Send(r) \/ Undo(r)
  <2>1. at' \in [Requests -> 0..Ceilings]
    BY <1>0, <1>4, CeilingsNat DEF Send, Undo
  <2> QED BY <1>4, <2>1 DEF Send, Undo, TypeOK, Goto, Labels
<1>5. CASE Release(r)
  <2> DEFINE c == at[r]
  <2>1. c \in 1..Ceilings /\ at' \in [Requests -> 0..Ceilings]
    BY <1>0, <1>5, CeilingsNat DEF Release, NextRelease
  <2>2. record' \in [1..Ceilings -> Records]
    BY <1>5, <2>1, WeightNat DEF Release, Short, TypeOK, Records
  <2>3. charge' \in [Requests -> [1..Ceilings -> Nat]]
    BY <1>5, <2>1 DEF Release, TypeOK
  <2> QED BY <1>5, <2>1, <2>2, <2>3 DEF Release, NextRelease, TypeOK, Goto, Labels, Records
<1>6. CASE ReleaseFails(r)
  <2>1. at[r] \in 1..Ceilings /\ at' \in [Requests -> 0..Ceilings]
    BY <1>0, <1>6, CeilingsNat DEF ReleaseFails, NextRelease
  <2>2. stuck' \subseteq Requests \X (1..Ceilings)
    BY <1>6, <2>1 DEF ReleaseFails, TypeOK
  <2> QED BY <1>6, <2>1, <2>2, BoundsNat DEF ReleaseFails, NextRelease, TypeOK, Goto, Labels, Fault
<1> QED BY <1>1, <1>2, <1>3, <1>4, <1>5, <1>6 DEF Step

\* A request takes its ceilings in order and gives them back in reverse.
LEMMA ChargesStep == ASSUME TypeOK, Charges, NEW r \in Requests, Step(r) PROVE Charges'
<1> DEFINE Fine(q) ==
        /\ pc[q] = "new" => \A c \in 1..Ceilings : charge[q][c] = 0
        /\ pc[q] \in {"commit", "unwind"} => at[q] \in 1..Ceilings
        /\ pc[q] = "commit" =>
            /\ start[q] # 0
            /\ \A c \in 1..Ceilings : charge[q][c] = 0 <=> c >= at[q]
        /\ pc[q] = "unwind" => \A c \in 1..Ceilings :
            /\ c <= at[q] => charge[q][c] # 0
            /\ c > at[q] /\ charge[q][c] # 0 => <<q, c>> \in stuck
        /\ pc[q] \in {"held", "sent"} => \A c \in 1..Ceilings : charge[q][c] # 0
        /\ pc[q] = "refused" => \A c \in 1..Ceilings : charge[q][c] # 0 => <<q, c>> \in stuck
<1>1. \A q \in Requests : Fine(q)
  BY DEF Charges
<1>2. ASSUME NEW q \in Requests \ {r} PROVE Fine(q)'
  <2>1. /\ pc'[q] = pc[q] /\ at'[q] = at[q] /\ start'[q] = start[q] /\ charge'[q] = charge[q]
        /\ stuck \subseteq stuck'
    BY DEF Step, Reserve, Admit, ReadClock, Refuse, ReserveFails, Send, Undo, Release,
       ReleaseFails, NextRelease, Goto, TypeOK
  <2> QED BY <1>1, <2>1
<1>3. Fine(r)'
  <2>0. /\ Fine(r)
        /\ pc \in [Requests -> Labels] /\ at \in [Requests -> 0..Ceilings]
        /\ start \in [Requests -> Nat] /\ charge \in [Requests -> [1..Ceilings -> Nat]]
    BY <1>1 DEF TypeOK
  <2>1. CASE Reserve(r)
    <3>1. Window(1) # 0
      BY WindowType, CeilingsNat
    <3> QED BY <2>0, <2>1, <3>1, CeilingsNat DEF Reserve, ReadClock, Goto
  <2>2. CASE Admit(r)
    <3>1. at[r] < Ceilings => Window(at[r] + 1) # 0
      BY <2>0, <2>2, WindowType, CeilingsNat DEF Admit
    <3> QED BY <2>0, <2>2, <3>1, CeilingsNat DEF Admit, ReadClock, Goto
  <2>3. CASE Refuse(r)
    BY <2>0, <2>3, CeilingsNat DEF Refuse, Goto
  <2>4. CASE ReserveFails(r)
    BY <2>0, <2>4, CeilingsNat DEF ReserveFails, Goto
  <2>5. CASE Send(r)
    BY <2>0, <2>5 DEF Send, Goto
  <2>6. CASE Undo(r)
    BY <2>0, <2>6, CeilingsNat DEF Undo, Goto
  <2>7. CASE Release(r)
    BY <2>0, <2>7, CeilingsNat DEF Release, NextRelease, Goto
  <2>8. CASE ReleaseFails(r)
    BY <2>0, <2>8, CeilingsNat DEF ReleaseFails, NextRelease, Goto
  <2> QED BY <2>1, <2>2, <2>3, <2>4, <2>5, <2>6, <2>7, <2>8 DEF Step
<1> QED BY <1>2, <1>3 DEF Charges

-------------------------------------------------------------------------------
\* The counters a transaction starts from are those of the requests charged to its
\* window, unless it comes too late.
LEMMA CountersExact ==
    ASSUME TypeOK, NoneAhead, CountersAreExact, NEW c \in (1..Ceilings) \ late,
           NEW w \in Nat, w >= record[c].start
    PROVE  /\ Counters(c, w).requests = Cardinality(Charged(c, w))
           /\ Counters(c, w).units = Units(Charged(c, w))
<1>1. CASE w = record[c].start
  BY <1>1 DEF Counters, CountersAreExact
<1>2. CASE w > record[c].start
  <2>1. ASSUME NEW r \in Requests PROVE charge[r][c] # w
    <3>1. charge[r][c] \in Nat /\ record[c].start \in Nat /\ charge[r][c] <= record[c].start
      BY DEF NoneAhead, TypeOK
    <3> QED BY <1>2, <3>1
  <2>2. Charged(c, w) = {}
    BY <2>1 DEF Charged
  <2>3. record[c].start # w
    BY <1>2 DEF TypeOK
  <2> QED BY <2>2, <2>3, NoUnits DEF Counters
<1>3. record[c].start \in Nat
  BY DEF TypeOK
<1> QED BY <1>1, <1>2, <1>3

\* A window with one more request charged.
LEMMA Another ==
    ASSUME NEW S \in SUBSET Requests, IsFiniteSet(S), NEW r \in Requests \ S
    PROVE  /\ IsFiniteSet(S \cup {r})
           /\ Cardinality(S) \in Nat /\ Cardinality(S \cup {r}) = Cardinality(S) + 1
           /\ Units(S) \in Nat /\ Units(S \cup {r}) = Units(S) + Weight[r]
BY FS_AddElement, FS_CardinalityType, AddUnits, FiniteShares

\* The transaction of Reserve charges the window it counts.
LEMMA AdmitStep == ASSUME IInv, NEW r \in Requests, Admit(r)
                   PROVE  NoneAhead' /\ Finite' /\ CountersAreExact' /\ Limits'
<1>1. PICK c \in 1..Ceilings, w \in Nat :
        /\ c = at[r] /\ w = start[r] /\ w # 0 /\ charge[r][c] = 0
        /\ charge \in [Requests -> [1..Ceilings -> Nat]]
  <2>1. /\ at[r] \in 1..Ceilings /\ start[r] # 0
        /\ \A d \in 1..Ceilings : charge[r][d] = 0 <=> d >= at[r]
    BY DEF IInv, Charges, Admit
  <2>2. start[r] \in Nat /\ charge \in [Requests -> [1..Ceilings -> Nat]]
    BY DEF IInv, TypeOK
  <2>3. at[r] >= at[r]
    BY <2>1
  <2> QED BY <2>1, <2>2, <2>3
<1> DEFINE S == Charged(c, w)
<1>2. /\ charge' = [charge EXCEPT ![r][c] = w]
      /\ record' = [record EXCEPT ![c] =
                      [start |-> w, requests |-> Counters(c, w).requests + 1,
                       units |-> Counters(c, w).units + Weight[r]]]
      /\ late' = IF w < record[c].start THEN late \cup {c} ELSE late
      /\ Fits(c, w, Weight[r])
  BY <1>1 DEF Admit
<1>0. \A q \in Requests, d \in 1..Ceilings :
        charge'[q][d] = IF q = r /\ d = c THEN w ELSE charge[q][d]
  BY <1>1, <1>2
<1>3. S \in SUBSET Requests /\ IsFiniteSet(S) /\ r \in Requests \ S
  BY <1>1 DEF IInv, Finite, Charged
<1>4. Charged(c, w)' = S \cup {r}
  BY <1>0, <1>1 DEF Charged
<1>5. ASSUME NEW d \in 1..Ceilings, NEW v \in Nat, d # c \/ v # w
      PROVE  Charged(d, v)' = Charged(d, v)
  BY <1>0, <1>1, <1>5 DEF Charged
<1>6. Finite'
  <2>1. IsFiniteSet(S \cup {r})
    BY <1>3, Another
  <2>2. ASSUME NEW d \in 1..Ceilings, NEW v \in Nat PROVE IsFiniteSet(Charged(d, v)')
    BY <1>4, <1>5, <2>1 DEF IInv, Finite
  <2> QED BY <2>2 DEF Finite, Charged
<1>7. ASSUME NEW d \in (1..Ceilings) \ late', d # c
      PROVE  /\ d \in (1..Ceilings) \ late /\ record'[d] = record[d]
             /\ \A q \in Requests : charge'[q][d] = charge[q][d]
             /\ \A v \in Nat : Charged(d, v)' = Charged(d, v)
  BY <1>1, <1>2, <1>5, <1>7 DEF IInv, TypeOK
<1>8. ASSUME c \notin late'
      PROVE  /\ c \in (1..Ceilings) \ late /\ w >= record[c].start /\ record[c].start \in Nat
             /\ record'[c].start = w
             /\ record'[c].requests = Cardinality(S) + 1
             /\ record'[c].units = Units(S) + Weight[r]
             /\ Cardinality(S) + 1 <= MaxRequests[c] /\ Units(S) + Weight[r] <= MaxUnits[c]
  <2>1. c \in (1..Ceilings) \ late /\ w >= record[c].start /\ record[c].start \in Nat
    BY <1>1, <1>2, <1>8 DEF IInv, TypeOK
  <2>2. Counters(c, w).requests = Cardinality(S) /\ Counters(c, w).units = Units(S)
    BY <1>1, <2>1, CountersExact DEF IInv
  <2>3. Cardinality(S) \in Nat /\ MaxRequests[c] \in Nat
    BY <1>1, <1>3, Another, LimitsNat
  <2> QED BY <1>1, <1>2, <2>1, <2>2, <2>3 DEF Fits, IInv, TypeOK
<1>9. NoneAhead'
  <2> SUFFICES ASSUME NEW d \in (1..Ceilings) \ late', NEW q \in Requests
               PROVE  charge'[q][d] <= record'[d].start
    BY DEF NoneAhead
  <2>1. CASE d = c
    <3>1. charge[q][c] \in Nat /\ charge[q][c] <= record[c].start
      BY <1>1, <1>8, <2>1 DEF IInv, NoneAhead
    <3>2. charge'[q][c] \in {charge[q][c], w}
      BY <1>1, <1>2
    <3> QED BY <1>1, <1>8, <2>1, <3>1, <3>2
  <2> QED BY <1>7, <2>1 DEF IInv, NoneAhead
<1>10. CountersAreExact'
  <2> SUFFICES ASSUME NEW d \in (1..Ceilings) \ late'
               PROVE  /\ record'[d].requests = Cardinality(Charged(d, record[d].start)')
                      /\ record'[d].units = Units(Charged(d, record[d].start)')
    BY DEF CountersAreExact
  <2>1. CASE d = c
    <3>1. Charged(d, record[d].start)' = S \cup {r}
      <4>1. record[d].start' = w
        BY <1>8, <2>1
      <4> QED BY <1>4, <2>1, <4>1
    <3> QED BY <1>3, <1>8, <2>1, <3>1, Another
  <2>2. CASE d # c
    <3>1. Charged(d, record[d].start)' = Charged(d, record[d].start)
      BY <1>7, <2>2 DEF Charged, IInv, TypeOK
    <3> QED BY <1>7, <2>2, <3>1 DEF IInv, CountersAreExact
  <2> QED BY <2>1, <2>2
<1>11. Limits'
  <2> SUFFICES ASSUME NEW d \in (1..Ceilings) \ late', NEW v \in Nat
               PROVE  /\ Cardinality(Charged(d, v)') <= MaxRequests[d]
                      /\ Units(Charged(d, v)') <= MaxUnits[d]
    BY DEF Limits, WithinLimits, Units
  <2>1. CASE d = c /\ v = w
    <3>1. Cardinality(S \cup {r}) = Cardinality(S) + 1 /\ Units(S \cup {r}) = Units(S) + Weight[r]
      BY <1>3, Another
    <3> QED BY <1>4, <1>8, <2>1, <3>1
  <2>2. CASE d # c \/ v # w
    <3>1. d \in (1..Ceilings) \ late
      BY <1>7, <1>8
    <3> QED BY <1>5, <2>2, <3>1 DEF IInv, Limits, WithinLimits
  <2> QED BY <2>1, <2>2
<1> QED BY <1>6, <1>9, <1>10, <1>11

\* A release gives back what the request took, if the window is still counted.
LEMMA ReleaseStep == ASSUME IInv, NEW r \in Requests, Release(r)
                     PROVE  NoneAhead' /\ Finite' /\ CountersAreExact' /\ Limits'
<1>1. PICK c \in 1..Ceilings, w \in Nat :
        /\ c = at[r] /\ w = charge[r][c] /\ w # 0
        /\ charge \in [Requests -> [1..Ceilings -> Nat]]
  <2>1. at[r] \in 1..Ceilings /\ \A d \in 1..Ceilings : d <= at[r] => charge[r][d] # 0
    BY DEF IInv, Charges, Release
  <2>2. charge \in [Requests -> [1..Ceilings -> Nat]]
    BY DEF IInv, TypeOK
  <2>3. at[r] <= at[r]
    BY <2>1
  <2> QED BY <2>1, <2>2, <2>3
<1> DEFINE S == Charged(c, w)
           T == S \ {r}
<1>2. /\ charge' = [charge EXCEPT ![r][c] = 0]
      /\ record' = IF SameWindow(r, c)
                   THEN [record EXCEPT ![c] = [start |-> @.start, requests |-> @.requests - 1,
                                               units |-> @.units - Weight[r]]]
                   ELSE record
      /\ late' = late
  BY <1>1 DEF Release
<1>0. \A q \in Requests, d \in 1..Ceilings :
        charge'[q][d] = IF q = r /\ d = c THEN 0 ELSE charge[q][d]
  BY <1>1, <1>2
<1>3. /\ S \in SUBSET Requests /\ IsFiniteSet(S) /\ r \in S
      /\ T \in SUBSET Requests /\ IsFiniteSet(T) /\ r \in Requests \ T /\ S = T \cup {r}
  <2>1. S \in SUBSET Requests /\ IsFiniteSet(S) /\ r \in S
    BY <1>1 DEF IInv, Finite, Charged
  <2> QED BY <2>1, FS_Subset
<1>4. Charged(c, w)' = T
  BY <1>0, <1>1 DEF Charged
<1> HIDE DEF T
<1>5. ASSUME NEW d \in 1..Ceilings, NEW v \in Nat, d # c \/ v # w
      PROVE  Charged(d, v)' = Charged(d, v)
  BY <1>0, <1>1, <1>5 DEF Charged
<1>6. Finite'
  <2>1. ASSUME NEW d \in 1..Ceilings, NEW v \in Nat PROVE IsFiniteSet(Charged(d, v)')
    BY <1>3, <1>4, <1>5 DEF IInv, Finite
  <2> QED BY <2>1 DEF Finite, Charged
<1>7. ASSUME NEW d \in 1..Ceilings
      PROVE  /\ record'[d].start = record[d].start /\ record[d].start \in Nat
             /\ d # c \/ ~SameWindow(r, c) => record'[d] = record[d]
             /\ \A q \in Requests : charge'[q][d] \in {charge[q][d], 0}
  BY <1>1, <1>2 DEF IInv, TypeOK
<1>8. NoneAhead'
  BY <1>1, <1>2, <1>7 DEF IInv, NoneAhead
<1>9. CountersAreExact'
  <2> SUFFICES ASSUME NEW d \in (1..Ceilings) \ late
               PROVE  /\ record'[d].requests = Cardinality(Charged(d, record[d].start)')
                      /\ record'[d].units = Units(Charged(d, record[d].start)')
    BY <1>2 DEF CountersAreExact
  <2>1. /\ record[d].requests = Cardinality(Charged(d, record[d].start))
        /\ record[d].units = Units(Charged(d, record[d].start))
    BY DEF IInv, CountersAreExact
  <2>2. CASE d = c /\ SameWindow(r, c)
    <3>1. Charged(d, record[d].start)' = T /\ Charged(d, record[d].start) = T \cup {r}
      <4>1. record[d].start' = w /\ record[d].start = w
        BY <1>1, <1>7, <2>2 DEF SameWindow
      <4> QED BY <1>3, <1>4, <2>2, <4>1
    <3>2. record'[d].requests = record[d].requests - 1 /\ record'[d].units = record[d].units - Weight[r]
      BY <1>2, <2>2 DEF IInv, TypeOK
    <3>3. /\ Cardinality(T) \in Nat /\ Cardinality(T \cup {r}) = Cardinality(T) + 1
          /\ Units(T) \in Nat /\ Units(T \cup {r}) = Units(T) + Weight[r] /\ Weight[r] \in Nat
      BY <1>3, Another, WeightNat
    <3>4. record[d].requests = Cardinality(T) + 1 /\ record[d].units = Units(T) + Weight[r]
      BY <2>1, <3>1, <3>3
    <3>5. record'[d].requests = Cardinality(T) /\ record'[d].units = Units(T)
      BY <3>2, <3>3, <3>4
    <3> QED BY <3>1, <3>5
  <2>3. CASE d # c \/ ~SameWindow(r, c)
    <3>1. Charged(d, record[d].start)' = Charged(d, record[d].start)
      BY <1>1, <1>5, <1>7, <2>3 DEF SameWindow
    <3> QED BY <1>7, <2>1, <2>3, <3>1
  <2> QED BY <2>2, <2>3
<1>10. Limits'
  <2> SUFFICES ASSUME NEW d \in (1..Ceilings) \ late, NEW v \in Nat
               PROVE  /\ Cardinality(Charged(d, v)') <= MaxRequests[d]
                      /\ Units(Charged(d, v)') <= MaxUnits[d]
    BY <1>2 DEF Limits, WithinLimits, Units
  <2>1. /\ Cardinality(Charged(d, v)) <= MaxRequests[d] /\ Units(Charged(d, v)) <= MaxUnits[d]
        /\ MaxRequests[d] \in Nat /\ MaxUnits[d] \in Nat
    BY LimitsNat DEF IInv, Limits, WithinLimits
  <2>2. CASE d = c /\ v = w
    <3>1. /\ Cardinality(T) \in Nat /\ Cardinality(S) = Cardinality(T) + 1
          /\ Units(T) \in Nat /\ Units(S) = Units(T) + Weight[r] /\ Weight[r] \in Nat
      BY <1>3, Another, WeightNat
    <3> QED BY <1>4, <2>1, <2>2, <3>1
  <2>3. CASE d # c \/ v # w
    BY <1>5, <2>1, <2>3
  <2> QED BY <2>2, <2>3
<1> QED BY <1>6, <1>8, <1>9, <1>10

\* The other steps charge nobody and release nothing.
LEMMA OtherStep ==
    ASSUME IInv, UNCHANGED <<record, charge, late>>
    PROVE  NoneAhead' /\ Finite' /\ CountersAreExact' /\ Limits'
<1>1. \A c \in 1..Ceilings, w \in Nat : Charged(c, w)' = Charged(c, w)
  BY DEF Charged
<1>2. NoneAhead' /\ Finite'
  BY DEF IInv, NoneAhead, Finite, Charged
<1>3. CountersAreExact' /\ Limits'
  BY DEF IInv, CountersAreExact, Limits, WithinLimits, Charged, Units
<1> QED BY <1>2, <1>3

\* What the records of the ceilings have to do with the requests in flight, after
\* any refusal, failure, release, crash or jump of the clock, as long as no
\* transaction committed for a window older than the recorded one.
THEOREM Invariant == Spec => []IInv
<1>1. Init => IInv
  <2> SUFFICES ASSUME Init PROVE IInv
    OBVIOUS
  <2>1. TypeOK
    BY BoundsNat, CeilingsNat DEF Init, TypeOK, Labels
  <2>2. \A c \in 1..Ceilings, w \in Nat : Charged(c, w) = {}
    BY DEF Init, Charged
  <2>3. Charges /\ NoneAhead
    BY DEF Init, Charges, NoneAhead
  <2>4. Finite /\ Limits
    <3>1. Finite
      BY <2>2, NoUnits DEF Finite
    <3>2. ASSUME NEW c \in 1..Ceilings, NEW w \in Nat PROVE WithinLimits(c, w)
      <4>1. Cardinality(Charged(c, w)) = 0 /\ Units(Charged(c, w)) = 0
        BY <2>2, NoUnits
      <4>2. MaxRequests[c] \in Nat /\ MaxUnits[c] \in Nat
        BY LimitsNat
      <4> QED BY <4>1, <4>2 DEF WithinLimits
    <3> QED BY <3>1, <3>2 DEF Limits
  <2>5. CountersAreExact
    BY <2>2, NoUnits DEF CountersAreExact, Init
  <2> QED BY <2>1, <2>3, <2>4, <2>5 DEF IInv
<1>2. IInv /\ [Next]_vars => IInv'
  <2> SUFFICES ASSUME IInv, [Next]_vars PROVE IInv'
    OBVIOUS
  <2>1. ASSUME NEW r \in Requests, Step(r) PROVE IInv'
    <3>1. TypeOK' /\ Charges'
      BY <2>1, TypedStep, ChargesStep DEF IInv
    <3>2. CASE Admit(r) \/ Release(r)
      BY <3>1, <3>2, AdmitStep, ReleaseStep DEF IInv
    <3>3. CASE UNCHANGED <<record, charge, late>>
      BY <3>1, <3>3, OtherStep DEF IInv
    <3> QED BY <2>1, <3>2, <3>3 DEF Step, Reserve, Refuse, ReserveFails, Send, Undo, ReleaseFails
  <2>2. CASE Crash \/ Tick \/ ClockBack \/ UNCHANGED vars
    <3> USE DEF IInv
    <3>a. TypeOK
      OBVIOUS
    <3>b. now' \in 0..MaxNow /\ faults' \in 0..MaxFaults
      BY <2>2, <3>a, BoundsNat DEF TypeOK, Crash, Tick, ClockBack, vars, Fault
    <3>c. pc' \in [Requests -> Labels]
      BY <2>2, <3>a DEF TypeOK, Labels, Crash, Tick, ClockBack, vars
    <3>d. UNCHANGED <<record, at, start, charge, late, stuck>>
      BY <2>2 DEF Crash, Tick, ClockBack, vars
    <3>1. TypeOK'
      BY <3>a, <3>b, <3>c, <3>d DEF TypeOK
    <3>2. Charges'
      BY <2>2 DEF IInv, TypeOK, Charges, Crash, Tick, ClockBack, vars
    <3>3. UNCHANGED <<record, charge, late>>
      BY <2>2 DEF Crash, Tick, ClockBack, vars
    <3> QED BY <3>1, <3>2, <3>3, OtherStep DEF IInv
  <2> QED BY <2>1, <2>2 DEF Next
<1> QED BY <1>1, <1>2, PTL DEF Spec

\* Type correctness.
THEOREM Typed == Spec => []TypeOK
<1>1. IInv => TypeOK
  BY DEF IInv
<1> QED BY <1>1, Invariant, PTL

-------------------------------------------------------------------------------
\* The requests charged to a window of a ceiling stay within its limits, whatever
\* the order of their transactions, as long as none of them commits for a window
\* older than the recorded one (FileBudget.Reserve; the finding says what happens
\* then).
THEOREM CeilingKept == Spec => []CeilingHolds
<1>1. IInv => CeilingHolds
  BY BoundsNat DEF IInv, Limits, CeilingHolds, Windows
<1> QED BY <1>1, Invariant, PTL

\* The record of the current window counts the requests charged to it and no other
\* (Reserve and Release of FileBudget, composed by MultiBudget).
THEOREM CountersExactly == Spec => []CountersAreExact
<1>1. IInv => CountersAreExact
  BY DEF IInv
<1> QED BY <1>1, Invariant, PTL

\* A request is charged on every ceiling or on none, unless a release failed
\* (MultiBudget.Reserve and Release).
THEOREM AllOrNone == Spec => []AllOrNothing
<1>1. IInv => AllOrNothing
  BY DEF IInv, Charges, AllOrNothing
<1> QED BY <1>1, Invariant, PTL

-------------------------------------------------------------------------------
(* Prices (Pricing).                                                       *)

LEMMA Divided ==
    ASSUME NEW n \in Nat, NEW p \in Nat \ {0}
    PROVE  n \div p \in Nat /\ n % p \in 0..(p - 1) /\ (n \div p) * p + (n % p) = n
<1>1. n \div p \in Nat
  OBVIOUS
<1>2. n % p \in 0..(p - 1)
  OBVIOUS
<1>3. (n \div p) * p + (n % p) = n
  OBVIOUS
<1> QED BY <1>1, <1>2, <1>3

LEMMA Multiples ==
    ASSUME NEW i \in Nat, NEW q \in Nat, i <= q, NEW p \in Nat
    PROVE  i * p \in Nat /\ q * p \in Nat /\ i * p <= q * p
<1>1. PICK d \in Nat : q = i + d
  <2>1. q - i \in Nat /\ q = i + (q - i)
    OBVIOUS
  <2> QED BY <2>1
<1>2. q * p = i * p + d * p
  BY <1>1
<1>3. d * p \in Nat /\ i * p \in Nat
  OBVIOUS
<1> QED BY <1>2, <1>3

LEMMA NextMultiple ==
    ASSUME NEW q \in Nat, NEW p \in Nat
    PROVE  q * p \in Nat /\ (q + 1) * p = q * p + p
OBVIOUS

\* The least whole number of divisors that covers a product, if it is a word;
\* otherwise the product is refused (ceilMulDiv).
LEMMA RoundsUp ==
    ASSUME NEW left \in Nat, NEW right \in Nat, NEW divisor \in Nat \ {0}
    PROVE  \/ /\ CeilMulDiv(left, right, divisor) \in 0..(Word - 1)
              /\ left * right <= CeilMulDiv(left, right, divisor) * divisor
              /\ CeilMulDiv(left, right, divisor) * divisor < left * right + divisor
           \/ /\ CeilMulDiv(left, right, divisor) = Overflow
              /\ \A m \in 0..(Word - 1) : m * divisor < left * right
<1>1. Word \in Nat \ {0}
  BY PricingAssumption
<1>2. PICK p \in Nat : p = left * right
  OBVIOUS
<1>3. PICK hi \in Nat, lo \in 0..(Word - 1) : hi = p \div Word /\ lo = p % Word /\ hi * Word + lo = p
  BY <1>1, Divided
<1>4. PICK q \in Nat, r \in 0..(divisor - 1) : q = p \div divisor /\ r = p % divisor /\ q * divisor + r = p
  BY Divided
<1> PICK up \in {0, 1} : up = IF r = 0 THEN 0 ELSE 1
  OBVIOUS
<1>5. CeilMulDiv(left, right, divisor) = IF hi >= divisor \/ q + up = Word THEN Overflow ELSE q + up
  <2>1. CeilMulDiv(left, right, divisor) =
          IF divisor = 0 \/ p \div Word >= divisor
             \/ (((p \div Word) * Word + (p % Word)) \div divisor)
                  + (IF ((p \div Word) * Word + (p % Word)) % divisor = 0 THEN 0 ELSE 1) = Word
          THEN Overflow
          ELSE (((p \div Word) * Word + (p % Word)) \div divisor)
                 + (IF ((p \div Word) * Word + (p % Word)) % divisor = 0 THEN 0 ELSE 1)
    BY <1>2 DEF CeilMulDiv
  <2>2. (p \div Word) * Word + (p % Word) = p
    BY <1>3
  <2>3. CeilMulDiv(left, right, divisor) =
          IF divisor = 0 \/ p \div Word >= divisor \/ (p \div divisor) + (IF p % divisor = 0 THEN 0 ELSE 1) = Word
          THEN Overflow ELSE (p \div divisor) + (IF p % divisor = 0 THEN 0 ELSE 1)
    BY <2>1, <2>2
  <2> QED BY <2>3, <1>3, <1>4
<1>6. /\ q * divisor \in Nat /\ (q + 1) * divisor = q * divisor + divisor
      /\ (q + 0) * divisor = q * divisor
  BY NextMultiple
<1>7. CASE hi >= divisor
  <2>1. divisor * Word <= hi * Word /\ divisor * Word \in Nat
    BY <1>1, <1>7, Multiples
  <2>2. divisor * Word <= p
    BY <2>1, <1>3, <1>1
  <2>3. ASSUME NEW m \in 0..(Word - 1)
        PROVE  m * divisor < left * right
    <3>1. (m + 1) * divisor <= Word * divisor /\ m * divisor \in Nat /\ (m + 1) * divisor = m * divisor + divisor
      BY <1>1, Multiples, NextMultiple
    <3>2. Word * divisor = divisor * Word
      BY <1>1
    <3>3. m * divisor + divisor <= p
      BY <3>1, <3>2, <2>1, <2>2
    <3>4. m * divisor < p
      BY <3>1, <3>3
    <3> QED BY <3>4, <1>2
  <2> QED BY <2>3, <1>5, <1>7
<1>8. CASE ~(hi >= divisor)
  <2>1. q <= Word - 1
    <3>1. (hi + 1) * Word <= divisor * Word /\ (hi + 1) * Word = hi * Word + Word /\ hi * Word \in Nat
          /\ divisor * Word \in Nat
      BY <1>1, <1>8, Multiples, NextMultiple
    <3>2. p < divisor * Word
      BY <3>1, <1>1, <1>3
    <3>3. SUFFICES ASSUME q >= Word PROVE FALSE
      BY <1>1
    <3>4. Word * divisor <= q * divisor /\ Word * divisor = divisor * Word
      BY <3>3, <1>1, Multiples
    <3> QED BY <3>1, <3>2, <3>4, <1>4, <1>6
  <2>2. p <= (q + up) * divisor /\ (q + up) * divisor < p + divisor
    <3>1. CASE r = 0
      BY <3>1, <1>4, <1>6
    <3>2. CASE r # 0
      BY <3>2, <1>4, <1>6
    <3> QED BY <3>1, <3>2
  <2>3. CASE q + up = Word
    <3>1. up = 1 /\ q = Word - 1 /\ r # 0
      BY <2>1, <2>3, <1>1
    <3>2. ASSUME NEW m \in 0..(Word - 1)
          PROVE  m * divisor < left * right
      <4>1. m * divisor <= q * divisor /\ m * divisor \in Nat
        BY <3>1, <1>1, Multiples
      <4>2. m * divisor < p
        BY <4>1, <3>1, <1>4, <1>6
      <4> QED BY <4>2, <1>2
    <3> QED BY <3>2, <2>3, <1>5
  <2>4. CASE q + up # Word
    <3>1. q + up \in 0..(Word - 1)
      BY <2>1, <2>4, <1>1
    <3>2. CeilMulDiv(left, right, divisor) = q + up
      BY <2>4, <1>5, <1>8
    <3> QED BY <3>1, <3>2, <2>2, <1>2
  <2> QED BY <2>3, <2>4
<1> QED BY <1>7, <1>8

LEMMA Sums ==
    ASSUME NEW x \in Nat, NEW y \in Nat, NEW p \in Nat
    PROVE  (x + y) * p = x * p + y * p /\ x * p \in Nat /\ y * p \in Nat
OBVIOUS

\* A multiple that is not a whole one beyond is the least.
LEMMA Least ==
    ASSUME NEW n \in Nat, NEW p \in Nat \ {0}, NEW q \in Nat, NEW x \in Nat,
           q * p < n + p, n <= x * p
    PROVE  q <= x
<1>1. SUFFICES ASSUME x + 1 <= q PROVE FALSE
  OBVIOUS
<1>2. (x + 1) * p <= q * p /\ q * p \in Nat /\ (x + 1) * p = x * p + p /\ x * p \in Nat
  BY <1>1, Multiples, NextMultiple
<1> QED BY <1>2

\* What a request is charged is a word; it covers the price of its bytes, the
\* padding and every token it may be answered, by less than two parts too much;
\* and it is refused only when no word would cover it (EstimateCostMicros).
Exact(bytes, tokens, rates) == (bytes + Padding) * rates.input + tokens * rates.output

THEOREM CostCovers ==
    ASSUME NEW bytes \in Nat, NEW tokens \in Nat, NEW rates \in [input : Nat, output : Nat]
    PROVE  LET cost == EstimateCost(bytes, tokens, rates)
           IN  /\ cost \in (0..(Word - 1)) \cup {Overflow}
               /\ ~Priced(rates) => cost = 0
               /\ Priced(rates) /\ cost # Overflow =>
                    /\ Exact(bytes, tokens, rates) <= cost * PerUnit
                    /\ cost * PerUnit < Exact(bytes, tokens, rates) + 2 * PerUnit
               /\ cost = Overflow =>
                    \/ bytes + Padding > Word - 1
                    \/ \A x, y \in Nat :
                          /\ (bytes + Padding) * rates.input <= x * PerUnit
                          /\ tokens * rates.output <= y * PerUnit
                          => x + y > Word - 1
<1>0. Word \in Nat \ {0} /\ Padding \in Nat /\ PerUnit \in Nat \ {0}
  BY PricingAssumption DEF PerUnit
<1> PICK unit \in Nat \ {0} : unit = PerUnit
  BY <1>0
<1> PICK a \in Nat : a = bytes + Padding
  BY <1>0
<1> PICK u \in Nat, v \in Nat : u = rates.input /\ v = rates.output
  OBVIOUS
<1> PICK cost : cost = EstimateCost(bytes, tokens, rates)
  OBVIOUS
<1> PICK input, output : input = CeilMulDiv(a, u, unit) /\ output = CeilMulDiv(tokens, v, unit)
  OBVIOUS
<1> PICK p \in Nat, q \in Nat : p = a * u /\ q = tokens * v
  OBVIOUS
<1>1. \/ input \in 0..(Word - 1) /\ p <= input * unit /\ input * unit < p + unit
      \/ input = Overflow /\ \A m \in 0..(Word - 1) : m * unit < p
  BY RoundsUp
<1>2. \/ output \in 0..(Word - 1) /\ q <= output * unit /\ output * unit < q + unit
      \/ output = Overflow /\ \A m \in 0..(Word - 1) : m * unit < q
  BY RoundsUp
<1>3. cost = IF ~Priced(rates) THEN 0
             ELSE IF bytes > Word - 1 - Padding \/ Overflow \in {input, output} \/ input > Word - 1 - output
                  THEN Overflow ELSE input + output
  BY DEF EstimateCost
<1>4. Overflow = -1
  BY DEF Overflow
<1>5. Exact(bytes, tokens, rates) = p + q
  BY DEF Exact
<1>6. cost \in (0..(Word - 1)) \cup {Overflow}
  BY <1>0, <1>1, <1>2, <1>3, <1>4
<1>7. ASSUME Priced(rates), cost # Overflow
      PROVE  p + q <= cost * unit /\ cost * unit < p + q + 2 * unit
  <2>1. /\ cost = input + output /\ input \in 0..(Word - 1) /\ output \in 0..(Word - 1)
        /\ p <= input * unit /\ input * unit < p + unit
        /\ q <= output * unit /\ output * unit < q + unit
    BY <1>7, <1>1, <1>2, <1>3
  <2>2. input \in Nat /\ output \in Nat
    BY <2>1
  <2>3. cost * unit = input * unit + output * unit /\ input * unit \in Nat /\ output * unit \in Nat
    BY <2>1, <2>2, Sums
  <2> QED BY <2>1, <2>3
<1>8. ASSUME cost = Overflow, a <= Word - 1, NEW x \in Nat, NEW y \in Nat, p <= x * unit, q <= y * unit
      PROVE  x + y > Word - 1
  <2>0. SUFFICES ASSUME x + y <= Word - 1 PROVE FALSE
    BY <1>0
  <2>1. x \in 0..(Word - 1) /\ y \in 0..(Word - 1) /\ x * unit \in Nat /\ y * unit \in Nat
    BY <2>0, <1>0, NextMultiple
  <2>a. ~(x * unit < p) /\ ~(y * unit < q)
    BY <2>1, <1>8
  <2>b. Overflow \notin 0..(Word - 1)
    BY <1>0, <1>4
  <2>2. input # Overflow /\ output # Overflow
    <3>1. input # Overflow
      BY <2>1, <2>a, <2>b, <1>1
    <3>2. output # Overflow
      BY <2>1, <2>a, <2>b, <1>2
    <3> QED BY <3>1, <3>2
  <2>3. ~(bytes > Word - 1 - Padding)
    BY <1>0, <1>8
  <2>c. input \in 0..(Word - 1) /\ output \in 0..(Word - 1)
    BY <2>2, <1>1, <1>2
  <2>4. input > Word - 1 - output
    <3>1. cost # 0 /\ cost # input + output
      BY <2>c, <1>8, <1>4
    <3> QED BY <3>1, <2>2, <2>3, <1>3
  <2>5. /\ input \in Nat /\ output \in Nat /\ p <= input * unit /\ input * unit < p + unit
        /\ q <= output * unit /\ output * unit < q + unit
    BY <2>2, <1>1, <1>2
  <2>6. input <= x
    BY <2>5, <1>8, Least
  <2>7. output <= y
    BY <2>5, <1>8, Least
  <2> QED BY <2>0, <2>4, <2>5, <2>6, <2>7, <1>0
<1>9. ~Priced(rates) => cost = 0
  BY <1>3
<1>10. cost = Overflow =>
         \/ bytes + Padding > Word - 1
         \/ \A x, y \in Nat :
               /\ (bytes + Padding) * rates.input <= x * PerUnit
               /\ tokens * rates.output <= y * PerUnit
               => x + y > Word - 1
  <2>1. SUFFICES ASSUME cost = Overflow, ~(bytes + Padding > Word - 1), NEW x \in Nat, NEW y \in Nat,
                        (bytes + Padding) * rates.input <= x * PerUnit, tokens * rates.output <= y * PerUnit
                 PROVE  x + y > Word - 1
    OBVIOUS
  <2>2. a <= Word - 1
    BY <2>1, <1>0
  <2>3. p <= x * unit /\ q <= y * unit
    BY <2>1
  <2> QED BY <2>1, <2>2, <2>3, <1>8
<1>11. Priced(rates) /\ cost # Overflow =>
         /\ Exact(bytes, tokens, rates) <= cost * PerUnit
         /\ cost * PerUnit < Exact(bytes, tokens, rates) + 2 * PerUnit
  BY <1>5, <1>7
<1> QED BY <1>6, <1>9, <1>10, <1>11

-------------------------------------------------------------------------------
(* What becomes of an answer (Translation).                                *)

\* What a goroutine reads, and what it writes.  (The provers do not know that a
\* literal is a string.)
Words == STRING \cup {"max_tokens", "end_turn", "refusal", "tool_use"}
Read == Lines \cup [kind : {"cut"}]
Events ==
    [t : {"message_start", "content_block_start", "content_block_stop", "message_stop", "error"}]
    \cup [t : {"delta"}, text : STRING] \cup [t : {"message_delta"}, stop : Words, prompt : Int, output : Int]

\* The goroutine still writes.
Open == stage \in {"begin", "block", "read", "stop", "delta", "last"}

Streams ==
    /\ stage \in {"idle", "begin", "block", "read", "stop", "delta", "last", "closed"}
    /\ lines \in Seq(Read)
    /\ kept \in [stop : Words, produced : Nat, reported : Int, prompt : Int]
    /\ stage # "idle" => body \in Seq(Events) /\ answer # Waiting
    /\ stage \in {"idle", "begin", "block"} =>
        /\ lines = <<>> /\ kept = [stop |-> "end_turn", produced |-> 0, reported |-> 0, prompt |-> 0]

\* Every kind of line that was there has a last one.
HasLast(S) == S # {} => LastIn(S) \in S
Latest == HasLast(Finishing) /\ HasLast(Reporting) /\ HasLast(Prompting)

\* What the goroutine remembers is what the lines say.
Remembered ==
    Open =>
        /\ ~Failed
        /\ kept.stop = Told.stop /\ kept.prompt = Told.prompt
        /\ kept.produced = Cardinality(Speaking)
        /\ kept.reported = IF Reporting = {} THEN 0 ELSE lines[LastIn(Reporting)].counted

\* The events so far: the first d texts, at their places, and no others.
Deltas(d) ==
    /\ d <= Cardinality(Speaking)
    /\ \A k \in 3..(d + 2) : k \in DOMAIN body
    /\ \A k \in DOMAIN body : body[k].t = "delta" <=> k \in 3..(d + 2)
    /\ \A i \in Speaking : Ordinal(i) <= d => body[Ordinal(i) + 2] = Delta(lines[i].text)

Opened ==
    stage # "idle" =>
        /\ Len(body) >= 1 => body[1] = Event("message_start")
        /\ Len(body) >= 2 => body[2] = Event("content_block_start")

Written ==
    Open =>
        /\ ~Ended /\ outcome = "open"
        /\ Deltas(Cardinality(Speaking))
        /\ stage = "begin" => Len(body) = 0
        /\ stage = "block" => Len(body) = 1
        /\ stage \in {"read", "stop"} => Len(body) = Cardinality(Speaking) + 2
        /\ stage = "delta" => Len(body) = Cardinality(Speaking) + 3
        /\ stage = "last" => Len(body) = Cardinality(Speaking) + 4 /\ body[Len(body)] = Told

\* The three ways to end.
EndedWhole ==
    /\ outcome = "complete" /\ ~Failed /\ Ended
    /\ Deltas(Cardinality(Speaking)) /\ Len(body) = Cardinality(Speaking) + 5
    /\ body[Len(body) - 1] = Told
EndedByError == ~Ended /\ Failed /\ Len(body) >= 1 /\ body[Len(body)] = Event("error")
EndedBroken == ~Ended /\ outcome = "broken"

Over ==
    stage = "closed" =>
        /\ \E d \in Nat : Deltas(d)
        /\ EndedWhole \/ EndedByError \/ EndedBroken

AnswerInv == Streams /\ Latest /\ Remembered /\ Opened /\ Written /\ Over /\ HeadersAreOurs

-------------------------------------------------------------------------------
(* Lines.                                                                  *)

LEMMA SomeLine ==
    ASSUME lines \in Seq(Read)
    PROVE  /\ DOMAIN lines = 1..Len(lines) /\ Len(lines) \in Nat
           /\ Speaking \subseteq 1..Len(lines) /\ Finishing \subseteq 1..Len(lines)
           /\ Reporting \subseteq 1..Len(lines) /\ Prompting \subseteq 1..Len(lines)
           /\ IsFiniteSet(Speaking) /\ Cardinality(Speaking) \in Nat
<1>1. DOMAIN lines = 1..Len(lines) /\ Len(lines) \in Nat
  OBVIOUS
<1>2. /\ Speaking \subseteq 1..Len(lines) /\ Finishing \subseteq 1..Len(lines)
      /\ Reporting \subseteq 1..Len(lines) /\ Prompting \subseteq 1..Len(lines)
  BY <1>1 DEF Speaking, Finishing, Reporting, Prompting
<1>3. IsFiniteSet(1..Len(lines))
  BY <1>1, FS_Interval
<1>4. IsFiniteSet(Speaking)
  BY <1>2, <1>3, FS_Subset
<1> QED BY <1>1, <1>2, <1>4, FS_CardinalityType

\* A later line is the last.
LEMMA Newest ==
    ASSUME NEW n \in Nat, NEW S, S \subseteq 1..n
    PROVE  LastIn(S \cup {n + 1}) = n + 1
<1>1. \A i \in S \cup {n + 1} : (\A j \in S \cup {n + 1} : j <= i) <=> i = n + 1
  OBVIOUS
<1> QED BY <1>1 DEF LastIn

\* The ordinal of a speaking line.
LEMMA Ordinals ==
    ASSUME lines \in Seq(Read), NEW i \in Speaking
    PROVE  Ordinal(i) \in Nat /\ Ordinal(i) >= 1 /\ Ordinal(i) <= Cardinality(Speaking)
<1>1. IsFiniteSet(Speaking) /\ Speaking \subseteq 1..Len(lines) /\ Len(lines) \in Nat
  BY SomeLine
<1> DEFINE S == {j \in Speaking : j <= i}
<1>2. S \subseteq Speaking /\ i \in S
  BY <1>1
<1>3. IsFiniteSet(S) /\ Cardinality(S) <= Cardinality(Speaking) /\ Cardinality(S) \in Nat
  BY <1>1, <1>2, FS_Subset, FS_CardinalityType
<1>4. Cardinality(S) # 0
  BY <1>2, <1>3, FS_EmptySet
<1> QED BY <1>3, <1>4 DEF Ordinal

\* One more line: what it adds to each kind, and the ordinals of the earlier ones.
LEMMA OneLine ==
    ASSUME lines \in Seq(Read), NEW line \in Read, lines' = Append(lines, line)
    PROVE  LET n == Len(lines)
               With(S, P) == IF P THEN S \cup {n + 1} ELSE S
           IN  /\ lines' \in Seq(Read) /\ Len(lines') = n + 1
               /\ lines'[n + 1] = line /\ \A i \in 1..n : lines'[i] = lines[i]
               /\ Speaking' = With(Speaking, line.kind = "chunk" /\ line.text # "")
               /\ Finishing' = With(Finishing, line.kind = "chunk" /\ line.finish # "")
               /\ Reporting' = With(Reporting, line.kind = "chunk" /\ line.counted > 0)
               /\ Prompting' = With(Prompting, line.kind = "chunk" /\ line.prompt > 0)
               /\ Failed' <=> (Failed \/ line.kind \in {"error", "cut"})
<1> DEFINE n == Len(lines)
<1>1. /\ n \in Nat /\ lines' \in Seq(Read) /\ Len(lines') = n + 1
      /\ lines'[n + 1] = line /\ \A i \in 1..n : lines'[i] = lines[i]
      /\ DOMAIN lines = 1..n /\ DOMAIN lines' = 1..(n + 1)
  OBVIOUS
<1>2. 1..(n + 1) = (1..n) \cup {n + 1} /\ n + 1 \notin 1..n
  BY <1>1
<1> HIDE DEF n
<1>3. Speaking' = IF line.kind = "chunk" /\ line.text # "" THEN Speaking \cup {n + 1} ELSE Speaking
  BY <1>1, <1>2 DEF Speaking
<1>4. Finishing' = IF line.kind = "chunk" /\ line.finish # "" THEN Finishing \cup {n + 1} ELSE Finishing
  BY <1>1, <1>2 DEF Finishing
<1>5. Reporting' = IF line.kind = "chunk" /\ line.counted > 0 THEN Reporting \cup {n + 1} ELSE Reporting
  BY <1>1, <1>2 DEF Reporting
<1>6. Prompting' = IF line.kind = "chunk" /\ line.prompt > 0 THEN Prompting \cup {n + 1} ELSE Prompting
  BY <1>1, <1>2 DEF Prompting
<1>7. Failed' <=> (Failed \/ line.kind \in {"error", "cut"})
  BY <1>1, <1>2 DEF Failed
<1> USE DEF n
<1> QED BY <1>1, <1>3, <1>4, <1>5, <1>6, <1>7

\* Unless it speaks, the ordinals are what they were.
LEMMA OrdinalsStay ==
    ASSUME lines \in Seq(Read), NEW line \in Read, lines' = Append(lines, line),
           NEW n \in Nat, n = Len(lines)
    PROVE  /\ \A i \in Speaking : Ordinal(i)' = Ordinal(i) /\ lines'[i] = lines[i]
           /\ n + 1 \in Speaking' =>
                /\ Speaking' = Speaking \cup {n + 1}
                /\ Cardinality(Speaking)' = Cardinality(Speaking) + 1
                /\ Ordinal(n + 1)' = Cardinality(Speaking) + 1
           /\ n + 1 \notin Speaking' => Speaking' = Speaking
<1>1. Speaking \subseteq 1..n /\ IsFiniteSet(Speaking)
  BY SomeLine
<1>2. Speaking' \in {Speaking, Speaking \cup {n + 1}} /\ \A i \in 1..n : lines'[i] = lines[i]
  BY OneLine
<1>3. \A i \in Speaking : {j \in Speaking' : j <= i} = {j \in Speaking : j <= i}
  BY <1>1, <1>2
<1>4. \A i \in Speaking : Ordinal(i)' = Ordinal(i) /\ lines'[i] = lines[i]
  BY <1>1, <1>2, <1>3 DEF Ordinal
<1>5. CASE n + 1 \in Speaking'
  <2>1. Speaking' = Speaking \cup {n + 1} /\ n + 1 \notin Speaking
    BY <1>1, <1>2, <1>5
  <2>2. Cardinality(Speaking') = Cardinality(Speaking) + 1
    BY <1>1, <2>1, FS_AddElement
  <2>a. \A j \in Speaking' : j <= n + 1
    BY <1>1, <2>1
  <2>3. {j \in Speaking' : j <= n + 1} = Speaking'
    BY <2>a
  <2> QED BY <2>1, <1>4, <1>5, <2>2, <2>3 DEF Ordinal
<1>6. CASE n + 1 \notin Speaking'
  BY <1>2, <1>4, <1>6
<1> QED BY <1>5, <1>6

-------------------------------------------------------------------------------
(* Events.                                                                 *)

\* At most one more line is read, and one event written that is no text.
GoesOn ==
    /\ lines' = lines \/ \E line \in Read : lines' = Append(lines, line)
    /\ body' = body \/ \E e \in Events : e.t # "delta" /\ body' = Append(body, e)

\* Nothing but a text changes where the texts are.
LEMMA DeltasKept ==
    ASSUME lines \in Seq(Read), body \in Seq(Events), NEW d \in Nat, Deltas(d),
           GoesOn
    PROVE  Deltas(d)'
<1> PICK n \in Nat : n = Len(lines)
  OBVIOUS
<1>1. Speaking \subseteq 1..n /\ Cardinality(Speaking) \in Nat
  BY SomeLine
<1>2. \A i \in Speaking : Ordinal(i) \in Nat /\ Ordinal(i) >= 1
  BY Ordinals
<1>3. /\ d <= Cardinality(Speaking)
      /\ \A k \in 3..(d + 2) : k \in DOMAIN body
      /\ \A k \in DOMAIN body : body[k].t = "delta" <=> k \in 3..(d + 2)
      /\ \A i \in Speaking : Ordinal(i) <= d => body[Ordinal(i) + 2] = Delta(lines[i].text)
  BY DEF Deltas
<1>4. /\ DOMAIN body = 1..Len(body) /\ Len(body) \in Nat
      /\ \A k \in DOMAIN body : k \in DOMAIN body' /\ body'[k] = body[k]
      /\ \A k \in DOMAIN body' \ DOMAIN body : body'[k].t # "delta"
  <2>1. CASE body' = body
    BY <2>1
  <2>2. CASE \E e \in Events : e.t # "delta" /\ body' = Append(body, e)
    <3>1. PICK e \in Events : e.t # "delta" /\ body' = Append(body, e)
      BY <2>2
    <3>2. /\ DOMAIN body = 1..Len(body) /\ Len(body) \in Nat /\ DOMAIN body' = 1..(Len(body) + 1)
          /\ body'[Len(body) + 1] = e /\ \A k \in 1..Len(body) : body'[k] = body[k]
      BY <3>1
    <3> QED BY <3>1, <3>2
  <2> QED BY <2>1, <2>2 DEF GoesOn
<1>5. (\A k \in 3..(d + 2) : k \in DOMAIN body') /\ \A k \in DOMAIN body' : body'[k].t = "delta" <=> k \in 3..(d + 2)
  BY <1>3, <1>4
<1>6. /\ Cardinality(Speaking)' >= Cardinality(Speaking) /\ Cardinality(Speaking)' \in Int
      /\ \A i \in Speaking' : Ordinal(i)' <= d => i \in Speaking /\ Ordinal(i)' = Ordinal(i) /\ lines'[i] = lines[i]
  <2>1. CASE lines' = lines
    <3>1. Speaking' = Speaking
      BY <2>1 DEF Speaking
    <3>2. \A i : Ordinal(i)' = Ordinal(i)
      BY <3>1 DEF Ordinal
    <3> QED BY <2>1, <3>1, <3>2, <1>1
  <2>2. CASE \E line \in Read : lines' = Append(lines, line)
    <3>1. PICK line \in Read : lines' = Append(lines, line)
      BY <2>2
    <3>2. /\ \A i \in Speaking : Ordinal(i)' = Ordinal(i) /\ lines'[i] = lines[i]
          /\ n + 1 \in Speaking' =>
               /\ Speaking' = Speaking \cup {n + 1}
               /\ Cardinality(Speaking)' = Cardinality(Speaking) + 1
               /\ Ordinal(n + 1)' = Cardinality(Speaking) + 1
          /\ n + 1 \notin Speaking' => Speaking' = Speaking
      BY <3>1, OrdinalsStay
    <3>3. ~(Cardinality(Speaking) + 1 <= d)
      BY <1>1, <1>3
    <3>4. \A i \in Speaking' : i \in Speaking \/ (i = n + 1 /\ n + 1 \in Speaking')
      BY <3>2
    <3>5. Cardinality(Speaking)' >= Cardinality(Speaking) /\ Cardinality(Speaking)' \in Int
      BY <3>2, <1>1
    <3>6. ASSUME NEW i \in Speaking', Ordinal(i)' <= d
          PROVE  i \in Speaking /\ Ordinal(i)' = Ordinal(i) /\ lines'[i] = lines[i]
      BY <3>2, <3>3, <3>4, <3>6
    <3> QED BY <3>5, <3>6
  <2> QED BY <2>1, <2>2 DEF GoesOn
<1>7. \A i \in Speaking : Ordinal(i) <= d => Ordinal(i) + 2 \in DOMAIN body
  BY <1>2, <1>3
<1>8. \A i \in Speaking' : Ordinal(i)' <= d => body'[Ordinal(i)' + 2] = Delta(lines'[i].text)
  BY <1>3, <1>4, <1>6, <1>7
<1>9. d <= Cardinality(Speaking)'
  BY <1>1, <1>3, <1>6
<1> QED BY <1>5, <1>8, <1>9 DEF Deltas, Delta

\* A text is put after the others.
AddsDelta(line, d) ==
    /\ line.kind = "chunk" /\ line.text # "" /\ line.text \in STRING
    /\ lines' = Append(lines, line)
    /\ d = Cardinality(Speaking) /\ Len(body) = d + 2 /\ body' = Append(body, Delta(line.text))

LEMMA OneMoreDelta ==
    ASSUME lines \in Seq(Read), body \in Seq(Events), NEW d \in Nat, Deltas(d),
           NEW line \in Read, AddsDelta(line, d)
    PROVE  Cardinality(Speaking)' = d + 1 /\ Deltas(d + 1)'
<1> PICK n \in Nat : n = Len(lines)
  BY SomeLine
<1>d. d = Cardinality(Speaking)
  BY DEF AddsDelta
<1>1. Speaking \subseteq 1..n /\ Cardinality(Speaking) \in Nat
  BY SomeLine
<1>2. \A i \in Speaking : Ordinal(i) \in Nat /\ Ordinal(i) >= 1 /\ Ordinal(i) <= d
  BY <1>d, Ordinals
<1>3. /\ \A k \in DOMAIN body : body[k].t = "delta" <=> k \in 3..(d + 2)
      /\ \A i \in Speaking : Ordinal(i) <= d => body[Ordinal(i) + 2] = Delta(lines[i].text)
  BY DEF Deltas
<1>4. Delta(line.text) \in Events /\ Delta(line.text).t = "delta"
  BY DEF Delta, Events, AddsDelta
<1>5. /\ DOMAIN body' = 1..(d + 3) /\ DOMAIN body = 1..(d + 2)
      /\ \A k \in 1..(d + 2) : body'[k] = body[k]
      /\ body'[d + 3] = Delta(line.text)
  <2>1. PICK e \in Events : e = Delta(line.text)
    BY <1>4
  <2>2. body' = Append(body, e) /\ Len(body) = d + 2
    BY <2>1 DEF AddsDelta
  <2>3. DOMAIN body = 1..(d + 2) /\ DOMAIN body' = 1..(d + 3) /\ body'[d + 3] = e
    BY <2>2
  <2>4. \A k \in 1..(d + 2) : body'[k] = body[k]
    BY <2>2
  <2> QED BY <2>1, <2>3, <2>4
<1>6. /\ \A i \in Speaking : Ordinal(i)' = Ordinal(i) /\ lines'[i] = lines[i]
      /\ n + 1 \in Speaking' =>
           /\ Speaking' = Speaking \cup {n + 1}
           /\ Cardinality(Speaking)' = Cardinality(Speaking) + 1
           /\ Ordinal(n + 1)' = Cardinality(Speaking) + 1
  BY OrdinalsStay DEF AddsDelta
<1>7. n + 1 \in Speaking' /\ lines'[n + 1] = line
  BY OneLine DEF AddsDelta
<1>8. /\ \A k \in 3..(d + 3) : k \in DOMAIN body'
      /\ \A k \in DOMAIN body' : body'[k].t = "delta" <=> k \in 3..(d + 3)
  <2>1. \A k \in 1..(d + 3) : k \in 1..(d + 2) \/ k = d + 3
    OBVIOUS
  <2>2. \A k \in 1..(d + 2) : body'[k].t = "delta" <=> k \in 3..(d + 2)
    BY <1>3, <1>5
  <2>3. body'[d + 3].t = "delta" /\ d + 3 \in 3..(d + 3)
    BY <1>4, <1>5
  <2> QED BY <2>1, <2>2, <2>3, <1>5
<1>9. \A i \in Speaking' : body'[Ordinal(i)' + 2] = Delta(lines'[i].text)
  <2>1. TAKE i \in Speaking'
  <2>2. CASE i \in Speaking
    <3>1. Ordinal(i)' = Ordinal(i) /\ Ordinal(i) + 2 \in 1..(d + 2) /\ lines'[i] = lines[i]
      BY <2>2, <1>2, <1>6
    <3> QED BY <3>1, <2>2, <1>2, <1>3, <1>5
  <2>3. CASE i = n + 1
    BY <2>3, <1>d, <1>5, <1>6, <1>7
  <2> QED BY <2>1, <2>2, <2>3, <1>6, <1>7
<1>10. Cardinality(Speaking)' = d + 1 /\ (d + 1) + 2 = d + 3
  BY <1>d, <1>6, <1>7
<1> QED BY <1>8, <1>9, <1>10 DEF Deltas, Delta

\* As many texts as places.
LEMMA SpokenIs ==
    ASSUME body \in Seq(Events), NEW d \in Nat, Deltas(d)
    PROVE  Spoken = d
<1>a. (3 > d + 2 => d = 0) /\ (d + 2) - 3 + 1 = d
  OBVIOUS
<1>1. {k \in DOMAIN body : body[k].t = "delta"} = 3..(d + 2)
  BY DEF Deltas
<1>2. Cardinality(3..(d + 2)) = IF 3 > d + 2 THEN 0 ELSE (d + 2) - 3 + 1
  BY FS_Interval
<1> QED BY <1>a, <1>1, <1>2 DEF Spoken

\* What the lines say, after one more chunk.
LEMMA OneMoreChunk ==
    ASSUME Latest, lines \in Seq(Read), NEW line \in Lines, lines' = Append(lines, line),
           line.kind = "chunk"
    PROVE  /\ Latest'
           /\ Told'.stop = IF line.finish # "" THEN StopReason(line.finish) ELSE Told.stop
           /\ Told'.prompt = IF line.prompt > 0 THEN line.prompt ELSE Told.prompt
           /\ (IF Reporting = {} THEN 0 ELSE lines[LastIn(Reporting)].counted)' =
                 IF line.counted > 0 THEN line.counted
                 ELSE IF Reporting = {} THEN 0 ELSE lines[LastIn(Reporting)].counted
<1> PICK n \in Nat : n = Len(lines)
  OBVIOUS
<1>0. line \in Read
  BY DEF Read
<1>1. /\ Finishing \subseteq 1..n /\ Reporting \subseteq 1..n /\ Prompting \subseteq 1..n
  BY SomeLine
<1>2. /\ lines'[n + 1] = line /\ \A i \in 1..n : lines'[i] = lines[i]
      /\ Finishing' = IF line.finish # "" THEN Finishing \cup {n + 1} ELSE Finishing
      /\ Reporting' = IF line.counted > 0 THEN Reporting \cup {n + 1} ELSE Reporting
      /\ Prompting' = IF line.prompt > 0 THEN Prompting \cup {n + 1} ELSE Prompting
  BY <1>0, OneLine
<1>3. \A S \in SUBSET (1..n) : LastIn(S \cup {n + 1}) = n + 1
  BY Newest
<1>4. Latest'
  BY <1>1, <1>2, <1>3 DEF Latest, HasLast
<1>5. Told'.stop = IF line.finish # "" THEN StopReason(line.finish) ELSE Told.stop
  <2>1. /\ Told.stop = StopReason(IF Finishing = {} THEN "" ELSE lines[LastIn(Finishing)].finish)
        /\ Told'.stop = StopReason(IF Finishing' = {} THEN "" ELSE lines'[LastIn(Finishing')].finish)
    BY DEF Told
  <2>2. CASE line.finish # ""
    BY <2>1, <2>2, <1>1, <1>2, <1>3
  <2>3. CASE line.finish = "" /\ Finishing # {}
    <3>1. LastIn(Finishing) \in 1..n
      BY <2>3, <1>1 DEF Latest, HasLast
    <3> QED BY <2>1, <2>3, <3>1, <1>2
  <2>4. CASE line.finish = "" /\ Finishing = {}
    BY <2>1, <2>4, <1>2
  <2> QED BY <2>2, <2>3, <2>4
<1>6. Told'.prompt = IF line.prompt > 0 THEN line.prompt ELSE Told.prompt
  <2>1. /\ Told.prompt = IF Prompting = {} THEN 0 ELSE lines[LastIn(Prompting)].prompt
        /\ Told'.prompt = IF Prompting' = {} THEN 0 ELSE lines'[LastIn(Prompting')].prompt
    BY DEF Told
  <2>2. CASE line.prompt > 0
    BY <2>1, <2>2, <1>1, <1>2, <1>3
  <2>3. CASE ~(line.prompt > 0) /\ Prompting # {}
    <3>1. LastIn(Prompting) \in 1..n
      BY <2>3, <1>1 DEF Latest, HasLast
    <3> QED BY <2>1, <2>3, <3>1, <1>2
  <2>4. CASE ~(line.prompt > 0) /\ Prompting = {}
    BY <2>1, <2>4, <1>2
  <2> QED BY <2>2, <2>3, <2>4
<1>7. (IF Reporting' = {} THEN 0 ELSE lines'[LastIn(Reporting')].counted) =
         IF line.counted > 0 THEN line.counted
         ELSE IF Reporting = {} THEN 0 ELSE lines[LastIn(Reporting)].counted
  <2>2. CASE line.counted > 0
    BY <2>2, <1>1, <1>2, <1>3
  <2>3. CASE ~(line.counted > 0) /\ Reporting # {}
    <3>1. LastIn(Reporting) \in 1..n
      BY <2>3, <1>1 DEF Latest, HasLast
    <3> QED BY <2>3, <3>1, <1>2
  <2>4. CASE ~(line.counted > 0) /\ Reporting = {}
    BY <2>4, <1>2
  <2> QED BY <2>2, <2>3, <2>4
<1> QED BY <1>4, <1>5, <1>6, <1>7

-------------------------------------------------------------------------------
(* The steps.                                                              *)

LEMMA StopReasons ==
    StopReason("") = "end_turn" /\ \A f \in STRING : StopReason(f) \in Words
<1>1. StopReason("") = "end_turn"
  BY DEF StopReason
<1>2. ASSUME NEW f \in STRING
      PROVE  StopReason(f) \in Words
  <2>1. StopReason(f) \in {"max_tokens", "end_turn", "refusal", "tool_use", f}
    BY DEF StopReason
  <2> QED BY <2>1 DEF Words
<1> QED BY <1>1, <1>2

\* Before the first line.
LEMMA NoLines ==
    ASSUME lines = <<>>
    PROVE  /\ Speaking = {} /\ Finishing = {} /\ Reporting = {} /\ Prompting = {} /\ ~Failed
           /\ Cardinality(Speaking) = 0
           /\ Told.stop = "end_turn" /\ Told.prompt = 0
<1>1. Speaking = {} /\ Finishing = {} /\ Reporting = {} /\ Prompting = {} /\ ~Failed
  BY DEF Speaking, Finishing, Reporting, Prompting, Failed
<1>2. Cardinality(Speaking) = 0
  BY <1>1, FS_EmptySet
<1> QED BY <1>1, <1>2, StopReasons DEF Told

\* The lines decide what they say.
LEMMA SameLines ==
    ASSUME lines' = lines
    PROVE  /\ Told' = Told /\ Speaking' = Speaking /\ Cardinality(Speaking)' = Cardinality(Speaking)
           /\ (Failed' <=> Failed) /\ (Latest => Latest')
           /\ Reporting' = Reporting
<1>1. Speaking' = Speaking /\ Finishing' = Finishing /\ Reporting' = Reporting /\ Prompting' = Prompting
  BY DEF Speaking, Finishing, Reporting, Prompting
<1>2. Failed' <=> Failed
  BY DEF Failed
<1>3. Told' = Told
  BY <1>1 DEF Told
<1>4. Latest => Latest'
  BY <1>1 DEF Latest, HasLast
<1> QED BY <1>1, <1>2, <1>3, <1>4

LEMMA SameDeltas ==
    ASSUME lines' = lines, body' = body
    PROVE  \A d : Deltas(d)' <=> Deltas(d)
<1>1. Speaking' = Speaking
  BY DEF Speaking
<1>2. \A i : Ordinal(i)' = Ordinal(i)
  BY <1>1 DEF Ordinal
<1> QED BY <1>1, <1>2 DEF Deltas

LEMMA AnswerInitOK == TranslationInit => AnswerInv
<1> SUFFICES ASSUME TranslationInit PROVE AnswerInv
  OBVIOUS
<1> USE DEF TranslationInit
<1>1. Streams
  <2>1. lines \in Seq(Read)
    OBVIOUS
  <2>2. kept \in [stop : Words, produced : Nat, reported : Int, prompt : Int]
    BY DEF Words
  <2> QED BY <2>1, <2>2 DEF Streams
<1>2. Latest
  BY NoLines DEF Latest, HasLast
<1>3. Remembered /\ Opened /\ Written /\ Over
  BY DEF Remembered, Opened, Written, Over, Open
<1>4. HeadersAreOurs
  BY DEF HeadersAreOurs
<1> QED BY <1>1, <1>2, <1>3, <1>4 DEF AnswerInv

LEMMA RespondStep ==
    ASSUME AnswerInv, NEW a \in Answers, Respond(a)
    PROVE  AnswerInv'
<1>1. /\ answer = Waiting /\ answer' = a /\ lines' = lines /\ kept' = kept /\ gone' = gone
      /\ stage' = IF a.status = 200 /\ a.translated /\ a.streams THEN "begin" ELSE stage
  BY DEF Respond
<1>2. /\ stage = "idle" /\ lines = <<>>
      /\ kept = [stop |-> "end_turn", produced |-> 0, reported |-> 0, prompt |-> 0]
  BY <1>1 DEF AnswerInv, Streams
<1>3. stage' = "begin" => a # Waiting /\ body' = <<>> /\ outcome' = "open"
  <2>1. SUFFICES ASSUME a.status = 200 /\ a.translated /\ a.streams
                 PROVE  a # Waiting /\ body' = <<>> /\ outcome' = "open"
    BY <1>1, <1>2
  <2>2. a # Waiting
    BY <2>1 DEF Waiting
  <2>3. body' = <<>> /\ outcome' = "open"
    BY <2>1 DEF Respond, Answer
  <2> QED BY <2>2, <2>3
<1>4. stage' \in {"idle", "begin"}
  BY <1>1, <1>2
<1>5. Streams'
  <2>1. <<>> \in Seq(Events)
    OBVIOUS
  <2>2. lines' \in Seq(Read) /\ kept' \in [stop : Words, produced : Nat, reported : Int, prompt : Int]
    BY <1>1 DEF AnswerInv, Streams
  <2>3. stage' # "idle" => body' \in Seq(Events) /\ answer' # Waiting
    BY <2>1, <1>1, <1>3, <1>4
  <2>4. lines' = <<>> /\ kept' = [stop |-> "end_turn", produced |-> 0, reported |-> 0, prompt |-> 0]
    BY <1>1, <1>2
  <2> QED BY <2>2, <2>3, <2>4, <1>4 DEF Streams
<1>6. lines' = <<>>
  BY <1>1, <1>2
<1>7. /\ Speaking' = {} /\ Finishing' = {} /\ Reporting' = {} /\ Prompting' = {} /\ ~Failed'
      /\ Cardinality(Speaking)' = 0
      /\ Told'.stop = "end_turn" /\ Told'.prompt = 0
  <2>1. /\ Speaking = {} /\ Finishing = {} /\ Reporting = {} /\ Prompting = {} /\ ~Failed
        /\ Cardinality(Speaking) = 0
        /\ Told.stop = "end_turn" /\ Told.prompt = 0
    BY <1>2, NoLines
  <2> QED BY <2>1, <1>1, SameLines DEF Finishing, Prompting
<1>8. Latest'
  BY <1>7 DEF Latest, HasLast
<1>9. Remembered'
  BY <1>1, <1>2, <1>7 DEF Remembered
<1>10. Opened'
  BY <1>3, <1>4 DEF Opened
<1>11. Written'
  <2>1. SUFFICES ASSUME stage' = "begin" PROVE Written'
    BY <1>4 DEF Written, Open
  <2>2. body' = <<>> /\ outcome' = "open"
    BY <2>1, <1>3
  <2>3. ~Ended' /\ Len(body') = 0
    BY <2>2 DEF Ended
  <2>4. Deltas(Cardinality(Speaking))'
    BY <2>2, <1>7 DEF Deltas
  <2> QED BY <2>1, <2>2, <2>3, <2>4 DEF Written
<1>12. Over'
  BY <1>4 DEF Over
<1>13. HeadersAreOurs'
  <2>1. headers' \cap Stripped = {} /\ Private \subseteq headers'
    BY DEF Respond, Answer, Stripped, Private
  <2>2. stage' = "begin" => "content-length" \notin headers'
    <3>1. SUFFICES ASSUME a.status = 200 /\ a.translated /\ a.streams
                   PROVE  "content-length" \notin headers'
      BY <1>1, <1>2
    <3>2. headers' = ((a.headers \ Stripped) \cup Private) \ {"content-length"}
      BY <3>1 DEF Respond, Answer
    <3> QED BY <3>2
  <2> QED BY <2>1, <2>2, <1>4 DEF HeadersAreOurs
<1> QED BY <1>5, <1>8, <1>9, <1>10, <1>11, <1>12, <1>13 DEF AnswerInv

\* The goroutine is cut off.
LEMMA CutOff ==
    ASSUME AnswerInv, Open, GoesOn, body' = body, stage' = "closed", outcome' = "broken"
    PROVE  Remembered' /\ Opened' /\ Written' /\ Over'
<1>1. ~Open'
  BY DEF Open
<1>2. stage # "idle" /\ lines \in Seq(Read) /\ body \in Seq(Events)
  BY DEF AnswerInv, Open, Streams
<1>3. Opened'
  BY <1>2 DEF AnswerInv, Opened
<1>4. PICK d \in Nat : d = Cardinality(Speaking)
  BY <1>2, SomeLine
<1>5. Deltas(d) /\ ~Ended
  BY <1>4 DEF AnswerInv, Written
<1>6. Deltas(d)'
  BY <1>2, <1>5, DeltasKept
<1>7. ~Ended'
  BY <1>5 DEF Ended
<1>8. Over'
  BY <1>6, <1>7 DEF Over, EndedBroken
<1> QED BY <1>1, <1>3, <1>8 DEF Remembered, Written

\* An event goes out that is no text.
LEMMA GoesOut ==
    ASSUME AnswerInv, Open, lines' = lines,
           NEW e \in Events, e.t # "delta", body' = Append(body, e), stage' # "idle",
           Len(body) = 0 => e = Event("message_start"),
           Len(body) = 1 => e = Event("content_block_start")
    PROVE  /\ body' \in Seq(Events) /\ Len(body') = Len(body) + 1 /\ Len(body) \in Nat
           /\ body'[Len(body) + 1] = e /\ \A k \in 1..Len(body) : body'[k] = body[k]
           /\ Deltas(Cardinality(Speaking))' /\ Cardinality(Speaking)' = Cardinality(Speaking)
           /\ Cardinality(Speaking) \in Nat
           /\ Opened' /\ (Ended' <=> e.t = "message_stop")
<1>1. stage # "idle" /\ lines \in Seq(Read) /\ body \in Seq(Events)
  BY DEF AnswerInv, Open, Streams
<1>2. /\ body' \in Seq(Events) /\ Len(body') = Len(body) + 1 /\ Len(body) \in Nat
      /\ body'[Len(body) + 1] = e /\ \A k \in 1..Len(body) : body'[k] = body[k]
      /\ DOMAIN body = 1..Len(body) /\ DOMAIN body' = 1..(Len(body) + 1)
  BY <1>1
<1>3. PICK d \in Nat : d = Cardinality(Speaking)
  BY <1>1, SomeLine
<1>4. Deltas(d) /\ ~Ended
  BY <1>3 DEF AnswerInv, Written
<1>5. Deltas(d)'
  BY <1>1, <1>4, DeltasKept DEF GoesOn
<1>6. Cardinality(Speaking)' = d
  BY <1>3, SameLines
<1>7. Ended' <=> e.t = "message_stop"
  BY <1>2, <1>4 DEF Ended
<1>8. Opened'
  BY <1>1, <1>2 DEF AnswerInv, Opened
<1> QED BY <1>2, <1>3, <1>5, <1>6, <1>7, <1>8

\* Nothing but the head of an answer changes its headers.
LEMMA SameHeaders ==
    ASSUME AnswerInv, Open, answer' = answer, headers' = headers
    PROVE  HeadersAreOurs'
BY DEF AnswerInv, Open, HeadersAreOurs

LEMMA BeginStep ==
    ASSUME AnswerInv, Begin
    PROVE  AnswerInv'
<1>1. Open /\ lines' = lines /\ kept' = kept /\ answer' = answer /\ headers' = headers /\ lines = <<>>
      /\ kept = [stop |-> "end_turn", produced |-> 0, reported |-> 0, prompt |-> 0]
  BY DEF Begin, Open, AnswerInv, Streams
<1>2. Latest' /\ HeadersAreOurs'
  BY <1>1, SameLines, SameHeaders DEF AnswerInv
<1>3. lines' \in Seq(Read) /\ kept' \in [stop : Words, produced : Nat, reported : Int, prompt : Int]
      /\ body \in Seq(Events) /\ answer' # Waiting
  BY <1>1 DEF AnswerInv, Streams, Open
<1>4. CASE gone
  <2>1. stage' = "closed" /\ outcome' = "broken" /\ body' = body
    BY <1>4 DEF Begin, Emit, Close
  <2>2. Remembered' /\ Opened' /\ Written' /\ Over'
    BY <2>1, <1>1, CutOff DEF GoesOn
  <2>3. Streams'
    BY <2>1, <1>3 DEF Streams
  <2> QED BY <1>2, <2>2, <2>3 DEF AnswerInv
<1>5. CASE ~gone
  <2>1. PICK e \in Events :
          /\ e.t \in {"message_start", "content_block_start"} /\ body' = Append(body, e) /\ outcome' = outcome
          /\ \/ stage = "begin" /\ stage' = "block" /\ e = Event("message_start")
             \/ stage = "block" /\ stage' = "read" /\ e = Event("content_block_start")
    BY <1>5 DEF Begin, Emit, Event, Events
  <2>2. /\ stage = "begin" => Len(body) = 0
        /\ stage = "block" => Len(body) = 1
        /\ outcome = "open"
    BY <1>1 DEF AnswerInv, Written
  <2>3. /\ body' \in Seq(Events) /\ Len(body') = Len(body) + 1 /\ Len(body) \in Nat
        /\ Deltas(Cardinality(Speaking))'
        /\ Opened' /\ ~Ended'
    <3>1. e.t # "delta" /\ e.t # "message_stop" /\ stage' # "idle"
      BY <2>1
    <3>2. (Len(body) = 0 => e = Event("message_start")) /\ (Len(body) = 1 => e = Event("content_block_start"))
      BY <2>1, <2>2
    <3> QED BY <2>1, <3>1, <3>2, <1>1, GoesOut
  <2>4. Cardinality(Speaking)' = 0 /\ ~Failed' /\ Told'.stop = "end_turn" /\ Told'.prompt = 0 /\ Reporting' = {}
    BY <1>1, NoLines, SameLines
  <2>5. Written'
    BY <2>1, <2>2, <2>3, <2>4 DEF Written, Open
  <2>6. Remembered'
    BY <2>1, <2>4, <1>1 DEF Remembered, Open
  <2>7. Streams' /\ Over'
    BY <2>1, <2>3, <1>1, <1>3 DEF Streams, Over
  <2> QED BY <1>2, <2>3, <2>5, <2>6, <2>7 DEF AnswerInv
<1> QED BY <1>4, <1>5

LEMMA StreamEndsStep ==
    ASSUME AnswerInv, StreamEnds
    PROVE  AnswerInv'
<1>1. /\ stage = "read" /\ stage' = "stop" /\ lines' = lines /\ kept' = kept /\ answer' = answer
      /\ headers' = headers /\ body' = body /\ outcome' = outcome
  BY DEF StreamEnds
<1>2. /\ Told' = Told /\ Cardinality(Speaking)' = Cardinality(Speaking) /\ Speaking' = Speaking
      /\ (Failed' <=> Failed) /\ Latest' /\ Reporting' = Reporting
  BY <1>1, SameLines DEF AnswerInv
<1>3. Open /\ Open'
  BY <1>1 DEF Open
<1>4. Streams'
  BY <1>1 DEF AnswerInv, Streams
<1>5. Remembered'
  BY <1>1, <1>2, <1>3 DEF AnswerInv, Remembered
<1>6. Opened' /\ Over'
  BY <1>1 DEF AnswerInv, Opened, Over
<1>7. HeadersAreOurs'
  BY <1>1, <1>3, SameHeaders
<1>8. Written'
  <2>1. ~Ended' /\ outcome' = "open"
    BY <1>1, <1>3 DEF AnswerInv, Written, Ended
  <2>2. Deltas(Cardinality(Speaking)) /\ Len(body) = Cardinality(Speaking) + 2
    BY <1>1, <1>3 DEF AnswerInv, Written
  <2>3. Deltas(Cardinality(Speaking))'
    BY <2>2, <1>1, <1>2 DEF Deltas, Ordinal
  <2> QED BY <2>1, <2>2, <2>3, <1>1, <1>2 DEF Written
<1> QED BY <1>2, <1>4, <1>5, <1>6, <1>7, <1>8 DEF AnswerInv

\* Whether the client has left says nothing of what it was sent.
LEMMA SameAnswer ==
    ASSUME AnswerInv, UNCHANGED <<answer, headers, body, stage, lines, kept, outcome>>
    PROVE  AnswerInv'
<1>1. /\ lines' = lines /\ kept' = kept /\ answer' = answer /\ headers' = headers
      /\ body' = body /\ outcome' = outcome /\ stage' = stage
  OBVIOUS
<1>2. /\ Told' = Told /\ Cardinality(Speaking)' = Cardinality(Speaking) /\ Speaking' = Speaking
      /\ (Failed' <=> Failed) /\ Latest' /\ Reporting' = Reporting
  BY <1>1, SameLines DEF AnswerInv
<1>3. \A d : Deltas(d)' <=> Deltas(d)
  BY <1>1, SameDeltas
<1>4. (Ended' <=> Ended) /\ (Open' <=> Open)
  BY <1>1 DEF Ended, Open
<1>5. Deltas(Cardinality(Speaking))' <=> Deltas(Cardinality(Speaking))
  BY <1>1, <1>2, <1>3
<1>6. Streams'
  BY <1>1 DEF AnswerInv, Streams
<1>7. Remembered'
  BY <1>1, <1>2, <1>4 DEF AnswerInv, Remembered
<1>8. Opened' /\ HeadersAreOurs'
  BY <1>1 DEF AnswerInv, Opened, HeadersAreOurs
<1>9. Written'
  BY <1>1, <1>2, <1>4, <1>5 DEF AnswerInv, Written
<1>10. /\ EndedWhole' <=> EndedWhole
       /\ EndedByError' <=> EndedByError
       /\ EndedBroken' <=> EndedBroken
  BY <1>1, <1>2, <1>4, <1>5 DEF EndedWhole, EndedByError, EndedBroken
<1>11. Over'
  BY <1>1, <1>3, <1>10 DEF AnswerInv, Over
<1> QED BY <1>2, <1>6, <1>7, <1>8, <1>9, <1>11 DEF AnswerInv

LEMMA LeaveStep ==
    ASSUME AnswerInv, Leave
    PROVE  AnswerInv'
BY SameAnswer DEF Leave

LEMMA ReadFailsStep ==
    ASSUME AnswerInv, ReadFails
    PROVE  AnswerInv'
<1>1. /\ stage = "read" /\ stage' = "closed" /\ kept' = kept /\ answer' = answer /\ outcome' = "broken"
      /\ headers' = headers /\ body' = body
  BY DEF ReadFails, Broken, Close
<1>2. PICK line \in Read : line.kind = "cut" /\ lines' = Append(lines, line)
  BY DEF ReadFails, Read
<1>3. Open
  BY <1>1 DEF Open
<1>4. lines \in Seq(Read)
  BY DEF AnswerInv, Streams
<1>5. Remembered' /\ Opened' /\ Written' /\ Over'
  BY <1>1, <1>2, <1>3, CutOff DEF GoesOn
<1>6. HeadersAreOurs'
  BY <1>1, <1>3, SameHeaders
<1>7. Streams'
  BY <1>1, <1>2, <1>4 DEF AnswerInv, Streams
<1>8. Latest'
  <2>1. lines' \in Seq(Read) /\ Speaking' = Speaking /\ Finishing' = Finishing
        /\ Reporting' = Reporting /\ Prompting' = Prompting
    BY <1>2, <1>4, OneLine
  <2> QED BY <2>1 DEF AnswerInv, Latest, HasLast
<1> QED BY <1>5, <1>6, <1>7, <1>8 DEF AnswerInv

LEMMA FinishStep ==
    ASSUME AnswerInv, Finish
    PROVE  AnswerInv'
<1>1. /\ stage \in {"stop", "delta", "last"} /\ lines' = lines /\ kept' = kept /\ answer' = answer
      /\ headers' = headers
  BY DEF Finish
<1>2. Open
  BY <1>1 DEF Open
<1>3. HeadersAreOurs'
  BY <1>1, <1>2, SameHeaders
<1>4. /\ Told' = Told /\ Cardinality(Speaking)' = Cardinality(Speaking)
      /\ (Failed' <=> Failed) /\ Latest' /\ Reporting' = Reporting
  BY <1>1, SameLines DEF AnswerInv
<1>5. lines \in Seq(Read) /\ kept' \in [stop : Words, produced : Nat, reported : Int, prompt : Int]
      /\ body \in Seq(Events) /\ answer' # Waiting
  BY <1>1 DEF AnswerInv, Streams
<1>6. CASE gone
  <2>1. stage' = "closed" /\ outcome' = "broken" /\ body' = body
    BY <1>1, <1>6 DEF Finish, Emit, Close
  <2>2. Remembered' /\ Opened' /\ Written' /\ Over'
    BY <2>1, <1>1, <1>2, CutOff DEF GoesOn
  <2>3. Streams'
    BY <2>1, <1>1, <1>5 DEF Streams
  <2> QED BY <1>3, <1>4, <2>2, <2>3 DEF AnswerInv
<1>7. CASE ~gone
  <2> PICK n \in Nat : n = Cardinality(Speaking)
    BY <1>5, SomeLine
  <2>1. /\ kept.stop = Told.stop /\ kept.prompt = Told.prompt /\ kept.produced = n /\ ~Failed
        /\ kept.reported = IF Reporting = {} THEN 0 ELSE lines[LastIn(Reporting)].counted
    BY <1>2 DEF AnswerInv, Remembered
  <2>2. Reporting # {} => lines[LastIn(Reporting)].counted > 0
    BY DEF AnswerInv, Latest, HasLast, Reporting
  <2>3. Told = [t |-> "message_delta", stop |-> kept.stop, prompt |-> kept.prompt,
                output |-> Later(kept.produced, kept.reported)]
    <3>1. Told = [t |-> "message_delta", stop |-> Told.stop, prompt |-> Told.prompt, output |-> Told.output]
      BY DEF Told
    <3>2. Told.output = IF Reporting = {} THEN n ELSE lines[LastIn(Reporting)].counted
      BY DEF Told
    <3>3. Told.output = Later(kept.produced, kept.reported)
      BY <2>1, <2>2, <3>2 DEF Later
    <3> QED BY <2>1, <3>1, <3>3
  <2>4. Told \in Events
    <3>1. kept.stop \in Words /\ kept.prompt \in Int /\ Later(kept.produced, kept.reported) \in Int
      BY DEF AnswerInv, Streams, Later
    <3> QED BY <2>3, <3>1 DEF Events
  <2>5. PICK e \in Events :
          /\ e.t \in {"content_block_stop", "message_delta", "message_stop"} /\ body' = Append(body, e)
          /\ \/ stage = "stop" /\ stage' = "delta" /\ e.t # "message_stop" /\ outcome' = outcome
             \/ stage = "delta" /\ stage' = "last" /\ e = Told /\ e.t # "message_stop" /\ outcome' = outcome
             \/ stage = "last" /\ stage' = "closed" /\ e.t = "message_stop" /\ outcome' = "complete"
    <3>1. CASE stage = "stop"
      BY <3>1, <1>7 DEF Finish, Emit, Event, Events
    <3>2. CASE stage = "delta"
      <4>1. body' = Append(body, Told) /\ stage' = "last" /\ outcome' = outcome
        BY <3>2, <1>7, <2>3 DEF Finish, Emit
      <4>2. Told.t = "message_delta"
        BY <2>3
      <4> QED BY <3>2, <4>1, <4>2, <2>4
    <3>3. CASE stage = "last"
      BY <3>3, <1>7 DEF Finish, Close, Event, Events
    <3> QED BY <1>1, <3>1, <3>2, <3>3
  <2>6. /\ stage = "stop" => Len(body) = n + 2
        /\ stage = "delta" => Len(body) = n + 3
        /\ stage = "last" => Len(body) = n + 4 /\ body[Len(body)] = Told
        /\ outcome = "open"
    BY <1>2 DEF AnswerInv, Written
  <2>7. /\ body' \in Seq(Events) /\ Len(body') = Len(body) + 1
        /\ body'[Len(body) + 1] = e /\ \A k \in 1..Len(body) : body'[k] = body[k]
        /\ Deltas(Cardinality(Speaking))' /\ Opened' /\ (Ended' <=> e.t = "message_stop")
    <3>1. e.t # "delta" /\ stage' # "idle" /\ Len(body) # 0 /\ Len(body) # 1
      BY <2>5, <2>6
    <3> QED BY <2>5, <3>1, <1>1, <1>2, GoesOut
  <2>8. Streams'
    BY <1>1, <1>5, <2>5, <2>7 DEF Streams
  <2>9. Cardinality(Speaking)' = n
    BY <1>4
  <2>10. CASE stage' = "closed"
    <3>1. ~Open'
      BY <2>10 DEF Open
    <3>2. /\ stage = "last" /\ outcome' = "complete" /\ Ended' /\ Len(body) = n + 4 /\ body[n + 4] = Told
          /\ Len(body') = n + 5 /\ body'[n + 4] = body[n + 4]
      BY <2>5, <2>6, <2>7, <2>10
    <3>3. body'[Len(body') - 1] = Told'
      BY <3>2, <1>4
    <3>4. EndedWhole'
      BY <3>2, <3>3, <2>1, <2>7, <2>9, <1>4 DEF EndedWhole
    <3>5. \E d \in Nat : Deltas(d)'
      BY <2>7, <2>9
    <3>6. Over'
      BY <3>4, <3>5 DEF Over
    <3> QED BY <3>1, <3>6, <2>7, <2>8, <1>3, <1>4 DEF AnswerInv, Remembered, Written
  <2>11. CASE stage' # "closed"
    <3>1. Over'
      BY <2>11 DEF Over
    <3>2. Remembered'
      BY <2>1, <1>1, <1>4 DEF Remembered
    <3>3. ~Ended' /\ outcome' = "open"
      BY <2>5, <2>6, <2>7, <2>11
    <3>4. /\ stage' = "delta" => Len(body') = n + 3
          /\ stage' = "last" => Len(body') = n + 4 /\ body'[Len(body')] = Told'
      BY <2>5, <2>6, <2>7, <1>4
    <3>5. stage' \in {"delta", "last"}
      BY <2>5, <2>11
    <3>6. Written'
      BY <3>3, <3>4, <3>5, <2>7, <2>9 DEF Written
    <3> QED BY <3>1, <3>2, <3>6, <2>7, <2>8, <1>3, <1>4 DEF AnswerInv
  <2> QED BY <2>10, <2>11
<1> QED BY <1>6, <1>7

LEMMA OneMore == \A m \in Nat : m + 0 \in Nat /\ m + 1 \in Nat
OBVIOUS

LEMMA LineStep ==
    ASSUME AnswerInv, NEW line \in Lines, Line(line)
    PROVE  AnswerInv'
<1>1. /\ stage = "read" /\ lines' = Append(lines, line) /\ answer' = answer /\ headers' = headers
  BY DEF Line
<1>2. Open
  BY <1>1 DEF Open
<1>3. HeadersAreOurs'
  BY <1>1, <1>2, SameHeaders
<1>4. line \in Read
  BY DEF Read
<1>5. lines \in Seq(Read) /\ lines' \in Seq(Read) /\ body \in Seq(Events) /\ answer' # Waiting
      /\ kept \in [stop : Words, produced : Nat, reported : Int, prompt : Int]
  BY <1>1, <1>4 DEF AnswerInv, Streams
<1> PICK n \in Nat : n = Cardinality(Speaking)
  BY <1>5, SomeLine
<1>6. /\ Deltas(n) /\ Len(body) = n + 2 /\ outcome = "open" /\ ~Ended
  BY <1>1, <1>2 DEF AnswerInv, Written
<1>7. /\ kept.stop = Told.stop /\ kept.prompt = Told.prompt /\ kept.produced = n /\ ~Failed
      /\ kept.reported = IF Reporting = {} THEN 0 ELSE lines[LastIn(Reporting)].counted
  BY <1>2 DEF AnswerInv, Remembered
<1>8. /\ line.kind \in {"noise", "garbled", "chunk", "error"}
      /\ line.kind \in {"chunk", "error"} => line.text \in STRING /\ line.finish \in STRING /\ line.counted \in Int /\ line.prompt \in Int
  BY TranslationAssumption
<1>10. CASE line.kind # "chunk"
  <2>1. /\ lines' \in Seq(Read) /\ Speaking' = Speaking /\ Finishing' = Finishing
        /\ Reporting' = Reporting /\ Prompting' = Prompting
        /\ Failed' <=> (Failed \/ line.kind \in {"error", "cut"})
    BY <1>1, <1>4, <1>5, <1>10, OneLine
  <2>2. Latest'
    BY <2>1 DEF AnswerInv, Latest, HasLast
  <2>3. Told' = Told /\ Cardinality(Speaking)' = n
    <3>1. Finishing \subseteq DOMAIN lines /\ Prompting \subseteq DOMAIN lines /\ Reporting \subseteq DOMAIN lines
      BY DEF Finishing, Prompting, Reporting
    <3>2. \A i \in DOMAIN lines : lines'[i] = lines[i]
      BY <1>1, <1>4, <1>5
    <3>3. /\ Finishing # {} => lines'[LastIn(Finishing)] = lines[LastIn(Finishing)]
          /\ Prompting # {} => lines'[LastIn(Prompting)] = lines[LastIn(Prompting)]
          /\ Reporting # {} => lines'[LastIn(Reporting)] = lines[LastIn(Reporting)]
      BY <3>1, <3>2 DEF AnswerInv, Latest, HasLast
    <3> QED BY <2>1, <3>3 DEF Told
  <2>4. Reporting # {} => lines'[LastIn(Reporting)] = lines[LastIn(Reporting)]
    <3>1. Reporting \subseteq DOMAIN lines /\ \A i \in DOMAIN lines : lines'[i] = lines[i]
      BY <1>1, <1>4, <1>5 DEF Reporting
    <3> QED BY <3>1 DEF AnswerInv, Latest, HasLast
  <2>5. CASE line.kind \in {"noise", "garbled"}
    <3>1. body' = body /\ stage' = stage /\ kept' = kept /\ outcome' = outcome
      BY <2>5 DEF Line, ReportsError, Skipped
    <3>2. ~Failed' /\ ~Ended'
      BY <2>1, <2>5, <3>1, <1>6, <1>7 DEF Ended
    <3>3. Deltas(n)'
      BY <3>1, <1>1, <1>4, <1>5, <1>6, DeltasKept DEF GoesOn
    <3>4. Written'
      BY <3>1, <3>2, <3>3, <2>3, <1>1, <1>6 DEF Written
    <3>5. Remembered'
      BY <3>1, <3>2, <2>1, <2>3, <2>4, <1>7 DEF Remembered
    <3>6. Streams'
      BY <3>1, <1>1, <1>5 DEF Streams
    <3>7. Opened' /\ Over'
      BY <3>1, <1>1 DEF AnswerInv, Opened, Over
    <3> QED BY <3>4, <3>5, <3>6, <3>7, <2>2, <1>3 DEF AnswerInv
  <2>6. CASE line.kind = "error" /\ gone
    <3>1. body' = body /\ stage' = "closed" /\ kept' = kept /\ outcome' = "broken"
      BY <2>6 DEF Line, ReportsError, Skipped, Close
    <3>2. Remembered' /\ Opened' /\ Written' /\ Over'
      BY <3>1, <1>1, <1>2, <1>4, CutOff DEF GoesOn
    <3>3. Streams'
      BY <3>1, <1>5 DEF Streams
    <3> QED BY <3>2, <3>3, <2>2, <1>3 DEF AnswerInv
  <2>7. CASE line.kind = "error" /\ ~gone
    <3>1. PICK e \in Events : e = Event("error") /\ e.t = "error"
      <4>1. Event("error") \in Events
        BY DEF Events, Event
      <4>2. Event("error").t = "error"
        BY DEF Event
      <4> QED BY <4>1, <4>2
    <3>2. body' = Append(body, e) /\ stage' = "closed" /\ kept' = kept
      BY <3>1, <2>7 DEF Line, ReportsError, Skipped, Close
    <3>3. /\ body' \in Seq(Events) /\ Len(body') = n + 3 /\ body'[n + 3] = e
          /\ DOMAIN body' = 1..(n + 3) /\ DOMAIN body = 1..(n + 2)
          /\ \A k \in 1..(n + 2) : body'[k] = body[k]
      BY <3>2, <1>5, <1>6
    <3>4. Deltas(n)'
      <4>1. e.t # "delta"
        BY <3>1
      <4> QED BY <4>1, <3>2, <1>1, <1>4, <1>5, <1>6, DeltasKept DEF GoesOn
    <3>5. ~Ended'
      BY <3>1, <3>3, <1>6 DEF Ended
    <3>6. EndedByError'
      BY <3>1, <3>3, <3>5, <2>1, <2>7 DEF EndedByError
    <3>7. Over'
      BY <3>4, <3>6 DEF Over
    <3>8. Streams'
      BY <3>2, <3>3, <1>5 DEF Streams
    <3>9. Opened'
      BY <3>3, <1>1, <1>6 DEF AnswerInv, Opened
    <3>10. ~Open'
      BY <3>2 DEF Open
    <3> QED BY <3>7, <3>8, <3>9, <3>10, <2>2, <1>3 DEF AnswerInv, Remembered, Written
  <2> QED BY <1>8, <1>10, <2>5, <2>6, <2>7
<1>11. CASE line.kind = "chunk"
  <2>1. /\ Latest'
        /\ Told'.stop = IF line.finish # "" THEN StopReason(line.finish) ELSE Told.stop
        /\ Told'.prompt = IF line.prompt > 0 THEN line.prompt ELSE Told.prompt
        /\ (IF Reporting = {} THEN 0 ELSE lines[LastIn(Reporting)].counted)' =
              IF line.counted > 0 THEN line.counted
              ELSE IF Reporting = {} THEN 0 ELSE lines[LastIn(Reporting)].counted
    BY <1>1, <1>5, <1>11, OneMoreChunk DEF AnswerInv
  <2>2. kept' = [stop |-> IF line.finish # "" THEN StopReason(line.finish) ELSE kept.stop,
                 produced |-> kept.produced + (IF line.text # "" THEN 1 ELSE 0),
                 reported |-> Later(kept.reported, line.counted),
                 prompt |-> Later(kept.prompt, line.prompt)]
    BY <1>11 DEF Line, ReportsError, Skipped
  <2>3. kept' \in [stop : Words, produced : Nat, reported : Int, prompt : Int]
    <3>1. /\ kept.stop \in Words /\ kept.produced \in Nat /\ kept.reported \in Int /\ kept.prompt \in Int
          /\ line.finish \in STRING /\ line.counted \in Int /\ line.prompt \in Int
      BY <1>5, <1>8, <1>11
    <3>2. (IF line.finish # "" THEN StopReason(line.finish) ELSE kept.stop) \in Words
      BY <3>1, StopReasons
    <3>3. kept.produced + (IF line.text # "" THEN 1 ELSE 0) \in Nat
      <4>1. kept.produced \in Nat
        BY <3>1
      <4>2. kept.produced + 0 \in Nat /\ kept.produced + 1 \in Nat
        BY <4>1, OneMore
      <4> QED BY <4>2
    <3>4. Later(kept.reported, line.counted) \in Int /\ Later(kept.prompt, line.prompt) \in Int
      BY <3>1 DEF Later
    <3> QED BY <2>2, <3>2, <3>3, <3>4
  <2>4. ~Failed'
    BY <1>1, <1>4, <1>5, <1>7, <1>11, OneLine
  <2>5. /\ kept'.stop = Told'.stop /\ kept'.prompt = Told'.prompt
        /\ kept'.reported = (IF Reporting = {} THEN 0 ELSE lines[LastIn(Reporting)].counted)'
    BY <2>1, <2>2, <1>7 DEF Later
  <2>6. CASE line.text = ""
    <3>1. body' = body /\ stage' = "read" /\ outcome' = "open"
      BY <2>6, <1>1, <1>6, <1>11 DEF Line, ReportsError, Skipped
    <3>2. Cardinality(Speaking)' = n
      <4>1. Speaking' = Speaking
        BY <2>6, <1>1, <1>4, <1>5, OneLine
      <4> QED BY <4>1
    <3>3. Deltas(n)'
      BY <3>1, <1>1, <1>4, <1>5, <1>6, DeltasKept DEF GoesOn
    <3>4. kept'.produced = n
      <4>1. kept'.produced = kept.produced + 0
        BY <2>2, <2>6
      <4> QED BY <4>1, <1>7
    <3>5. Written'
      <4>1. ~Ended'
        BY <3>1, <1>6 DEF Ended
      <4> QED BY <4>1, <3>1, <3>2, <3>3, <1>6 DEF Written
    <3>6. Remembered'
      BY <3>2, <3>4, <2>4, <2>5 DEF Remembered
    <3>7. Streams'
      BY <3>1, <2>3, <1>5 DEF Streams
    <3>8. Opened' /\ Over'
      BY <3>1, <1>1 DEF AnswerInv, Opened, Over
    <3> QED BY <3>5, <3>6, <3>7, <3>8, <2>1, <1>3 DEF AnswerInv
  <2>7. CASE line.text # "" /\ gone
    <3>1. body' = body /\ stage' = "closed" /\ outcome' = "broken"
      BY <2>7, <1>11 DEF Line, ReportsError, Skipped, Emit, Close
    <3>2. Remembered' /\ Opened' /\ Written' /\ Over'
      BY <3>1, <1>1, <1>2, <1>4, CutOff DEF GoesOn
    <3>3. Streams'
      BY <3>1, <2>3, <1>5 DEF Streams
    <3> QED BY <3>2, <3>3, <2>1, <1>3 DEF AnswerInv
  <2>8. CASE line.text # "" /\ ~gone
    <3>1. body' = Append(body, Delta(line.text)) /\ stage' = "read" /\ outcome' = "open"
      BY <2>8, <1>6, <1>11 DEF Line, ReportsError, Skipped, Emit
    <3>2. Cardinality(Speaking)' = n + 1 /\ Deltas(n + 1)'
      <4>1. AddsDelta(line, n)
        BY <3>1, <2>8, <1>1, <1>6, <1>8, <1>11 DEF AddsDelta
      <4> QED BY <4>1, <1>4, <1>5, <1>6, OneMoreDelta
    <3>3. PICK e \in Events : e = Delta(line.text) /\ e.t = "delta"
      <4>1. line.text \in STRING
        BY <1>8, <1>11
      <4>2. Delta(line.text) \in Events
        BY <4>1 DEF Events, Delta
      <4>3. Delta(line.text).t = "delta"
        BY DEF Delta
      <4> QED BY <4>2, <4>3
    <3>4. /\ body' \in Seq(Events) /\ Len(body') = n + 3 /\ body'[n + 3] = e
          /\ DOMAIN body' = 1..(n + 3) /\ DOMAIN body = 1..(n + 2)
          /\ \A k \in 1..(n + 2) : body'[k] = body[k]
      <4>1. body' = Append(body, e)
        BY <3>1, <3>3
      <4> QED BY <4>1, <1>5, <1>6
    <3>5. ~Ended'
      BY <3>3, <3>4, <1>6 DEF Ended
    <3>6. kept'.produced = n + 1
      BY <2>2, <2>8, <1>7
    <3>7. Written'
      BY <3>1, <3>2, <3>4, <3>5 DEF Written
    <3>8. Remembered'
      BY <3>2, <3>6, <2>4, <2>5 DEF Remembered
    <3>9. Streams'
      BY <3>1, <3>4, <2>3, <1>5 DEF Streams
    <3>10. Opened' /\ Over'
      BY <3>1, <3>4, <1>1, <1>6 DEF AnswerInv, Opened, Over
    <3> QED BY <3>7, <3>8, <3>9, <3>10, <2>1, <1>3 DEF AnswerInv
  <2> QED BY <2>6, <2>7, <2>8
<1> QED BY <1>10, <1>11

-------------------------------------------------------------------------------
(* What a client reads.                                                    *)

LEMMA AnswerStep == AnswerInv /\ [TranslationNext]_translationVars => AnswerInv'
<1> SUFFICES ASSUME AnswerInv, [TranslationNext]_translationVars PROVE AnswerInv'
  OBVIOUS
<1>1. CASE \E a \in Answers : Respond(a)
  BY <1>1, RespondStep
<1>2. CASE Begin
  BY <1>2, BeginStep
<1>3. CASE ReadFails
  BY <1>3, ReadFailsStep
<1>4. CASE StreamEnds
  BY <1>4, StreamEndsStep
<1>5. CASE Finish
  BY <1>5, FinishStep
<1>6. CASE Leave
  BY <1>6, LeaveStep
<1>7. CASE \E line \in Lines : Line(line)
  BY <1>7, LineStep
<1>8. CASE UNCHANGED translationVars
  BY <1>8, SameAnswer DEF translationVars
<1> QED BY <1>1, <1>2, <1>3, <1>4, <1>5, <1>6, <1>7, <1>8 DEF TranslationNext

LEMMA AnswerInvTrue == AnswerInv => AnswerIsTrue
<1> SUFFICES ASSUME AnswerInv PROVE AnswerIsTrue
  OBVIOUS
<1>1. HeadersAreOurs
  BY DEF AnswerInv
<1>2. ASSUME stage # "idle"
      PROVE  NothingPassedOffAsWhole
  <2>1. lines \in Seq(Read) /\ body \in Seq(Events) /\ (Open \/ stage = "closed")
    BY <1>2 DEF AnswerInv, Streams, Open
  <2> PICK n \in Nat : n = Cardinality(Speaking)
    BY <2>1, SomeLine
  <2>2. PICK d \in Nat : Deltas(d) /\ (Open => ~Ended) /\ (stage = "closed" => EndedWhole \/ EndedByError \/ EndedBroken)
                         /\ (EndedWhole => d = n)
    <3>1. CASE Open
      <4>1. Deltas(n) /\ ~Ended /\ stage # "closed"
        BY <3>1 DEF AnswerInv, Written, Open
      <4> QED BY <4>1
    <3>2. CASE stage = "closed" /\ EndedWhole
      BY <3>2 DEF EndedWhole, Open
    <3>3. CASE stage = "closed" /\ ~EndedWhole
      BY <3>3 DEF AnswerInv, Over, Open
    <3> QED BY <2>1, <3>1, <3>2, <3>3
  <2>3. Spoken = d
    BY <2>1, <2>2, SpokenIs
  <2>4. /\ Spoken <= Cardinality(Speaking)
        /\ \A i \in Speaking : Ordinal(i) <= Spoken => body[Ordinal(i) + 2] = Delta(lines[i].text)
    BY <2>2, <2>3 DEF Deltas
  <2>5. Len(body) > 2 => body[1] = Event("message_start") /\ body[2] = Event("content_block_start")
    BY <1>2, <2>1 DEF AnswerInv, Opened
  <2>6. Ended => EndedWhole
    BY <2>1, <2>2 DEF EndedByError, EndedBroken
  <2>7. Ended => /\ ~Failed /\ Spoken = Cardinality(Speaking) /\ outcome = "complete"
                 /\ body[Len(body) - 1] = Told
    BY <2>2, <2>3, <2>6 DEF EndedWhole
  <2>8. stage = "closed" => \/ Ended /\ Len(body) = Spoken + 5
                            \/ Failed /\ body[Len(body)] = Event("error")
                            \/ outcome = "broken"
    BY <2>2, <2>3 DEF EndedWhole, EndedByError, EndedBroken
  <2> QED BY <2>4, <2>5, <2>7, <2>8 DEF NothingPassedOffAsWhole
<1>3. NothingPassedOffAsWhole
  BY <1>2 DEF NothingPassedOffAsWhole
<1> QED BY <1>1, <1>3 DEF AnswerIsTrue

\* An answer, however long, whatever a provider says and whenever it or the
\* client stops, says what the chunks that decode say, in their order; ends as
\* a whole only when the read did not fail and no chunk reported an error; and
\* has no header of the provider's that is not for it (streamFromOpenAI,
\* modifyResponse).  It is not proved of trailers nor of an error that does not
\* decode, and is not so.
THEOREM AnswersTrue == TranslationSpec => []AnswerIsTrue
<1>1. TranslationInit => AnswerInv
  BY AnswerInitOK
<1>2. AnswerInv /\ [TranslationNext]_translationVars => AnswerInv'
  BY AnswerStep
<1>3. AnswerInv => AnswerIsTrue
  BY AnswerInvTrue
<1> QED BY <1>1, <1>2, <1>3, PTL DEF TranslationSpec

-------------------------------------------------------------------------------
(* The requests that are sent, of any size, under any configuration.        *)

\* Every nonempty set of natural numbers has a first element.
LEMMA First == ASSUME NEW S \in SUBSET Nat, S # {} PROVE \E s \in S : \A t \in S : s <= t
<1> DEFINE R == OpToRel(<, Nat)
<1>1. IsWellFoundedOn(R, Nat)
  BY NatLessThanWellFounded, Zenon
<1>2. \A x, y \in Nat : x < y => <<x, y>> \in R
  BY DEF OpToRel
<1> HIDE DEF R
<1>3. PICK s \in S : \A t \in S : ~(<<t, s>> \in R)
  BY <1>1, WFMin
<1>4. \A t \in S : ~(t < s)
  BY <1>2, <1>3
<1> QED BY <1>4

\* The levels of a value are what their definition says, one after the other.
LEMMA LevelDef ==
    ASSUME NEW v
    PROVE  /\ DOMAIN Level(v) = 0..MaxDepth
           /\ Level(v)[0] = {[place |-> <<>>, value |-> v]}
           /\ \A n \in 1..MaxDepth : Level(v)[n] = Inside(Level(v)[n - 1])
<1> DEFINE base == {[place |-> <<>>, value |-> v]}
           Is(g, m) == g = [n \in 0..m |-> IF n = 0 THEN base ELSE Inside(g[n - 1])]
           without == {m \in Nat : ~\E g : Is(g, m)}
<1>1. without = {}
  <2> SUFFICES ASSUME without # {} PROVE FALSE
    OBVIOUS
  <2>1. PICK m \in without : \A k \in without : m <= k
    <3>1. without \in SUBSET Nat
      OBVIOUS
    <3> HIDE DEF without
    <3> QED BY <3>1, First
  <2>2. m \in Nat /\ ~\E g : Is(g, m)
    BY <2>1
  <2>3. CASE m = 0
    <3> DEFINE h == [n \in 0..0 |-> base]
    <3>1. h = [n \in 0..0 |-> IF n = 0 THEN base ELSE Inside(h[n - 1])]
      OBVIOUS
    <3>2. Is(h, 0)
      BY <3>1
    <3> QED BY <3>2, <2>2, <2>3
  <2>4. CASE m # 0
    <3>1. m - 1 \in Nat /\ ~(m <= m - 1)
      BY <2>2, <2>4
    <3>2. PICK g : Is(g, m - 1)
      BY <3>1, <2>1
    <3> DEFINE h == [n \in 0..m |-> IF n = 0 THEN base ELSE Inside(g[n - 1])]
    <3>3. \A n \in 0..(m - 1) : h[n] = g[n]
      <4>1. \A n \in 0..(m - 1) : g[n] = IF n = 0 THEN base ELSE Inside(g[n - 1])
        BY <3>2
      <4>2. \A n \in 0..m : h[n] = IF n = 0 THEN base ELSE Inside(g[n - 1])
        <5> HIDE DEF base
        <5> QED OBVIOUS
      <4>3. \A n \in 0..(m - 1) : n \in 0..m
        BY <3>1, <2>2
      <4> HIDE DEF h, base
      <4> QED BY <4>1, <4>2, <4>3
    <3>4. h = [n \in 0..m |-> IF n = 0 THEN base ELSE Inside(h[n - 1])]
      <4>1. \A n \in 0..m : n # 0 => n - 1 \in 0..(m - 1)
        BY <3>1
      <4>2. \A n \in 0..m : n # 0 => Inside(h[n - 1]) = Inside(g[n - 1])
        <5> HIDE DEF h
        <5> QED BY <4>1, <3>3
      <4>3. \A n \in 0..m : (IF n = 0 THEN base ELSE Inside(g[n - 1])) = (IF n = 0 THEN base ELSE Inside(h[n - 1]))
        <5> HIDE DEF h, base
        <5> QED BY <4>2
      <4>4. h = [n \in 0..m |-> IF n = 0 THEN base ELSE Inside(g[n - 1])]
        OBVIOUS
      <4> HIDE DEF h, base
      <4> QED BY <4>3, <4>4
    <3>5. Is(h, m)
      BY <3>4
    <3> QED BY <3>5, <2>2
  <2> QED BY <2>3, <2>4
<1>2. MaxDepth \in Nat
  BY AdmissionAssumption
<1>3. \E g : Is(g, MaxDepth)
  BY <1>1, <1>2
<1>4. Level(v) = CHOOSE g : Is(g, MaxDepth)
  BY DEF Level
<1>5. Is(Level(v), MaxDepth)
  <2> HIDE DEF Is
  <2> QED BY <1>3, <1>4
<1>6. Level(v) = [n \in 0..MaxDepth |-> IF n = 0 THEN base ELSE Inside(Level(v)[n - 1])]
  BY <1>5
<1> HIDE DEF base
<1>7. DOMAIN Level(v) = 0..MaxDepth /\ Level(v)[0] = base
  BY <1>2, <1>6
<1>8. \A n \in 1..MaxDepth : Level(v)[n] = Inside(Level(v)[n - 1])
  BY <1>2, <1>6
<1> QED BY <1>7, <1>8 DEF base

\* What a function takes finitely many values from is finite.
LEMMA FiniteImage ==
    ASSUME NEW f, IsFiniteSet(DOMAIN f)
    PROVE  IsFiniteSet({f[x] : x \in DOMAIN f})
<1> DEFINE D == DOMAIN f
           g == [x \in D |-> f[x]]
           T == {f[x] : x \in D}
<1>1. g \in Surjection(D, T)
  BY DEF Surjection
<1> QED BY <1>1, FS_Surjection

\* The number a sequence of digits stands for.
LEMMA NumberDef ==
    ASSUME NEW digits, NEW len \in Nat, len = Len(digits)
    PROVE  \E value :
              /\ Number(digits) = value[len] /\ value[0] = 0
              /\ \A n \in 1..len : value[n] = 10 * value[n - 1] + digits[n]
<1> DEFINE Is(g, m) == g = [n \in 0..m |-> IF n = 0 THEN 0 ELSE 10 * g[n - 1] + digits[n]]
           without == {m \in Nat : ~\E g : Is(g, m)}
<1>1. without = {}
  <2> SUFFICES ASSUME without # {} PROVE FALSE
    OBVIOUS
  <2>1. PICK m \in without : \A k \in without : m <= k
    <3>1. without \in SUBSET Nat
      OBVIOUS
    <3> HIDE DEF without
    <3> QED BY <3>1, First
  <2>2. m \in Nat /\ ~\E g : Is(g, m)
    BY <2>1
  <2>3. CASE m = 0
    <3> DEFINE h == [n \in 0..0 |-> 0]
    <3>1. h = [n \in 0..0 |-> IF n = 0 THEN 0 ELSE 10 * h[n - 1] + digits[n]]
      OBVIOUS
    <3>2. Is(h, 0)
      BY <3>1
    <3> QED BY <3>2, <2>2, <2>3
  <2>4. CASE m # 0
    <3>1. m - 1 \in Nat /\ ~(m <= m - 1)
      BY <2>2, <2>4
    <3>2. PICK g : Is(g, m - 1)
      BY <3>1, <2>1
    <3> DEFINE h == [n \in 0..m |-> IF n = 0 THEN 0 ELSE 10 * g[n - 1] + digits[n]]
    <3>3. \A n \in 0..(m - 1) : h[n] = g[n]
      <4>1. \A n \in 0..(m - 1) : g[n] = IF n = 0 THEN 0 ELSE 10 * g[n - 1] + digits[n]
        BY <3>2
      <4>2. \A n \in 0..m : h[n] = IF n = 0 THEN 0 ELSE 10 * g[n - 1] + digits[n]
        OBVIOUS
      <4>3. \A n \in 0..(m - 1) : n \in 0..m
        BY <3>1, <2>2
      <4> HIDE DEF h
      <4> QED BY <4>1, <4>2, <4>3
    <3>4. h = [n \in 0..m |-> IF n = 0 THEN 0 ELSE 10 * h[n - 1] + digits[n]]
      <4>1. \A n \in 0..m : n # 0 => n - 1 \in 0..(m - 1)
        BY <3>1
      <4>2. \A n \in 0..m : n # 0 => 10 * h[n - 1] = 10 * g[n - 1]
        <5> HIDE DEF h
        <5> QED BY <4>1, <3>3
      <4>3. \A n \in 0..m : (IF n = 0 THEN 0 ELSE 10 * g[n - 1] + digits[n])
                            = (IF n = 0 THEN 0 ELSE 10 * h[n - 1] + digits[n])
        <5> HIDE DEF h
        <5> QED BY <4>2
      <4>4. h = [n \in 0..m |-> IF n = 0 THEN 0 ELSE 10 * g[n - 1] + digits[n]]
        OBVIOUS
      <4> HIDE DEF h
      <4> QED BY <4>3, <4>4
    <3>5. Is(h, m)
      BY <3>4
    <3> QED BY <3>5, <2>2
  <2> QED BY <2>3, <2>4
<1>2. \E g : Is(g, len)
  BY <1>1
<1> DEFINE value == CHOOSE g : Is(g, len)
<1>3. Number(digits) = value[len]
  BY DEF Number
<1>4. Is(value, len)
  <2> HIDE DEF Is
  <2> QED BY <1>2
<1> HIDE DEF value
<1>5. value[0] = 0 /\ \A n \in 1..len : value[n] = 10 * value[n - 1] + digits[n]
  BY <1>4
<1> QED BY <1>3, <1>5

LEMMA NumberType == ASSUME NEW digits \in Seq(Nat) PROVE Number(digits) \in Nat
<1>1. PICK len \in Nat : len = Len(digits)
  OBVIOUS
<1>2. PICK value : /\ Number(digits) = value[len] /\ value[0] = 0
                   /\ \A n \in 1..len : value[n] = 10 * value[n - 1] + digits[n]
  BY <1>1, NumberDef
<1> DEFINE wrong == {n \in 0..len : value[n] \notin Nat}
<1>3. wrong = {}
  <2> SUFFICES ASSUME wrong # {} PROVE FALSE
    OBVIOUS
  <2>1. PICK n \in wrong : \A k \in wrong : n <= k
    <3>1. wrong \in SUBSET Nat
      OBVIOUS
    <3> HIDE DEF wrong
    <3> QED BY <3>1, First
  <2>2. n \in 1..len /\ n - 1 \in 0..len /\ ~(n <= n - 1)
    BY <1>2, <2>1
  <2>3. value[n - 1] \in Nat
    BY <2>1, <2>2
  <2>4. digits[n] \in Nat
    BY <1>1, <2>2
  <2>5. \A w, d \in Nat : 10 * w + d \in Nat
    OBVIOUS
  <2>6. value[n] = 10 * value[n - 1] + digits[n]
    BY <1>2, <2>2
  <2>7. value[n] \in Nat
    BY <2>3, <2>4, <2>5, <2>6
  <2> QED BY <2>1, <2>7
<1> QED BY <1>2, <1>3

\* An amount that is accepted is a number of parts.
Amounts == [whole : Seq(Nat), points : Nat, fraction : Seq(Nat)]

LEMMA AmountType ==
    ASSUME NEW text \in Amounts, ParseAmount(text) # Overflow
    PROVE  ParseAmount(text) \in Nat
<1>1. PICK len \in Nat : len = Len(text.fraction)
  BY DEF Amounts
<1>2. Places \in Nat /\ PerUnit \in Nat
  BY PricingAssumption DEF PerUnit
<1>3. len <= Places
  <2>1. ~(Len(text.fraction) > Places)
    BY Zenon DEF ParseAmount
  <2> QED BY <2>1, <1>1, <1>2
<1> DEFINE zeros == [i \in 1..(Places - len) |-> 0]
<1>4. zeros \in Seq(Nat)
  <2>1. Places - len \in Nat
    BY <1>2, <1>3
  <2> QED BY <2>1
<1>5. text.whole \in Seq(Nat) /\ text.fraction \in Seq(Nat)
  BY DEF Amounts
<1> HIDE DEF zeros
<1>6. Number(text.whole) \in Nat /\ Number(text.fraction \o zeros) \in Nat
  <2>1. text.fraction \o zeros \in Seq(Nat)
    BY <1>4, <1>5
  <2> QED BY <2>1, <1>5, NumberType
<1>7. ParseAmount(text) = Number(text.whole) * PerUnit + Number(text.fraction \o zeros)
  BY <1>1 DEF ParseAmount, zeros
<1>8. \A w, f, u \in Nat : w * u + f \in Nat
  OBVIOUS
<1> QED BY <1>2, <1>6, <1>7, <1>8

\* The prices of a line that can be read.
LEMMA LineRates ==
    ASSUME NEW line, line.prices \in Seq(Amounts), Readable(line)
    PROVE  Rates(line.prices) \in [input : Nat, output : Nat]
<1> PICK prices \in Seq(Amounts) : prices = line.prices
  OBVIOUS
<1>1. Len(prices) \in {0, 2} /\ \A i \in DOMAIN prices : ParseAmount(prices[i]) # Overflow
  BY DEF Readable
<1>2. CASE Len(prices) = 0
  <2>1. prices = <<>>
    BY <1>2
  <2> QED BY <2>1 DEF Rates, NoPrice
<1>3. CASE Len(prices) = 2
  <2>1. prices # <<>> /\ 1 \in DOMAIN prices /\ 2 \in DOMAIN prices
    BY <1>3
  <2>2. prices[1] \in Amounts /\ prices[2] \in Amounts
    BY <2>1
  <2>3. ParseAmount(prices[1]) \in Nat /\ ParseAmount(prices[2]) \in Nat
    BY <1>1, <2>1, <2>2, AmountType
  <2>4. Rates(prices) = [input |-> ParseAmount(prices[1]), output |-> ParseAmount(prices[2])]
    BY <2>1 DEF Rates
  <2> QED BY <2>3, <2>4
<1> QED BY <1>1, <1>2, <1>3

\* A file that is accepted serves routes that are valid, with prices that are
\* numbers.
LEMMA FileRates ==
    ASSUME NEW config \in Configs,
           NEW routes, routes = ParseRoutes(config.lines, config.environment), routes # NoRoutes,
           NEW m \in DOMAIN routes
    PROVE  routes[m].rates \in [input : Nat, output : Nat] /\ ValidRoute(routes[m])
<1> DEFINE file == config.lines
           read == {i \in DOMAIN file : file[i].form # "comment"}
           names == [i \in read |-> file[i].model]
           table == [i \in read |-> RouteOf(file[i])]
<1>1. /\ \A i \in read : Readable(file[i])
      /\ routes = NewRoutes(names, table)
  BY DEF ParseRoutes
<1>2. routes = [k \in Range(names) |-> table[CHOOSE i \in DOMAIN names : names[i] = k]]
  BY <1>1 DEF NewRoutes
<1>3. m \in Range(names) /\ routes[m] = table[CHOOSE i \in DOMAIN names : names[i] = m]
  BY <1>2
<1>4. PICK i \in read : routes[m] = table[i]
  <2>1. \E i \in DOMAIN names : names[i] = m
    BY <1>3 DEF Range
  <2>2. DOMAIN names = read
    OBVIOUS
  <2> HIDE DEF names, table, read
  <2> QED BY <1>3, <2>1, <2>2
<1>5. routes[m].rates = Rates(file[i].prices)
  BY <1>4 DEF RouteOf
<1>6. file[i].prices \in Seq(Amounts)
  BY ConfigsAssumption DEF Amounts
<1>7. ValidRoute(table[i])
  <2>1. DOMAIN table = read
    OBVIOUS
  <2> HIDE DEF names, table, read
  <2> QED BY <1>1, <2>1 DEF NewRoutes
<1> QED BY <1>1, <1>4, <1>5, <1>6, <1>7, LineRates

\* However its models are configured, a server that started sends none of them
\* to an address that is absent or not https, or without a credential; every
\* price is a word, two or none to a model; and where there is a ceiling on cost
\* every model has them (New, ParseRoutes, NewRoutes, AllPriced).
THEOREM ServedRoutes ==
    ASSUME NEW config \in Configs, Starts(config), NEW m \in DOMAIN Server(config).routes
    PROVE  LET started == Server(config)
               route == started.routes[m]
           IN  /\ route.style \in {Anthropic, OpenAI}
               /\ route.credential # Absent /\ route.upstream \notin {Absent, Unsafe}
               /\ route.rates \in [input : 0..(Word - 1), output : 0..(Word - 1)]
               /\ Priced(route.rates) \/ route.rates = NoPrice
               /\ started.requireRates => Priced(route.rates)
<1> PICK route : route = Server(config).routes[m]
  OBVIOUS
<1>1. Server(config).requireRates = config.requireRates
  BY DEF Server
<1>2. /\ route.rates \in [input : Nat, output : Nat] /\ ValidRates(route.rates)
      /\ route.style \in {Anthropic, OpenAI}
      /\ route.credential # Absent /\ route.upstream \notin {Absent, Unsafe}
      /\ config.requireRates => Priced(route.rates)
  <2>1. CASE config.routed
    <3> PICK routes : routes = ParseRoutes(config.lines, config.environment)
      OBVIOUS
    <3>1. Server(config).routes = routes
      BY <2>1 DEF Server
    <3>2. routes # NoRoutes /\ (config.requireRates => AllPriced(routes))
      BY <2>1 DEF Starts
    <3>3. route.rates \in [input : Nat, output : Nat] /\ ValidRoute(route)
      BY <3>1, <3>2, FileRates
    <3> QED BY <3>1, <3>2, <3>3 DEF AllPriced, ValidRoute
  <2>2. CASE ~config.routed
    <3>1. /\ config.requireRates => Priced(config.rates)
          /\ Absent \notin {config.upstream, config.credential}
          /\ config.upstream # Unsafe /\ ValidRates(config.rates)
      BY <2>2 DEF Starts
    <3>2. /\ route.rates = config.rates /\ route.style = Anthropic
          /\ route.upstream = config.upstream /\ route.credential = config.credential
      BY <2>2 DEF Server
    <3>3. config.rates \in [input : Nat, output : Nat]
      BY ConfigsAssumption
    <3> QED BY <3>1, <3>2, <3>3
  <2> QED BY <2>1, <2>2
<1>3. /\ route.rates \in [input : 0..(Word - 1), output : 0..(Word - 1)]
      /\ Priced(route.rates) \/ route.rates = NoPrice
  <2>1. Word \in Nat \ {0} /\ MaxPrice \in Nat /\ MaxPrice < Word
    <3>1. Word \in Nat /\ MaxPrice \in Nat /\ MaxPrice < Word
      BY PricingAssumption
    <3> QED BY <3>1
  <2>2. CASE route.rates = NoPrice
    BY <2>1, <2>2 DEF NoPrice
  <2>3. CASE route.rates # NoPrice
    BY <1>2, <2>1, <2>3 DEF ValidRates
  <2> QED BY <2>2, <2>3
<1> QED BY <1>1, <1>2, <1>3

-------------------------------------------------------------------------------
(* JSON values and what is inside them.                                    *)

\* What is inside a value of one level is on the next.
LEMMA Deeper ==
    ASSUME NEW v, NEW n \in Nat, n < MaxDepth, NEW node \in Level(v)[n], Composite(node.value),
           NEW i \in DOMAIN Values(node.value)
    PROVE  \E k \in Level(v)[n + 1] : k.value = Values(node.value)[i]
<1> DEFINE k == [place |-> Append(node.place, i), value |-> Values(node.value)[i]]
<1>1. Level(v)[n + 1] = Inside(Level(v)[n])
  <2>1. n + 1 \in 1..MaxDepth /\ (n + 1) - 1 = n
    BY AdmissionAssumption
  <2> QED BY <2>1, LevelDef
<1>2. k \in Inside(Level(v)[n])
  <2> DEFINE From(m) == {[place |-> Append(m.place, j), value |-> Values(m.value)[j]] : j \in DOMAIN Values(m.value)}
  <2>1. k \in From(node)
    OBVIOUS
  <2>2. From(node) \in {From(m) : m \in {l \in Level(v)[n] : Composite(l.value)}}
    OBVIOUS
  <2>3. Inside(Level(v)[n]) = UNION {From(m) : m \in {l \in Level(v)[n] : Composite(l.value)}}
    BY Zenon DEF Inside
  <2> HIDE DEF From, k
  <2> QED BY <2>1, <2>2, <2>3
<1>3. k.value = Values(node.value)[i]
  OBVIOUS
<1> QED BY <1>1, <1>2, <1>3

\* And nothing else is.
LEMMA Outer ==
    ASSUME NEW v, NEW n \in Nat, n < MaxDepth, NEW k \in Level(v)[n + 1]
    PROVE  \E node \in Level(v)[n] :
              Composite(node.value) /\ \E i \in DOMAIN Values(node.value) : k.value = Values(node.value)[i]
<1>1. Level(v)[n + 1] = Inside(Level(v)[n])
  <2>1. n + 1 \in 1..MaxDepth /\ (n + 1) - 1 = n
    BY AdmissionAssumption
  <2> QED BY <2>1, LevelDef
<1> DEFINE From(m) == {[place |-> Append(m.place, j), value |-> Values(m.value)[j]] : j \in DOMAIN Values(m.value)}
<1>2. Inside(Level(v)[n]) = UNION {From(m) : m \in {l \in Level(v)[n] : Composite(l.value)}}
  BY Zenon DEF Inside
<1>3. PICK node \in Level(v)[n] : Composite(node.value) /\ k \in From(node)
  <2> HIDE DEF From
  <2> QED BY <1>1, <1>2
<1>4. PICK i \in DOMAIN Values(node.value) : k = [place |-> Append(node.place, i), value |-> Values(node.value)[i]]
  BY <1>3
<1>5. k.value = Values(node.value)[i]
  BY <1>4
<1> QED BY <1>3, <1>5

\* The fields of an object whose names differ.
LEMMA FieldsOf ==
    ASSUME NEW v, DOMAIN v.members \subseteq Int, IsInjective(Names(v))
    PROVE  /\ DOMAIN Fields(v) = Range(Names(v))
           /\ Fields(v) = [name \in DOMAIN Fields(v) |-> Fields(v)[name]]
           /\ \A i \in DOMAIN v.members :
                /\ v.members[i].name \in DOMAIN Fields(v)
                /\ Fields(v)[v.members[i].name] = v.members[i].value
           /\ \A name \in DOMAIN Fields(v) : \E i \in DOMAIN v.members :
                v.members[i].name = name /\ v.members[i].value = Fields(v)[name]
<1> DEFINE D == DOMAIN v.members
           last(name) == CHOOSE i \in D : v.members[i].name = name /\ \A j \in D : v.members[j].name = name => j <= i
<1>1. Fields(v) = [name \in Range(Names(v)) |-> v.members[last(name)].value]
  BY DEF Fields
<1>2. Range(Names(v)) = {v.members[i].name : i \in D}
  BY DEF Names, Range
<1>3. \A i, j \in D : v.members[i].name = v.members[j].name => i = j
  BY DEF Names, IsInjective
<1>4. ASSUME NEW i \in D
      PROVE  last(v.members[i].name) = i
  <2>1. \A j \in D : (v.members[j].name = v.members[i].name
                       /\ \A k \in D : v.members[k].name = v.members[i].name => k <= j) <=> j = i
    BY <1>3
  <2> QED BY <2>1
<1> HIDE DEF last
<1> QED BY <1>1, <1>2, <1>4

\* What an admitted request may contain: plain values, and lists of plain values
\* and of objects whose names differ and whose values are plain.
Block(v) ==
    Composite(v) =>
        /\ v.t = "object" /\ DOMAIN v.members \subseteq Int /\ IsFiniteSet(DOMAIN v.members)
        /\ IsInjective(Names(v)) /\ \A i \in DOMAIN v.members : ~Composite(v.members[i].value)
Piece(v) ==
    Composite(v) =>
        /\ v.t = "array" /\ DOMAIN v.items \subseteq Int /\ IsFiniteSet(DOMAIN v.items)
        /\ \A i \in DOMAIN v.items : Block(v.items[i])

LEMMA Listed ==
    ASSUME NEW s, s \in Seq(Range(s))
    PROVE  DOMAIN s = 1..Len(s) /\ Len(s) \in Nat /\ DOMAIN s \subseteq Int /\ IsFiniteSet(DOMAIN s)
<1>1. DOMAIN s = 1..Len(s) /\ Len(s) \in Nat
  OBVIOUS
<1> QED BY <1>1, FS_Interval

\* What an admitted request is, as the body that is decoded.
Supported == {"max_tokens", "messages", "model", "stop_sequences", "stream", "system", "temperature", "top_p"}

LEMMA Admitted ==
    ASSUME NEW r \in Asked, Admissible(r)
    PROVE  LET fields == Fields(r.doc)
           IN  /\ fields = [name \in DOMAIN fields |-> fields[name]]
               /\ {"messages", "model", "max_tokens"} \subseteq DOMAIN fields /\ DOMAIN fields \subseteq Supported
               /\ \A name \in DOMAIN fields : Valid(name, fields[name]) /\ Value(fields[name])
               /\ \A name \in DOMAIN fields : Piece(fields[name])
               /\ 3 <= MaxDepth /\ MaxDepth \in Nat
<1> DEFINE doc == r.doc
           fields == Fields(doc)
<1>0. MaxDepth \in Nat
  BY AdmissionAssumption
<1>1. \A n \in 0..MaxDepth : \A node \in Level(doc)[n] :
        /\ Value(node.value)
        /\ Composite(node.value) => n < MaxDepth
        /\ node.value.t = "object" => IsInjective(Names(node.value))
  <2>1. Unambiguous(doc)
    BY DEF Admissible
  <2>2. \A node \in Nodes(doc) : Value(node.value)
    BY AskedAssumption
  <2>3. \A n \in 0..MaxDepth : Level(doc)[n] \subseteq Nodes(doc)
    BY DEF Nodes
  <2>4. ASSUME NEW n \in 0..MaxDepth, NEW node \in Level(doc)[n]
        PROVE  /\ Value(node.value)
               /\ Composite(node.value) => n < MaxDepth
               /\ node.value.t = "object" => IsInjective(Names(node.value))
    <3>1. Composite(node.value) => n < MaxDepth /\ (node.value.t = "object" => IsInjective(Names(node.value)))
      BY <2>1 DEF Unambiguous
    <3>2. node.value.t = "object" => Composite(node.value)
      BY DEF Composite
    <3> QED BY <2>2, <2>3, <3>1, <3>2
  <2> QED BY <2>4
<1>2. ValidBody(doc)
  BY DEF Admissible
<1>3. /\ doc.t = "object" /\ {"messages", "model", "max_tokens"} \subseteq Range(Names(doc))
      /\ \A name \in DOMAIN fields : Valid(name, fields[name])
  BY <1>2 DEF ValidBody
<1>4. Composite(doc) /\ Values(doc) = [i \in DOMAIN doc.members |-> doc.members[i].value]
  BY <1>3 DEF Composite, Values
<1>5. PICK root \in Level(doc)[0] : root.value = doc
  <2> DEFINE root == [place |-> <<>>, value |-> doc]
  <2>1. Level(doc)[0] = {root} /\ root.value = doc
    BY LevelDef
  <2> HIDE DEF root
  <2> QED BY <2>1
<1>6. 0 < MaxDepth /\ IsInjective(Names(doc)) /\ DOMAIN doc.members \subseteq Int
  <2>1. Value(doc) /\ IsInjective(Names(doc)) /\ 0 < MaxDepth
    BY <1>0, <1>1, <1>3, <1>4, <1>5
  <2>2. doc.members \in Seq(Range(doc.members))
    BY <2>1, <1>3 DEF Value
  <2> QED BY <2>1, <2>2, Listed
<1>7. /\ DOMAIN fields = Range(Names(doc)) /\ fields = [name \in DOMAIN fields |-> fields[name]]
      /\ \A name \in DOMAIN fields : \E i \in DOMAIN doc.members : doc.members[i].value = fields[name]
  BY <1>6, FieldsOf
<1>8. \A name \in DOMAIN fields : \E node \in Level(doc)[1] : node.value = fields[name]
  <2> SUFFICES ASSUME NEW name \in DOMAIN fields
               PROVE  \E node \in Level(doc)[1] : node.value = fields[name]
    OBVIOUS
  <2>1. PICK i \in DOMAIN doc.members : doc.members[i].value = fields[name]
    BY <1>7
  <2>2. i \in DOMAIN Values(root.value) /\ Values(root.value)[i] = fields[name] /\ Composite(root.value)
    BY <2>1, <1>4, <1>5
  <2>3. \E node \in Level(doc)[0 + 1] : node.value = Values(root.value)[i]
    BY <2>2, <1>5, <1>6, Deeper
  <2> QED BY <2>2, <2>3
<1>9. \A name \in DOMAIN fields : Valid(name, fields[name]) /\ Value(fields[name])
  <2>1. 1 \in 0..MaxDepth
    BY <1>0, <1>6
  <2> QED BY <2>1, <1>1, <1>3, <1>8
<1>10. DOMAIN fields \subseteq Supported
  <2>1. \A name, v : Valid(name, v) => name \in Supported
    BY DEF Valid, Supported
  <2> QED BY <2>1, <1>9
<1>11. ASSUME NEW name \in DOMAIN fields, fields[name].t = "array", NEW i \in DOMAIN fields[name].items
       PROVE  /\ 1 < MaxDepth
              /\ Value(fields[name].items[i])
              /\ Composite(fields[name].items[i]) => 2 < MaxDepth
              /\ fields[name].items[i].t = "object" => IsInjective(Names(fields[name].items[i]))
  <2>1. PICK node \in Level(doc)[1] : node.value = fields[name]
    BY <1>8
  <2>2. Composite(node.value) /\ Values(node.value) = fields[name].items
    BY <2>1, <1>11 DEF Composite, Values
  <2>3. 1 < MaxDepth
    <3>1. 1 \in 0..MaxDepth
      BY <1>0, <1>6
    <3> QED BY <3>1, <2>2, <1>1
  <2>4. \E k \in Level(doc)[1 + 1] : k.value = Values(node.value)[i]
    <3>1. 1 \in Nat /\ i \in DOMAIN Values(node.value)
      BY <2>2
    <3> HIDE DEF doc, fields
    <3> QED BY <3>1, <2>2, <2>3, Deeper
  <2>5. PICK k \in Level(doc)[2] : k.value = fields[name].items[i]
    BY <2>2, <2>4
  <2>6. 2 \in 0..MaxDepth
    BY <1>0, <2>3
  <2> QED BY <2>3, <2>5, <2>6, <1>1
<1>12. ASSUME NEW name \in DOMAIN fields PROVE Piece(fields[name])
  <2> SUFFICES ASSUME Composite(fields[name]) PROVE Piece(fields[name])
    BY DEF Piece
  <2>1. name \in {"messages", "stop_sequences"} /\ fields[name].t = "array"
    BY <1>9 DEF Valid, Composite
  <2>2. fields[name].items \in Seq(Range(fields[name].items))
    BY <1>9, <2>1 DEF Value
  <2>3. DOMAIN fields[name].items \subseteq Int /\ IsFiniteSet(DOMAIN fields[name].items)
    BY <2>2, Listed
  <2>4. ASSUME NEW i \in DOMAIN fields[name].items PROVE Block(fields[name].items[i])
    <3> DEFINE item == fields[name].items[i]
    <3> SUFFICES ASSUME Composite(item) PROVE Block(item)
      BY DEF Block
    <3>1. Message(item)
      BY <1>9, <2>1 DEF Valid, Composite
    <3>2. item.t = "object" /\ IsInjective(Names(item)) /\ Value(item)
      BY <3>1, <2>1, <1>11 DEF Message
    <3>3. DOMAIN item.members \subseteq Int /\ IsFiniteSet(DOMAIN item.members)
      <4>1. item.members \in Seq(Range(item.members))
        BY <3>2 DEF Value
      <4> QED BY <4>1, Listed
    <3>4. ASSUME NEW j \in DOMAIN item.members PROVE ~Composite(item.members[j].value)
      <4>1. /\ item.members[j].name \in DOMAIN Fields(item)
            /\ Fields(item)[item.members[j].name] = item.members[j].value
            /\ DOMAIN Fields(item) = Range(Names(item))
        BY <3>2, <3>3, FieldsOf
      <4>2. item.members[j].name \in {"role", "content"}
        BY <4>1, <3>1 DEF Message
      <4>3. ~Composite(Fields(item).role) /\ ~Composite(Fields(item).content)
        BY <3>1 DEF Message, Composite, Text
      <4> QED BY <4>1, <4>2, <4>3
    <3> QED BY <3>2, <3>3, <3>4 DEF Block
  <2> QED BY <2>1, <2>3, <2>4 DEF Piece
<1>13. 3 <= MaxDepth
  <2>1. "messages" \in DOMAIN fields
    BY <1>3, <1>7
  <2>2. /\ fields["messages"].t = "array" /\ fields["messages"].items # <<>>
        /\ \A i \in DOMAIN fields["messages"].items : Message(fields["messages"].items[i])
    BY <1>9, <2>1 DEF Valid
  <2>3. fields["messages"].items \in Seq(Range(fields["messages"].items))
    BY <1>9, <2>1, <2>2 DEF Value
  <2>4. 1 \in DOMAIN fields["messages"].items
    BY <2>2, <2>3
  <2>5. Composite(fields["messages"].items[1])
    BY <2>2, <2>4 DEF Message, Composite
  <2>6. 2 < MaxDepth
    BY <1>11, <2>1, <2>2, <2>4, <2>5
  <2> QED BY <1>0, <2>6
<1> QED BY <1>0, <1>3, <1>7, <1>9, <1>10, <1>12, <1>13

\* The names a map may have when it is encoded, each at its place.
LEMMA Ordered ==
    /\ DOMAIN Order = 1..9 /\ \A i, j \in DOMAIN Order : Order[i] = Order[j] => i = j
    /\ Range(Order) = Supported \cup {"stop"}
<1>1. DOMAIN Order = 1..9
  BY DEF Order
<1>2. \A i, j \in 1..9 : Order[i] = Order[j] => i = j
  BY DEF Order
<1>3. Range(Order) = Supported \cup {"stop"}
  <2>1. Range(Order) = {Order[i] : i \in 1..9}
    BY <1>1 DEF Range
  <2>2. 1..9 = {1, 2, 3, 4, 5, 6, 7, 8, 9}
    OBVIOUS
  <2> QED BY <2>1, <2>2 DEF Order, Supported
<1> QED BY <1>1, <1>2, <1>3

\* A map that is encoded reads as it was.
LEMMA Encoded ==
    ASSUME NEW fields, fields = [name \in DOMAIN fields |-> fields[name]],
           DOMAIN fields \subseteq Range(Order)
    PROVE  /\ Encode(fields).t = "object" /\ DOMAIN Encode(fields).members \subseteq 1..9
           /\ IsInjective(Names(Encode(fields))) /\ Fields(Encode(fields)) = fields
           /\ \A i \in DOMAIN Encode(fields).members :
                Order[i] \in DOMAIN fields /\ Encode(fields).members[i].value = fields[Order[i]]
<1> DEFINE D == {k \in DOMAIN Order : Order[k] \in DOMAIN fields}
           members == [i \in D |-> Member(Order[i], fields[Order[i]])]
           v == Encode(fields)
<1>1. v.t = "object" /\ v.members = members
  BY DEF Encode, Object
<1>2. \A i \in D : members[i].name = Order[i] /\ members[i].value = fields[Order[i]]
  BY DEF Member
<1>3. DOMAIN members = D
  OBVIOUS
<1>4. D \subseteq 1..9
  BY Ordered
<1> HIDE DEF members, v
<1>5. Names(v) = [i \in D |-> Order[i]]
  BY <1>1, <1>2, <1>3 DEF Names
<1>6. IsInjective(Names(v))
  BY <1>5, Ordered DEF IsInjective
<1>7. Range(Names(v)) = DOMAIN fields
  <2>1. Range(Names(v)) = {Order[i] : i \in D}
    BY <1>5 DEF Range
  <2>2. \A name \in DOMAIN fields : \E i \in D : Order[i] = name
    BY DEF Range
  <2> QED BY <2>1, <2>2
<1>8. D \subseteq Int
  BY <1>4
<1>9. /\ DOMAIN Fields(v) = DOMAIN fields /\ Fields(v) = [name \in DOMAIN Fields(v) |-> Fields(v)[name]]
      /\ \A i \in D : Fields(v)[Order[i]] = fields[Order[i]]
  BY <1>1, <1>2, <1>3, <1>6, <1>7, <1>8, FieldsOf
<1>10. \A name \in DOMAIN fields : Fields(v)[name] = fields[name]
  <2>1. \A name \in DOMAIN fields : \E i \in D : Order[i] = name
    BY DEF Range
  <2> HIDE DEF D
  <2> QED BY <2>1, <1>9
<1>11. Fields(v) = fields
  <2> HIDE DEF D
  <2> QED BY <1>9, <1>10
<1> QED BY <1>1, <1>2, <1>3, <1>4, <1>6, <1>11 DEF v

\* Finitely many values contain finitely many.
LEMMA InsideFinite ==
    ASSUME NEW nodes, IsFiniteSet(nodes),
           \A node \in nodes : Composite(node.value) => IsFiniteSet(DOMAIN Values(node.value))
    PROVE  IsFiniteSet(Inside(nodes))
<1> DEFINE some == {k \in nodes : Composite(k.value)}
           From(m) == {[place |-> Append(m.place, j), value |-> Values(m.value)[j]] : j \in DOMAIN Values(m.value)}
           f == [m \in some |-> From(m)]
<1>1. Inside(nodes) = UNION {From(m) : m \in some}
  BY Zenon DEF Inside
<1>2. IsFiniteSet(some)
  BY FS_Subset
<1>3. ASSUME NEW m \in some PROVE IsFiniteSet(From(m))
  <2> DEFINE D == DOMAIN Values(m.value)
             g == [j \in D |-> [place |-> Append(m.place, j), value |-> Values(m.value)[j]]]
  <2>1. IsFiniteSet(D)
    OBVIOUS
  <2>2. DOMAIN g = D
    OBVIOUS
  <2>3. From(m) = {g[j] : j \in D}
    OBVIOUS
  <2> HIDE DEF D, g, From
  <2>4. IsFiniteSet({g[j] : j \in DOMAIN g})
    BY <2>1, <2>2, FiniteImage
  <2> QED BY <2>2, <2>3, <2>4
<1>4. DOMAIN f = some /\ {f[m] : m \in DOMAIN f} = {From(m) : m \in some}
  <2> HIDE DEF From, some
  <2> QED OBVIOUS
<1> HIDE DEF From, some, f
<1>5. IsFiniteSet({From(m) : m \in some})
  <2>1. IsFiniteSet({f[m] : m \in DOMAIN f})
    BY <1>2, <1>4, FiniteImage
  <2> QED BY <2>1, <1>4
<1> QED BY <1>1, <1>3, <1>5, FS_UNION

\* A body made of such pieces has a size, and one meaning.
LEMMA BodyNodes ==
    ASSUME NEW fields, fields = [name \in DOMAIN fields |-> fields[name]],
           DOMAIN fields \subseteq Range(Order), \A name \in DOMAIN fields : Piece(fields[name])
    PROVE  /\ Size(Encode(fields)) \in Nat
           /\ \A node \in Nodes(Encode(fields)) : ReadsOneWay(node.value)
<1> PICK v : v = Encode(fields)
  OBVIOUS
<1> DEFINE Kind(n, w) ==
        /\ n = 0 => w = v
        /\ n = 1 => Piece(w)
        /\ n = 2 => Block(w)
        /\ n >= 3 => ~Composite(w)
    Good(n) == IsFiniteSet(Level(v)[n]) /\ \A node \in Level(v)[n] : Kind(n, node.value)
    wrong == {n \in 0..MaxDepth : ~Good(n)}
<1>0. MaxDepth \in Nat
  BY AdmissionAssumption
<1>1. /\ v.t = "object" /\ DOMAIN v.members \subseteq Int /\ IsFiniteSet(DOMAIN v.members)
      /\ IsInjective(Names(v)) /\ \A i \in DOMAIN v.members : Piece(v.members[i].value)
  <2>1. v.t = "object" /\ IsInjective(Names(v)) /\ DOMAIN v.members \subseteq 1..9
    BY Encoded
  <2>2. IsFiniteSet(1..9)
    <3>1. 1 \in Int /\ 9 \in Int
      OBVIOUS
    <3> QED BY <3>1, FS_Interval, Zenon
  <2>3. \A i \in DOMAIN v.members : Piece(v.members[i].value)
    BY Encoded
  <2> QED BY <2>1, <2>2, <2>3, FS_Subset
<1>2. /\ Composite(v) /\ DOMAIN Values(v) = DOMAIN v.members
      /\ \A i \in DOMAIN Values(v) : Values(v)[i] = v.members[i].value
  BY <1>1 DEF Composite, Values
<1>3. \A w : Composite(w) /\ Piece(w) =>
        /\ IsFiniteSet(DOMAIN Values(w)) /\ w.t # "object"
        /\ \A i \in DOMAIN Values(w) : Block(Values(w)[i])
  BY DEF Piece, Values
<1>4. \A w : Composite(w) /\ Block(w) =>
        /\ IsFiniteSet(DOMAIN Values(w)) /\ IsInjective(Names(w))
        /\ \A i \in DOMAIN Values(w) : ~Composite(Values(w)[i])
  BY DEF Block, Values
<1>5. Good(0)
  <2>1. Level(v)[0] = {[place |-> <<>>, value |-> v]}
    BY LevelDef
  <2>2. IsFiniteSet(Level(v)[0])
    BY <2>1, FS_Singleton
  <2>3. \A node \in Level(v)[0] : node.value = v
    BY <2>1
  <2> QED BY <2>2, <2>3
<1>6. ASSUME NEW n \in Nat, n < MaxDepth, Good(n)
      PROVE  Good(n + 1)
  <2>1. \A node \in Level(v)[n] : Composite(node.value) => IsFiniteSet(DOMAIN Values(node.value))
    <3> SUFFICES ASSUME NEW node \in Level(v)[n], Composite(node.value)
                 PROVE  IsFiniteSet(DOMAIN Values(node.value))
      OBVIOUS
    <3>1. n = 0 \/ n = 1 \/ n = 2 \/ n >= 3
      OBVIOUS
    <3>2. Kind(n, node.value)
      BY <1>6
    <3> QED BY <3>1, <3>2, <1>1, <1>2, <1>3, <1>4
  <2>2. IsFiniteSet(Level(v)[n + 1])
    <3>1. Level(v)[n + 1] = Inside(Level(v)[n])
      <4>1. n + 1 \in 1..MaxDepth /\ (n + 1) - 1 = n
        BY <1>0, <1>6
      <4> QED BY <4>1, LevelDef
    <3> QED BY <2>1, <3>1, <1>6, InsideFinite
  <2>3. ASSUME NEW k \in Level(v)[n + 1] PROVE Kind(n + 1, k.value)
    <3>0. PICK node \in Level(v)[n] :
            Composite(node.value) /\ \E i \in DOMAIN Values(node.value) : k.value = Values(node.value)[i]
      BY <1>6, Outer
    <3>1. PICK i \in DOMAIN Values(node.value) : Composite(node.value) /\ k.value = Values(node.value)[i]
      BY <3>0
    <3>2. Kind(n, node.value)
      BY <1>6
    <3>3. CASE n = 0
      <4>1. Piece(k.value)
        BY <3>1, <3>2, <3>3, <1>1, <1>2
      <4> QED BY <4>1, <3>3
    <3>4. CASE n = 1
      <4>1. Block(k.value)
        BY <3>1, <3>2, <3>4, <1>3
      <4> QED BY <4>1, <3>4
    <3>5. CASE n = 2
      <4>1. ~Composite(k.value)
        BY <3>1, <3>2, <3>5, <1>4
      <4> QED BY <4>1, <3>5
    <3>6. CASE n >= 3
      BY <3>1, <3>2, <3>6
    <3> QED BY <3>3, <3>4, <3>5, <3>6
  <2> QED BY <2>2, <2>3
<1>7. wrong = {}
  <2> HIDE DEF Good
  <2> SUFFICES ASSUME wrong # {} PROVE FALSE
    OBVIOUS
  <2>1. PICK n \in wrong : \A k \in wrong : n <= k
    <3>1. wrong \in SUBSET Nat
      OBVIOUS
    <3> HIDE DEF wrong
    <3> QED BY <3>1, First
  <2>2. n # 0
    BY <2>1, <1>5
  <2>3. n - 1 \in Nat /\ n - 1 < MaxDepth /\ n - 1 \in 0..MaxDepth /\ ~(n <= n - 1) /\ (n - 1) + 1 = n
    BY <1>0, <2>1, <2>2
  <2>4. Good(n - 1)
    BY <2>1, <2>3
  <2>5. Good((n - 1) + 1)
    BY <2>3, <2>4, <1>6
  <2> QED BY <2>1, <2>3, <2>5
<1>8. \A n \in 0..MaxDepth : Good(n)
  <2> HIDE DEF Good
  <2> QED BY <1>7
<1>9. Size(v) \in Nat
  <2>1. DOMAIN Level(v) = 0..MaxDepth
    BY LevelDef
  <2>2. IsFiniteSet(0..MaxDepth)
    <3>1. 0 \in Int /\ MaxDepth \in Int
      BY <1>0
    <3> QED BY <3>1, FS_Interval, Zenon
  <2>3. IsFiniteSet({Level(v)[n] : n \in DOMAIN Level(v)})
    BY <2>1, <2>2, FiniteImage
  <2>4. \A T \in {Level(v)[n] : n \in DOMAIN Level(v)} : IsFiniteSet(T)
    BY <2>1, <1>8
  <2>5. IsFiniteSet(UNION {Level(v)[n] : n \in DOMAIN Level(v)})
    BY <2>3, <2>4, FS_UNION
  <2> QED BY <2>1, <2>5, FS_CardinalityType DEF Size, Nodes
<1>10. ASSUME NEW node \in Nodes(v) PROVE ReadsOneWay(node.value)
  <2> PICK w : w = node.value
    OBVIOUS
  <2> SUFFICES ASSUME w.t = "object" PROVE IsInjective(Names(w))
    BY DEF ReadsOneWay, IsInjective, Names
  <2>1. PICK n \in 0..MaxDepth : node \in Level(v)[n]
    BY DEF Nodes
  <2>2. Kind(n, w) /\ Composite(w)
    BY <1>8, <2>1 DEF Composite
  <2>3. n = 0 \/ n = 1 \/ n = 2 \/ n >= 3
    BY <2>1
  <2> QED BY <2>2, <2>3, <1>1, <1>3, <1>4
<1> QED BY <1>9, <1>10

-------------------------------------------------------------------------------
(* What is sent.                                                           *)

\* The message a system prompt becomes.
SystemMessage(x) == Object(<<Member("role", Text("system")), Member("content", x)>>)

LEMMA Prompted ==
    ASSUME NEW x, ~Composite(x)
    PROVE  Block(SystemMessage(x)) /\ Fields(SystemMessage(x)).content = x
<1> DEFINE m == SystemMessage(x)
<1>1. /\ m.t = "object" /\ DOMAIN m.members = {1, 2}
      /\ m.members[1].name = "role" /\ m.members[1].value = Text("system")
      /\ m.members[2].name = "content" /\ m.members[2].value = x
  BY DEF SystemMessage, Object, Member
<1>2. ~Composite(Text("system"))
  BY DEF Composite, Text
<1> HIDE DEF m
<1>3. DOMAIN m.members \subseteq Int /\ IsInjective(Names(m))
  BY <1>1 DEF Names, IsInjective
<1>4. IsFiniteSet(DOMAIN m.members)
  <2>1. {1, 2} = {1} \cup {2}
    OBVIOUS
  <2>2. IsFiniteSet({1}) /\ IsFiniteSet({2})
    BY FS_Singleton
  <2>3. IsFiniteSet({1} \cup {2})
    BY <2>2, FS_Union
  <2> QED BY <1>1, <2>1, <2>3
<1>5. Block(m)
  BY <1>1, <1>2, <1>3, <1>4 DEF Block
<1>6. Fields(m)["content"] = x
  BY <1>1, <1>3, FieldsOf
<1> QED BY <1>5, <1>6 DEF m

\* What toOpenAI makes of an admitted request.
LEMMA Translated ==
    ASSUME NEW r \in Asked, Admissible(r),
           NEW fields, fields = Fields(r.doc), NEW out, out = ToOpenAI(fields)
    PROVE  /\ out = [name \in DOMAIN out |-> out[name]] /\ DOMAIN out \subseteq Range(Order)
           /\ \A name \in DOMAIN out : Piece(out[name])
           /\ {"max_tokens", "messages"} \subseteq DOMAIN out /\ "system" \notin DOMAIN out
           /\ out["max_tokens"] = fields["max_tokens"]
           /\ out["messages"].items =
                (IF "system" \in DOMAIN fields THEN <<SystemMessage(fields["system"])>> ELSE <<>>)
                \o fields["messages"].items
<1> DEFINE system == IF "system" \in DOMAIN fields THEN <<SystemMessage(fields["system"])>> ELSE <<>>
           named(n) == IF n = "stop" THEN "stop_sequences" ELSE n
           empty(n) == \/ named(n) \notin DOMAIN fields
                       \/ n = "stop" /\ fields["stop_sequences"].items = <<>>
                       \/ n = "stream" /\ ~fields["stream"].b
           copied == {n \in {"model", "max_tokens", "stream", "temperature", "top_p", "stop"} : ~empty(n)}
           messages == [t |-> "array", items |-> system \o fields["messages"].items]
<1>1. /\ {"messages", "model", "max_tokens"} \subseteq DOMAIN fields /\ DOMAIN fields \subseteq Supported
      /\ \A name \in DOMAIN fields : Valid(name, fields[name]) /\ Value(fields[name])
      /\ \A name \in DOMAIN fields : Piece(fields[name])
  BY Admitted
<1>2. out = [n \in copied \cup {"messages"} |-> IF n = "messages" THEN messages ELSE fields[named(n)]]
  BY Zenon DEF ToOpenAI, SystemMessage
<1>3. DOMAIN out = copied \cup {"messages"} /\ out = [name \in DOMAIN out |-> out[name]]
  <2> HIDE DEF copied, messages, named
  <2> QED BY <1>2
<1>4. out["messages"] = messages /\ \A n \in copied : n # "messages" /\ out[n] = fields[named(n)] /\ named(n) \in DOMAIN fields
  <2>1. \A n \in copied : n # "messages" /\ named(n) \in DOMAIN fields
    OBVIOUS
  <2> HIDE DEF copied, messages, named
  <2> QED BY <1>2, <2>1
<1>5. copied \subseteq {"model", "max_tokens", "stream", "temperature", "top_p", "stop"} /\ "max_tokens" \in copied
  BY <1>1
<1>6. out["max_tokens"] = fields["max_tokens"]
  <2>1. named("max_tokens") = "max_tokens"
    OBVIOUS
  <2> HIDE DEF copied, messages, named
  <2> QED BY <1>4, <1>5, <2>1
<1>7. DOMAIN out \subseteq Range(Order) /\ "system" \notin DOMAIN out
  <2> HIDE DEF copied, messages, named
  <2> QED BY <1>3, <1>5, Ordered DEF Supported
<1>8. /\ fields["messages"].t = "array" /\ fields["messages"].items \in Seq(Range(fields["messages"].items))
      /\ \A i \in DOMAIN fields["messages"].items : Block(fields["messages"].items[i])
  <2>1. fields["messages"].t = "array" /\ Value(fields["messages"]) /\ Piece(fields["messages"])
    BY <1>1 DEF Valid
  <2> QED BY <2>1 DEF Value, Piece, Composite
<1> PICK items : items = fields["messages"].items
  OBVIOUS
<1>9. \E S : system \in Seq(S) /\ items \in Seq(S) /\ \A x \in S : Block(x)
  <2>1. CASE "system" \in DOMAIN fields
    <3>1. ~Composite(fields["system"])
      BY <2>1, <1>1 DEF Valid, Composite
    <3>2. Block(SystemMessage(fields["system"]))
      BY <3>1, Prompted
    <3> DEFINE S == Range(items) \cup {SystemMessage(fields["system"])}
    <3>3. \A x \in S : Block(x)
      BY <3>2, <1>8 DEF Range
    <3>4. system \in Seq(S) /\ items \in Seq(S)
      BY <2>1, <1>8
    <3> QED BY <3>3, <3>4
  <2>2. CASE "system" \notin DOMAIN fields
    <3>1. \A x \in Range(items) : Block(x)
      BY <1>8 DEF Range
    <3>2. system = <<>> /\ items \in Seq(Range(items))
      BY <2>2, <1>8
    <3> QED BY <3>1, <3>2
  <2> QED BY <2>1, <2>2
<1>10. Piece(messages)
  <2> PICK S : system \in Seq(S) /\ items \in Seq(S) /\ \A x \in S : Block(x)
    BY <1>9
  <2> PICK all : all = system \o items
    OBVIOUS
  <2>1. all \in Seq(S)
    <3> HIDE DEF system
    <3> QED OBVIOUS
  <2>a. DOMAIN all = 1..Len(all) /\ Len(all) \in Nat /\ \A i \in DOMAIN all : all[i] \in S
    <3> HIDE DEF system
    <3> QED BY <2>1
  <2>2. DOMAIN all = 1..Len(all) /\ Len(all) \in Nat /\ \A i \in DOMAIN all : Block(all[i])
    BY <2>a, Zenon
  <2>3. IsFiniteSet(DOMAIN all)
    <3>1. 1 \in Int /\ Len(all) \in Int
      BY <2>2
    <3> QED BY <2>2, <3>1, FS_Interval, Zenon
  <2>4. DOMAIN all \subseteq Int
    <3> HIDE DEF system
    <3> QED BY <2>a
  <2>5. messages.t = "array" /\ messages.items = all
    OBVIOUS
  <2> HIDE DEF messages
  <2> QED BY <2>2, <2>3, <2>4, <2>5 DEF Piece
<1>11. \A name \in DOMAIN out : Piece(out[name])
  <2> HIDE DEF copied, messages, named
  <2> QED BY <1>1, <1>3, <1>4, <1>10
<1>12. out["messages"].items = system \o fields["messages"].items
  <2>1. messages.items = system \o fields["messages"].items
    <3> HIDE DEF system
    <3> QED OBVIOUS
  <2> HIDE DEF messages, system, copied, named
  <2> QED BY <1>4, <2>1
<1> QED BY <1>3, <1>5, <1>6, <1>7, <1>11, <1>12

\* A function on 1..n is a sequence; one element more in front of it.
LEMMA Sequence ==
    ASSUME NEW f, NEW n \in Nat, f = [i \in 1..n |-> f[i]]
    PROVE  f \in Seq(Range(f)) /\ Len(f) = n
<1>1. \A i \in 1..n : f[i] \in Range(f)
  <2>1. DOMAIN f = 1..n
    OBVIOUS
  <2> QED BY <2>1 DEF Range
<1> PICK S : S = Range(f)
  OBVIOUS
<1>2. f \in [1..n -> S]
  BY <1>1
<1>3. f \in Seq(S) /\ Len(f) = n
  BY <1>2
<1> QED BY <1>3

LEMMA Prepended ==
    ASSUME NEW x, NEW s, s \in Seq(Range(s)), NEW n \in Nat, n = Len(s)
    PROVE  <<x>> \o s = [i \in 1..(1 + n) |-> IF i = 1 THEN x ELSE s[i - 1]]
<1> PICK S : S = {x} \cup Range(s)
  OBVIOUS
<1>1. s \in Seq(S) /\ <<x>> \in Seq(S)
  <2>1. \A i \in 1..Len(s) : s[i] \in S
    OBVIOUS
  <2> QED BY <2>1
<1> PICK all : all = <<x>> \o s
  OBVIOUS
<1>2. /\ all \in Seq(S) /\ Len(all) = 1 + n
      /\ all[1] = x /\ \A i \in 1..n : all[1 + i] = s[i]
  BY <1>1
<1>3. DOMAIN all = 1..(1 + n) /\ all = [i \in 1..(1 + n) |-> all[i]]
  BY <1>2
<1>4. \A i \in 1..(1 + n) : all[i] = IF i = 1 THEN x ELSE s[i - 1]
  <2>1. \A i \in 1..(1 + n) : i # 1 => i - 1 \in 1..n /\ 1 + (i - 1) = i
    OBVIOUS
  <2> QED BY <1>2, <2>1
<1> QED BY <1>3, <1>4

\* The texts of the client, in order, in either style.
LEMMA SaidWhole ==
    ASSUME NEW r \in Asked, Admissible(r),
           NEW fields, fields = Fields(r.doc), NEW out, out = ToOpenAI(fields)
    PROVE  Said(Encode(out)) = Said(r.doc) /\ Said(Encode(fields)) = Said(r.doc)
<1>1. Fields(Encode(out)) = out /\ Fields(Encode(fields)) = fields
  <2>1. Fields(Encode(out)) = out
    <3>1. out = [name \in DOMAIN out |-> out[name]] /\ DOMAIN out \subseteq Range(Order)
      BY Translated
    <3> QED BY <3>1, Encoded
  <2>2. fields = [name \in DOMAIN fields |-> fields[name]] /\ DOMAIN fields \subseteq Supported
    BY Admitted
  <2>3. DOMAIN fields \subseteq Range(Order)
    BY <2>2, Ordered
  <2> QED BY <2>1, <2>2, <2>3, Encoded
<1>2. Said(Encode(fields)) = Said(r.doc)
  BY <1>1, Zenon DEF Said
<1> PICK items : items = fields["messages"].items
  OBVIOUS
<1> DEFINE content(s) == [i \in DOMAIN s |-> Fields(s[i]).content]
<1>3. items \in Seq(Range(items))
  <2>1. "messages" \in DOMAIN fields /\ Valid("messages", fields["messages"]) /\ Value(fields["messages"])
    BY Admitted
  <2> QED BY <2>1 DEF Valid, Value
<1>4. "system" \notin DOMAIN out
  BY Translated
<1>5. CASE "system" \in DOMAIN fields
  <2> PICK x : x = fields["system"]
    OBVIOUS
  <2> PICK m : m = SystemMessage(x)
    OBVIOUS
  <2>1. Fields(m).content = x
    <3>1. Valid("system", x)
      BY <1>5, Admitted
    <3>2. ~Composite(x)
      BY <3>1 DEF Valid, Composite
    <3> QED BY <3>2, Prompted
  <2>2. out["messages"].items = <<m>> \o items
    BY <1>5, Translated
  <2>3. Said(r.doc) = <<x>> \o content(items)
    BY <1>5 DEF Said
  <2>4. Said(Encode(out)) = <<>> \o content(<<m>> \o items)
    BY <1>1, <1>4, <2>2 DEF Said
  <2> PICK n \in Nat : n = Len(items)
    BY <1>3
  <2> DEFINE told == [i \in 1..(1 + n) |-> IF i = 1 THEN x ELSE Fields(items[i - 1]).content]
             all == <<m>> \o items
             texts == content(items)
  <2>5. DOMAIN items = 1..n /\ \A i \in 1..(1 + n) : i # 1 => i - 1 \in 1..n
    BY <1>3
  <2>6. content(all) = told
    <3>1. all = [i \in 1..(1 + n) |-> IF i = 1 THEN m ELSE items[i - 1]]
      BY <1>3, Prepended
    <3>2. DOMAIN all = 1..(1 + n) /\ \A i \in 1..(1 + n) : all[i] = IF i = 1 THEN m ELSE items[i - 1]
      <4> HIDE DEF all
      <4> QED BY <3>1
    <3>3. \A i \in 1..(1 + n) : Fields(all[i]).content = IF i = 1 THEN x ELSE Fields(items[i - 1]).content
      <4> HIDE DEF all
      <4> QED BY <3>2, <2>1
    <3> HIDE DEF all
    <3> QED BY <3>2, <3>3
  <2>7. <<x>> \o texts = told
    <3>1. texts = [i \in 1..n |-> Fields(items[i]).content]
      BY <2>5
    <3>2. texts = [i \in 1..n |-> texts[i]] /\ \A i \in 1..n : texts[i] = Fields(items[i]).content
      BY <3>1
    <3> HIDE DEF texts
    <3>3. texts \in Seq(Range(texts)) /\ Len(texts) = n
      BY <3>2, Sequence
    <3>4. <<x>> \o texts = [i \in 1..(1 + n) |-> IF i = 1 THEN x ELSE texts[i - 1]]
      BY <3>3, Prepended
    <3>5. \A i \in 1..(1 + n) : (IF i = 1 THEN x ELSE texts[i - 1]) = IF i = 1 THEN x ELSE Fields(items[i - 1]).content
      BY <3>2, <2>5
    <3> QED BY <3>4, <3>5
  <2>8. <<>> \o told = told
    <3>1. told = [i \in 1..(1 + n) |-> told[i]]
      OBVIOUS
    <3> HIDE DEF told
    <3>2. 1 + n \in Nat
      OBVIOUS
    <3>3. told \in Seq(Range(told))
      BY <3>1, <3>2, Sequence, Zenon
    <3> QED BY <3>3
  <2> HIDE DEF told, all, texts, content
  <2> QED BY <1>2, <2>3, <2>4, <2>6, <2>7, <2>8 DEF all, texts
<1>6. CASE "system" \notin DOMAIN fields
  <2>1. out["messages"].items = <<>> \o items
    BY <1>6, Translated
  <2>2. <<>> \o items = items
    BY <1>3
  <2>3. Said(r.doc) = <<>> \o content(items) /\ Said(Encode(out)) = <<>> \o content(items)
    BY <1>1, <1>4, <1>6, <2>1, <2>2 DEF Said
  <2> QED BY <1>2, <2>3
<1> QED BY <1>5, <1>6

\* The server runs a configuration it may start with; what it sends is made of a
\* request it admits.
AdmissionInv ==
    /\ server # Down => \E config \in Configs : Starts(config) /\ server = Server(config)
    /\ pick # Refused =>
        /\ server # Down /\ request \in Asked /\ Admissible(request)
        /\ pick = Sent(request, server.routes[Fields(request.doc).model.s]) /\ pick.cost # Overflow

LEMMA AskedIsNoRefusal == Refused \notin Asked
<1>1. \A r \in Asked : "doc" \in DOMAIN r
  BY AskedAssumption
<1>2. DOMAIN Refused = {"model"}
  BY DEF Refused
<1> QED BY <1>1, <1>2

LEMMA AdmissionStep == AdmissionInv /\ [AdmissionNext]_admissionVars => AdmissionInv'
<1> SUFFICES ASSUME AdmissionInv, [AdmissionNext]_admissionVars PROVE AdmissionInv'
  OBVIOUS
<1> USE DEF AdmissionInv
<1>1. ASSUME NEW config \in Configs, New(config) PROVE AdmissionInv'
  BY <1>1 DEF New
<1>2. ASSUME NEW r \in Asked, Prepare(r) PROVE AdmissionInv'
  <2>1. server # Down /\ request' = r /\ UNCHANGED <<server, time>>
    BY <1>2 DEF Prepare
  <2>2. ASSUME pick' # Refused
        PROVE  /\ Admissible(r)
               /\ pick' = Sent(r, server.routes[Fields(r.doc).model.s]) /\ pick'.cost # Overflow
    BY <1>2, <2>2, Zenon DEF Prepare
  <2>3. Admissible(r) => Admissible(request)'
    BY <2>1 DEF Admissible, ValidFrame, ValidBody
  <2> QED BY <2>1, <2>2, <2>3
<1>3. CASE TimeGoesOn
  BY <1>3, AskedIsNoRefusal DEF TimeGoesOn
<1>4. CASE UNCHANGED admissionVars
  BY <1>4 DEF admissionVars, Admissible, ValidFrame, ValidBody
<1> QED BY <1>1, <1>2, <1>3, <1>4 DEF AdmissionNext

\* The cost that is put to the budget, as a range.
LEMMA CostWithin ==
    ASSUME NEW bytes \in Nat, NEW tokens \in Nat, NEW rates \in [input : Nat, output : Nat],
           NEW cost, cost = EstimateCost(bytes, tokens, rates), cost # Overflow, Priced(rates)
    PROVE  cost * PerUnit \in
               Exact(bytes, tokens, rates) .. (Exact(bytes, tokens, rates) + 2 * PerUnit - 1)
<1>1. /\ cost \in (0..(Word - 1)) \cup {Overflow}
      /\ Exact(bytes, tokens, rates) <= cost * PerUnit
      /\ cost * PerUnit < Exact(bytes, tokens, rates) + 2 * PerUnit
  BY CostCovers
<1>2. Word \in Nat /\ Padding \in Nat /\ PerUnit \in Nat
  BY PricingAssumption DEF PerUnit
<1>3. cost \in Nat
  BY <1>1, <1>2
<1>4. \A a, b \in Nat : a * b \in Nat
  OBVIOUS
<1>5. cost * PerUnit \in Nat
  BY <1>2, <1>3, <1>4
<1>6. Exact(bytes, tokens, rates) \in Nat
  <2>1. bytes + Padding \in Nat /\ rates.input \in Nat /\ rates.output \in Nat
    BY <1>2
  <2>2. (bytes + Padding) * rates.input \in Nat /\ tokens * rates.output \in Nat
    BY <2>1, <1>4
  <2> QED BY <2>2 DEF Exact
<1>7. \A c, e, unit \in Nat : e <= c /\ c < e + 2 * unit => c \in e .. (e + 2 * unit - 1)
  OBVIOUS
<1> QED BY <1>1, <1>2, <1>5, <1>6, <1>7, Zenon

\* What is sent was priced and bounded in full, has one meaning, and reveals
\* nothing of the caller.
LEMMA SentIsPaid == AdmissionInv => PaidForIsSent
<1> SUFFICES ASSUME AdmissionInv, pick # Refused PROVE Covered /\ OneMeaning /\ NothingOfTheCaller
  BY DEF PaidForIsSent
<1> PICK r \in Asked : r = request
  BY DEF AdmissionInv
<1> PICK fields : fields = Fields(r.doc)
  OBVIOUS
<1> PICK model : model = fields.model.s
  OBVIOUS
<1> PICK route : route = server.routes[model]
  OBVIOUS
<1>1. /\ server # Down /\ Admissible(r) /\ pick = Sent(r, route) /\ pick.cost # Overflow
  BY DEF AdmissionInv
<1>2. PICK config \in Configs : Starts(config) /\ server = Server(config)
  BY <1>1 DEF AdmissionInv
<1>3. /\ fields = [name \in DOMAIN fields |-> fields[name]] /\ DOMAIN fields \subseteq Supported
      /\ {"messages", "model", "max_tokens"} \subseteq DOMAIN fields
      /\ \A name \in DOMAIN fields : Valid(name, fields[name]) /\ Piece(fields[name])
  BY <1>1, Admitted
<1> PICK out : out = IF route.style = OpenAI THEN ToOpenAI(fields) ELSE fields
  OBVIOUS
<1> PICK bytes : bytes = Size(Encode(out))
  OBVIOUS
<1> PICK bound : bound = fields.max_tokens.n
  OBVIOUS
<1>4. /\ pick.model = model /\ pick.body = Encode(out) /\ pick.bound = bound
      /\ pick.host = route.upstream /\ pick.headers = SentHeaders(r, route)
      /\ pick.size = bytes /\ pick.cost = EstimateCost(bytes, bound, route.rates)
  <2>1. Sent(r, route) =
          [model |-> model, body |-> Encode(out), bound |-> bound,
           path |-> IF route.style = OpenAI THEN "/v1/chat/completions" ELSE "/v1/messages",
           host |-> route.upstream, headers |-> SentHeaders(r, route),
           size |-> bytes, cost |-> EstimateCost(bytes, bound, route.rates)]
    BY Zenon DEF Sent
  <2> DEFINE path == IF route.style = OpenAI THEN "/v1/chat/completions" ELSE "/v1/messages"
             sentHeaders == SentHeaders(r, route)
             cost == EstimateCost(bytes, bound, route.rates)
             sentBody == Encode(out)
             host == route.upstream
  <2>2. pick = [model |-> model, body |-> sentBody, bound |-> bound, path |-> path, host |-> host,
                headers |-> sentHeaders, size |-> bytes, cost |-> cost]
    BY <2>1, <1>1, Zenon
  <2> HIDE DEF path, sentHeaders, cost, sentBody, host
  <2>3. /\ pick.model = model /\ pick.body = sentBody /\ pick.bound = bound /\ pick.host = host
        /\ pick.headers = sentHeaders /\ pick.size = bytes /\ pick.cost = cost
    BY <2>2
  <2> QED BY <2>3, Zenon DEF sentHeaders, cost, sentBody, host
<1>5. /\ out = [name \in DOMAIN out |-> out[name]] /\ DOMAIN out \subseteq Range(Order)
      /\ \A name \in DOMAIN out : Piece(out[name])
      /\ out["max_tokens"] = fields["max_tokens"]
  <2>1. CASE route.style = OpenAI
    <3>1. out = ToOpenAI(fields)
      BY <2>1
    <3> QED BY <3>1, <1>1, Translated
  <2>2. CASE route.style # OpenAI
    <3>1. out = fields
      BY <2>2
    <3> QED BY <3>1, <1>3, Ordered
  <2> QED BY <2>1, <2>2
<1>6. model \in ActiveModels(server, time) /\ model \in DOMAIN server.routes
  BY <1>1 DEF Admissible, ActiveModels
<1>7. bound \in Nat /\ bound <= server.maxOutput
  <2>1. Valid("max_tokens", fields["max_tokens"])
    BY <1>3
  <2>2. fields["max_tokens"].t = "number" /\ fields["max_tokens"].n >= 1
    BY <2>1 DEF Valid
  <2>3. Value(fields["max_tokens"])
    BY <1>1, <1>3, Admitted
  <2>4. bound \in Int /\ bound >= 1
    BY <2>2, <2>3 DEF Value
  <2>5. bound <= server.maxOutput
    BY <1>1 DEF Admissible, ValidBody
  <2> QED BY <2>4, <2>5
<1>8. bytes \in Nat /\ \A node \in Nodes(Encode(out)) : ReadsOneWay(node.value)
  BY <1>5, BodyNodes
<1>9. route.rates \in [input : Nat, output : Nat] /\ (server.requireRates => Priced(route.rates))
  <2>1. /\ server.routes[model].rates \in [input : 0..(Word - 1), output : 0..(Word - 1)]
        /\ server.requireRates => Priced(server.routes[model].rates)
    BY <1>2, <1>6, ServedRoutes
  <2>2. Word \in Nat
    BY PricingAssumption
  <2> QED BY <2>1, <2>2
<1>10. Fields(Encode(out)) = out
  BY <1>5, Encoded
<1>11. Covered
  <2> DEFINE listed == Catalogue(server, time)
             exact == (bytes + Padding) * route.rates.input + bound * route.rates.output
  <2>1. DOMAIN listed = ActiveModels(server, time) /\ listed[model].maxOutput = server.maxOutput
    BY <1>6 DEF Catalogue
  <2>2. Fields(pick.body).max_tokens.n = pick.bound
    BY <1>4, <1>5, <1>10
  <2>3. Priced(route.rates) => pick.cost * PerUnit \in exact .. (exact + 2 * PerUnit - 1)
    <3> SUFFICES ASSUME Priced(route.rates)
                 PROVE  pick.cost * PerUnit \in exact .. (exact + 2 * PerUnit - 1)
      OBVIOUS
    <3>1. pick.cost = EstimateCost(bytes, bound, route.rates) /\ pick.cost # Overflow
      BY <1>1, <1>4
    <3>2. pick.cost * PerUnit \in Exact(bytes, bound, route.rates)
                                   .. (Exact(bytes, bound, route.rates) + 2 * PerUnit - 1)
      BY <3>1, <1>7, <1>8, <1>9, CostWithin, Zenon
    <3> QED BY <3>2, Zenon DEF Exact
  <2>4. server.routes[pick.model].rates = route.rates /\ pick.size = Size(pick.body)
    BY <1>4
  <2>5. ~Priced(route.rates) => ~server.requireRates
    BY <1>9
  <2> HIDE DEF listed
  <2>6. /\ pick.model \in DOMAIN listed /\ pick.bound <= listed[pick.model].maxOutput
    BY <1>4, <1>6, <1>7, <2>1
  <2>7. (Size(pick.body) + Padding) * route.rates.input + pick.bound * route.rates.output = exact
    BY <1>4
  <2> HIDE DEF exact
  <2> QED BY <2>2, <2>3, <2>4, <2>5, <2>6, <2>7, Zenon DEF Covered, listed
<1>12. OneMeaning
  <2>1. Said(pick.body) = Said(r.doc)
    <3>1. CASE route.style = OpenAI
      BY <3>1, <1>1, <1>4, SaidWhole
    <3>2. CASE route.style # OpenAI
      BY <3>2, <1>1, <1>4, SaidWhole
    <3> QED BY <3>1, <3>2
  <2> QED BY <2>1, <1>4, <1>8 DEF OneMeaning
<1>13. NothingOfTheCaller
  <2> DEFINE names == {"Accept", "Content-Type", "User-Agent"}
                        \cup (IF route.style = Anthropic THEN {"Anthropic-Version"} ELSE {}) \cup {"Credential"}
             h == [n \in names |-> IF n = "Credential" THEN route.credential ELSE "fixed"]
  <2>1. pick.headers = h
    BY <1>4 DEF SentHeaders
  <2>2. "Accept" \in names /\ "Credential" \in names /\ "Accept" # "Credential"
    OBVIOUS
  <2> HIDE DEF names
  <2>3. Range(h) = {"fixed", route.credential}
    <3>1. \A n \in names : h[n] = IF n = "Credential" THEN route.credential ELSE "fixed"
      OBVIOUS
    <3>2. DOMAIN h = names
      OBVIOUS
    <3> HIDE DEF h
    <3> QED BY <2>2, <3>1, <3>2 DEF Range
  <2> QED BY <2>1, <2>3, <1>4 DEF NothingOfTheCaller
<1> QED BY <1>11, <1>12, <1>13

\* PaidForIsSent, for requests and configurations of any size: a request that is
\* sent was listed, priced and bounded in full, reads the same to every parser,
\* carries the client's texts whole and in order, and reveals no header of the
\* caller (prepareRequest, toOpenAI, rewrite).
THEOREM SentPaid == AdmissionSpec => []PaidForIsSent
<1>1. AdmissionInit => AdmissionInv
  BY DEF AdmissionInit, AdmissionInv
<1>2. AdmissionInv /\ [AdmissionNext]_admissionVars => AdmissionInv'
  BY AdmissionStep
<1>3. AdmissionInv => PaidForIsSent
  BY SentIsPaid
<1> QED BY <1>1, <1>2, <1>3, PTL DEF AdmissionSpec
===============================================================================
