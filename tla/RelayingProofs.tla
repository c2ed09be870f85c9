----------------------------- MODULE RelayingProofs -----------------------------
(***************************************************************************)
(* Theorems about the client's relay pool and the rangers it dials, for    *)
(* any number of relays, connections and documents.                        *)
(***************************************************************************)
EXTENDS Relaying, FiniteSetTheorems, TLAPS

RangerTypeOK ==
    /\ reserved \in [Relays -> Nat]
    /\ ranger \in [Relays -> {"up", "cutting", "stopped"}]
    /\ tunnels \in [Relays -> SUBSET Conns]
    /\ cutting \in [Relays -> SUBSET Conns]
    /\ conn \in [Conns -> Connections \cup {Nil}]

\* The connections whose handler holds a slot of relay r.
Carried(r) == {c \in Conns : Through(c, r)}

Finite == \A r \in Relays : IsFiniteSet(Carried(r))

Slots == \A r \in Relays : reserved[r] = Cardinality(Carried(r)) /\ reserved[r] <= MaxTunnels

Registered == \A r \in Relays : \A c \in tunnels[r] : HandlerAt(c, "reply") \/ HandlerAt(c, "pump")

OwnTunnels == \A r \in Relays : \A c \in tunnels[r] : Through(c, r)

\* A tunnel that carries bytes, or is about to, is one Shutdown finds or has found
\* and not closed yet.
Reached ==
    \A c \in Conns :
        (HandlerAt(c, "pump") \/ HandlerAt(c, "reply")) /\ conn[c].open =>
            LET r == conn[c].relay IN
            \/ ranger[r] = "up" /\ c \in tunnels[r]
            \/ ranger[r] = "cutting" /\ c \in cutting[r]

RangerInv == RangerTypeOK /\ Finite /\ Slots /\ OwnTunnels /\ Registered /\ Reached

-------------------------------------------------------------------------------
(* The steps of the rangers.                                               *)

\* The relay of a connection is one of the relays.
LEMMA RelayOf ==
    ASSUME RangerTypeOK, NEW c \in Conns, conn[c] # Nil
    PROVE  conn[c] \in Connections /\ conn[c].relay \in Relays /\ Through(c, conn[c].relay)
BY DEF RangerTypeOK, Connections, Through

\* A step that leaves each connection with its relay changes no slot.
LEMMA SameSlots ==
    ASSUME Finite, Slots, UNCHANGED reserved,
           \A c \in Conns, r \in Relays : Through(c, r)' = Through(c, r)
    PROVE  Finite' /\ Slots'
<1>1. \A r \in Relays : Carried(r)' = Carried(r)
  BY DEF Carried
<1> QED BY <1>1 DEF Finite, Slots

\* A connection gets a slot.
LEMMA ConnectsStep ==
    ASSUME RangerInv, NEW c \in Conns, NEW r \in Relays, Connects(c, r)
    PROVE  RangerInv'
<1> USE DEF RangerInv
<1>t. RangerTypeOK
  OBVIOUS
<1> DEFINE k == [relay |-> r, step |-> "dial", open |-> TRUE, ok |-> FALSE]
<1>k. k \in Connections /\ k # Nil
  <2>1. k \in Connections
    BY DEF Connections
  <2> QED BY <2>1, NilAssumption
<1>c. /\ conn[c] = Nil /\ reserved[r] < MaxTunnels
      /\ conn' = [conn EXCEPT ![c] = k] /\ reserved' = [reserved EXCEPT ![r] = @ + 1]
      /\ UNCHANGED <<ranger, tunnels, cutting>>
  BY DEF Connects
<1>d. conn'[c] = k /\ \A d \in Conns : d # c => conn'[d] = conn[d]
  BY <1>c, <1>t DEF RangerTypeOK
<1>1. RangerTypeOK'
  BY <1>t, <1>k, <1>c DEF RangerTypeOK
<1>2. Carried(r)' = Carried(r) \cup {c} /\ c \notin Carried(r)
  BY <1>c, <1>d, <1>k DEF Carried, Through
<1>3. ASSUME NEW s \in Relays, s # r PROVE Carried(s)' = Carried(s)
  BY <1>3, <1>c, <1>d, <1>k DEF Carried, Through
<1>4. IsFiniteSet(Carried(r)) /\ Cardinality(Carried(r)) \in Nat
  BY FS_CardinalityType DEF Finite
<1>5. IsFiniteSet(Carried(r)') /\ Cardinality(Carried(r)') = Cardinality(Carried(r)) + 1
  BY <1>2, <1>4, FS_AddElement
<1>6. reserved'[r] = reserved[r] + 1 /\ \A s \in Relays : s # r => reserved'[s] = reserved[s]
  BY <1>c, <1>t DEF RangerTypeOK
<1>7. Finite'
  BY <1>3, <1>5 DEF Finite
<1>8. Slots'
  <2>1. reserved[r] \in Nat /\ reserved[r] = Cardinality(Carried(r)) /\ MaxTunnels \in Nat
    BY <1>t, RangerAssumption DEF Slots, RangerTypeOK
  <2>2. reserved'[r] = Cardinality(Carried(r)') /\ reserved'[r] <= MaxTunnels
    BY <2>1, <1>5, <1>6, <1>c
  <2> QED BY <2>2, <1>3, <1>6 DEF Slots
<1>9. \A s \in Relays : c \notin tunnels[s]
  BY <1>c DEF OwnTunnels, Through
<1>10. OwnTunnels' /\ Registered'
  BY <1>9, <1>c, <1>d, <1>t DEF OwnTunnels, Registered, Through, HandlerAt, RangerTypeOK
<1>11. Reached'
  BY <1>c, <1>d, <1>k DEF Reached, HandlerAt
<1> QED BY <1>1, <1>7, <1>8, <1>10, <1>11

\* The deferred calls of a handler give its slot back.
LEMMA EndStep ==
    ASSUME RangerInv, NEW c \in Conns, conn[c] # Nil, End(c), UNCHANGED <<ranger, cutting>>
    PROVE  RangerInv'
<1> USE DEF RangerInv
<1>t. RangerTypeOK
  OBVIOUS
<1> PICK r \in Relays : r = conn[c].relay /\ Through(c, r)
  BY <1>t, RelayOf
<1>c. /\ conn' = [conn EXCEPT ![c] = Nil] /\ tunnels' = [tunnels EXCEPT ![r] = @ \ {c}]
      /\ reserved' = [reserved EXCEPT ![r] = IF @ > 0 THEN @ - 1 ELSE 0]
  BY DEF End
<1>d. conn'[c] = Nil /\ \A d \in Conns : d # c => conn'[d] = conn[d]
  BY <1>c, <1>t DEF RangerTypeOK
<1>n. reserved[r] \in Nat /\ reserved[r] = Cardinality(Carried(r)) /\ reserved[r] <= MaxTunnels
      /\ MaxTunnels \in Nat
  BY <1>t, RangerAssumption DEF Slots, RangerTypeOK
<1>2. Carried(r)' = Carried(r) \ {c} /\ c \in Carried(r)
  BY <1>d DEF Carried, Through
<1>3. ASSUME NEW s \in Relays, s # r PROVE Carried(s)' = Carried(s)
  BY <1>3, <1>d DEF Carried, Through
<1>4. IsFiniteSet(Carried(r)) /\ Cardinality(Carried(r)) \in Nat
  BY FS_CardinalityType DEF Finite
<1>5. IsFiniteSet(Carried(r)') /\ Cardinality(Carried(r)') = Cardinality(Carried(r)) - 1
  BY <1>2, <1>4, FS_RemoveElement
<1>6. Cardinality(Carried(r)') \in Nat
  BY <1>5, FS_CardinalityType
<1>7. reserved[r] > 0 /\ reserved'[r] = reserved[r] - 1 /\ reserved'[r] \in Nat
  BY <1>c, <1>t, <1>n, <1>5, <1>6, <1>4 DEF RangerTypeOK
<1>8. \A s \in Relays : s # r => reserved'[s] = reserved[s] /\ tunnels'[s] = tunnels[s]
  BY <1>c, <1>t DEF RangerTypeOK
<1>9. tunnels'[r] = tunnels[r] \ {c}
  BY <1>c, <1>t DEF RangerTypeOK
<1>10. RangerTypeOK'
  <2>1. reserved' \in [Relays -> Nat]
    BY <1>c, <1>t, <1>7 DEF RangerTypeOK
  <2> QED BY <2>1, <1>t, <1>c DEF RangerTypeOK
<1>11. Finite'
  BY <1>3, <1>5 DEF Finite
<1>12. Slots'
  <2>1. reserved'[r] = Cardinality(Carried(r)') /\ reserved'[r] <= MaxTunnels
    BY <1>n, <1>5, <1>7
  <2> QED BY <2>1, <1>3, <1>8 DEF Slots
<1>13. \A s \in Relays : c \notin tunnels'[s]
  BY <1>8, <1>9 DEF OwnTunnels, Through
<1>14. \A s \in Relays : tunnels'[s] \subseteq tunnels[s]
  BY <1>8, <1>9
<1>15. \A s \in Relays : tunnels'[s] \subseteq Conns
  BY <1>10 DEF RangerTypeOK
<1>16. OwnTunnels' /\ Registered'
  BY <1>13, <1>14, <1>15, <1>d DEF OwnTunnels, Registered, Through, HandlerAt
<1>17. Reached'
  <2> SUFFICES ASSUME NEW d \in Conns, (HandlerAt(d, "pump") \/ HandlerAt(d, "reply"))', conn'[d].open
               PROVE  LET s == conn'[d].relay IN
                        \/ ranger'[s] = "up" /\ d \in tunnels'[s]
                        \/ ranger'[s] = "cutting" /\ d \in cutting'[s]
    BY DEF Reached
  <2>1. d # c /\ conn'[d] = conn[d] /\ conn[d] # Nil
    BY <1>d DEF HandlerAt
  <2>2. HandlerAt(d, "pump") \/ HandlerAt(d, "reply")
    BY <2>1 DEF HandlerAt
  <2>3. conn[d].relay \in Relays
    BY <2>1, <1>t, RelayOf
  <2>4. \A s \in Relays : d \in tunnels[s] => d \in tunnels'[s]
    BY <2>1, <1>8, <1>9
  <2> QED BY <2>1, <2>2, <2>3, <2>4 DEF Reached
<1> QED BY <1>10, <1>11, <1>12, <1>16, <1>17

\* A connection goes on with its relay.
LEMMA MoveStep ==
    ASSUME RangerInv, NEW c \in Conns, conn[c] # Nil, NEW k \in Connections,
           k.relay = conn[c].relay, conn' = [conn EXCEPT ![c] = k],
           UNCHANGED <<reserved, ranger, cutting>>,
           tunnels' \in [Relays -> SUBSET Conns],
           \A r \in Relays : tunnels'[r] \ {c} = tunnels[r] \ {c},
           \A r \in Relays : c \in tunnels'[r] => r = k.relay /\ k.step \in {"reply", "pump"},
           k.step \in {"reply", "pump"} /\ k.open =>
               \/ ranger[k.relay] = "up" /\ c \in tunnels'[k.relay]
               \/ ranger[k.relay] = "cutting" /\ c \in cutting[k.relay]
    PROVE  RangerInv'
<1> USE DEF RangerInv
<1>t. RangerTypeOK
  OBVIOUS
<1>k. k # Nil /\ k.relay \in Relays
  BY NilAssumption DEF Connections
<1>d. conn'[c] = k /\ \A d \in Conns : d # c => conn'[d] = conn[d]
  BY <1>t DEF RangerTypeOK
<1>1. RangerTypeOK'
  BY <1>t DEF RangerTypeOK
<1>2. \A d \in Conns, r \in Relays : Through(d, r)' = Through(d, r)
  BY <1>d, <1>k DEF Through
<1>3. Finite' /\ Slots'
  BY <1>2, SameSlots
<1>4. OwnTunnels'
  <2> SUFFICES ASSUME NEW r \in Relays, NEW d \in tunnels'[r] PROVE Through(d, r)'
    BY DEF OwnTunnels
  <2>1. CASE d = c
    BY <2>1, <1>d, <1>k DEF Through
  <2>2. CASE d # c
    <3>1. d \in tunnels[r] /\ d \in Conns
      BY <2>2
    <3> QED BY <3>1, <1>2 DEF OwnTunnels
  <2> QED BY <2>1, <2>2
<1>5. Registered'
  <2> SUFFICES ASSUME NEW r \in Relays, NEW d \in tunnels'[r]
               PROVE  (HandlerAt(d, "reply") \/ HandlerAt(d, "pump"))'
    BY DEF Registered
  <2>1. CASE d = c
    BY <2>1, <1>d, <1>k DEF HandlerAt
  <2>2. CASE d # c
    <3>1. d \in tunnels[r] /\ d \in Conns /\ conn'[d] = conn[d]
      BY <2>2, <1>d
    <3> QED BY <3>1 DEF Registered, HandlerAt
  <2> QED BY <2>1, <2>2
<1>6. Reached'
  <2> SUFFICES ASSUME NEW d \in Conns, (HandlerAt(d, "pump") \/ HandlerAt(d, "reply"))', conn'[d].open
               PROVE  LET s == conn'[d].relay IN
                        \/ ranger'[s] = "up" /\ d \in tunnels'[s]
                        \/ ranger'[s] = "cutting" /\ d \in cutting'[s]
    BY DEF Reached
  <2>1. CASE d = c
    BY <2>1, <1>d, <1>k DEF HandlerAt
  <2>2. CASE d # c
    <3>1. conn'[d] = conn[d] /\ conn[d] # Nil
      BY <2>2, <1>d DEF HandlerAt
    <3>2. HandlerAt(d, "pump") \/ HandlerAt(d, "reply")
      BY <3>1 DEF HandlerAt
    <3>3. conn[d].relay \in Relays
      BY <3>1, <1>t, RelayOf
    <3>4. \A s \in Relays : d \in tunnels[s] => d \in tunnels'[s]
      BY <2>2
    <3> QED BY <3>1, <3>2, <3>3, <3>4 DEF Reached
  <2> QED BY <2>1, <2>2
<1> QED BY <1>1, <1>3, <1>4, <1>5, <1>6

-------------------------------------------------------------------------------
(* Shutdown.                                                               *)

\* closeTunnels takes the registered tunnels under the lock.
LEMMA StopStep ==
    ASSUME RangerInv, NEW r \in Relays, Stop(r)
    PROVE  RangerInv'
<1> USE DEF RangerInv
<1>t. RangerTypeOK
  OBVIOUS
<1>c. /\ ranger[r] = "up" /\ ranger' = [ranger EXCEPT ![r] = "cutting"]
      /\ cutting' = [cutting EXCEPT ![r] = tunnels[r]]
      /\ tunnels' = [tunnels EXCEPT ![r] = {}]
      /\ UNCHANGED <<reserved, conn>>
  BY DEF Stop
<1>1. RangerTypeOK'
  BY <1>t, <1>c DEF RangerTypeOK
<1>2. Finite' /\ Slots'
  BY <1>c, SameSlots DEF Through
<1>3. \A s \in Relays : tunnels'[s] \subseteq tunnels[s]
  BY <1>t, <1>c DEF RangerTypeOK
<1>4. OwnTunnels' /\ Registered'
  BY <1>3, <1>c DEF OwnTunnels, Registered, Through, HandlerAt
<1>5. Reached'
  <2> SUFFICES ASSUME NEW d \in Conns, HandlerAt(d, "pump") \/ HandlerAt(d, "reply"), conn[d].open
               PROVE  LET s == conn[d].relay IN
                        \/ ranger'[s] = "up" /\ d \in tunnels'[s]
                        \/ ranger'[s] = "cutting" /\ d \in cutting'[s]
    BY <1>c DEF Reached, HandlerAt
  <2>1. conn[d].relay \in Relays
    BY <1>t, RelayOf DEF HandlerAt
  <2>2. LET s == conn[d].relay IN
            \/ ranger[s] = "up" /\ d \in tunnels[s]
            \/ ranger[s] = "cutting" /\ d \in cutting[s]
    BY DEF Reached
  <2> QED BY <2>1, <2>2, <1>c, <1>t DEF RangerTypeOK
<1> QED BY <1>1, <1>2, <1>4, <1>5

\* closeTunnels closes one of those it took, or returns.
LEMMA CutStep ==
    ASSUME RangerInv, NEW r \in Relays, Cut(r)
    PROVE  RangerInv'
<1> USE DEF RangerInv
<1>t. RangerTypeOK
  OBVIOUS
<1>1. CASE cutting[r] = {}
  <2>c. ranger[r] = "cutting" /\ ranger' = [ranger EXCEPT ![r] = "stopped"]
        /\ UNCHANGED <<reserved, tunnels, cutting, conn>>
    BY <1>1 DEF Cut
  <2>1. RangerTypeOK'
    BY <1>t, <2>c DEF RangerTypeOK
  <2>2. Finite' /\ Slots'
    BY <2>c, SameSlots DEF Through
  <2>3. OwnTunnels' /\ Registered'
    BY <2>c DEF OwnTunnels, Registered, Through, HandlerAt
  <2>4. Reached'
    <3> SUFFICES ASSUME NEW d \in Conns, HandlerAt(d, "pump") \/ HandlerAt(d, "reply"), conn[d].open
                 PROVE  LET s == conn[d].relay IN
                          \/ ranger'[s] = "up" /\ d \in tunnels[s]
                          \/ ranger'[s] = "cutting" /\ d \in cutting[s]
      BY <2>c DEF Reached, HandlerAt
    <3>1. conn[d].relay \in Relays
      BY <1>t, RelayOf DEF HandlerAt
    <3>2. LET s == conn[d].relay IN
              \/ ranger[s] = "up" /\ d \in tunnels[s]
              \/ ranger[s] = "cutting" /\ d \in cutting[s]
      BY DEF Reached
    <3> QED BY <3>1, <3>2, <2>c, <1>1, <1>t DEF RangerTypeOK
  <2> QED BY <2>1, <2>2, <2>3, <2>4
<1>2. CASE cutting[r] # {}
  <2> PICK c \in cutting[r] :
        /\ cutting' = [cutting EXCEPT ![r] = @ \ {c}]
        /\ conn' = [conn EXCEPT ![c] = IF Through(c, r) THEN [@ EXCEPT !.open = FALSE] ELSE @]
        /\ UNCHANGED <<reserved, ranger, tunnels>>
    BY <1>2 DEF Cut
  <2>1. c \in Conns /\ ranger[r] = "cutting"
    BY <1>t DEF Cut, RangerTypeOK
  <2>2. \A d \in Conns : d # c => conn'[d] = conn[d]
    BY <1>t DEF RangerTypeOK
  <2>3. Through(c, r) => /\ conn'[c] = [conn[c] EXCEPT !.open = FALSE]
                         /\ conn[c] \in Connections /\ conn'[c] \in Connections
    BY <2>1, <1>t, RelayOf DEF RangerTypeOK, Through, Connections
  <2>4. ~Through(c, r) => conn'[c] = conn[c]
    BY <2>1, <1>t DEF RangerTypeOK
  <2>5. RangerTypeOK'
    <3>1. conn'[c] \in Connections \cup {Nil}
      BY <2>1, <2>3, <2>4, <1>t DEF RangerTypeOK
    <3>2. conn' \in [Conns -> Connections \cup {Nil}]
      BY <3>1, <2>1, <1>t DEF RangerTypeOK
    <3> QED BY <3>2, <1>t DEF RangerTypeOK
  <2>6. Through(c, r) => /\ conn'[c] # Nil /\ conn[c] # Nil /\ ~conn'[c].open
                         /\ conn'[c].relay = conn[c].relay /\ conn'[c].step = conn[c].step
    <3> SUFFICES ASSUME Through(c, r)
                 PROVE  /\ conn'[c] # Nil /\ conn[c] # Nil /\ ~conn'[c].open
                        /\ conn'[c].relay = conn[c].relay /\ conn'[c].step = conn[c].step
      OBVIOUS
    <3>1. conn'[c] # Nil /\ conn[c] # Nil
      BY <2>3, NilAssumption
    <3>2. ASSUME NEW k \in Connections
          PROVE  LET j == [k EXCEPT !.open = FALSE]
                 IN  ~j.open /\ j.relay = k.relay /\ j.step = k.step
      BY DEF Connections
    <3> QED BY <2>3, <3>1, <3>2
  <2>7. \A d \in Conns, s \in Relays : Through(d, s)' = Through(d, s)
    BY <2>2, <2>4, <2>6 DEF Through
  <2>8. \A d \in Conns : \A step : HandlerAt(d, step)' = HandlerAt(d, step)
    BY <2>2, <2>4, <2>6 DEF HandlerAt
  <2>9. Finite' /\ Slots'
    BY <2>7, SameSlots
  <2>10. OwnTunnels' /\ Registered'
    <3>1. \A s \in Relays : tunnels'[s] = tunnels[s] /\ tunnels[s] \subseteq Conns
      BY <1>t DEF RangerTypeOK
    <3> QED BY <3>1, <2>7, <2>8 DEF OwnTunnels, Registered
  <2>11. Reached'
    <3> SUFFICES ASSUME NEW d \in Conns, HandlerAt(d, "pump") \/ HandlerAt(d, "reply"), conn'[d].open
                 PROVE  LET s == conn'[d].relay IN
                          \/ ranger[s] = "up" /\ d \in tunnels[s]
                          \/ ranger[s] = "cutting" /\ d \in cutting'[s]
      BY <2>8 DEF Reached
    <3>1. conn'[d] = conn[d] /\ (d = c => ~Through(c, r))
      BY <2>2, <2>4, <2>6
    <3>2. conn[d].relay \in Relays /\ Through(d, conn[d].relay)
      BY <1>t, RelayOf DEF HandlerAt
    <3>3. LET s == conn[d].relay IN
              \/ ranger[s] = "up" /\ d \in tunnels[s]
              \/ ranger[s] = "cutting" /\ d \in cutting[s]
      BY <3>1 DEF Reached
    <3>4. d = c => conn[d].relay # r
      BY <3>1, <3>2
    <3>5. d \in cutting[conn[d].relay] => d \in cutting'[conn[d].relay]
      BY <3>2, <3>4, <1>t DEF RangerTypeOK
    <3> QED BY <3>1, <3>3, <3>5
  <2> QED BY <2>5, <2>9, <2>10, <2>11
<1> QED BY <1>1, <1>2

\* Every step of a ranger.
LEMMA RangerSteps == ASSUME RangerInv, RangerStep PROVE RangerInv'
<1> USE DEF RangerInv
<1>t. RangerTypeOK
  OBVIOUS
<1>1. ASSUME NEW c \in Conns, Upstream(c) \/ Track(c) \/ Reply(c) \/ PumpEnds(c) PROVE RangerInv'
  <2>1. conn[c] # Nil /\ conn[c] \in Connections /\ conn[c].relay \in Relays /\ Through(c, conn[c].relay)
        /\ UNCHANGED <<ranger, cutting>>
    BY <1>1, <1>t, RelayOf DEF Upstream, Track, Reply, PumpEnds, HandlerAt
  <2>2. CASE End(c)
    BY <2>1, <2>2, EndStep
  <2>3. CASE Upstream(c) /\ ~End(c)
    <3> DEFINE k == [conn[c] EXCEPT !.step = "track"]
    <3>1. conn[c].step = "dial" /\ conn' = [conn EXCEPT ![c] = k] /\ UNCHANGED <<reserved, tunnels>>
      BY <2>3, <2>1, <1>t DEF Upstream, Step, HandlerAt
    <3>2. k \in Connections /\ k.relay = conn[c].relay /\ k.step = "track"
      BY <2>1 DEF Connections
    <3>3. \A r \in Relays : c \notin tunnels[r]
      BY <3>1 DEF Registered, HandlerAt
    <3>4. tunnels' \in [Relays -> SUBSET Conns]
      BY <3>1, <1>t DEF RangerTypeOK
    <3> HIDE DEF k
    <3> QED BY <2>1, <3>1, <3>2, <3>3, <3>4, MoveStep
  <2>4. CASE Track(c) /\ ~End(c)
    <3> DEFINE k == [conn[c] EXCEPT !.step = "reply"]
    <3> PICK r \in Relays : r = conn[c].relay
      BY <2>1
    <3>1. /\ conn[c].step = "track" /\ ranger[r] = "up" /\ conn' = [conn EXCEPT ![c] = k]
          /\ tunnels' = [tunnels EXCEPT ![r] = @ \cup {c}] /\ UNCHANGED reserved
      BY <2>4, <2>1, <1>t DEF Track, Step, HandlerAt
    <3>2. k \in Connections /\ k.relay = conn[c].relay /\ k.step = "reply"
      BY <2>1 DEF Connections
    <3>3. \A s \in Relays : c \notin tunnels[s]
      BY <3>1 DEF Registered, HandlerAt
    <3>4. tunnels' \in [Relays -> SUBSET Conns] /\ tunnels'[r] = tunnels[r] \cup {c}
          /\ \A s \in Relays : s # r => tunnels'[s] = tunnels[s]
      BY <3>1, <1>t DEF RangerTypeOK
    <3>5. \A s \in Relays : tunnels'[s] \ {c} = tunnels[s] \ {c}
      BY <3>4
    <3>6. \A s \in Relays : c \in tunnels'[s] => s = k.relay /\ k.step \in {"reply", "pump"}
      BY <3>2, <3>3, <3>4
    <3>7. ranger[k.relay] = "up" /\ c \in tunnels'[k.relay]
      BY <3>1, <3>2, <3>4
    <3>8. tunnels' \in [Relays -> SUBSET Conns]
      BY <3>4
    <3>9. conn[c] # Nil /\ UNCHANGED <<reserved, ranger, cutting>>
      BY <2>1, <3>1
    <3> HIDE DEF k
    <3> QED BY <3>1, <3>2, <3>5, <3>6, <3>7, <3>8, <3>9, MoveStep
  <2>5. CASE Reply(c) /\ ~End(c)
    <3> DEFINE k == [conn[c] EXCEPT !.step = "pump", !.ok = TRUE]
    <3>1. conn[c].step = "reply" /\ conn[c].open /\ conn' = [conn EXCEPT ![c] = k]
          /\ UNCHANGED <<reserved, tunnels>>
      BY <2>5, <2>1, <1>t DEF Reply, HandlerAt
    <3>2. k \in Connections /\ k.relay = conn[c].relay /\ k.step = "pump"
      BY <2>1 DEF Connections
    <3>3. \A s \in Relays : c \in tunnels[s] => s = conn[c].relay
      BY <2>1 DEF OwnTunnels, Through
    <3>4. tunnels' \in [Relays -> SUBSET Conns]
      BY <3>1, <1>t DEF RangerTypeOK
    <3>5. LET s == conn[c].relay IN
              \/ ranger[s] = "up" /\ c \in tunnels[s]
              \/ ranger[s] = "cutting" /\ c \in cutting[s]
      BY <2>1, <3>1 DEF Reached, HandlerAt
    <3> HIDE DEF k
    <3> QED BY <2>1, <3>1, <3>2, <3>3, <3>4, <3>5, MoveStep
  <2> QED BY <1>1, <2>2, <2>3, <2>4, <2>5 DEF PumpEnds
<1> QED BY <1>1, StopStep, CutStep DEF RangerStep

\* The client closes its end.
LEMMA LeaveStep ==
    ASSUME RangerInv, NEW c \in Conns, Leave(c), UNCHANGED <<reserved, ranger, tunnels, cutting>>
    PROVE  RangerInv'
<1> USE DEF RangerInv
<1>t. RangerTypeOK
  OBVIOUS
<1>1. CASE conn[c] = Nil
  <2>1. UNCHANGED <<reserved, ranger, tunnels, cutting, conn>>
    BY <1>1 DEF Leave
  <2> QED BY <2>1 DEF RangerTypeOK, Finite, Slots, Carried, OwnTunnels, Registered,
              Reached, Through, HandlerAt
<1>2. CASE conn[c] # Nil
  <2> DEFINE k == [conn[c] EXCEPT !.open = FALSE]
  <2>1. conn[c] \in Connections /\ Through(c, conn[c].relay)
    BY <1>2, <1>t, RelayOf
  <2>2. conn' = [conn EXCEPT ![c] = k]
    BY <1>2, <1>t DEF Leave
  <2>3. k \in Connections /\ k.relay = conn[c].relay /\ k.step = conn[c].step /\ ~k.open
    BY <2>1 DEF Connections
  <2>4. \A s \in Relays : c \in tunnels[s] => s = conn[c].relay /\ conn[c].step \in {"reply", "pump"}
    BY <2>1 DEF OwnTunnels, Registered, Through, HandlerAt
  <2>5. tunnels' \in [Relays -> SUBSET Conns]
    BY <1>t DEF RangerTypeOK
  <2> HIDE DEF k
  <2> QED BY <1>2, <2>2, <2>3, <2>4, <2>5, MoveStep
<1> QED BY <1>1, <1>2

-------------------------------------------------------------------------------
(* The client's pool.                                                      *)

Entries == Relays \X Documents

Dials == [step : {"idle", "next", "asked", "over"}, left : Seq(Entries), late : BOOLEAN]

PoolTypeOK ==
    /\ relays \in Seq(Entries) /\ guard \in Entries \cup {Nil}
    /\ validity \in Documents \cup {Nil} /\ fetched \in Documents \cup {Nil}
    /\ source \in Documents \cup {Nil} /\ newest \in Documents \cup {Nil}
    /\ failing \in BOOLEAN
    /\ dial \in [Conns -> Dials]

\* The staleness ceiling is measured by the newest document; a document that is
\* being worked with is that one.
Newest == validity = newest /\ (fetched # Nil => fetched = newest)

Dialing(d) == dial[d].step \in {"next", "asked"}

\* An entry may be tried because it is listed, because the dial began under an
\* earlier set, or because it became guard in such a dial.
MayBeTried(e, d) == e \in ToSet(relays) \/ dial[d].late \/ e \in overtaken

Candidacy ==
    \A d \in Conns : Dialing(d) =>
        /\ dial[d].left # <<>>
        /\ \A i \in 1..Len(dial[d].left) : MayBeTried(dial[d].left[i], d)

PoolInv == PoolTypeOK /\ Newest /\ HealthIsTrue /\ Candidacy /\ WithdrawnGuardWasDialing

IInv == RangerInv /\ PoolInv

\* The elements of a sequence are finitely many.
LEMMA FiniteElements == ASSUME NEW S, NEW s \in Seq(S) PROVE IsFiniteSet(ToSet(s)) /\ ToSet(s) \subseteq S
<1>1. s \in Surjection(1..Len(s), ToSet(s))
  BY DEF Surjection, ToSet
<1>2. IsFiniteSet(1..Len(s))
  BY FS_Interval
<1> QED BY <1>1, <1>2, FS_Surjection DEF ToSet

\* A sequence that SetToSeqs makes of a finite set holds each of its elements.
LEMMA Ordered ==
    ASSUME NEW S, IsFiniteSet(S), NEW s \in SetToSeqs(S)
    PROVE  s \in Seq(S) /\ ToSet(s) = S
<1> PICK n \in Nat : n = Cardinality(S)
  BY FS_CardinalityType
<1>1. s \in [1..n -> S] /\ \A i, j \in 1..n : i # j => s[i] # s[j]
  BY DEF SetToSeqs
<1>2. s \in Injection(1..n, S)
  BY <1>1 DEF Injection, IsInjective
<1>3. IsFiniteSet(1..n) /\ Cardinality(1..n) = n
  BY FS_Interval
<1>4. s \in Surjection(1..n, S)
  BY <1>2, <1>3, FS_Injection
<1>5. s \in Seq(S)
  BY <1>1
<1>6. DOMAIN s = 1..n
  BY <1>1
<1> QED BY <1>4, <1>5, <1>6 DEF Surjection, ToSet

\* A dial tries listed entries and the guard, and at least one.
LEMMA CandidatesOf ==
    ASSUME PoolTypeOK, relays # <<>>, NEW backoff, NEW left \in Candidates(backoff)
    PROVE  /\ left \in Seq(Entries) /\ left # <<>>
           /\ \A i \in 1..Len(left) :
                left[i] \in ToSet(relays) \/ (left[i] = guard /\ guard # Nil)
<1> DEFINE others == {e \in ToSet(relays) : e # guard /\ e \notin backoff}
           first == IF guard # Nil /\ guard \notin backoff THEN <<guard>> ELSE <<>>
<1>1. relays \in Seq(Entries) /\ guard \in Entries \cup {Nil}
  BY DEF PoolTypeOK
<1>2. PICK rest \in SetToSeqs(others) : left = IF first \o rest = <<>> THEN relays ELSE first \o rest
  BY DEF Candidates
<1>3. IsFiniteSet(others) /\ others \subseteq ToSet(relays) /\ ToSet(relays) \subseteq Entries
  <2>1. others \subseteq ToSet(relays)
    OBVIOUS
  <2>2. IsFiniteSet(ToSet(relays)) /\ ToSet(relays) \subseteq Entries
    BY <1>1, FiniteElements
  <2> QED BY <2>1, <2>2, FS_Subset
<1>4. rest \in Seq(others) /\ ToSet(rest) = others
  BY <1>2, <1>3, Ordered
<1>5. \A i \in 1..Len(rest) : rest[i] \in ToSet(relays)
  BY <1>4, <1>3
<1>6. rest \in Seq(Entries)
  BY <1>4, <1>3
<1> HIDE DEF others
<1>7. CASE first \o rest = <<>>
  <2>1. left = relays
    BY <1>2, <1>7
  <2>2. \A i \in 1..Len(relays) : relays[i] \in ToSet(relays)
    BY <1>1 DEF ToSet
  <2> QED BY <2>1, <2>2, <1>1
<1>8. CASE first \o rest # <<>> /\ first = <<guard>> /\ guard # Nil
  <2>1. left = <<guard>> \o rest /\ guard \in Entries
    BY <1>2, <1>8, <1>1
  <2>2. \A i \in 1..Len(left) : left[i] = guard \/ (i - 1 \in 1..Len(rest) /\ left[i] = rest[i - 1])
    BY <2>1, <1>6
  <2>3. left \in Seq(Entries) /\ left # <<>>
    BY <2>1, <1>6
  <2> QED BY <2>2, <2>3, <1>5, <1>8
<1>9. CASE first \o rest # <<>> /\ first = <<>>
  <2>1. left = rest /\ left # <<>>
    BY <1>2, <1>9, <1>6
  <2> QED BY <2>1, <1>5, <1>6
<1> QED BY <1>7, <1>8, <1>9

\* A step that leaves the set, the guard, the history of the guard and the dials as
\* they are has nothing to do with which relays are tried.
LEMMA SameCandidacy ==
    ASSUME PoolInv, UNCHANGED <<relays, guard, overtaken, dial>>
    PROVE  Candidacy' /\ WithdrawnGuardWasDialing'
BY DEF PoolInv, Candidacy, WithdrawnGuardWasDialing, Dialing, MayBeTried

\* A fetch that succeeds, one that fails and a document with nothing usable.
LEMMA FetchStep ==
    ASSUME PoolInv, (\E e \in Documents : Refresh(e)) \/ RefreshFails \/ NothingUsable
    PROVE  PoolInv'
<1> USE DEF PoolInv
<1>1. UNCHANGED <<relays, guard, overtaken, dial, source>>
  BY DEF Refresh, RefreshFails, NothingUsable
<1>2. Candidacy' /\ WithdrawnGuardWasDialing'
  BY <1>1, SameCandidacy
<1>3. ASSUME NEW e \in Documents, Refresh(e) PROVE PoolTypeOK' /\ Newest' /\ HealthIsTrue'
  <2>1. fetched' = e /\ validity' = e /\ fetched' # Nil /\ UNCHANGED failing
    BY <1>3, PoolAssumption DEF Refresh
  <2>2. newest' = e
    <3>1. CASE validity = Nil
      BY <3>1, <1>3 DEF Refresh, Newest
    <3>2. CASE validity # Nil
      <4>1. validity \in Nat /\ e \in Nat /\ newest = validity /\ e >= validity
        BY <3>2, <1>3, PoolAssumption DEF Refresh, Acceptable, Newest, PoolTypeOK
      <4> QED BY <4>1, <1>3 DEF Refresh
    <3> QED BY <3>1, <3>2
  <2> QED BY <2>1, <2>2, <1>1 DEF PoolTypeOK, Newest, HealthIsTrue
<1>4. CASE RefreshFails \/ NothingUsable
  <2>1. failing' = TRUE /\ fetched' \in {fetched, Nil} /\ UNCHANGED <<validity, newest>>
    BY <1>4 DEF RefreshFails, NothingUsable
  <2>2. PoolTypeOK'
    BY <2>1, <1>1 DEF PoolTypeOK
  <2>3. Newest' /\ HealthIsTrue'
    BY <2>1 DEF Newest, HealthIsTrue
  <2> QED BY <1>2, <2>2, <2>3
<1> QED BY <1>2, <1>3, <1>4

\* The relays of a document are installed: the guard is one of them, and dials
\* under way are of an earlier set.
LEMMA InstallStep == ASSUME PoolInv, InstallRelays PROVE PoolInv'
<1> USE DEF PoolInv
<1> DEFINE next == {Entry(r) : r \in Lists[fetched]}
<1>1. /\ fetched \in Documents /\ fetched # Nil /\ fetched' = Nil /\ failing' = FALSE
      /\ source' = fetched /\ overtaken' = {}
      /\ dial' = [d \in Conns |-> [dial[d] EXCEPT !.late = dial[d].step \in {"next", "asked"}]]
      /\ guard' = IF guard \in next THEN guard ELSE Nil
      /\ UNCHANGED <<validity, newest>>
  BY DEF InstallRelays, PoolTypeOK
<1>2. next \subseteq Entries
  <2> SUFFICES ASSUME NEW r \in Lists[fetched] PROVE Entry(r) \in Entries
    OBVIOUS
  <2>1. r \in Relays
    BY <1>1, PoolAssumption
  <2>2. ToSet(relays) \subseteq Entries
    BY FiniteElements DEF PoolTypeOK
  <2>3. CASE \E e \in ToSet(relays) : e[1] = r
    BY <2>2, <2>3 DEF Entry
  <2>4. CASE ~\E e \in ToSet(relays) : e[1] = r
    BY <2>1, <2>4, <1>1 DEF Entry, Entries
  <2> QED BY <2>3, <2>4
<1>3. IsFiniteSet(next)
  <2> DEFINE f == [r \in Lists[fetched] |-> Entry(r)]
  <2>1. f \in Surjection(Lists[fetched], next)
    BY DEF Surjection
  <2>2. IsFiniteSet(Lists[fetched])
    BY <1>1, PoolAssumption
  <2> QED BY <2>1, <2>2, FS_Surjection
<1>4. relays' \in Seq(next) /\ ToSet(relays') = next
  <2>1. PICK order \in SetToSeqs(next) : relays' = order
    BY DEF InstallRelays
  <2> HIDE DEF next
  <2> QED BY <2>1, <1>3, Ordered
<1>5. PoolTypeOK'
  <2>1. relays' \in Seq(Entries)
    <3> HIDE DEF next
    <3> QED BY <1>2, <1>4
  <2>2. dial' \in [Conns -> Dials]
    <3>1. ASSUME NEW d \in Conns, NEW late \in BOOLEAN PROVE [dial[d] EXCEPT !.late = late] \in Dials
      <4>1. dial[d] \in Dials
        BY DEF PoolTypeOK
      <4> QED BY <4>1 DEF Dials
    <3>2. \A d \in Conns : (dial[d].step \in {"next", "asked"}) \in BOOLEAN
      OBVIOUS
    <3> QED BY <3>1, <3>2, <1>1
  <2>3. guard' \in Entries \cup {Nil}
    BY <1>1, <1>2
  <2> QED BY <2>1, <2>2, <2>3, <1>1 DEF PoolTypeOK
<1>6. Newest' /\ HealthIsTrue'
  BY <1>1 DEF Newest, HealthIsTrue
<1>7. WithdrawnGuardWasDialing'
  BY <1>1, <1>4 DEF WithdrawnGuardWasDialing
<1>8. Candidacy'
  <2> SUFFICES ASSUME NEW d \in Conns, Dialing(d)'
               PROVE  dial'[d].left # <<>> /\ dial'[d].late
    BY DEF Candidacy, MayBeTried
  <2>1. dial'[d] = [dial[d] EXCEPT !.late = dial[d].step \in {"next", "asked"}] /\ dial[d] \in Dials
    BY <1>1 DEF PoolTypeOK
  <2>2. dial'[d].left = dial[d].left /\ dial'[d].step = dial[d].step
        /\ dial'[d].late = (dial[d].step \in {"next", "asked"})
    BY <2>1 DEF Dials
  <2> QED BY <2>2 DEF Dialing, Candidacy
<1> QED BY <1>5, <1>6, <1>7, <1>8

\* The dials go on, with the set as it is.  The guard and its history change in
\* Succeed only.
LEMMA DialStep ==
    ASSUME PoolInv, NEW d \in Conns, NEW k \in Dials, dial' = [dial EXCEPT ![d] = k],
           UNCHANGED <<relays, guard, overtaken, validity, newest, source, fetched, failing>>,
           k.step \in {"next", "asked"} =>
               /\ k.left # <<>>
               /\ \A i \in 1..Len(k.left) :
                    k.left[i] \in ToSet(relays) \/ k.late \/ k.left[i] \in overtaken
    PROVE  PoolInv'
<1> USE DEF PoolInv
<1>1. dial'[d] = k /\ \A c \in Conns : c # d => dial'[c] = dial[c]
  BY DEF PoolTypeOK
<1>2. PoolTypeOK'
  BY DEF PoolTypeOK
<1>3. Newest' /\ HealthIsTrue' /\ WithdrawnGuardWasDialing'
  BY DEF Newest, HealthIsTrue, WithdrawnGuardWasDialing
<1>4. Candidacy'
  <2> SUFFICES ASSUME NEW c \in Conns, Dialing(c)'
               PROVE  /\ dial'[c].left # <<>>
                      /\ \A i \in 1..Len(dial'[c].left) : MayBeTried(dial[c].left[i], c)'
    BY DEF Candidacy
  <2>1. CASE c = d
    BY <2>1, <1>1 DEF Dialing, MayBeTried
  <2>2. CASE c # d
    BY <2>2, <1>1 DEF Dialing, MayBeTried, Candidacy
  <2> QED BY <2>1, <2>2
<1> QED BY <1>2, <1>3, <1>4

\* What a dial that is under way looks like.
LEMMA DialOf ==
    ASSUME PoolInv, NEW d \in Conns, Dialing(d)
    PROVE  /\ dial[d].left \in Seq(Entries) /\ dial[d].left # <<>> /\ dial[d].late \in BOOLEAN
           /\ Head(dial[d].left) \in Entries /\ Head(dial[d].left)[1] \in Relays
           /\ Tail(dial[d].left) \in Seq(Entries)
           /\ \A i \in 1..Len(dial[d].left) : MayBeTried(dial[d].left[i], d)
<1>1. dial[d] \in Dials
  BY DEF PoolInv, PoolTypeOK
<1>2. dial[d].left \in Seq(Entries) /\ dial[d].late \in BOOLEAN
  BY <1>1 DEF Dials
<1>3. /\ dial[d].left # <<>>
      /\ \A i \in 1..Len(dial[d].left) : MayBeTried(dial[d].left[i], d)
  BY DEF PoolInv, Candidacy
<1>4. Head(dial[d].left) \in Entries /\ Tail(dial[d].left) \in Seq(Entries)
  BY <1>2, <1>3
<1> QED BY <1>2, <1>3, <1>4 DEF Entries

\* The first step of a dial.
LEMMA StartDialStep == ASSUME PoolInv, NEW d \in Conns, StartDial(d) PROVE PoolInv'
<1> USE DEF PoolInv
<1>1. dial[d] \in Dials
  BY DEF PoolTypeOK
<1>2. UNCHANGED <<relays, guard, overtaken, validity, newest, source, fetched, failing>>
  BY DEF StartDial
<1>3. CASE relays = <<>> \/ TooStale
  <2> DEFINE k == [dial[d] EXCEPT !.step = "over"]
  <2>1. dial' = [dial EXCEPT ![d] = k]
    BY <1>3 DEF StartDial, PoolTypeOK
  <2>2. k \in Dials /\ k.step = "over"
    BY <1>1 DEF Dials
  <2> HIDE DEF k
  <2> QED BY <1>2, <2>1, <2>2, DialStep
<1>4. CASE ~(relays = <<>> \/ TooStale)
  <2>1. PICK left \in Candidates(resting') :
            dial' = [dial EXCEPT ![d] = [@ EXCEPT !.step = "next", !.left = left]]
    BY <1>4 DEF StartDial
  <2>2. /\ left \in Seq(Entries) /\ left # <<>>
        /\ \A i \in 1..Len(left) : left[i] \in ToSet(relays) \/ (left[i] = guard /\ guard # Nil)
    BY <1>4, CandidatesOf
  <2>3. \A i \in 1..Len(left) : left[i] \in ToSet(relays) \/ left[i] \in overtaken
    BY <2>2 DEF WithdrawnGuardWasDialing
  <2> DEFINE k == [dial[d] EXCEPT !.step = "next", !.left = left]
  <2>4. dial' = [dial EXCEPT ![d] = k]
    BY <2>1 DEF PoolTypeOK
  <2>5. k \in Dials /\ k.left = left
    BY <1>1, <2>2 DEF Dials
  <2> HIDE DEF k
  <2> QED BY <1>2, <2>2, <2>3, <2>4, <2>5, DialStep
<1> QED BY <1>3, <1>4

\* A candidate is asked.
LEMMA AskStep == ASSUME PoolInv, NEW d \in Conns, Ask(d) PROVE PoolInv'
<1> DEFINE k == [dial[d] EXCEPT !.step = "asked"]
<1>1. dial[d] \in Dials /\ Dialing(d)
  BY DEF PoolInv, PoolTypeOK, Ask, Dialing
<1>2. UNCHANGED <<relays, guard, overtaken, validity, newest, source, fetched, failing>>
  BY DEF Ask
<1>3. dial' = [dial EXCEPT ![d] = k]
  BY DEF Ask
<1>4. k \in Dials /\ k.left = dial[d].left /\ k.late = dial[d].late
  BY <1>1 DEF Dials
<1>5. /\ k.left # <<>>
      /\ \A i \in 1..Len(k.left) : k.left[i] \in ToSet(relays) \/ k.late \/ k.left[i] \in overtaken
  BY <1>1, <1>4, DialOf DEF MayBeTried
<1> HIDE DEF k
<1> QED BY <1>2, <1>3, <1>4, <1>5, DialStep

\* The next candidate after one that failed.
LEMMA OnwardStep ==
    ASSUME PoolInv, NEW d \in Conns, Dialing(d), Onward(d),
           UNCHANGED <<relays, guard, overtaken, validity, newest, source, fetched, failing>>
    PROVE  PoolInv'
<1> DEFINE left == Tail(dial[d].left)
           k == [step |-> IF left = <<>> THEN "over" ELSE "next", left |-> left,
                 late |-> dial[d].late /\ left # <<>>]
<1>1. /\ dial[d].left \in Seq(Entries) /\ dial[d].left # <<>> /\ dial[d].late \in BOOLEAN
      /\ left \in Seq(Entries)
      /\ \A i \in 1..Len(dial[d].left) : MayBeTried(dial[d].left[i], d)
  BY DialOf
<1>2. dial' = [dial EXCEPT ![d] = k]
  BY DEF Onward
<1>3. k \in Dials
  BY <1>1 DEF Dials
<1>4. \A i \in 1..Len(left) : i + 1 \in 1..Len(dial[d].left) /\ left[i] = dial[d].left[i + 1]
  BY <1>1
<1>5. k.step = "next" => left # <<>> /\ k.late = dial[d].late
  BY <1>1
<1>6. k.left = left /\ k.step \in {"next", "over"}
  OBVIOUS
<1> HIDE DEF left
<1>7. \A i \in 1..Len(left) : MayBeTried(left[i], d)
  BY <1>1, <1>4
<1> HIDE DEF k
<1>8. k.step \in {"next", "asked"} =>
          /\ k.left # <<>>
          /\ \A i \in 1..Len(k.left) : k.left[i] \in ToSet(relays) \/ k.late \/ k.left[i] \in overtaken
  BY <1>5, <1>6, <1>7 DEF MayBeTried
<1> QED BY <1>2, <1>3, <1>8, DialStep

\* The entry of a dial that succeeds becomes the guard.
LEMMA SucceedStep == ASSUME PoolInv, NEW d \in Conns, Succeed(d) PROVE PoolInv'
<1> USE DEF PoolInv
<1> PICK e \in Entries : e = Head(dial[d].left) /\ MayBeTried(e, d)
  <2>1. Dialing(d)
    BY DEF Succeed, Dialing
  <2>2. dial[d].left \in Seq(Entries) /\ dial[d].left # <<>> /\ Head(dial[d].left) \in Entries
        /\ \A i \in 1..Len(dial[d].left) : MayBeTried(dial[d].left[i], d)
    BY <2>1, DialOf
  <2>3. Head(dial[d].left) = dial[d].left[1] /\ 1 \in 1..Len(dial[d].left)
    BY <2>2
  <2> QED BY <2>2, <2>3
<1> DEFINE k == [step |-> "over", left |-> <<>>, late |-> FALSE]
<1>1. /\ guard' = e /\ dial' = [dial EXCEPT ![d] = k]
      /\ overtaken' = IF dial[d].late /\ guard # e THEN overtaken \cup {e} ELSE overtaken
      /\ UNCHANGED <<relays, validity, newest, source, fetched, failing>>
  BY DEF Succeed
<1>2. k \in Dials
  <2>1. <<>> \in Seq(Entries)
    OBVIOUS
  <2> QED BY <2>1 DEF Dials
<1>3. dial'[d].step = "over" /\ \A c \in Conns : c # d => dial'[c] = dial[c]
  BY <1>1 DEF PoolTypeOK
<1>4. PoolTypeOK'
  BY <1>1, <1>2 DEF PoolTypeOK
<1>5. Newest' /\ HealthIsTrue'
  BY <1>1 DEF Newest, HealthIsTrue
<1>6. WithdrawnGuardWasDialing'
  BY <1>1 DEF WithdrawnGuardWasDialing, MayBeTried
<1>7. Candidacy'
  <2> SUFFICES ASSUME NEW c \in Conns, Dialing(c)'
               PROVE  /\ dial'[c].left # <<>>
                      /\ \A i \in 1..Len(dial'[c].left) : MayBeTried(dial[c].left[i], c)'
    BY DEF Candidacy
  <2>1. c # d /\ dial'[c] = dial[c]
    BY <1>3 DEF Dialing
  <2>2. overtaken \subseteq overtaken'
    BY <1>1
  <2> QED BY <2>1, <2>2, <1>1 DEF Dialing, MayBeTried, Candidacy
<1> QED BY <1>4, <1>5, <1>6, <1>7

\* The request is cancelled.
LEMMA CancelledStep == ASSUME PoolInv, NEW d \in Conns, Cancelled(d) PROVE PoolInv'
<1> DEFINE k == [step |-> "over", left |-> <<>>, late |-> FALSE]
<1>1. UNCHANGED <<relays, guard, overtaken, validity, newest, source, fetched, failing>>
  BY DEF Cancelled
<1>2. dial' = [dial EXCEPT ![d] = k]
  BY DEF Cancelled
<1>3. k \in Dials
  <2>1. <<>> \in Seq(Entries)
    OBVIOUS
  <2> QED BY <2>1 DEF Dials
<1>4. k.step = "over"
  OBVIOUS
<1> HIDE DEF k
<1> QED BY <1>1, <1>2, <1>3, <1>4, DialStep

-------------------------------------------------------------------------------
(* The theorems.                                                           *)

\* Everything the pool and the rangers depend on holds after any interleaving of
\* dials, refreshes, tunnels and shutdowns.
THEOREM Invariant == RelayingSpec => []IInv
<1>1. RelayingInit => IInv
  <2> SUFFICES ASSUME RelayingInit PROVE RangerInv /\ PoolInv
    BY DEF IInv
  <2> USE DEF RelayingInit, RangerInit, PoolInit
  <2>1. RangerTypeOK
    BY DEF RangerTypeOK
  <2>2. \A r \in Relays : Carried(r) = {}
    BY DEF Carried, Through
  <2>3. Finite
    BY <2>2, FS_EmptySet DEF Finite
  <2>4. Slots
    <3>1. Cardinality({}) = 0 /\ 0 <= MaxTunnels
      BY FS_EmptySet, RangerAssumption
    <3> QED BY <2>2, <3>1 DEF Slots
  <2>5. OwnTunnels /\ Registered /\ Reached
    BY DEF OwnTunnels, Registered, Reached, HandlerAt
  <2>6. PoolTypeOK
    <3>1. <<>> \in Seq(Entries)
      OBVIOUS
    <3>2. dial \in [Conns -> Dials]
      BY <3>1 DEF Dials
    <3> QED BY <3>1, <3>2 DEF PoolTypeOK
  <2>7. Newest /\ HealthIsTrue /\ Candidacy /\ WithdrawnGuardWasDialing
    BY DEF Newest, HealthIsTrue, Candidacy, Dialing, WithdrawnGuardWasDialing
  <2> QED BY <2>1, <2>3, <2>4, <2>5, <2>6, <2>7 DEF RangerInv, PoolInv
<1>2. IInv /\ [RelayingNext]_relayingVars => IInv'
  <2> SUFFICES ASSUME RangerInv, PoolInv, [RelayingNext]_relayingVars PROVE RangerInv' /\ PoolInv'
    BY DEF IInv
  <2>1. ASSUME UNCHANGED rangerVars PROVE RangerInv'
    <3>1. UNCHANGED <<reserved, ranger, tunnels, cutting, conn>>
      BY <2>1 DEF rangerVars
    <3>2. RangerTypeOK' /\ OwnTunnels' /\ Registered' /\ Reached'
      BY <3>1 DEF RangerInv, RangerTypeOK, OwnTunnels, Registered, Reached, Through, HandlerAt
    <3>3. Finite' /\ Slots'
      BY <3>1, SameSlots DEF RangerInv, Through
    <3> QED BY <3>2, <3>3 DEF RangerInv
  <2>2. ASSUME UNCHANGED <<relays, guard, overtaken, dial, validity, newest, source, fetched, failing>>
        PROVE  PoolInv'
    BY <2>2, SameCandidacy DEF PoolInv, PoolTypeOK, Newest, HealthIsTrue
  <2>3. CASE RangerStep /\ UNCHANGED poolVars
    BY <2>2, <2>3, RangerSteps DEF poolVars
  <2>4. CASE RefreshStep
    BY <2>1, <2>4, FetchStep, InstallStep DEF RefreshStep
  <2>5. CASE TimePasses \/ UNCHANGED relayingVars
    BY <2>1, <2>2, <2>5 DEF TimePasses, relayingVars, poolVars
  <2>6. ASSUME NEW d \in Conns,
               StartDial(d) \/ Ask(d) \/ Unreachable(d) \/ Refused(d) \/ Succeed(d) \/ Cancelled(d)
        PROVE  RangerInv' /\ PoolInv'
    <3>1. CASE StartDial(d)
      BY <2>1, <3>1, StartDialStep DEF StartDial
    <3>2. CASE Ask(d)
      <4>1. Head(dial[d].left)[1] \in Relays
        BY <3>2, DialOf DEF Ask, Dialing
      <4> QED BY <3>2, <4>1, AskStep, ConnectsStep DEF Ask
    <3>3. CASE Unreachable(d)
      BY <2>1, <3>3, OnwardStep DEF Unreachable, Dialing
    <3>4. CASE Refused(d)
      BY <3>4, OnwardStep, LeaveStep DEF Refused, Dialing
    <3>5. CASE Succeed(d)
      BY <2>1, <3>5, SucceedStep DEF Succeed
    <3>6. CASE Cancelled(d)
      <4>1. PoolInv'
        BY <3>6, CancelledStep
      <4>2. CASE dial[d].step = "asked"
        BY <3>6, <4>1, <4>2, LeaveStep DEF Cancelled
      <4>3. CASE dial[d].step # "asked"
        BY <2>1, <3>6, <4>1, <4>3 DEF Cancelled, rangerVars
      <4> QED BY <4>2, <4>3
    <3> QED BY <2>6, <3>1, <3>2, <3>3, <3>4, <3>5, <3>6
  <2> QED BY <2>3, <2>4, <2>5, <2>6 DEF RelayingNext, PoolStep
<1> QED BY <1>1, <1>2, PTL DEF RelayingSpec

\* The slots in use are the handlers that hold one and never more than a relay may
\* carry, and the registered tunnels are among them (reserveTunnel, releaseTunnel,
\* track and the deferred calls of ServeHTTP).
THEOREM SlotsKept == RelayingSpec => []SlotsExact
<1>1. IInv => SlotsExact
  <2> SUFFICES ASSUME IInv, NEW r \in Relays
               PROVE  /\ reserved[r] = Cardinality({c \in Conns : Through(c, r)})
                      /\ reserved[r] <= MaxTunnels
                      /\ \A c \in tunnels[r] : Through(c, r) /\ conn[c].step \in {"reply", "pump"}
    BY DEF SlotsExact
  <2>1. Slots /\ OwnTunnels /\ Registered
    BY DEF IInv, RangerInv
  <2> QED BY <2>1 DEF Slots, Carried, OwnTunnels, Registered, HandlerAt
<1> QED BY <1>1, Invariant, PTL

\* A relay whose Shutdown has cut its tunnels carries none, those included that
\* passed every check while closeTunnels ran.
THEOREM Quiet == RelayingSpec => []StoppedIsQuiet
<1>1. IInv => StoppedIsQuiet
  BY DEF IInv, RangerInv, Reached, StoppedIsQuiet
<1> QED BY <1>1, Invariant, PTL

\* Whenever DirectoryHealth reports the refresh as well, the relays in use are
\* those of the newest document accepted (Pool.Refresh and Pool.install).
THEOREM HealthTrue == RelayingSpec => []HealthIsTrue
<1>1. IInv => HealthIsTrue
  BY DEF IInv, PoolInv
<1> QED BY <1>1, Invariant, PTL

\* A relay that is no longer listed is guard only through a dial that began before
\* the withdrawal (candidates copied under the lock, succeed called after it).
THEOREM WithdrawnGuard == RelayingSpec => []WithdrawnGuardWasDialing
<1>1. IInv => WithdrawnGuardWasDialing
  BY DEF IInv, PoolInv
<1> QED BY <1>1, Invariant, PTL
===============================================================================
