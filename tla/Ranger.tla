--------------------------------- MODULE Ranger ---------------------------------
(***************************************************************************)
(* Rangers (internal/ranger/ranger.go): relays that carry CONNECT tunnels. *)
(* One goroutine serves each connection; a slot is claimed before the      *)
(* destination is dialled and given back by a deferred call, and Shutdown  *)
(* cuts the tunnels it finds registered, outside the lock.                 *)
(***************************************************************************)
EXTENDS Naturals, FiniteSets

CONSTANTS
    Relays,      \* a relay is an address and the key published for it
    Conns,       \* connections of clients to relays
    MaxTunnels,
    Stoppable,   \* bound: relays whose operator may stop them
    Nil

ASSUME RangerAssumption == MaxTunnels \in Nat \ {0} /\ Stoppable \subseteq Relays

\* What is known of a connection: its relay, where ServeHTTP is with it ("dial"
\* after reserveTunnel, "track" after the dial and Hijack, "reply" after track,
\* "pump"), whether it is open and was told 200.
Connections == [relay : Relays, step : {"dial", "track", "reply", "pump"},
                open : BOOLEAN, ok : BOOLEAN]

ASSUME NilAssumption == Nil \notin Connections

VARIABLES
    reserved,  \* s.reserved
    ranger,    \* "up", "cutting", "stopped": the progress of Shutdown
    tunnels,   \* s.tunnels, the connections registered
    cutting,   \* those closeTunnels took to close, one after the other
    conn       \* each connection, Nil when there is none

rangerVars == <<reserved, ranger, tunnels, cutting, conn>>

RangerInit ==
    /\ reserved = [r \in Relays |-> 0] /\ ranger = [r \in Relays |-> "up"]
    /\ tunnels = [r \in Relays |-> {}] /\ cutting = [r \in Relays |-> {}]
    /\ conn = [c \in Conns |-> Nil]

HandlerAt(c, step) == conn[c] # Nil /\ (conn[c] # Nil => conn[c].step = step)

Through(c, r) == conn[c] # Nil /\ (conn[c] # Nil => conn[c].relay = r)

Step(c, step) == conn' = [conn EXCEPT ![c].step = step]

\* An authenticated CONNECT to an allowed destination gets a slot (reserveTunnel).
\* Any other is refused and changes nothing.
Connects(c, r) ==
    /\ conn[c] = Nil
    /\ ranger[r] = "up" /\ reserved[r] < MaxTunnels
    /\ reserved' = [reserved EXCEPT ![r] = @ + 1]
    /\ conn' = [conn EXCEPT ![c] = [relay |-> r, step |-> "dial", open |-> TRUE, ok |-> FALSE]]
    /\ UNCHANGED <<ranger, tunnels, cutting>>

\* The deferred calls: untrack, the closes and releaseTunnel.
End(c) ==
    LET r == conn[c].relay IN
    /\ tunnels' = [tunnels EXCEPT ![r] = @ \ {c}]
    /\ reserved' = [reserved EXCEPT ![r] = IF @ > 0 THEN @ - 1 ELSE 0]
    /\ conn' = [conn EXCEPT ![c] = Nil]

\* Mutant: a destination that cannot be reached keeps its slot.
UpstreamKeepsSlot(c) ==
    /\ HandlerAt(c, "dial")
    /\ Step(c, "track") \/ conn' = [conn EXCEPT ![c] = Nil]
    /\ UNCHANGED <<reserved, ranger, tunnels, cutting>>

\* The destination is dialled and the connection is taken over, or one of them
\* fails.
Upstream(c) ==
    /\ HandlerAt(c, "dial")
    /\ (Step(c, "track") /\ UNCHANGED <<reserved, tunnels>>) \/ End(c)
    /\ UNCHANGED <<ranger, cutting>>

\* Mutant: the connection is registered without a look at the shutdown.
TrackAnyway(c) ==
    /\ HandlerAt(c, "track")
    /\ LET r == conn[c].relay IN tunnels' = [tunnels EXCEPT ![r] = @ \cup {c}]
    /\ Step(c, "reply")
    /\ UNCHANGED <<reserved, ranger, cutting>>

\* track: refused once the relay is stopping.
Track(c) ==
    /\ HandlerAt(c, "track")
    /\ LET r == conn[c].relay IN
        IF ranger[r] = "up"
        THEN /\ tunnels' = [tunnels EXCEPT ![r] = @ \cup {c}]
             /\ Step(c, "reply") /\ UNCHANGED reserved
        ELSE End(c)
    /\ UNCHANGED <<ranger, cutting>>

\* 200 is written, which fails when the client is gone, and the pump runs.
Reply(c) ==
    /\ HandlerAt(c, "reply")
    /\ \/ /\ conn[c].open /\ conn' = [conn EXCEPT ![c] = [@ EXCEPT !.step = "pump", !.ok = TRUE]]
          /\ UNCHANGED <<reserved, tunnels>>
       \/ End(c)
    /\ UNCHANGED <<ranger, cutting>>

\* Either side closes, or is silent for too long.
PumpEnds(c) ==
    /\ HandlerAt(c, "pump")
    /\ End(c)
    /\ UNCHANGED <<ranger, cutting>>

\* closeTunnels: the registered tunnels are taken under the lock ...
Stop(r) ==
    /\ ranger[r] = "up" /\ r \in Stoppable
    /\ ranger' = [ranger EXCEPT ![r] = "cutting"]
    /\ cutting' = [cutting EXCEPT ![r] = tunnels[r]]
    /\ tunnels' = [tunnels EXCEPT ![r] = {}]
    /\ UNCHANGED <<reserved, conn>>

\* ... and closed outside it, those already gone too.
Cut(r) ==
    /\ ranger[r] = "cutting"
    /\ IF cutting[r] = {}
       THEN ranger' = [ranger EXCEPT ![r] = "stopped"] /\ UNCHANGED <<cutting, conn>>
       ELSE \E c \in cutting[r] :
            /\ cutting' = [cutting EXCEPT ![r] = @ \ {c}]
            /\ conn' = [conn EXCEPT ![c] = IF Through(c, r) THEN [@ EXCEPT !.open = FALSE] ELSE @]
            /\ UNCHANGED ranger
    /\ UNCHANGED <<reserved, tunnels>>

RangerStep ==
    \/ \E c \in Conns :
        \/ Upstream(c) \/ Track(c) \/ Reply(c) \/ PumpEnds(c)
    \/ \E r \in Relays : Stop(r) \/ Cut(r)
--------------------------------------------------------------------------------
(* Properties *)

\* The slots in use are the handlers between reserveTunnel and its deferred
\* release, whichever of the six ways out they take, and the registered tunnels
\* are among them: no path keeps a slot or a tunnel, or gives one back twice.
SlotsExact ==
    \A r \in Relays :
        /\ reserved[r] = Cardinality({c \in Conns : Through(c, r)})
        /\ reserved[r] <= MaxTunnels
        /\ \A c \in tunnels[r] : Through(c, r) /\ conn[c].step \in {"reply", "pump"}

\* Once closeTunnels has returned no tunnel of the relay carries bytes, those
\* that passed every check while it ran included ("a relay being stopped").
StoppedIsQuiet ==
    \A c \in Conns :
        HandlerAt(c, "pump") \/ HandlerAt(c, "reply") =>
            (conn[c].open => ranger[conn[c].relay] # "stopped")
===============================================================================
