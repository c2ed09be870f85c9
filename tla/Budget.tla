-------------------------------- MODULE Budget --------------------------------
(***************************************************************************)
(* The aggregate provider budget of the gateway                            *)
(* (internal/gateway/budget.go): a MultiBudget over several FileBudgets,   *)
(* each one fixed-window counter record in a bbolt database.               *)
(*                                                                         *)
(* A reservation reads the clock before it asks for the database's writer  *)
(* lock, so other transactions, and the end of the window, may come        *)
(* between.  Each transaction is one step.  Byte, output-token and cost    *)
(* counters are checked and kept alike: "units" stands for all three.      *)
(***************************************************************************)
EXTENDS Naturals, FiniteSets

CONSTANTS
    Requests,     \* HTTP requests that ask for capacity
    Weight,       \* Weight[r]: units request r asks for
    Ceilings,     \* number of FileBudgets of the MultiBudget
    Length,       \* Length[c]: length of the window of ceiling c, in ticks
    MaxRequests,  \* MaxRequests[c]: requests per window
    MaxUnits,     \* MaxUnits[c]: units per window
    MaxNow,       \* bound: last tick of the clock
    MaxFaults     \* bound: failures in a behaviour

ASSUME CeilingsAssumption == Ceilings \in Nat \ {0}
ASSUME LengthAssumption == Length \in [1..Ceilings -> Nat \ {0}]
ASSUME WeightAssumption == Weight \in [Requests -> Nat \ {0}]
ASSUME LimitsAssumption ==
    /\ MaxRequests \in [1..Ceilings -> Nat] /\ MaxUnits \in [1..Ceilings -> Nat]
    /\ MaxNow \in Nat /\ MaxFaults \in Nat

VARIABLES
    now,       \* the gateway's clock
    record,    \* record[c]: window start and counters of ceiling c
    pc,        \* where each request is
    at,        \* the ceiling it is reserving or releasing
    start,     \* the window it computed for that ceiling
    charge,    \* charge[r][c]: window in which r is charged, 0 for none
    late,      \* history: ceilings where an older window was written over a
               \* newer one
    stuck,     \* history: reservations that could not be released
    faults

vars == <<now, record, pc, at, start, charge, late, stuck, faults>>

Labels == {"new", "commit", "unwind", "held", "sent", "refused", "lost"}

\* bounds: the fixed window that contains the clock, 0 before the first one.
Window(c) == (now \div Length[c]) + 1

Init ==
    /\ now = 0
    /\ record = [c \in 1..Ceilings |-> [start |-> 0, requests |-> 0, units |-> 0]]
    /\ pc = [r \in Requests |-> "new"]
    /\ at = [r \in Requests |-> 0]
    /\ start = [r \in Requests |-> 0]
    /\ charge = [r \in Requests |-> [c \in 1..Ceilings |-> 0]]
    /\ late = {} /\ stuck = {}
    /\ faults = 0

Goto(r, label) == pc' = [pc EXCEPT ![r] = label]
Fault == faults < MaxFaults /\ faults' = faults + 1

\* Reserve on ceiling c reads the clock, before its transaction.
ReadClock(r, c) ==
    /\ Goto(r, "commit")
    /\ at' = [at EXCEPT ![r] = c]
    /\ start' = [start EXCEPT ![r] = Window(c)]

Reserve(r) ==
    /\ pc[r] = "new"
    /\ ReadClock(r, 1)
    /\ UNCHANGED <<now, record, charge, late, stuck, faults>>

\* The counters a transaction of window w starts from.
Counters(c, w) ==
    IF record[c].start = w THEN record[c]
                           ELSE [start |-> w, requests |-> 0, units |-> 0]

\* Mutant: the ceiling is compared with what is already reserved only.
FitsBefore(c, w, n) == Counters(c, w).requests < MaxRequests[c]

Fits(c, w, n) ==
    /\ Counters(c, w).requests < MaxRequests[c]
    /\ Counters(c, w).units + n <= MaxUnits[c]

\* The transaction of Reserve: capacity is taken, and the next ceiling is asked.
Admit(r) ==
    LET c == at[r]  w == start[r] IN
    /\ pc[r] = "commit" /\ Fits(c, w, Weight[r])
    /\ record' = [record EXCEPT ![c] =
                    [start |-> w,
                     requests |-> Counters(c, w).requests + 1,
                     units |-> Counters(c, w).units + Weight[r]]]
    /\ charge' = [charge EXCEPT ![r][c] = w]
    /\ late' = IF w < record[c].start THEN late \cup {c} ELSE late
    /\ \/ c < Ceilings /\ ReadClock(r, c + 1)
       \/ c = Ceilings /\ Goto(r, "held") /\ UNCHANGED <<at, start>>
    /\ UNCHANGED <<now, stuck, faults>>

\* The ceiling is reached: the earlier reservations are released in turn.
Refuse(r) ==
    /\ pc[r] = "commit" /\ ~Fits(at[r], start[r], Weight[r])
    /\ at' = [at EXCEPT ![r] = @ - 1]
    /\ Goto(r, IF at[r] = 1 THEN "refused" ELSE "unwind")
    /\ UNCHANGED <<now, record, start, charge, late, stuck, faults>>

\* The client is gone, or the database fails: refused the same way.
ReserveFails(r) ==
    /\ Fault
    /\ pc[r] = "commit"
    /\ at' = [at EXCEPT ![r] = @ - 1]
    /\ Goto(r, IF at[r] = 1 THEN "refused" ELSE "unwind")
    /\ UNCHANGED <<now, record, start, charge, late, stuck>>

\* The request may have reached the provider: it stays charged.
Send(r) ==
    /\ pc[r] = "held"
    /\ Goto(r, "sent")
    /\ UNCHANGED <<now, record, at, start, charge, late, stuck, faults>>

\* The token was refused, or the provider provably never reached.
Undo(r) ==
    /\ pc[r] = "held"
    /\ at' = [at EXCEPT ![r] = Ceilings]
    /\ Goto(r, "unwind")
    /\ UNCHANGED <<now, record, start, charge, late, stuck, faults>>

\* Mutant: the release is applied to whatever window is current.
AnyWindow(r, c) == TRUE

\* The reservation is of the window the record counts.
SameWindow(r, c) == record[c].start = charge[r][c]

\* Mutant: the counters are subtracted from without a check.
NeverShort(r, c) == FALSE

\* Fewer counters than the reservation: the release refuses to go below zero.
Short(r, c) == record[c].requests = 0 \/ record[c].units < Weight[r]

\* Mutant: only the last reservation is released.
LastOnly(r) == at' = [at EXCEPT ![r] = 0] /\ Goto(r, "refused")

NextRelease(r) ==
    /\ at' = [at EXCEPT ![r] = @ - 1]
    /\ Goto(r, IF at[r] = 1 THEN "refused" ELSE "unwind")

\* Release of one ceiling, the last reserved first; a reservation of another
\* window has nothing to give back.
Release(r) ==
    LET c == at[r] IN
    /\ pc[r] = "unwind"
    /\ SameWindow(r, c) => ~Short(r, c)
    /\ record' = IF SameWindow(r, c)
                 THEN [record EXCEPT ![c] = [start |-> @.start,
                                             requests |-> @.requests - 1,
                                             units |-> @.units - Weight[r]]]
                 ELSE record
    /\ charge' = [charge EXCEPT ![r][c] = 0]
    /\ NextRelease(r)
    /\ UNCHANGED <<now, start, late, stuck, faults>>

\* A release that errs is logged: the capacity stays charged, and the other
\* ceilings are released all the same.
ReleaseFails(r) ==
    /\ pc[r] = "unwind"
    /\ \/ SameWindow(r, at[r]) /\ Short(r, at[r]) /\ UNCHANGED faults
       \/ Fault
    /\ stuck' = stuck \cup {<<r, at[r]>>}
    /\ NextRelease(r)
    /\ UNCHANGED <<now, record, start, charge, late>>

\* The gateway process dies; the records are on disk.
Crash ==
    /\ Fault
    /\ pc' = [r \in Requests |->
                IF pc[r] \in {"commit", "unwind", "held"} THEN "lost" ELSE pc[r]]
    /\ UNCHANGED <<now, record, at, start, charge, late, stuck>>

Tick ==
    /\ now < MaxNow
    /\ now' = now + 1
    /\ UNCHANGED <<record, pc, at, start, charge, late, stuck, faults>>

\* The wall clock is set back.
ClockBack ==
    /\ Fault
    /\ now > 0
    /\ now' = now - 1
    /\ UNCHANGED <<record, pc, at, start, charge, late, stuck>>

Step(r) ==
    \/ Reserve(r) \/ Admit(r) \/ Refuse(r) \/ ReserveFails(r)
    \/ Send(r) \/ Undo(r) \/ Release(r) \/ ReleaseFails(r)

Next == (\E r \in Requests : Step(r)) \/ Crash \/ Tick \/ ClockBack

Spec == Init /\ [][Next]_vars

-------------------------------------------------------------------------------
(* Properties.                                                             *)

TypeOK ==
    /\ now \in 0..MaxNow
    /\ record \in [1..Ceilings -> [start : Nat, requests : Nat, units : Nat]]
    /\ pc \in [Requests -> Labels]
    /\ at \in [Requests -> 0..Ceilings]
    /\ start \in [Requests -> Nat]
    /\ charge \in [Requests -> [1..Ceilings -> Nat]]
    /\ late \subseteq 1..Ceilings
    /\ stuck \subseteq Requests \X (1..Ceilings)
    /\ faults \in 0..MaxFaults

\* The requests charged to window w of ceiling c, and their units.
Charged(c, w) == {r \in Requests : charge[r][c] = w /\ w # 0}

\* A unit is a pair of the request that asks for it and a number.
Units(S) == Cardinality(UNION {{r} \X (1..Weight[r]) : r \in S})

WithinLimits(c, w) ==
    /\ Cardinality(Charged(c, w)) <= MaxRequests[c]
    /\ Units(Charged(c, w)) <= MaxUnits[c]

Windows == 1..(MaxNow + 1)

\* "concurrent requests cannot collectively cross the hard ceiling", whatever
\* is refused, released, retried or lost in a crash.  The code keeps it as long
\* as no transaction commits for a window older than the recorded one.
CeilingHolds ==
    \A c \in (1..Ceilings) \ late : \A w \in Windows : WithinLimits(c, w)

\* The record of the current window counts exactly the requests charged to it:
\* no capacity leaks when one ceiling of several refuses, and none is given
\* back twice or to another window.
CountersAreExact ==
    \A c \in (1..Ceilings) \ late :
        LET charged == Charged(c, record[c].start) IN
        /\ record[c].requests = Cardinality(charged)
        /\ record[c].units = Units(charged)

\* A request that was refused, or undone, keeps no ceiling charged unless a
\* release failed; one that was sent is charged on every ceiling.
AllOrNothing ==
    \A r \in Requests, c \in 1..Ceilings :
        /\ pc[r] = "refused" /\ charge[r][c] # 0 => <<r, c>> \in stuck
        /\ pc[r] \in {"held", "sent"} => charge[r][c] # 0

\* The ceiling without the proviso: violated when a reservation waits for the
\* writer lock past the end of its window, and resets the next window's record.
CeilingAlwaysHolds ==
    \A c \in 1..Ceilings, w \in Windows : WithinLimits(c, w)
===============================================================================
