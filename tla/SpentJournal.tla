----------------------------- MODULE SpentJournal -----------------------------
(***************************************************************************)
(* FileSpentSet (internal/mint/spentfile.go): several processes that share *)
(* one append-only journal of redemptions, serialised by an flock on a     *)
(* companion file that also pins the journal's inode.                      *)
(*                                                                         *)
(* A process is one open store.  Its mutex is held for the whole of every  *)
(* call, so its goroutines are one caller here.  Between two steps of a    *)
(* call anything else may happen: another process runs, is killed, the     *)
(* machine loses power, a write or an fsync fails, somebody unlinks the    *)
(* lock file or renames another journal over this one.                     *)
(*                                                                         *)
(* The journal is the sequence of its complete records, the header being   *)
(* the first; "torn" says an incomplete record follows them.               *)
(***************************************************************************)
EXTENDS Naturals, Sequences, FiniteSets

CONSTANTS
    Procs,       \* processes that open the store
    Tokens,      \* token fingerprints
    Keys,        \* key epochs
    KeyOf,       \* KeyOf[t]: the key epoch of a token, kept in its record
    None,        \* no process
    Tamper,      \* "none", "lock" or "journal": the file somebody moves
    MaxRecords,  \* bound: records of the journal, header included
    MaxLocks,    \* bound: lock files created at the lock path
    MaxFaults    \* bound: faults of any kind in a behaviour

ASSUME NoneAssumption == None \notin Procs
ASSUME KeyOfAssumption == KeyOf \in [Tokens -> Keys]
ASSUME TamperAssumption == Tamper \in {"none", "lock", "journal"}
ASSUME BoundsAssumption ==
    MaxRecords \in Nat /\ MaxLocks \in Nat /\ MaxFaults \in Nat

VARIABLES
    at,         \* what the journal path names: "missing", "journal", "other"
    log,        \* complete records of the journal
    torn,       \* an incomplete record ends the journal
    synced,     \* records known to be on the medium
    published,  \* the directory entries are on the medium
    lockAt,     \* the lock file at the lock path, 0 for none
    lockMade,   \* lock files created so far
    pin,        \* pin[l]: the identity record of lock file l
    flock,      \* flock[l]: the process that holds the flock of l
    pc, op,     \* where each process is, and the record it wants to append
    myLock,     \* the lock file each process has open
    offset,     \* records each process has replayed or written
    seen,       \* redemptions each process knows of
    poison,     \* the sticky integrity failure
    holder,     \* history: whose Spend returned nil, until released
    mine,       \* tokens the running process spent and may refund
    acked,      \* history: tokens whose refund returned nil, until re-spent
    leaned,     \* history: those of acked that rest on an unsynced record
    forgot,     \* history: keys whose retirement returned nil, until re-used
    faults      \* faults so far

file    == <<at, log, torn, synced, published>>
locks   == <<lockAt, lockMade, pin, flock>>
procs   == <<pc, op, myLock, offset, seen, poison>>
history == <<holder, mine, acked, leaned, forgot>>
vars    == <<file, locks, procs, history, faults>>

-------------------------------------------------------------------------------
(* Records and their replay.                                               *)

Header == [kind |-> "H", arg |-> None]
Spends  == [kind : {"S"}, arg : Tokens]
Refunds == [kind : {"F"}, arg : Tokens]
Retires == [kind : {"K"}, arg : Keys]
Ops     == Spends \cup Refunds \cup Retires
Records == Ops \cup {Header}

Claims(r, t)   == r.kind = "S" /\ r.arg = t
Releases(r, t) == \/ r.kind = "F" /\ r.arg = t
                  \/ r.kind = "K" /\ r.arg = KeyOf[t]

\* The token is claimed by a record in lo..hi of s that no later one releases.
ClaimedIn(s, lo, hi, t) ==
    \E i \in lo..hi : /\ Claims(s[i], t)
                      /\ \A j \in (i + 1)..hi : ~Releases(s[j], t)

\* The redemptions in the first n records of s.
Redeemed(s, n) == {t \in Tokens : ClaimedIn(s, 1, n, t)}

\* Replays the records after "from" of s over what is already known.
Refresh(known, from, s) ==
    {t \in Tokens :
        \/ ClaimedIn(s, from + 1, Len(s), t)
        \/ t \in known /\ \A j \in (from + 1)..Len(s) : ~Releases(s[j], t)}

\* Mutant: a refund that is not taken out of the map.
KeepRefunded(known, r) == {t \in Tokens : Claims(r, t) \/ t \in known}

\* One record applied to what is known.
Apply(known, r) ==
    {t \in Tokens : Claims(r, t) \/ (t \in known /\ ~Releases(r, t))}

\* The operation has nothing to write: a claimed token is spent, an unclaimed
\* one is refunded, or a key with no redemption is retired.
Needless(r, known) ==
    \/ r.kind = "S" /\ r.arg \in known
    \/ r.kind = "F" /\ r.arg \notin known
    \/ r.kind = "K" /\ \A t \in known : KeyOf[t] # r.arg

-------------------------------------------------------------------------------
(* Control of a process.                                                   *)

Opening == {"openwait", "opening", "header", "hsync", "pinning", "verifying"}
InCall  == {"wait", "decide", "append", "sync", "confirm"}
Wrote   == {"sync", "confirm"}
Live    == {"idle"} \cup InCall

Init ==
    /\ at = "missing" /\ log = <<>> /\ torn = FALSE
    /\ synced = 0 /\ published = FALSE
    /\ lockAt = 0 /\ lockMade = 0
    /\ pin = [l \in 1..MaxLocks |-> "empty"]
    /\ flock = [l \in 1..MaxLocks |-> None]
    /\ pc = [p \in Procs |-> "down"]
    /\ op = [p \in Procs |-> Header]
    /\ myLock = [p \in Procs |-> 0]
    /\ offset = [p \in Procs |-> 0]
    /\ seen = [p \in Procs |-> {}]
    /\ poison = [p \in Procs |-> FALSE]
    /\ holder = [t \in Tokens |-> None]
    /\ mine = [p \in Procs |-> {}]
    /\ acked = {} /\ leaned = {} /\ forgot = {}
    /\ faults = 0

Goto(p, label) == pc' = [pc EXCEPT ![p] = label]

\* Mutant: the lock file is opened and never locked.
Unlocked(p) == TRUE

\* Nobody holds the flock of the lock file p has open.
FlockFree(p) == flock[myLock[p]] = None

\* The flock goes with the descriptor: unlocking, closing and dying free it.
Unlock(p) ==
    flock' = [l \in 1..MaxLocks |-> IF flock[l] = p THEN None ELSE flock[l]]

Fault == faults < MaxFaults /\ faults' = faults + 1

\* Both pathnames still name the open files and the lock pins the journal.
PathsOK(p) ==
    /\ lockAt = myLock[p]
    /\ at = "journal"
    /\ pin[myLock[p]] = "pinned"

\* Mutant: what the append left is taken on trust.
Trusted(p) == TRUE

\* The journal has exactly the length this process has accounted for.
CurrentState(p) == PathsOK(p) /\ ~torn /\ Len(log) = offset[p]

-------------------------------------------------------------------------------
(* OpenFileSpentSet.                                                       *)

\* The store is not opened: every descriptor is closed.
Refuse(p) == Goto(p, "down") /\ Unlock(p)

\* Create the lock file, or open the one that is there.
OpenLock(p) ==
    /\ pc[p] = "down"
    /\ \/ /\ lockAt = 0 /\ lockMade < MaxLocks
          /\ lockMade' = lockMade + 1
          /\ lockAt' = lockMade + 1
       \/ lockAt # 0 /\ UNCHANGED <<lockMade, lockAt>>
    /\ myLock' = [myLock EXCEPT ![p] = lockAt']
    /\ seen' = [seen EXCEPT ![p] = {}]
    /\ offset' = [offset EXCEPT ![p] = 0]
    /\ poison' = [poison EXCEPT ![p] = FALSE]
    /\ Goto(p, "openwait")
    /\ UNCHANGED <<file, pin, flock, op, history, faults>>

\* The lock file is validated again once its flock is held.
OpenAcquire(p) ==
    /\ pc[p] = "openwait"
    /\ \/ /\ lockAt = myLock[p] /\ FlockFree(p)
          /\ flock' = [flock EXCEPT ![myLock[p]] = p]
          /\ Goto(p, "opening")
       \/ lockAt # myLock[p] /\ Refuse(p)
    /\ UNCHANGED <<file, lockAt, lockMade, pin, op, myLock, offset, seen,
                   poison, history, faults>>

\* Mutant: a journal that is missing is created, whatever the lock pins.
CreateReplacement(p) ==
    /\ pc[p] = "opening"
    /\ at = "missing"
    /\ at' = "journal" /\ log' = <<>> /\ torn' = FALSE /\ synced' = 0
    /\ pin' = [pin EXCEPT ![myLock[p]] = "empty"]
    /\ Goto(p, "header")
    /\ UNCHANGED <<published, lockAt, lockMade, flock, op, myLock, offset,
                   seen, poison, history, faults>>

\* Nothing is at the journal path and the lock never pinned one: create it.
OpenCreate(p) ==
    /\ pc[p] = "opening"
    /\ at = "missing" /\ pin[myLock[p]] = "empty"
    /\ at' = "journal" /\ log' = <<>> /\ torn' = FALSE /\ synced' = 0
    /\ Goto(p, "header")
    /\ UNCHANGED <<published, locks, op, myLock, offset, seen, poison,
                   history, faults>>

\* Mutant: a fresh journal is left empty.
NoHeader(p) ==
    /\ pc[p] = "header"
    /\ Goto(p, "hsync")
    /\ UNCHANGED <<file, locks, op, myLock, offset, seen, poison, history,
                   faults>>

\* A fresh journal gets its header, which is then synced and read back.
OpenHeader(p) ==
    /\ pc[p] = "header"
    /\ log' = Append(log, Header)
    /\ Goto(p, "hsync")
    /\ UNCHANGED <<at, torn, synced, published, locks, op, myLock, offset, seen,
                   poison, history, faults>>

OpenHeaderSync(p) ==
    /\ pc[p] = "hsync"
    /\ synced' = Len(log)
    /\ seen' = [seen EXCEPT ![p] = Refresh({}, 0, log)]
    /\ offset' = [offset EXCEPT ![p] = Len(log)]
    /\ Goto(p, "pinning")
    /\ UNCHANGED <<at, log, torn, published, locks, op, myLock, poison,
                   history, faults>>

\* An existing journal is replayed from its header on.
OpenReplay(p) ==
    /\ pc[p] = "opening"
    /\ at = "journal" /\ log # <<>> /\ ~torn
    /\ seen' = [seen EXCEPT ![p] = Refresh({}, 0, log)]
    /\ offset' = [offset EXCEPT ![p] = Len(log)]
    /\ Goto(p, "pinning")
    /\ UNCHANGED <<file, locks, op, myLock, poison, history, faults>>

\* A journal that went missing after it was pinned, one that is empty or
\* torn, and one that is not the pinned one are all refused.
OpenRefused(p) ==
    /\ pc[p] = "opening"
    /\ \/ at = "missing" /\ pin[myLock[p]] # "empty"
       \/ at = "journal" /\ (log = <<>> \/ torn)
       \/ at = "other"
    /\ Refuse(p)
    /\ UNCHANGED <<file, lockAt, lockMade, pin, op, myLock, offset, seen,
                   poison, history, faults>>

\* The lock pins the journal, or must already pin this one.
OpenPin(p) ==
    /\ pc[p] = "pinning"
    /\ \/ /\ pin[myLock[p]] \in {"empty", "pinned"}
          /\ pin' = [pin EXCEPT ![myLock[p]] = "pinned"]
          /\ Goto(p, "verifying")
          /\ UNCHANGED flock
       \/ pin[myLock[p]] = "damaged" /\ Refuse(p) /\ UNCHANGED pin
    /\ UNCHANGED <<file, lockAt, lockMade, op, myLock, offset, seen, poison,
                   history, faults>>

\* The last checks, the fsync of the directory, and the store is open.
OpenDone(p) ==
    /\ pc[p] = "verifying"
    /\ \/ CurrentState(p) /\ published' = TRUE /\ Goto(p, "idle") /\ Unlock(p)
       \/ ~CurrentState(p) /\ UNCHANGED published /\ Refuse(p)
    /\ UNCHANGED <<at, log, torn, synced, lockAt, lockMade, pin, op, myLock,
                   offset, seen, poison, history, faults>>

-------------------------------------------------------------------------------
(* Spend, Refund and Retire.                                               *)

\* Mutant: the error path forgets the flock.
PoisonedLocked(p) ==
    /\ poison' = [poison EXCEPT ![p] = TRUE]
    /\ Goto(p, "idle")
    /\ UNCHANGED flock

\* poisonLocked, then the deferred unlock: the call returns an error and
\* every later call on this store does.
Poisoned(p) ==
    /\ poison' = [poison EXCEPT ![p] = TRUE]
    /\ Goto(p, "idle")
    /\ Unlock(p)

\* Bound: every call in progress still fits in the journal.
Room == Len(log) + Cardinality({q \in Procs : pc[q] \in InCall}) < MaxRecords

\* A call on a store that is ready.  A refund is of a token this process
\* spent, and happens at most once per redemption.
Call(p, o) ==
    /\ pc[p] = "idle" /\ ~poison[p] /\ Room
    /\ o.kind = "F" => o.arg \in mine[p]
    /\ op' = [op EXCEPT ![p] = o]
    /\ mine' = [mine EXCEPT ![p] = IF o.kind = "F" THEN @ \ {o.arg} ELSE @]
    /\ Goto(p, "wait")
    /\ UNCHANGED <<file, locks, myLock, offset, seen, poison, holder, acked,
                   leaned, forgot, faults>>

\* lockFile: the lock file is validated before waiting and after the wait.
Acquire(p) ==
    /\ pc[p] = "wait"
    /\ \/ /\ lockAt = myLock[p] /\ FlockFree(p)
          /\ flock' = [flock EXCEPT ![myLock[p]] = p]
          /\ Goto(p, "decide")
          /\ UNCHANGED poison
       \/ lockAt # myLock[p] /\ Poisoned(p)
    /\ UNCHANGED <<file, lockAt, lockMade, pin, op, myLock, offset, seen,
                   history, faults>>

\* A refund or a retirement returns nil.
Acknowledge(o) ==
    /\ acked' = IF o.kind = "F" THEN acked \cup {o.arg} ELSE acked
    /\ forgot' = IF o.kind = "K" THEN forgot \cup {o.arg} ELSE forgot

\* Verify the paths, replay what others appended, and decide on the result.  A
\* needless refund or retirement returns nil and writes and syncs nothing, also
\* when the journal ends in records of others that nobody has synced.
Decide(p) ==
    LET known == Refresh(seen[p], offset[p], log) IN
    /\ pc[p] = "decide"
    /\ PathsOK(p) /\ ~torn
    /\ seen' = [seen EXCEPT ![p] = known]
    /\ offset' = [offset EXCEPT ![p] = Len(log)]
    /\ \/ /\ Needless(op[p], known)
          /\ Goto(p, "idle") /\ Unlock(p)
          /\ Acknowledge(op[p])
          /\ leaned' = IF op[p].kind = "F" /\ synced < Len(log)
                       THEN leaned \cup {op[p].arg} ELSE leaned
       \/ ~Needless(op[p], known) /\ Goto(p, "append")
          /\ UNCHANGED <<flock, acked, leaned, forgot>>
    /\ UNCHANGED <<file, lockAt, lockMade, pin, op, myLock, poison, holder,
                   mine, faults>>

\* A path moved, or the refresh met an incomplete record.
DecideFails(p) ==
    /\ pc[p] = "decide"
    /\ ~PathsOK(p) \/ torn
    /\ Poisoned(p)
    /\ UNCHANGED <<file, lockAt, lockMade, pin, op, myLock, offset, seen,
                   history, faults>>

\* The record is written at the end of the file.  From here on every process
\* that replays the journal sees it.
AppendRecord(p) ==
    /\ pc[p] = "append"
    /\ log' = IF torn THEN log ELSE Append(log, op[p])
    /\ holder' = [t \in Tokens |->
                    IF Releases(op[p], t) /\ ~torn THEN None ELSE holder[t]]
    /\ acked' = {t \in acked : ~Claims(op[p], t)}
    /\ leaned' = {t \in leaned : ~Claims(op[p], t)}
    /\ forgot' = {k \in forgot : ~\E t \in Tokens :
                                     Claims(op[p], t) /\ KeyOf[t] = k}
    /\ Goto(p, "sync")
    /\ UNCHANGED <<at, torn, synced, published, locks, op, myLock, offset,
                   seen, poison, mine, faults>>

\* Mutant: the record is left in the page cache.
SkipSync(p) ==
    /\ pc[p] = "sync"
    /\ offset' = [offset EXCEPT ![p] = @ + 1]
    /\ Goto(p, "confirm")
    /\ UNCHANGED <<file, locks, op, myLock, seen, poison, history, faults>>

\* The fsync succeeds, and only then does the process account for its record.
SyncRecord(p) ==
    /\ pc[p] = "sync"
    /\ synced' = Len(log)
    /\ offset' = [offset EXCEPT ![p] = @ + 1]
    /\ Goto(p, "confirm")
    /\ UNCHANGED <<at, log, torn, published, locks, op, myLock, seen, poison,
                   history, faults>>

\* The paths and the length are verified once more before the call returns.
Confirm(p) ==
    LET o == op[p] IN
    /\ pc[p] = "confirm"
    /\ CurrentState(p)
    /\ seen' = [seen EXCEPT ![p] = Apply(@, o)]
    /\ holder' = [t \in Tokens |-> IF Claims(o, t) THEN p ELSE holder[t]]
    /\ mine' = [mine EXCEPT ![p] = IF o.kind = "S" THEN @ \cup {o.arg} ELSE @]
    /\ Acknowledge(o)
    /\ leaned' = IF o.kind = "F" THEN leaned \ {o.arg} ELSE leaned
    /\ Goto(p, "idle") /\ Unlock(p)
    /\ UNCHANGED <<file, lockAt, lockMade, pin, op, myLock, offset, poison,
                   faults>>

ConfirmFails(p) ==
    /\ pc[p] = "confirm"
    /\ ~CurrentState(p)
    /\ Poisoned(p)
    /\ UNCHANGED <<file, lockAt, lockMade, pin, op, myLock, offset, seen,
                   history, faults>>

\* Close of an open store, poisoned or not.
Close(p) ==
    /\ pc[p] = "idle"
    /\ Goto(p, "down") /\ Unlock(p)
    /\ mine' = [mine EXCEPT ![p] = {}]
    /\ UNCHANGED <<file, lockAt, lockMade, pin, op, myLock, offset, seen,
                   poison, holder, acked, leaned, forgot, faults>>

-------------------------------------------------------------------------------
(* Faults.                                                                 *)

\* What a write cut short leaves in the journal and in the lock file.
CutShort(p) ==
    /\ torn' \in (IF pc[p] \in {"header", "append"} THEN {torn, TRUE}
                                                   ELSE {torn})
    /\ pin' \in (IF pc[p] = "pinning" /\ pin[myLock[p]] = "empty"
                 THEN {pin, [pin EXCEPT ![myLock[p]] = "damaged"]}
                 ELSE {pin})

\* An open, a stat, a read, a write or an fsync returns an error.
IOError(p) ==
    /\ Fault
    /\ CutShort(p)
    /\ \/ pc[p] \in Opening /\ Refuse(p) /\ UNCHANGED poison
       \/ pc[p] \in InCall /\ Poisoned(p)
    /\ UNCHANGED <<at, log, synced, published, lockAt, lockMade, op, myLock,
                   offset, seen, history>>

\* The process is killed; what it had spent is not refunded any more.
Kill(p) ==
    /\ Fault
    /\ pc[p] # "down"
    /\ CutShort(p)
    /\ Refuse(p)
    /\ mine' = [mine EXCEPT ![p] = {}]
    /\ UNCHANGED <<at, log, synced, published, lockAt, lockMade, op, myLock,
                   offset, seen, poison, holder, acked, leaned, forgot>>

\* The machine loses power: every process dies, records that were not synced
\* may be lost or torn, and so may directory entries that were not.
PowerLoss ==
    /\ Fault
    /\ \E n \in synced..Len(log) :
          /\ log' = SubSeq(log, 1, n) /\ synced' = n
          /\ torn' \in {torn, torn \/ n < Len(log)}
    /\ at' \in (IF published THEN {at} ELSE {at, "missing"})
    /\ lockAt' \in (IF published \/ lockMade = MaxLocks THEN {lockAt}
                                                        ELSE {lockAt, 0})
    /\ pin' \in {pin} \cup (IF published THEN {}
                            ELSE {[l \in 1..MaxLocks |-> "empty"]})
    /\ pc' = [p \in Procs |-> "down"]
    /\ flock' = [l \in 1..MaxLocks |-> None]
    /\ mine' = [p \in Procs |-> {}]
    /\ UNCHANGED <<published, lockMade, op, myLock, offset, seen, poison,
                   holder, acked, leaned, forgot>>

\* Somebody removes the lock file under the running stores.
UnlinkLock ==
    /\ Fault /\ Tamper = "lock"
    /\ lockAt # 0 /\ lockMade < MaxLocks
    /\ lockAt' = 0
    /\ UNCHANGED <<file, lockMade, pin, flock, procs, history>>

\* Somebody removes a journal in use, or renames another one over it.
ReplaceJournal ==
    /\ Fault /\ Tamper = "journal"
    /\ at = "journal" /\ published /\ lockAt # 0 /\ pin[lockAt] = "pinned"
    /\ at' \in {"other", "missing"}
    /\ UNCHANGED <<log, torn, synced, published, locks, procs, history>>

-------------------------------------------------------------------------------
Step(p) ==
    \/ OpenLock(p) \/ OpenAcquire(p) \/ OpenCreate(p) \/ OpenHeader(p)
    \/ OpenHeaderSync(p) \/ OpenReplay(p) \/ OpenRefused(p) \/ OpenPin(p) \/ OpenDone(p)
    \/ (\E o \in Ops : Call(p, o))
    \/ Acquire(p) \/ Decide(p) \/ DecideFails(p)
    \/ AppendRecord(p) \/ SyncRecord(p) \/ Confirm(p) \/ ConfirmFails(p)
    \/ Close(p) \/ IOError(p) \/ Kill(p)

Next == (\E p \in Procs : Step(p)) \/ PowerLoss \/ UnlinkLock \/ ReplaceJournal

Spec == Init /\ [][Next]_vars

\* The steps a running process keeps taking.  Linux queues flock waiters in
\* order, so a process that waits is not overtaken forever.
Progress(p) ==
    \/ OpenCreate(p) \/ OpenHeader(p) \/ OpenHeaderSync(p) \/ OpenReplay(p)
    \/ OpenRefused(p) \/ OpenPin(p) \/ OpenDone(p)
    \/ Decide(p) \/ DecideFails(p) \/ AppendRecord(p) \/ SyncRecord(p)
    \/ Confirm(p) \/ ConfirmFails(p)

FairSpec ==
    /\ Spec
    /\ \A p \in Procs : /\ WF_vars(Progress(p))
                        /\ SF_vars(OpenAcquire(p))
                        /\ SF_vars(Acquire(p))

-------------------------------------------------------------------------------
(* Properties.                                                             *)

Abstract == INSTANCE Redemption

\* A journal starts with its header.
Headed == log # <<>> => log[1] = Header

\* The states each variable ranges over.
TypeOK ==
    /\ at \in {"missing", "journal", "other"}
    /\ log \in Seq(Records) /\ torn \in BOOLEAN /\ Headed
    /\ synced \in 0..Len(log) /\ published \in BOOLEAN
    /\ lockAt \in 0..MaxLocks /\ lockMade \in 0..MaxLocks
    /\ pin \in [1..MaxLocks -> {"empty", "pinned", "damaged"}]
    /\ flock \in [1..MaxLocks -> Procs \cup {None}]
    /\ pc \in [Procs -> {"down"} \cup Opening \cup Live]
    /\ op \in [Procs -> Records]
    /\ myLock \in [Procs -> 0..MaxLocks]
    /\ offset \in [Procs -> Nat]
    /\ seen \in [Procs -> SUBSET Tokens]
    /\ poison \in [Procs -> BOOLEAN]
    /\ holder \in [Tokens -> Procs \cup {None}]
    /\ mine \in [Procs -> SUBSET Tokens]
    /\ acked \subseteq Tokens /\ leaned \subseteq acked /\ forgot \subseteq Keys
    /\ faults \in Nat

\* No two Spends of a token return nil unless a release of it was recorded in
\* between, whichever processes called, whatever failed, and with the lock
\* file or the journal moved under them: spentfile.go implements the promise
\* of the RedemptionStore interface.
OneRedemption == Abstract!Spec

\* "Spend must not return nil until the redemption is durable": whatever the
\* next power loss leaves of the journal, a token that was accepted and not
\* released since replays as redeemed.
RedemptionIsDurable ==
    \A t \in Tokens : holder[t] # None =>
        \A n \in synced..Len(log) : t \in Redeemed(log, n)

\* No power loss brings the redemption of t back.
FreedForGood(t) == \A n \in synced..Len(log) : t \notin Redeemed(log, n)

\* "Refund must not make a token spendable until that change is durable": a
\* refund that was acknowledged survives every power loss.  The exception is one
\* that found its token free already, by records of another process that nobody
\* had synced, and unless something failed there is none.
RefundIsDurable ==
    /\ \A t \in acked \ leaned : FreedForGood(t)
    /\ leaned # {} => faults > 0

\* "Refund durably releases tok": the same of every acknowledged refund.  Refuted:
\* Refund syncs nothing when the map it replayed no longer has the token.
RefundAlwaysDurable == \A t \in acked : FreedForGood(t)

\* The records a running process accounts for in its map.
Accounted(p) == IF pc[p] = "confirm" THEN offset[p] - 1 ELSE offset[p]

\* The map of a store that is not poisoned is the replay of the records it has
\* accounted for, after any sequence of calls of its own and of others.
ViewIsReplay ==
    \A p \in Procs : pc[p] \in Live /\ ~poison[p] =>
        /\ Accounted(p) <= Len(log)
        /\ seen[p] = Redeemed(log, Accounted(p))

\* "the ordering that makes simultaneous first startup deterministic": opens
\* that race for a first startup, or for a restart, all succeed.
CleanStartup ==
    [][faults' = 0 => \A p \in Procs : pc[p] \in Opening => pc'[p] # "down"]_vars

\* A call comes back, with an error if need be, and the flock with it: no
\* failure leaves the other processes waiting.
CallsReturn ==
    \A p \in Procs : pc[p] \in InCall ~> pc[p] \notin InCall

\* "Retire durably forgets redemptions made under keyID": once a retirement
\* has been acknowledged no power loss brings a redemption of that key back.
RetireIsDurable ==
    \A k \in forgot : \A n \in synced..Len(log) :
        \A t \in Redeemed(log, n) : KeyOf[t] # k
===============================================================================
