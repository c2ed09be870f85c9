-------------------------------- MODULE Signing --------------------------------
(***************************************************************************)
(* One council authority and every process that signs with its key         *)
(* (cmd/council/signing_state.go): one-shot commands, build and cosign, and*)
(* the rebuilds of the authority daemon.  They are serialised by a lock    *)
(* directory, and remember the last vote in a state file that is replaced  *)
(* by an atomic rename.                                                    *)
(*                                                                         *)
(* The body a process wants to sign depends on its descriptor directory and*)
(* its health probes, which change at any time: it is any body.  A process *)
(* may be killed between any two steps, which leaves the lock directory    *)
(* behind; an operator removes it after seeing that its maker is gone.     *)
(***************************************************************************)
EXTENDS Naturals, FiniteSets

CONSTANTS
    Commands,       \* one-shot signers
    Rebuilds,       \* goroutines of the daemon that rebuild: loop, submissions
    Epochs,         \* epochs of the clock, a finite interval of Nat
    Bodies,         \* bodies that can be built for an epoch
    None,           \* no vote, no process
    MaxFailures,    \* bound: kills, I/O errors and clocks set back
    MaxPowerLosses  \* bound: power losses

ASSUME EpochsAssumption == Epochs \subseteq Nat
ASSUME SignersAssumption == Commands \cap Rebuilds = {}
ASSUME NoneAssumption ==
    /\ None \notin [epoch : Epochs, body : Bodies]
    /\ {None, "stale"} \cap (Commands \cup Rebuilds) = {} /\ None # "stale"
ASSUME BoundsAssumption == MaxFailures \in Nat /\ MaxPowerLosses \in Nat

VARIABLES
    clock,     \* the current epoch
    state,     \* the state file: the last vote
    onDisk,    \* what of it survives a power loss
    lock,      \* the lock directory: who made it, "stale" if its maker is gone
    mutex,     \* the rebuild that holds publisher.mu
    memory,    \* the vote the daemon remembers and serves
    pc,        \* where each signer is
    want,      \* the vote each signer is about to cast
    released,  \* votes whose signature has left the process
    failures, losses

disk   == <<state, onDisk>>
daemon == <<mutex, memory>>
faults == <<failures, losses>>
vars   == <<clock, disk, lock, daemon, pc, want, released, faults>>

Signers == Commands \cup Rebuilds
Votes   == [epoch : Epochs, body : Bodies]

Promise == INSTANCE Vote

\* The steps taken with the lock directory held.
Locked == {"check", "commit", "renamed", "signed"}
Labels == {"idle", "enter", "lock", "release"} \cup Locked

Init ==
    /\ clock \in Epochs /\ \A e \in Epochs : clock <= e
    /\ state = None /\ onDisk = None
    /\ lock = None
    /\ mutex = None /\ memory = None
    /\ pc = [p \in Signers |-> "idle"]
    /\ want = [p \in Signers |-> None]
    /\ released = {}
    /\ failures = 0 /\ losses = 0

Goto(p, label) == pc' = [pc EXCEPT ![p] = label]

Failure == failures < MaxFailures /\ failures' = failures + 1 /\ UNCHANGED losses

\* What may follow vote v: v again, or a vote of a later epoch.
Follows(w, v) == v # None => w.epoch > v.epoch \/ w = v

-------------------------------------------------------------------------------
\* A proposal is built, or the partial of another authority turns out to be
\* what this one would build, for the epoch the clock showed.
Propose(p) ==
    /\ pc[p] = "idle"
    /\ \E b \in Bodies : want' = [want EXCEPT ![p] = [epoch |-> clock, body |-> b]]
    /\ Goto(p, IF p \in Rebuilds THEN "enter" ELSE "lock")
    /\ UNCHANGED <<clock, disk, lock, daemon, released, faults>>

\* The processes of S are done, or dead, with what they were about to sign.
Ends(S) ==
    /\ pc' = [p \in Signers |-> IF p \in S THEN "idle" ELSE pc[p]]
    /\ want' = [p \in Signers |-> IF p \in S THEN None ELSE want[p]]

\* Mutant: a return that leaves publisher.mu locked.
ReturnLocked(p) == UNCHANGED mutex /\ Ends({p})

\* The call returns: a rebuild unlocks publisher.mu.
Return(p) == mutex' = (IF mutex = p THEN None ELSE mutex) /\ Ends({p})

\* A rebuild takes publisher.mu, and compares with what the daemon serves.
Enter(p) ==
    /\ pc[p] = "enter" /\ mutex = None
    /\ \/ Follows(want[p], memory) /\ mutex' = p /\ Goto(p, "lock") /\ UNCHANGED want
       \/ ~Follows(want[p], memory) /\ Return(p)
    /\ UNCHANGED <<clock, disk, lock, memory, released, faults>>

\* mkdir: of two signers one succeeds.
MakeLock(p) == lock = None /\ lock' = p

Lock(p) ==
    /\ pc[p] = "lock"
    /\ \/ MakeLock(p) /\ Goto(p, "check") /\ UNCHANGED <<mutex, want>>
       \/ lock # None /\ UNCHANGED lock /\ Return(p)
    /\ UNCHANGED <<clock, disk, memory, released, faults>>

\* Mutant: an error path that returns without Close.
KeepLock == UNCHANGED lock

\* os.Remove of the lock directory.
Unlock == lock' = None

\* Mutant: only the epoch is compared.
LaterOrSame(w, v) == v # None => w.epoch >= v.epoch

\* The vote may be cast after the one on record.
Allowed(w, v) == Follows(w, v)

\* beginConsensusSigning: the state file is read with the lock held.
Check(p) ==
    /\ pc[p] = "check"
    /\ \/ Allowed(want[p], state) /\ Goto(p, "commit") /\ UNCHANGED <<lock, mutex, want>>
       \/ ~Allowed(want[p], state) /\ Unlock /\ Return(p)
    /\ UNCHANGED <<clock, disk, memory, released, faults>>

\* Mutant: the signed document is released without a record.
SkipCommit(p) ==
    /\ pc[p] = "commit"
    /\ Goto(p, "signed")
    /\ UNCHANGED <<clock, disk, lock, daemon, want, released, faults>>

\* Commit: the new state file, already synced, is renamed over the old one.  A
\* vote that is on record is not recorded again.
Commit(p) ==
    /\ pc[p] = "commit"
    /\ state' = want[p]
    /\ Goto(p, IF state = want[p] THEN "signed" ELSE "renamed")
    /\ UNCHANGED <<clock, onDisk, lock, daemon, want, released, faults>>

\* The directory is synced.
SyncDirectory(p) ==
    /\ pc[p] = "renamed"
    /\ onDisk' = state
    /\ Goto(p, "signed")
    /\ UNCHANGED <<clock, state, lock, daemon, want, released, faults>>

\* The deferred Close: the lock is free before the document is released.  A
\* lock directory that can not be removed is left, without an error.
Close(p) ==
    /\ pc[p] = "signed"
    /\ \/ Unlock /\ UNCHANGED faults
       \/ lock' = "stale" /\ Failure
    /\ Goto(p, "release")
    /\ UNCHANGED <<clock, disk, daemon, want, released>>

\* The document is written where others read it, or the daemon serves it.
Release(p) ==
    /\ pc[p] = "release"
    /\ released' = released \cup {want[p]}
    /\ memory' = IF p \in Rebuilds THEN want[p] ELSE memory
    /\ Return(p)
    /\ UNCHANGED <<clock, disk, lock, faults>>

\* The state file or a descriptor cannot be read, the document is too large,
\* or a write fails: Close runs, and nothing is released.
Fails(p) ==
    /\ Failure
    /\ \/ pc[p] \in {"check", "commit", "renamed"} /\ Unlock
       \/ pc[p] = "release" /\ p \in Commands /\ UNCHANGED lock
    /\ Return(p)
    /\ UNCHANGED <<clock, disk, memory, released>>

-------------------------------------------------------------------------------
\* The processes of S die, and the lock of one of them stays behind.
Die(S) == Ends(S) /\ lock' = IF lock \in S THEN "stale" ELSE lock

KillCommand(p) ==
    /\ Failure
    /\ p \in Commands /\ pc[p] # "idle"
    /\ Die({p})
    /\ UNCHANGED <<clock, disk, daemon, released>>

KillDaemon ==
    /\ Failure
    /\ Die(Rebuilds) /\ mutex' = None /\ memory' = None
    /\ UNCHANGED <<clock, disk, released>>

\* The machine loses power: a rename that was not synced may be undone, and
\* neither making nor removing the lock directory is synced by itself.
PowerLoss ==
    /\ losses < MaxPowerLosses /\ losses' = losses + 1
    /\ state' \in {state, onDisk} /\ onDisk' = state'
    /\ lock' \in {None, "stale"}
    /\ Ends(Signers) /\ mutex' = None /\ memory' = None
    /\ UNCHANGED <<clock, released, failures>>

\* The operator, having seen that no signer runs, removes the lock directory.
RemoveLock ==
    /\ lock = "stale"
    /\ lock' = None
    /\ UNCHANGED <<clock, disk, daemon, pc, want, released, faults>>

Tick ==
    /\ clock + 1 \in Epochs
    /\ clock' = clock + 1
    /\ UNCHANGED <<disk, lock, daemon, pc, want, released, faults>>

\* The wall clock is set back.
ClockBack ==
    /\ Failure
    /\ \E e \in Epochs : e < clock /\ clock' = e
    /\ UNCHANGED <<disk, lock, daemon, pc, want, released>>

Step(p) ==
    \/ Propose(p) \/ Enter(p) \/ Lock(p) \/ Check(p) \/ Commit(p)
    \/ SyncDirectory(p) \/ Close(p) \/ Release(p) \/ Fails(p) \/ KillCommand(p)

Next ==
    \/ \E p \in Signers : Step(p)
    \/ KillDaemon \/ PowerLoss \/ RemoveLock \/ Tick \/ ClockBack

Spec == Init /\ [][Next]_vars

-------------------------------------------------------------------------------
(* Properties.                                                             *)

\* Types, and what an idle signer leaves behind: no vote and no mutex.  Only
\* the daemon takes the mutex.
TypeOK ==
    /\ clock \in Epochs
    /\ state \in Votes \cup {None} /\ onDisk \in Votes \cup {None}
    /\ lock \in Signers \cup {None, "stale"}
    /\ mutex \in Rebuilds \cup {None} /\ memory \in Votes \cup {None}
    /\ pc \in [Signers -> Labels]
    /\ want \in [Signers -> Votes \cup {None}]
    /\ \A p \in Signers :
        /\ pc[p] = "idle" <=> want[p] = None
        /\ pc[p] = "idle" => mutex # p
        /\ pc[p] = "enter" => p \in Rebuilds
    /\ released \subseteq Votes
    /\ failures \in 0..MaxFailures /\ losses \in 0..MaxPowerLosses

\* A power loss after a failure can undo a record that was taken for durable
\* (NoEquivocation below), so the promises hold until both have happened.
OneKindOfFault == failures = 0 \/ losses = 0

\* "an honest authority" does not "sign two conflicting bodies for one epoch",
\* whichever commands and rebuilds run at once, fail, are killed or lose power:
\* every step of the signers is one the promise Vote allows, or releases
\* nothing.
OneVote == [][OneKindOfFault' => [Promise!Next]_released]_vars

\* "It records the latest epoch and body hash before releasing the signed
\* output": each released vote, and each one still on its way out after the
\* lock was freed, is the vote on record or of an earlier epoch.
RecordedFirst ==
    OneKindOfFault =>
        \A v \in released \cup {want[p] : p \in {q \in Signers : pc[q] = "release"}} :
            state # None /\ (state = v \/ state.epoch > v.epoch)

\* A lock directory whose maker runs belongs to a signer inside the critical
\* section, which no other shares; only a death leaves one behind.  Otherwise
\* the authority could not vote again before an operator came.
LockIsFreed ==
    /\ \A p \in Signers : lock = p <=> pc[p] \in Locked
    /\ failures = 0 /\ losses = 0 => lock # "stale"

\* "signing another body for that epoch ... is refused, including after a
\* restart", when a power loss may come after other failures.
NoEquivocation ==
    \A v, w \in released : v.epoch = w.epoch => v.body = w.body
===============================================================================
