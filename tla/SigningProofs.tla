---------------------------- MODULE SigningProofs ----------------------------
(***************************************************************************)
(* Proofs about Signing, for any number of commands and rebuilds, epochs   *)
(* and bodies.  The theorems about what is signed hold as long as the      *)
(* machine has lost power or processes have failed, not both:              *)
(* Signing_unsynced.cfg shows what happens with one of each.               *)
(***************************************************************************)
EXTENDS Signing, TLAPS

\* The lock directory is a lock.
Exclusive == \A p \in Signers : lock = p <=> pc[p] \in Locked

\* What the holder of the lock read of the state file is still so.
Ready == \A p \in Signers : pc[p] = "commit" => Follows(want[p], state)

\* The votes that are recorded, if not yet released.
Cast == released \cup {want[p] : p \in {q \in Signers : pc[q] \in {"renamed", "signed", "release"}}}

\* The votes whose record was synced.
Settled == released \cup {want[p] : p \in {q \in Signers : pc[q] \in {"signed", "release"}}}

\* The record d stands for every vote of S.
Covers(d, S) == \A v \in S : d # None /\ Follows(d, v)

Consistent == \A v, w \in Cast : v.epoch = w.epoch => v.body = w.body

\* Before the first other failure only a rename in progress is not on disk.
Synced ==
    failures = 0 =>
        /\ Covers(onDisk, Settled)
        /\ state # onDisk => \E p \in Signers : pc[p] = "renamed"

\* What is known of the votes and their record.
VotesOK == Ready /\ Covers(state, Cast) /\ Consistent /\ Synced

IInv == TypeOK /\ Exclusive /\ (OneKindOfFault => VotesOK)

-------------------------------------------------------------------------------
\* The names that are not processes or votes are neither.
LEMMA Names ==
    /\ \A p \in Signers : p # None /\ p # "stale"
    /\ \A v \in Votes : v # None /\ v.epoch \in Nat
    /\ None # "stale"
BY NoneAssumption, EpochsAssumption DEF Signers, Votes

\* The steps of a signer keep the types.
LEMMA TypedStep == ASSUME TypeOK, NEW p \in Signers, Step(p) PROVE TypeOK'
<1> USE Names, BoundsAssumption DEF TypeOK, Labels, Locked, Goto, Ends, Return, disk, daemon, faults
<1>1. CASE Propose(p)
  <2>1. PICK b \in Bodies : want' = [want EXCEPT ![p] = [epoch |-> clock, body |-> b]]
    BY <1>1 DEF Propose
  <2>2. [epoch |-> clock, body |-> b] \in Votes
    BY DEF Votes
  <2> QED BY <1>1, <2>1, <2>2 DEF Propose
<1>2. CASE Enter(p)
  BY <1>2, SignersAssumption DEF Enter, Signers
<1>3. CASE Lock(p)
  BY <1>3 DEF Lock, MakeLock
<1>4. CASE Check(p)
  BY <1>4 DEF Check, Unlock
<1>5. CASE Commit(p)
  BY <1>5 DEF Commit
<1>6. CASE SyncDirectory(p)
  BY <1>6 DEF SyncDirectory
<1>7. CASE Close(p)
  BY <1>7 DEF Close, Unlock, Failure
<1>8. CASE Release(p)
  BY <1>8 DEF Release
<1>9. CASE Fails(p)
  BY <1>9 DEF Fails, Unlock, Failure
<1>10. CASE KillCommand(p)
  BY <1>10, SignersAssumption DEF KillCommand, Failure, Die
<1> QED BY <1>1, <1>2, <1>3, <1>4, <1>5, <1>6, <1>7, <1>8, <1>9, <1>10 DEF Step

\* So do the steps of the daemon, the machine, the operator and the clock.
LEMMA TypedOther ==
    ASSUME TypeOK, KillDaemon \/ PowerLoss \/ RemoveLock \/ Tick \/ ClockBack
    PROVE  TypeOK'
<1> USE Names, BoundsAssumption DEF TypeOK, Labels, Ends, disk, daemon, faults
<1>1. CASE KillDaemon
  BY <1>1 DEF KillDaemon, Failure, Die
<1>2. CASE PowerLoss
  BY <1>2 DEF PowerLoss
<1>3. CASE RemoveLock
  BY <1>3 DEF RemoveLock
<1>4. CASE Tick
  BY <1>4 DEF Tick
<1>5. CASE ClockBack
  BY <1>5 DEF ClockBack, Failure
<1> QED BY <1>1, <1>2, <1>3, <1>4, <1>5

\* Type correctness.
THEOREM Typed == Spec => []TypeOK
<1>1. Init => TypeOK
  BY Names, BoundsAssumption DEF Init, TypeOK, Labels
<1>2. TypeOK /\ [Next]_vars => TypeOK'
  BY TypedStep, TypedOther DEF Next, TypeOK, vars, disk, daemon, faults
<1> QED BY <1>1, <1>2, PTL DEF Spec

-------------------------------------------------------------------------------
\* mkdir lets one signer in, and every way out removes the directory or leaves
\* it with no maker.
LEMMA ExclusiveStep == ASSUME TypeOK, Exclusive, NEW p \in Signers, Step(p) PROVE Exclusive'
<1> USE Names DEF TypeOK, Exclusive, Locked, Goto, Ends, Return
<1>1. CASE Propose(p)
  BY <1>1 DEF Propose
<1>2. CASE Enter(p)
  BY <1>2 DEF Enter
<1>3. CASE Lock(p)
  BY <1>3 DEF Lock, MakeLock
<1>4. CASE Check(p)
  BY <1>4 DEF Check, Unlock
<1>5. CASE Commit(p) \/ SyncDirectory(p)
  BY <1>5 DEF Commit, SyncDirectory
<1>6. CASE Close(p)
  BY <1>6 DEF Close, Unlock
<1>7. CASE Release(p)
  BY <1>7 DEF Release
<1>8. CASE Fails(p)
  BY <1>8 DEF Fails, Unlock
<1>9. CASE KillCommand(p)
  BY <1>9 DEF KillCommand, Die
<1> QED BY <1>1, <1>2, <1>3, <1>4, <1>5, <1>6, <1>7, <1>8, <1>9 DEF Step

\* The same for the steps that are not a signer's.
LEMMA ExclusiveOther ==
    ASSUME TypeOK, Exclusive, KillDaemon \/ PowerLoss \/ RemoveLock \/ Tick \/ ClockBack
    PROVE  Exclusive'
<1> USE Names DEF TypeOK, Exclusive, Locked, Ends
<1>1. CASE KillDaemon
  BY <1>1 DEF KillDaemon, Die, Signers
<1>2. CASE PowerLoss
  BY <1>2 DEF PowerLoss
<1>3. CASE RemoveLock
  BY <1>3 DEF RemoveLock
<1>4. CASE Tick \/ ClockBack
  BY <1>4 DEF Tick, ClockBack
<1> QED BY <1>1, <1>2, <1>3, <1>4

\* The lock directory belongs to the signer in the critical section; without a
\* failure none is left behind.
THEOREM LockFreed == Spec => []LockIsFreed
<1> DEFINE NotStale == failures = 0 /\ losses = 0 => lock # "stale"
<1>1. Init => Exclusive /\ NotStale
  BY Names DEF Init, Exclusive, Locked
<1>2. TypeOK /\ Exclusive /\ [Next]_vars => Exclusive'
  <2>1. ASSUME Exclusive, UNCHANGED vars PROVE Exclusive'
    BY <2>1 DEF Exclusive, vars
  <2> QED BY <2>1, ExclusiveStep, ExclusiveOther DEF Next
<1>3. TypeOK /\ NotStale /\ [Next]_vars => NotStale'
  <2> SUFFICES ASSUME TypeOK, NotStale, [Next]_vars PROVE NotStale'
    OBVIOUS
  <2> USE Names, BoundsAssumption DEF TypeOK
  <2>1. ASSUME NEW p \in Signers, Step(p) PROVE NotStale'
    <3>1. CASE Propose(p) \/ Enter(p) \/ Commit(p) \/ SyncDirectory(p) \/ Release(p)
      BY <3>1 DEF Propose, Enter, Commit, SyncDirectory, Release, faults
    <3>2. CASE Lock(p) \/ Check(p)
      BY <3>2 DEF Lock, MakeLock, Check, Unlock, faults
    <3>3. CASE Close(p) \/ Fails(p) \/ KillCommand(p)
      BY <3>3 DEF Close, Unlock, Fails, KillCommand, Failure, faults
    <3> QED BY <2>1, <3>1, <3>2, <3>3 DEF Step
  <2>2. CASE KillDaemon \/ ClockBack
    BY <2>2 DEF KillDaemon, ClockBack, Failure
  <2>3. CASE PowerLoss
    BY <2>3 DEF PowerLoss
  <2>4. CASE RemoveLock \/ Tick \/ UNCHANGED vars
    BY <2>4 DEF RemoveLock, Tick, vars, faults
  <2> QED BY <2>1, <2>2, <2>3, <2>4 DEF Next
<1>4. Exclusive /\ NotStale => LockIsFreed
  BY DEF Exclusive, LockIsFreed
<1> QED BY <1>1, <1>2, <1>3, <1>4, Typed, PTL DEF Spec

-------------------------------------------------------------------------------
\* Follows is transitive, and what follows is no conflict.
LEMMA FollowsTransitive ==
    ASSUME NEW u \in Votes, NEW v \in Votes, NEW w \in Votes, Follows(w, v), Follows(v, u)
    PROVE  Follows(w, u)
<1>1. u.epoch \in Nat /\ v.epoch \in Nat /\ w.epoch \in Nat
  BY Names
<1> QED BY <1>1, Names DEF Follows

\* A vote that follows the record conflicts with nothing the record covers, and
\* covers it in turn.
LEMMA Supersedes ==
    ASSUME NEW S \in SUBSET Votes, NEW d \in Votes \cup {None}, NEW w \in Votes,
           Covers(d, S), Follows(w, d)
    PROVE  /\ Covers(w, S \cup {w})
           /\ \A v \in S : v.epoch = w.epoch => v.body = w.body
<1>1. \A v \in S : Follows(w, v)
  BY FollowsTransitive, Names DEF Covers
<1>2. \A v \in S : v.epoch = w.epoch => v.body = w.body
  BY <1>1, Names DEF Follows
<1> QED BY <1>1, <1>2, Names DEF Covers, Follows

\* The sets of votes are sets of votes.
LEMMA CastTyped == ASSUME TypeOK PROVE Cast \in SUBSET Votes /\ Settled \in SUBSET Cast
BY DEF TypeOK, Cast, Settled

\* Steps that record nothing, let no signer into the critical section and
\* release nothing that was not recorded.
LEMMA Quiet ==
    ASSUME VotesOK, UNCHANGED disk, Cast' \subseteq Cast, Settled' \subseteq Settled,
           \A p \in Signers : pc[p] = "renamed" => pc'[p] = "renamed" \/ failures' # 0,
           failures' = 0 => failures = 0,
           \A p \in Signers :
               pc'[p] = "commit" => Follows(want'[p], state)
    PROVE  VotesOK'
<1>1. Ready'
  BY DEF Ready, disk, Follows
<1>2. Covers(state, Cast)'
  BY DEF VotesOK, Covers, disk, Follows
<1>3. Consistent'
  BY DEF VotesOK, Consistent
<1>4. Synced'
  BY DEF VotesOK, Synced, Covers, disk, Follows
<1> QED BY <1>1, <1>2, <1>3, <1>4 DEF VotesOK

\* Only one signer stands between the check and the record.
LEMMA OneInside ==
    ASSUME TypeOK, Exclusive, NEW p \in Signers, NEW q \in Signers,
           pc[p] \in Locked, pc[q] \in Locked
    PROVE  p = q
BY DEF Exclusive

\* Recording a vote keeps the votes in order.
LEMMA CommitStep ==
    ASSUME TypeOK, Exclusive, VotesOK, NEW p \in Signers, Commit(p)
    PROVE  VotesOK'
<1> DEFINE w == want[p]
<1>1. w \in Votes /\ state \in Votes \cup {None} /\ pc[p] = "commit"
  BY DEF Commit, TypeOK
<1>2. Follows(w, state)
  BY <1>1 DEF VotesOK, Ready
<1>3. Covers(w, Cast \cup {w}) /\ \A v \in Cast : v.epoch = w.epoch => v.body = w.body
  BY <1>1, <1>2, CastTyped, Supersedes DEF VotesOK
<1>4. state' = w /\ Cast' = Cast \cup {w}
  BY <1>1 DEF Commit, Cast, Goto, TypeOK
<1>5. Covers(state, Cast)'
  BY <1>3, <1>4 DEF Covers, Follows
<1>6. Consistent'
  BY <1>3, <1>4 DEF VotesOK, Consistent
<1>7. Ready'
  <2>1. \A q \in Signers : pc'[q] # "commit"
    BY <1>1, OneInside DEF Commit, Goto, TypeOK, Locked
  <2> QED BY <2>1 DEF Ready
<1>8. Synced'
  <2> SUFFICES ASSUME failures = 0
               PROVE  /\ Covers(onDisk, Settled)'
                      /\ (state # onDisk)' => \E q \in Signers : pc'[q] = "renamed"
    BY DEF Synced, Commit, faults
  <2>1. onDisk' = onDisk
    BY DEF Commit
  <2>2. CASE state = w
    <3>1. onDisk = w
      BY <1>1, <2>2, OneInside DEF VotesOK, Synced, Locked
    <3>2. Settled' \subseteq Cast'
      BY DEF Settled, Cast
    <3> QED BY <1>3, <1>4, <2>1, <3>1, <3>2 DEF Covers, Follows
  <2>3. CASE state # w
    <3>1. Settled' = Settled /\ pc'[p] = "renamed"
      BY <1>1, <2>3 DEF Commit, Goto, TypeOK, Settled
    <3> QED BY <2>1, <3>1 DEF VotesOK, Synced, Covers, Follows
  <2> QED BY <2>2, <2>3
<1> QED BY <1>5, <1>6, <1>7, <1>8 DEF VotesOK

\* Syncing the directory puts the record of every vote on disk.
LEMMA SyncStep ==
    ASSUME TypeOK, Exclusive, VotesOK, NEW p \in Signers, SyncDirectory(p)
    PROVE  VotesOK'
<1>1. Cast' = Cast /\ state' = state /\ onDisk' = state
  BY DEF SyncDirectory, Goto, TypeOK, Cast
<1>2. Settled' \subseteq Cast'
  BY DEF Settled, Cast
<1>3. Ready'
  BY DEF VotesOK, Ready, SyncDirectory, Goto, TypeOK, Follows
<1>4. Covers(state, Cast)' /\ Consistent'
  BY <1>1 DEF VotesOK, Covers, Consistent, Follows
<1>5. Synced'
  BY <1>1, <1>2, <1>4 DEF Synced, Covers, Follows
<1> QED BY <1>3, <1>4, <1>5 DEF VotesOK

\* All other steps of a signer are quiet.
LEMMA VotesStep ==
    ASSUME TypeOK, Exclusive, VotesOK, NEW p \in Signers, Step(p)
    PROVE  VotesOK'
<1> DEFINE Calm ==
        /\ UNCHANGED disk /\ Cast' \subseteq Cast /\ Settled' \subseteq Settled
        /\ \A q \in Signers : pc[q] = "renamed" => pc'[q] = "renamed" \/ failures' # 0
        /\ failures' = 0 => failures = 0
        /\ \A q \in Signers : pc'[q] = "commit" => Follows(want'[q], state)
<1> USE BoundsAssumption DEF TypeOK, Goto, Ends, Return, Cast, Settled, VotesOK, Ready, Follows, faults
<1>1. CASE Propose(p)
  <2>1. Calm BY <1>1 DEF Propose
  <2> QED BY <2>1, Quiet
<1>2. CASE Enter(p)
  <2>1. Calm BY <1>2 DEF Enter
  <2> QED BY <2>1, Quiet
<1>3. CASE Lock(p)
  <2>1. Calm BY <1>3 DEF Lock, disk
  <2> QED BY <2>1, Quiet
<1>4. CASE Check(p)
  <2>1. Calm BY <1>4 DEF Check, Allowed, disk
  <2> QED BY <2>1, Quiet
<1>5. CASE Close(p)
  <2>1. Calm BY <1>5 DEF Close, Failure, disk
  <2> QED BY <2>1, Quiet
<1>6. CASE Release(p)
  <2>1. Calm BY <1>6 DEF Release, disk
  <2> QED BY <2>1, Quiet
<1>7. CASE Fails(p) \/ KillCommand(p)
  <2>1. failures' # 0
    BY <1>7 DEF Fails, KillCommand, Failure
  <2>2. Calm BY <1>7, <2>1 DEF Fails, KillCommand, Die, disk
  <2> QED BY <2>2, Quiet
<1> QED BY <1>1, <1>2, <1>3, <1>4, <1>5, <1>6, <1>7, CommitStep, SyncStep DEF Step

\* A power loss forgets nothing that was signed, unless a failure came first.
LEMMA PowerLossStep ==
    ASSUME TypeOK, VotesOK, PowerLoss, OneKindOfFault'
    PROVE  VotesOK'
<1>1. failures = 0
  BY DEF OneKindOfFault, PowerLoss, TypeOK
<1>2. Cast' = released /\ Settled' = released /\ \A p \in Signers : pc'[p] = "idle"
  BY DEF PowerLoss, Ends, Cast, Settled
<1>3. Covers(state', released) /\ onDisk' = state'
  BY <1>1 DEF PowerLoss, VotesOK, Synced, Covers, Cast, Settled
<1>4. Consistent'
  BY <1>2 DEF VotesOK, Consistent, Cast
<1> QED BY <1>2, <1>3, <1>4 DEF VotesOK, Ready, Synced, Covers, Follows

\* The remaining steps are quiet too.
LEMMA VotesOther ==
    ASSUME TypeOK, VotesOK, KillDaemon \/ RemoveLock \/ Tick \/ ClockBack \/ UNCHANGED vars
    PROVE  VotesOK'
<1> USE BoundsAssumption DEF TypeOK, Ends, Cast, Settled, VotesOK, Ready, Follows, faults
<1>1. CASE KillDaemon
  <2>1. failures' # 0
    BY <1>1 DEF KillDaemon, Failure
  <2> QED BY <1>1, <2>1, Quiet DEF KillDaemon, Die, disk
<1>2. CASE RemoveLock \/ Tick \/ ClockBack \/ UNCHANGED vars
  <2>1. UNCHANGED <<disk, pc, want, released>> /\ (failures' = 0 => failures = 0)
    BY <1>2 DEF RemoveLock, Tick, ClockBack, Failure, vars
  <2> QED BY <2>1, Quiet DEF disk
<1> QED BY <1>1, <1>2

\* Failures and power losses are not undone.
LEMMA StillOneKind == ASSUME TypeOK, [Next]_vars, OneKindOfFault' PROVE OneKindOfFault
<1> USE BoundsAssumption DEF TypeOK, OneKindOfFault, faults
<1>1. ASSUME NEW p \in Signers, Step(p) PROVE OneKindOfFault
  <2>1. CASE Propose(p) \/ Enter(p) \/ Lock(p) \/ Check(p) \/ Commit(p) \/ SyncDirectory(p) \/ Release(p)
    BY <2>1 DEF Propose, Enter, Lock, Check, Commit, SyncDirectory, Release
  <2>2. CASE Close(p) \/ Fails(p) \/ KillCommand(p)
    BY <2>2 DEF Close, Fails, KillCommand, Failure
  <2> QED BY <1>1, <2>1, <2>2 DEF Step
<1>2. CASE KillDaemon \/ PowerLoss \/ ClockBack
  BY <1>2 DEF KillDaemon, PowerLoss, ClockBack, Failure
<1>3. CASE RemoveLock \/ Tick \/ UNCHANGED vars
  BY <1>3 DEF RemoveLock, Tick, vars
<1> QED BY <1>1, <1>2, <1>3 DEF Next

-------------------------------------------------------------------------------
\* The inductive invariant.
THEOREM Invariant == Spec => []IInv
<1> DEFINE Votes1 == OneKindOfFault => VotesOK
<1>1. Init => Exclusive /\ Votes1
  BY Names DEF Init, Exclusive, Locked, VotesOK, Ready, Covers, Consistent, Synced, Cast, Settled
<1>2. TypeOK /\ Exclusive /\ [Next]_vars => Exclusive'
  <2>1. ASSUME Exclusive, UNCHANGED vars PROVE Exclusive'
    BY <2>1 DEF Exclusive, vars
  <2> QED BY <2>1, ExclusiveStep, ExclusiveOther DEF Next
<1>3. TypeOK /\ Exclusive /\ Votes1 /\ [Next]_vars => Votes1'
  <2> SUFFICES ASSUME TypeOK, Exclusive, Votes1, [Next]_vars, OneKindOfFault'
               PROVE  VotesOK'
    OBVIOUS
  <2>1. VotesOK
    BY StillOneKind
  <2> QED BY <2>1, VotesStep, VotesOther, PowerLossStep DEF Next
<1>4. TypeOK /\ Exclusive /\ Votes1 => IInv
  BY DEF IInv
<1> QED BY <1>1, <1>2, <1>3, <1>4, Typed, PTL DEF Spec

\* "It records the latest epoch and body hash before releasing the signed
\* output", whatever the schedule.
THEOREM Recorded == Spec => []RecordedFirst
<1>1. IInv => RecordedFirst
  BY Names DEF IInv, TypeOK, VotesOK, RecordedFirst, Covers, Cast, Follows
<1> QED BY <1>1, Invariant, PTL

\* Every step that releases a signature is one the promise Vote allows.
LEMMA KeepsPromise ==
    ASSUME IInv, [Next]_vars, OneKindOfFault'
    PROVE  [Promise!Next]_released
<1> SUFFICES ASSUME Next, ~UNCHANGED released PROVE Promise!Next
  BY DEF vars
<1>1. PICK p \in Signers : Release(p)
  BY DEF Next, Step, Propose, Enter, Lock, Check, Commit, SyncDirectory, Close,
      Fails, KillCommand, KillDaemon, PowerLoss, RemoveLock, Tick, ClockBack
<1>2. VotesOK
  BY StillOneKind DEF IInv
<1>3. want[p] \in Votes /\ want[p] \in Cast /\ released \subseteq Cast
  BY <1>1 DEF IInv, TypeOK, Release, Cast
<1>4. \A w \in released : ~Promise!Conflicts(want[p], w)
  BY <1>2, <1>3 DEF VotesOK, Consistent, Promise!Conflicts
<1>5. Promise!Release(want[p])
  BY <1>1, <1>4 DEF Release, Promise!Release
<1> QED BY <1>3, <1>5 DEF Promise!Next, Votes

\* The authority keeps the promise the council relies on: it never releases
\* two bodies of one epoch.
THEOREM NeverTwoBodies == Spec => OneVote
<1>1. IInv /\ [Next]_vars => (OneKindOfFault' => [Promise!Next]_released)
  BY KeepsPromise
<1> QED BY <1>1, Invariant, PTL DEF Spec, OneVote

\* Where only power is lost, or only processes fail, the signers implement Vote.
THEOREM Implements ==
    ASSUME MaxPowerLosses = 0 \/ MaxFailures = 0
    PROVE  Spec => Promise!Spec
<1>1. Init => Promise!Init
  BY DEF Init, Promise!Init
<1>2. IInv /\ TypeOK' /\ [Next]_vars => [Promise!Next]_released
  <2>1. ASSUME TypeOK' PROVE OneKindOfFault'
    BY <2>1, BoundsAssumption DEF TypeOK, OneKindOfFault
  <2> QED BY <2>1, KeepsPromise
<1> QED BY <1>1, <1>2, Invariant, Typed, PTL DEF Spec, Promise!Spec

\* The same as an invariant: what Signing_unsynced.cfg refutes when a failure is
\* followed by a power loss.
THEOREM NoTwoBodies == Spec => [](OneKindOfFault => NoEquivocation)
<1>1. IInv => (OneKindOfFault => NoEquivocation)
  BY DEF IInv, VotesOK, Consistent, Cast, NoEquivocation
<1> QED BY <1>1, Invariant, PTL
===============================================================================
