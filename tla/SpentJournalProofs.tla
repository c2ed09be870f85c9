-------------------------- MODULE SpentJournalProofs --------------------------
(***************************************************************************)
(* SpentJournal implements Redemption, and an accepted token survives      *)
(* every power loss, for any number of processes, tokens and keys.         *)
(*                                                                         *)
(* The argument does not use the flock: it is the length check after the   *)
(* append that makes a claim exclusive.  Two processes that decided on the *)
(* same prefix of the journal and both wrote cannot both find their own    *)
(* record at the end of it.  The lock is what keeps them from failing      *)
(* closed over one another, which TLC checks.                              *)
(***************************************************************************)
EXTENDS SpentJournal, Integers, TLAPS

(* The inductive invariant.                                                *)

\* Processes that have not yet touched the journal.
Early == {"down", "openwait", "opening"}

\* Processes whose map is a replay of the journal.
Viewing(p) ==
    \/ pc[p] \in {"pinning", "verifying"}
    \/ pc[p] \in Live /\ ~poison[p]

LockInv ==
    /\ lockAt <= lockMade
    /\ \A p \in Procs : pc[p] # "down" =>
          /\ myLock[p] \in 1..lockMade
          /\ Tamper # "lock" => myLock[p] = lockAt

\* A journal that is gone, after it was in use, stays pinned.
MissingInv ==
    at = "missing" /\ (published \/ \E p \in Procs : pc[p] \notin Early) =>
        Tamper = "journal" /\ lockAt # 0 /\ pin[lockAt] = "pinned"

PublishedInv ==
    ~published => /\ \A t \in Tokens : holder[t] = None
                  /\ \A p \in Procs : pc[p] \notin Live

\* A process that has a journal open has one with a header.
HeadInv ==
    \A p \in Procs :
        pc[p] \in {"hsync", "pinning", "verifying"} \cup Live => log # <<>>

View(p) ==
    Viewing(p) => /\ Accounted(p) \in 0..Len(log)
                  /\ seen[p] = Redeemed(log, Accounted(p))

ViewInv == \A p \in Procs : View(p)

Calling(p) ==
    pc[p] \in InCall =>
        /\ ~poison[p]
        /\ op[p] \in Ops
        /\ pc[p] \in {"append", "sync", "confirm"} => ~Needless(op[p], seen[p])

CallInv == \A p \in Procs : Calling(p)

\* The journal ends with the record p wrote, and nobody wrote since p decided.
AtTail(p) == Len(log) = Accounted(p) + 1

Written(p) ==
    pc[p] \in Wrote =>
        /\ Len(log) > Accounted(p)
        /\ AtTail(p) => log[Len(log)] = op[p]
        /\ AtTail(p) => \A t \in Tokens : Claims(op[p], t) => holder[t] = None
        /\ AtTail(p) => \A q \in Procs : pc[q] \in Wrote /\ AtTail(q) => q = p
        /\ pc[p] = "confirm" => synced > Accounted(p)

WroteInv == ~torn => \A p \in Procs : Written(p)

IInv ==
    /\ TypeOK
    /\ LockInv /\ MissingInv /\ PublishedInv /\ HeadInv
    /\ ViewInv /\ CallInv /\ WroteInv
    /\ RedemptionIsDurable

-------------------------------------------------------------------------------
(* Replay.                                                                 *)

\* Replay of n records depends on those records only.
LEMMA RedeemedPrefix ==
    ASSUME NEW s, NEW s2, NEW n \in Nat, \A i \in 1..n : s[i] = s2[i]
    PROVE  Redeemed(s, n) = Redeemed(s2, n)
  BY DEF Redeemed, ClaimedIn, Claims, Releases

\* Replaying only the new records gives what replaying all of them does.
LEMMA RefreshIsReplay ==
    ASSUME NEW s, Len(s) \in Nat, NEW o \in 0..Len(s)
    PROVE  Refresh(Redeemed(s, o), o, s) = Redeemed(s, Len(s))
<1> DEFINE n == Len(s)
<1>1. ASSUME NEW t \in Tokens
      PROVE  t \in Refresh(Redeemed(s, o), o, s) <=> t \in Redeemed(s, n)
  <2>1. ASSUME t \in Refresh(Redeemed(s, o), o, s) PROVE t \in Redeemed(s, n)
    <3>1. CASE ClaimedIn(s, o + 1, n, t)
      BY <3>1 DEF ClaimedIn, Redeemed
    <3>2. CASE /\ t \in Redeemed(s, o)
               /\ \A j \in (o + 1)..n : ~Releases(s[j], t)
      <4>1. PICK i \in 1..o : /\ Claims(s[i], t)
                             /\ \A j \in (i + 1)..o : ~Releases(s[j], t)
        BY <3>2 DEF Redeemed, ClaimedIn
      <4>2. \A j \in (i + 1)..n : j \in (i + 1)..o \/ j \in (o + 1)..n
        OBVIOUS
      <4> QED BY <4>1, <4>2, <3>2 DEF Redeemed, ClaimedIn
    <3> QED BY <2>1, <3>1, <3>2 DEF Refresh
  <2>2. ASSUME t \in Redeemed(s, n) PROVE t \in Refresh(Redeemed(s, o), o, s)
    <3>1. PICK i \in 1..n : /\ Claims(s[i], t)
                           /\ \A j \in (i + 1)..n : ~Releases(s[j], t)
      BY <2>2 DEF Redeemed, ClaimedIn
    <3>2. CASE i <= o
      BY <3>1, <3>2 DEF Refresh, Redeemed, ClaimedIn
    <3>3. CASE i > o
      BY <3>1, <3>3 DEF Refresh, ClaimedIn
    <3> QED BY <3>2, <3>3
  <2> QED BY <2>1, <2>2
<1> QED BY <1>1 DEF Refresh, Redeemed

\* Opening a store replays the journal from its start.
LEMMA OpenIsReplay ==
    ASSUME NEW s, Len(s) \in Nat
    PROVE  Refresh({}, 0, s) = Redeemed(s, Len(s))
  BY DEF Refresh, Redeemed

\* Applying the next record to the map is replaying one record more.
LEMMA ApplyIsReplay ==
    ASSUME NEW s, NEW n \in Nat
    PROVE  Apply(Redeemed(s, n), s[n + 1]) = Redeemed(s, n + 1)
<1>1. ASSUME NEW t \in Tokens
      PROVE  t \in Apply(Redeemed(s, n), s[n + 1]) <=> t \in Redeemed(s, n + 1)
  <2>1. CASE Claims(s[n + 1], t)
    BY <2>1 DEF Apply, Redeemed, ClaimedIn
  <2>2. CASE ~Claims(s[n + 1], t) /\ Releases(s[n + 1], t)
    BY <2>2 DEF Apply, Redeemed, ClaimedIn
  <2>3. CASE ~Claims(s[n + 1], t) /\ ~Releases(s[n + 1], t)
    <3>1. ASSUME t \in Redeemed(s, n) PROVE t \in Redeemed(s, n + 1)
      <4>1. PICK i \in 1..n : /\ Claims(s[i], t)
                             /\ \A j \in (i + 1)..n : ~Releases(s[j], t)
        BY <3>1 DEF Redeemed, ClaimedIn
      <4>2. \A j \in (i + 1)..(n + 1) : j \in (i + 1)..n \/ j = n + 1
        OBVIOUS
      <4> QED BY <4>1, <4>2, <2>3 DEF Redeemed, ClaimedIn
    <3>2. ASSUME t \in Redeemed(s, n + 1) PROVE t \in Redeemed(s, n)
      <4>1. PICK i \in 1..(n + 1) :
                  /\ Claims(s[i], t)
                  /\ \A j \in (i + 1)..(n + 1) : ~Releases(s[j], t)
        BY <3>2 DEF Redeemed, ClaimedIn
      <4>2. i \in 1..n
        BY <4>1, <2>3
      <4> QED BY <4>1, <4>2 DEF Redeemed, ClaimedIn
    <3> QED BY <3>1, <3>2, <2>3 DEF Apply
  <2> QED BY <2>1, <2>2, <2>3
<1> QED BY <1>1 DEF Apply, Redeemed
-------------------------------------------------------------------------------
(* Types.                                                                  *)

\* The map, the flock table and what a fault leaves keep their types.
LEMMA MapType ==
    /\ \A known, from, s : Refresh(known, from, s) \in SUBSET Tokens
    /\ \A known, r : Apply(known, r) \in SUBSET Tokens
  BY DEF Refresh, Apply

\* What a record says it is about is a token or a key.
LEMMA RecordType ==
    ASSUME NEW r \in Records
    PROVE  /\ r.kind = "S" => r.arg \in Tokens
           /\ r.kind = "F" => r.arg \in Tokens
           /\ r.kind = "K" => r.arg \in Keys
<1>1. CASE r \in Spends  BY <1>1 DEF Spends
<1>2. CASE r \in Refunds BY <1>2 DEF Refunds
<1>3. CASE r \in Retires BY <1>3 DEF Retires
<1>4. CASE r = Header     BY <1>4 DEF Header
<1> QED BY <1>1, <1>2, <1>3, <1>4 DEF Records, Ops

\* The log of a journal just created is a sequence of records.
LEMMA EmptyLog == <<>> \in Seq(Records) /\ Len(<<>>) = 0
  OBVIOUS

\* Unlocking, as unlockFile does, leaves a table of flock holders.
LEMMA UnlockType ==
    ASSUME TypeOK, NEW p \in Procs, Unlock(p)
    PROVE  flock' \in [1..MaxLocks -> Procs \cup {None}]
  BY DEF TypeOK, Unlock

\* A poisoned call, as poisonLocked leaves it, keeps the types.
LEMMA PoisonedType ==
    ASSUME TypeOK, NEW p \in Procs, Poisoned(p)
    PROVE  /\ flock' \in [1..MaxLocks -> Procs \cup {None}]
           /\ pc' \in [Procs -> {"down"} \cup Opening \cup Live]
           /\ poison' \in [Procs -> BOOLEAN]
  BY UnlockType DEF TypeOK, Poisoned, Goto, Live

\* A refused open keeps the types of the variables it changes.
LEMMA RefuseType ==
    ASSUME TypeOK, NEW p \in Procs, Refuse(p)
    PROVE  /\ flock' \in [1..MaxLocks -> Procs \cup {None}]
           /\ pc' \in [Procs -> {"down"} \cup Opening \cup Live]
  BY UnlockType DEF TypeOK, Refuse, Goto

\* What a write cut short leaves is a journal and a lock file.
LEMMA CutShortType ==
    ASSUME TypeOK, NEW p \in Procs, CutShort(p)
    PROVE  /\ torn' \in BOOLEAN
           /\ pin' \in [1..MaxLocks -> {"empty", "pinned", "damaged"}]
<1>1. [pin EXCEPT ![myLock[p]] = "damaged"]
        \in [1..MaxLocks -> {"empty", "pinned", "damaged"}]
  BY DEF TypeOK
<1>2. torn' \in {torn, TRUE}
  BY DEF CutShort
<1>3. pin' \in {pin, [pin EXCEPT ![myLock[p]] = "damaged"]}
  BY DEF CutShort
<1> QED BY <1>1, <1>2, <1>3 DEF TypeOK

\* What is acknowledged is a refund of a token or a retirement of a key.
LEMMA AcknowledgeType ==
    ASSUME TypeOK, NEW p \in Procs, Acknowledge(op[p])
    PROVE  /\ acked' \subseteq Tokens /\ forgot' \subseteq Keys
           /\ acked \subseteq acked'
           /\ op[p].kind = "F" => acked' = acked \cup {op[p].arg}
<1>1. op[p] \in Records
  BY DEF TypeOK
<1>2. (op[p].kind = "F" => op[p].arg \in Tokens) /\ (op[p].kind = "K" => op[p].arg \in Keys)
  BY <1>1, RecordType
<1> QED BY <1>2 DEF TypeOK, Acknowledge

\* Every variable keeps its type, whatever fails.
LEMMA TypeStep == TypeOK /\ [Next]_vars /\ Headed' => TypeOK'
<1> SUFFICES ASSUME TypeOK, [Next]_vars, Headed' PROVE TypeOK'
  OBVIOUS
<1> USE BoundsAssumption DEF TypeOK, Opening, Live, InCall, file, locks, procs,
        history, Goto
<1>1. ASSUME NEW p \in Procs, OpenLock(p) PROVE TypeOK'
  BY <1>1 DEF OpenLock
<1>2. ASSUME NEW p \in Procs, OpenAcquire(p) PROVE TypeOK'
  <2>1. flock' \in [1..MaxLocks -> Procs \cup {None}]
    BY <1>2, RefuseType DEF OpenAcquire
  <2>2. pc' \in [Procs -> {"down"} \cup Opening \cup Live]
    BY <1>2, RefuseType DEF OpenAcquire
  <2> QED BY <1>2, <2>1, <2>2 DEF OpenAcquire
<1>3. ASSUME NEW p \in Procs, OpenCreate(p) PROVE TypeOK'
  <2>1. log' \in Seq(Records) /\ synced' \in 0..Len(log')
    BY <1>3, EmptyLog DEF OpenCreate
  <2> QED BY <1>3, <2>1 DEF OpenCreate
<1>4. ASSUME NEW p \in Procs, OpenHeader(p) PROVE TypeOK'
  BY <1>4 DEF OpenHeader, Header, Records
<1>5. ASSUME NEW p \in Procs, OpenHeaderSync(p) PROVE TypeOK'
  BY <1>5, MapType DEF OpenHeaderSync
<1>6. ASSUME NEW p \in Procs, OpenReplay(p) PROVE TypeOK'
  BY <1>6, MapType DEF OpenReplay
<1>7. ASSUME NEW p \in Procs, OpenRefused(p) PROVE TypeOK'
  BY <1>7, RefuseType DEF OpenRefused
<1>8. ASSUME NEW p \in Procs, OpenPin(p) PROVE TypeOK'
  BY <1>8, RefuseType DEF OpenPin
<1>9. ASSUME NEW p \in Procs, OpenDone(p) PROVE TypeOK'
  BY <1>9, RefuseType, UnlockType DEF OpenDone
<1>10. ASSUME NEW p \in Procs, Acquire(p) PROVE TypeOK'
  <2>1. flock' \in [1..MaxLocks -> Procs \cup {None}]
    BY <1>10, PoisonedType DEF Acquire
  <2>2. pc' \in [Procs -> {"down"} \cup Opening \cup Live]
    BY <1>10, PoisonedType DEF Acquire
  <2>3. poison' \in [Procs -> BOOLEAN]
    BY <1>10, PoisonedType DEF Acquire
  <2> QED BY <1>10, <2>1, <2>2, <2>3 DEF Acquire
<1>11. ASSUME NEW p \in Procs, Decide(p) PROVE TypeOK'
  <2>1. flock' \in [1..MaxLocks -> Procs \cup {None}]
    BY <1>11, UnlockType DEF Decide
  <2>2. pc' \in [Procs -> {"down"} \cup Opening \cup Live]
    BY <1>11 DEF Decide
  <2>3. seen' \in [Procs -> SUBSET Tokens] /\ offset' \in [Procs -> Nat]
    BY <1>11, MapType DEF Decide
  <2>4. acked' \subseteq Tokens /\ leaned' \subseteq acked' /\ forgot' \subseteq Keys
    <3>1. CASE UNCHANGED <<acked, leaned, forgot>>
      BY <3>1
    <3>2. CASE /\ Acknowledge(op[p])
               /\ leaned' = IF op[p].kind = "F" /\ synced < Len(log)
                            THEN leaned \cup {op[p].arg} ELSE leaned
      BY <3>2, AcknowledgeType
    <3> QED BY <1>11, <3>1, <3>2 DEF Decide
  <2> QED BY <1>11, <2>1, <2>2, <2>3, <2>4 DEF Decide
<1>12. ASSUME NEW p \in Procs, DecideFails(p) PROVE TypeOK'
  BY <1>12, PoisonedType DEF DecideFails
<1>13. ASSUME NEW p \in Procs, AppendRecord(p) PROVE TypeOK'
  BY <1>13 DEF AppendRecord
<1>14. ASSUME NEW p \in Procs, SyncRecord(p) PROVE TypeOK'
  BY <1>14 DEF SyncRecord
<1>15. ASSUME NEW p \in Procs, Confirm(p) PROVE TypeOK'
  <2>1. /\ flock' \in [1..MaxLocks -> Procs \cup {None}]
        /\ pc' \in [Procs -> {"down"} \cup Opening \cup Live]
    BY <1>15, UnlockType DEF Confirm
  <2>2. seen' \in [Procs -> SUBSET Tokens]
    BY <1>15, MapType DEF Confirm
  <2>3. holder' \in [Tokens -> Procs \cup {None}]
    BY <1>15 DEF Confirm
  <2>4. mine' \in [Procs -> SUBSET Tokens]
    <3>1. op[p].kind = "S" => op[p].arg \in Tokens
      BY RecordType
    <3> DEFINE next == IF op[p].kind = "S" THEN mine[p] \cup {op[p].arg}
                                           ELSE mine[p]
    <3>2. next \in SUBSET Tokens
      BY <3>1
    <3>3. mine' = [mine EXCEPT ![p] = next]
      BY <1>15 DEF Confirm
    <3> HIDE DEF next
    <3> QED BY <3>2, <3>3
  <2>5. acked' \subseteq Tokens /\ leaned' \subseteq acked' /\ forgot' \subseteq Keys
    BY <1>15, AcknowledgeType DEF Confirm
  <2> QED BY <1>15, <2>1, <2>2, <2>3, <2>4, <2>5 DEF Confirm
<1>16. ASSUME NEW p \in Procs, ConfirmFails(p) PROVE TypeOK'
  BY <1>16, PoisonedType DEF ConfirmFails
<1>17. ASSUME NEW p \in Procs, Close(p) PROVE TypeOK'
  BY <1>17, UnlockType DEF Close
<1>18. ASSUME NEW p \in Procs, IOError(p) PROVE TypeOK'
  BY <1>18, CutShortType, RefuseType, PoisonedType DEF IOError, Fault
<1>19. ASSUME NEW p \in Procs, Kill(p) PROVE TypeOK'
  BY <1>19, CutShortType, RefuseType DEF Kill, Fault
<1>20. ASSUME NEW p \in Procs, NEW o \in Ops, Call(p, o) PROVE TypeOK'
  BY <1>20 DEF Call, Records
<1>21. CASE PowerLoss
  <2>1. PICK n \in synced..Len(log) :
              /\ log' = SubSeq(log, 1, n) /\ synced' = n
              /\ torn' \in {torn, torn \/ n < Len(log)}
    BY <1>21 DEF PowerLoss
  <2>2. log' \in Seq(Records) /\ Len(log') = n /\ n \in Nat
    BY <2>1
  <2>3. torn' \in BOOLEAN
    BY <2>1
  <2>4. at' \in {"missing", "journal", "other"} /\ lockAt' \in 0..MaxLocks
    BY <1>21 DEF PowerLoss
  <2>5. pin' \in [1..MaxLocks -> {"empty", "pinned", "damaged"}]
    BY <1>21 DEF PowerLoss
  <2> QED BY <1>21, <2>1, <2>2, <2>3, <2>4, <2>5 DEF PowerLoss, Fault
<1>22. CASE UnlinkLock
  BY <1>22 DEF UnlinkLock, Fault
<1>23. CASE ReplaceJournal
  BY <1>23 DEF ReplaceJournal, Fault
<1>24. CASE UNCHANGED vars
  BY <1>24 DEF vars
<1> QED
  BY <1>1, <1>2, <1>3, <1>4, <1>5, <1>6, <1>7, <1>8, <1>9, <1>10, <1>11, <1>12, <1>13, <1>14, <1>15, <1>16, <1>17, <1>18, <1>19, <1>20, <1>21, <1>22, <1>23, <1>24 DEF Next, Step

\* The state before any process opens the store is well typed.
LEMMA InitType == Init => TypeOK
<1> SUFFICES ASSUME Init PROVE TypeOK
  OBVIOUS
<1>1. log \in Seq(Records) /\ synced \in 0..Len(log)
  BY EmptyLog DEF Init
<1>2. op \in [Procs -> Records]
  BY DEF Init, Records
<1>3. pc \in [Procs -> {"down"} \cup Opening \cup Live]
  BY DEF Init
<1>4. seen \in [Procs -> SUBSET Tokens] /\ mine \in [Procs -> SUBSET Tokens]
  BY DEF Init
<1>5. /\ pin \in [1..MaxLocks -> {"empty", "pinned", "damaged"}]
      /\ flock \in [1..MaxLocks -> Procs \cup {None}]
      /\ holder \in [Tokens -> Procs \cup {None}]
  BY DEF Init
<1>6. lockAt \in 0..MaxLocks /\ lockMade \in 0..MaxLocks
  BY BoundsAssumption DEF Init
<1>7. /\ myLock \in [Procs -> 0..MaxLocks]
      /\ offset \in [Procs -> Nat]
      /\ poison \in [Procs -> BOOLEAN]
  BY BoundsAssumption DEF Init
<1>8. Headed
  BY DEF Init, Headed
<1> QED BY <1>1, <1>2, <1>3, <1>4, <1>5, <1>6, <1>7, <1>8 DEF Init, TypeOK

-------------------------------------------------------------------------------
(* The paths, the lock and the directory.                                  *)

\* A running process has one of the lock files made so far open, and unless
\* somebody unlinks lock files it is the one at the path.
LEMMA LockStep == TypeOK /\ LockInv /\ [Next]_vars => LockInv'
<1> SUFFICES ASSUME TypeOK, LockInv, [Next]_vars PROVE LockInv'
  OBVIOUS
<1> USE DEF TypeOK, LockInv, file, locks, procs, history, Goto, Refuse, Poisoned
<1>1. ASSUME NEW p \in Procs, OpenLock(p) PROVE LockInv'
  BY <1>1 DEF OpenLock
<1>2. ASSUME NEW p \in Procs, OpenAcquire(p) PROVE LockInv'
  BY <1>2 DEF OpenAcquire
<1>3. ASSUME NEW p \in Procs, OpenCreate(p) PROVE LockInv'
  BY <1>3 DEF OpenCreate
<1>4. ASSUME NEW p \in Procs, OpenHeader(p) PROVE LockInv'
  BY <1>4 DEF OpenHeader
<1>5. ASSUME NEW p \in Procs, OpenHeaderSync(p) PROVE LockInv'
  BY <1>5 DEF OpenHeaderSync
<1>6. ASSUME NEW p \in Procs, OpenReplay(p) PROVE LockInv'
  BY <1>6 DEF OpenReplay
<1>7. ASSUME NEW p \in Procs, OpenRefused(p) PROVE LockInv'
  BY <1>7 DEF OpenRefused
<1>8. ASSUME NEW p \in Procs, OpenPin(p) PROVE LockInv'
  BY <1>8 DEF OpenPin
<1>9. ASSUME NEW p \in Procs, OpenDone(p) PROVE LockInv'
  BY <1>9 DEF OpenDone
<1>10. ASSUME NEW p \in Procs, Acquire(p) PROVE LockInv'
  BY <1>10 DEF Acquire
<1>11. ASSUME NEW p \in Procs, Decide(p) PROVE LockInv'
  BY <1>11 DEF Decide
<1>12. ASSUME NEW p \in Procs, DecideFails(p) PROVE LockInv'
  BY <1>12 DEF DecideFails
<1>13. ASSUME NEW p \in Procs, AppendRecord(p) PROVE LockInv'
  BY <1>13 DEF AppendRecord
<1>14. ASSUME NEW p \in Procs, SyncRecord(p) PROVE LockInv'
  BY <1>14 DEF SyncRecord
<1>15. ASSUME NEW p \in Procs, Confirm(p) PROVE LockInv'
  BY <1>15 DEF Confirm
<1>16. ASSUME NEW p \in Procs, ConfirmFails(p) PROVE LockInv'
  BY <1>16 DEF ConfirmFails
<1>17. ASSUME NEW p \in Procs, Close(p) PROVE LockInv'
  BY <1>17 DEF Close
<1>18. ASSUME NEW p \in Procs, IOError(p) PROVE LockInv'
  BY <1>18 DEF IOError, Opening, InCall
<1>19. ASSUME NEW p \in Procs, Kill(p) PROVE LockInv'
  BY <1>19 DEF Kill
<1>20. ASSUME NEW p \in Procs, NEW o \in Ops, Call(p, o) PROVE LockInv'
  BY <1>20 DEF Call
<1>21. CASE PowerLoss
  BY <1>21 DEF PowerLoss
<1>22. CASE UnlinkLock
  BY <1>22 DEF UnlinkLock
<1>23. CASE ReplaceJournal
  BY <1>23 DEF ReplaceJournal
<1>24. CASE UNCHANGED vars
  BY <1>24 DEF vars
<1> QED
  BY <1>1, <1>2, <1>3, <1>4, <1>5, <1>6, <1>7, <1>8, <1>9, <1>10, <1>11, <1>12,
     <1>13, <1>14, <1>15, <1>16, <1>17, <1>18, <1>19, <1>20, <1>21, <1>22, <1>23, <1>24 DEF Next, Step

\* A journal that goes missing once it is in use stays pinned, so it is never
\* created anew.
LEMMA MissingStep ==
    TypeOK /\ LockInv /\ MissingInv /\ [Next]_vars => MissingInv'
<1> SUFFICES ASSUME TypeOK, LockInv, MissingInv, [Next]_vars PROVE MissingInv'
  OBVIOUS
<1> USE DEF TypeOK, LockInv, MissingInv, Early, file, locks, procs, history,
        Goto, Refuse, Poisoned, Opening, Live, InCall
<1>1. ASSUME NEW p \in Procs, OpenLock(p) PROVE MissingInv'
  BY <1>1 DEF OpenLock
<1>2. ASSUME NEW p \in Procs, OpenAcquire(p) PROVE MissingInv'
  BY <1>2 DEF OpenAcquire
<1>3. ASSUME NEW p \in Procs, OpenCreate(p) PROVE MissingInv'
  BY <1>3 DEF OpenCreate
<1>4. ASSUME NEW p \in Procs, OpenHeader(p) PROVE MissingInv'
  BY <1>4 DEF OpenHeader
<1>5. ASSUME NEW p \in Procs, OpenHeaderSync(p) PROVE MissingInv'
  BY <1>5 DEF OpenHeaderSync
<1>6. ASSUME NEW p \in Procs, OpenReplay(p) PROVE MissingInv'
  BY <1>6 DEF OpenReplay
<1>7. ASSUME NEW p \in Procs, OpenRefused(p) PROVE MissingInv'
  BY <1>7 DEF OpenRefused
<1>8. ASSUME NEW p \in Procs, OpenPin(p) PROVE MissingInv'
  <2> SUFFICES ASSUME at' = "missing"
               PROVE  Tamper = "journal" /\ lockAt' # 0 /\ pin'[lockAt'] = "pinned"
    OBVIOUS
  <2>1. at = "missing" /\ pc[p] \notin Early
    BY <1>8 DEF OpenPin
  <2>2. Tamper = "journal" /\ lockAt # 0 /\ pin[lockAt] = "pinned"
    BY <2>1
  <2>3. lockAt' = lockAt /\ lockAt \in 1..MaxLocks
    BY <1>8, <2>2 DEF OpenPin
  <2>4. pin'[lockAt] = "pinned"
    BY <1>8, <2>2, <2>3 DEF OpenPin
  <2> QED BY <2>2, <2>3, <2>4
<1>9. ASSUME NEW p \in Procs, OpenDone(p) PROVE MissingInv'
  BY <1>9 DEF OpenDone, CurrentState, PathsOK
<1>10. ASSUME NEW p \in Procs, Acquire(p) PROVE MissingInv'
  BY <1>10 DEF Acquire
<1>11. ASSUME NEW p \in Procs, Decide(p) PROVE MissingInv'
  BY <1>11 DEF Decide
<1>12. ASSUME NEW p \in Procs, DecideFails(p) PROVE MissingInv'
  BY <1>12 DEF DecideFails
<1>13. ASSUME NEW p \in Procs, AppendRecord(p) PROVE MissingInv'
  BY <1>13 DEF AppendRecord
<1>14. ASSUME NEW p \in Procs, SyncRecord(p) PROVE MissingInv'
  BY <1>14 DEF SyncRecord
<1>15. ASSUME NEW p \in Procs, Confirm(p) PROVE MissingInv'
  BY <1>15 DEF Confirm
<1>16. ASSUME NEW p \in Procs, ConfirmFails(p) PROVE MissingInv'
  BY <1>16 DEF ConfirmFails
<1>17. ASSUME NEW p \in Procs, Close(p) PROVE MissingInv'
  BY <1>17 DEF Close
<1>18. ASSUME NEW p \in Procs, IOError(p) PROVE MissingInv'
  BY <1>18 DEF IOError, CutShort
<1>19. ASSUME NEW p \in Procs, Kill(p) PROVE MissingInv'
  BY <1>19 DEF Kill, CutShort
<1>20. ASSUME NEW p \in Procs, NEW o \in Ops, Call(p, o) PROVE MissingInv'
  BY <1>20 DEF Call
<1>21. CASE PowerLoss
  BY <1>21 DEF PowerLoss
<1>22. CASE UnlinkLock
  BY <1>22 DEF UnlinkLock
<1>23. CASE ReplaceJournal
  BY <1>23 DEF ReplaceJournal
<1>24. CASE UNCHANGED vars
  BY <1>24 DEF vars
<1> QED
  BY <1>1, <1>2, <1>3, <1>4, <1>5, <1>6, <1>7, <1>8, <1>9, <1>10, <1>11, <1>12,
     <1>13, <1>14, <1>15, <1>16, <1>17, <1>18, <1>19, <1>20, <1>21, <1>22, <1>23, <1>24 DEF Next, Step

\* Nothing is accepted before the directory entries are durable.
LEMMA PublishedStep == TypeOK /\ PublishedInv /\ [Next]_vars => PublishedInv'
<1> SUFFICES ASSUME TypeOK, PublishedInv, [Next]_vars PROVE PublishedInv'
  OBVIOUS
<1> USE DEF TypeOK, PublishedInv, file, locks, procs, history, Goto, Refuse,
        Poisoned, Opening, Live, InCall
<1>1. ASSUME NEW p \in Procs, OpenLock(p) PROVE PublishedInv'
  BY <1>1 DEF OpenLock
<1>2. ASSUME NEW p \in Procs, OpenAcquire(p) PROVE PublishedInv'
  BY <1>2 DEF OpenAcquire
<1>3. ASSUME NEW p \in Procs, OpenCreate(p) PROVE PublishedInv'
  BY <1>3 DEF OpenCreate
<1>4. ASSUME NEW p \in Procs, OpenHeader(p) PROVE PublishedInv'
  BY <1>4 DEF OpenHeader
<1>5. ASSUME NEW p \in Procs, OpenHeaderSync(p) PROVE PublishedInv'
  BY <1>5 DEF OpenHeaderSync
<1>6. ASSUME NEW p \in Procs, OpenReplay(p) PROVE PublishedInv'
  BY <1>6 DEF OpenReplay
<1>7. ASSUME NEW p \in Procs, OpenRefused(p) PROVE PublishedInv'
  BY <1>7 DEF OpenRefused
<1>8. ASSUME NEW p \in Procs, OpenPin(p) PROVE PublishedInv'
  BY <1>8 DEF OpenPin
<1>9. ASSUME NEW p \in Procs, OpenDone(p) PROVE PublishedInv'
  BY <1>9 DEF OpenDone
<1>10. ASSUME NEW p \in Procs, Acquire(p) PROVE PublishedInv'
  BY <1>10 DEF Acquire
<1>11. ASSUME NEW p \in Procs, Decide(p) PROVE PublishedInv'
  BY <1>11 DEF Decide
<1>12. ASSUME NEW p \in Procs, DecideFails(p) PROVE PublishedInv'
  BY <1>12 DEF DecideFails
<1>13. ASSUME NEW p \in Procs, AppendRecord(p) PROVE PublishedInv'
  BY <1>13 DEF AppendRecord
<1>14. ASSUME NEW p \in Procs, SyncRecord(p) PROVE PublishedInv'
  BY <1>14 DEF SyncRecord
<1>15. ASSUME NEW p \in Procs, Confirm(p) PROVE PublishedInv'
  BY <1>15 DEF Confirm
<1>16. ASSUME NEW p \in Procs, ConfirmFails(p) PROVE PublishedInv'
  BY <1>16 DEF ConfirmFails
<1>17. ASSUME NEW p \in Procs, Close(p) PROVE PublishedInv'
  BY <1>17 DEF Close
<1>18. ASSUME NEW p \in Procs, IOError(p) PROVE PublishedInv'
  BY <1>18 DEF IOError
<1>19. ASSUME NEW p \in Procs, Kill(p) PROVE PublishedInv'
  BY <1>19 DEF Kill
<1>20. ASSUME NEW p \in Procs, NEW o \in Ops, Call(p, o) PROVE PublishedInv'
  BY <1>20 DEF Call
<1>21. CASE PowerLoss
  BY <1>21 DEF PowerLoss
<1>22. CASE UnlinkLock
  BY <1>22 DEF UnlinkLock
<1>23. CASE ReplaceJournal
  BY <1>23 DEF ReplaceJournal
<1>24. CASE UNCHANGED vars
  BY <1>24 DEF vars
<1> QED
  BY <1>1, <1>2, <1>3, <1>4, <1>5, <1>6, <1>7, <1>8, <1>9, <1>10, <1>11, <1>12,
     <1>13, <1>14, <1>15, <1>16, <1>17, <1>18, <1>19, <1>20, <1>21, <1>22, <1>23, <1>24 DEF Next, Step

-------------------------------------------------------------------------------
(* What a process knows of the journal.                                    *)

\* A journal is created only when no process uses one and none ever did.
LEMMA CreateIsFirst ==
    ASSUME TypeOK, LockInv, MissingInv, NEW p \in Procs, OpenCreate(p)
    PROVE  ~published /\ \A q \in Procs : pc[q] \in Early
<1>1. pin[myLock[p]] = "empty" /\ at = "missing" /\ pc[p] = "opening"
  BY DEF OpenCreate
<1>2. Tamper = "journal" => myLock[p] = lockAt
  BY <1>1 DEF LockInv
<1>3. ~(Tamper = "journal" /\ pin[lockAt] = "pinned")
  BY <1>1, <1>2
<1> QED BY <1>1, <1>3 DEF MissingInv

\* A step that keeps the records of the journal, or adds to them, and opens it in
\* no process while it is empty, keeps its header.
LEMMA HeadKept ==
    ASSUME TypeOK, HeadInv, NEW p \in Procs,
           log' = log \/ (\E r \in Records : log' = Append(log, r) /\ (log = <<>> => r = Header)),
           \A q \in Procs : q # p => pc'[q] = pc[q],
           pc'[p] \in {"hsync", "pinning", "verifying"} \cup Live => log' # <<>>
    PROVE  HeadInv' /\ Headed'
<1>1. CASE log' = log
  BY <1>1 DEF HeadInv, Headed, TypeOK
<1>2. ASSUME NEW r \in Records, log' = Append(log, r), log = <<>> => r = Header
      PROVE  HeadInv' /\ Headed'
  <2>0. log \in Seq(Records)
    BY DEF TypeOK
  <2>1. log' # <<>> /\ Len(log') = Len(log) + 1
    BY <1>2, <2>0
  <2>2. CASE log = <<>>
    <3>1. log'[1] = Header
      BY <1>2, <2>2
    <3> QED BY <2>1, <3>1 DEF HeadInv, Headed
  <2>3. CASE log # <<>>
    <3>1. log'[1] = log[1]
      BY <1>2, <2>0, <2>3
    <3> QED BY <2>1, <2>3, <3>1 DEF HeadInv, Headed, TypeOK
  <2> QED BY <2>2, <2>3
<1> QED BY <1>1, <1>2

\* A journal that is in use has its header, and nothing is written before it.
LEMMA HeadStep ==
    TypeOK /\ LockInv /\ MissingInv /\ HeadInv /\ CallInv /\ [Next]_vars => HeadInv' /\ Headed'
<1> SUFFICES ASSUME TypeOK, LockInv, MissingInv, HeadInv, CallInv, [Next]_vars PROVE HeadInv' /\ Headed'
  OBVIOUS
<1> USE DEF file, locks, procs, history
<1>1. ASSUME NEW p \in Procs, OpenCreate(p) PROVE HeadInv' /\ Headed'
  <2>1. \A q \in Procs : pc[q] \in Early
    BY <1>1, CreateIsFirst
  <2>2. log' = <<>> /\ \A q \in Procs : pc'[q] \in Early \cup {"header"}
    BY <1>1, <2>1 DEF OpenCreate, Goto, TypeOK
  <2> QED BY <2>2 DEF HeadInv, Headed, Early, Live, InCall
<1>2. ASSUME NEW p \in Procs, OpenHeader(p) PROVE HeadInv' /\ Headed'
  <2>1. Header \in Records /\ log' = Append(log, Header) /\ log' # <<>>
    BY <1>2 DEF OpenHeader, Records, TypeOK
  <2>2. \A q \in Procs : q # p => pc'[q] = pc[q]
    BY <1>2 DEF OpenHeader, Goto, TypeOK
  <2> QED BY <2>1, <2>2, HeadKept
<1>3. ASSUME NEW p \in Procs, AppendRecord(p) PROVE HeadInv' /\ Headed'
  <2>1. log # <<>> /\ op[p] \in Records
    BY <1>3 DEF AppendRecord, HeadInv, Live, InCall, TypeOK
  <2>2. log' # <<>> /\ (log' = log \/ log' = Append(log, op[p]))
    BY <1>3, <2>1 DEF AppendRecord, TypeOK
  <2>3. \A q \in Procs : q # p => pc'[q] = pc[q]
    BY <1>3 DEF AppendRecord, Goto, TypeOK
  <2> QED BY <2>1, <2>2, <2>3, HeadKept
<1>4. ASSUME NEW p \in Procs,
             OpenHeaderSync(p) \/ OpenReplay(p) \/ OpenPin(p) \/ OpenDone(p)
      PROVE  HeadInv' /\ Headed'
  <2>1. log' = log /\ log # <<>>
    BY <1>4 DEF OpenHeaderSync, OpenReplay, OpenPin, OpenDone, HeadInv
  <2>2. \A q \in Procs : q # p => pc'[q] = pc[q]
    BY <1>4 DEF OpenHeaderSync, OpenReplay, OpenPin, OpenDone, Goto, Refuse, TypeOK
  <2> QED BY <2>1, <2>2, HeadKept
<1>5. ASSUME NEW p \in Procs,
             OpenLock(p) \/ OpenAcquire(p) \/ OpenRefused(p) \/ Close(p) \/ Kill(p)
      PROVE  HeadInv' /\ Headed'
  <2>1. log' = log /\ pc'[p] \in Early
    BY <1>5 DEF OpenLock, OpenAcquire, OpenRefused, Close, Kill, Goto, Refuse, TypeOK, Early
  <2>2. \A q \in Procs : q # p => pc'[q] = pc[q]
    BY <1>5 DEF OpenLock, OpenAcquire, OpenRefused, Close, Kill, Goto, Refuse, TypeOK
  <2> QED BY <2>1, <2>2, HeadKept DEF Early, Live, InCall
<1>6. ASSUME NEW p \in Procs,
             \/ \E o \in Ops : Call(p, o)
             \/ Acquire(p) \/ Decide(p) \/ DecideFails(p) \/ SyncRecord(p)
             \/ Confirm(p) \/ ConfirmFails(p)
      PROVE  HeadInv' /\ Headed'
  <2>1. log' = log /\ pc[p] \in Live
    BY <1>6 DEF Call, Acquire, Decide, DecideFails, SyncRecord, Confirm, ConfirmFails, Live, InCall
  <2>2. \A q \in Procs : q # p => pc'[q] = pc[q]
    BY <1>6 DEF Call, Acquire, Decide, DecideFails, SyncRecord, Confirm, ConfirmFails, Goto, Poisoned, TypeOK
  <2>3. log # <<>>
    BY <2>1 DEF HeadInv
  <2> QED BY <2>1, <2>2, <2>3, HeadKept
<1>7. ASSUME NEW p \in Procs, IOError(p) PROVE HeadInv' /\ Headed'
  <2>1. log' = log /\ (pc[p] \in Live \/ pc'[p] = "down")
    BY <1>7 DEF IOError, Refuse, Goto, TypeOK, Live
  <2>2. \A q \in Procs : q # p => pc'[q] = pc[q]
    BY <1>7 DEF IOError, Refuse, Goto, Poisoned, TypeOK
  <2> QED BY <2>1, <2>2, HeadKept DEF HeadInv, Live, InCall
<1>8. CASE PowerLoss
  <2>1. PICK n \in synced..Len(log) : log' = SubSeq(log, 1, n)
    BY <1>8 DEF PowerLoss
  <2>2. Len(log') = n /\ n \in Nat /\ \A i \in 1..n : log'[i] = log[i]
    BY <2>1 DEF TypeOK
  <2>3. Headed'
    <3> SUFFICES ASSUME log' # <<>> PROVE log'[1] = Header
      BY DEF Headed
    <3>1. n >= 1 /\ log # <<>>
      BY <2>1, <2>2 DEF TypeOK
    <3> QED BY <2>2, <3>1 DEF TypeOK, Headed
  <2> QED BY <1>8, <2>3 DEF PowerLoss, HeadInv, Live, InCall
<1>9. CASE UnlinkLock \/ ReplaceJournal \/ UNCHANGED vars
  BY <1>9 DEF UnlinkLock, ReplaceJournal, vars, HeadInv, Headed, TypeOK
<1> QED BY <1>1, <1>2, <1>3, <1>4, <1>5, <1>6, <1>7, <1>8, <1>9 DEF Next, Step

\* The journal is only written at its end.
LogGrows == /\ Len(log') \in Nat /\ Len(log') >= Len(log)
            /\ \A i \in 1..Len(log) : log'[i] = log[i]

\* Appending a record leaves the records before it in place.
LEMMA AppendGrows ==
    ASSUME TypeOK, NEW r \in Records, log' = Append(log, r)
    PROVE  LogGrows /\ Len(log') = Len(log) + 1 /\ log'[Len(log')] = r
  BY DEF TypeOK, LogGrows

\* A step that leaves the journal alone leaves its records in place.
LEMMA SameGrows == TypeOK /\ log' = log => LogGrows
  BY DEF TypeOK, LogGrows

\* A process that does nothing keeps a correct view while others write.
LEMMA ViewKept ==
    ASSUME TypeOK, NEW q \in Procs, View(q), LogGrows,
           pc'[q] = pc[q], offset'[q] = offset[q], seen'[q] = seen[q],
           poison'[q] = poison[q]
    PROVE  View(q)'
<1> SUFFICES ASSUME Viewing(q)' PROVE View(q)'
  BY DEF View
<1>1. Viewing(q) /\ Accounted(q)' = Accounted(q)
  BY DEF Viewing, Accounted
<1>2. Accounted(q) \in 0..Len(log) /\ seen[q] = Redeemed(log, Accounted(q))
  BY <1>1 DEF View
<1>3. Redeemed(log', Accounted(q)) = Redeemed(log, Accounted(q))
  BY <1>2, RedeemedPrefix DEF LogGrows, TypeOK
<1> QED BY <1>1, <1>2, <1>3 DEF View, LogGrows, TypeOK

\* The map of every store that is not poisoned stays the replay of what it has
\* accounted for.
LEMMA ViewStep ==
    /\ TypeOK /\ LockInv /\ MissingInv /\ ViewInv /\ CallInv /\ WroteInv
    /\ [Next]_vars
    => ViewInv'
<1> SUFFICES ASSUME TypeOK, LockInv, MissingInv, ViewInv, CallInv, WroteInv,
                    [Next]_vars, NEW q \in Procs
             PROVE  View(q)'
  BY DEF ViewInv
<1>0. View(q) /\ Len(log) \in Nat /\ LogGrows \in BOOLEAN
  BY DEF ViewInv, TypeOK, LogGrows
<1> USE DEF file, locks, procs, history, Goto, Refuse, Poisoned
<1>1. ASSUME NEW p \in Procs, OpenLock(p) PROVE View(q)'
  <2>1. CASE q # p
    <3>1. LogGrows
      BY <1>1, SameGrows DEF OpenLock
    <3> QED BY <1>0, <1>1, <2>1, <3>1, ViewKept DEF OpenLock, TypeOK
  <2>2. CASE q = p
    BY <1>1, <2>2 DEF OpenLock, View, Viewing, Live, InCall, TypeOK
  <2> QED BY <2>1, <2>2
<1>2. ASSUME NEW p \in Procs, OpenAcquire(p) PROVE View(q)'
  <2>1. CASE q # p
    <3>1. LogGrows
      BY <1>2, SameGrows DEF OpenAcquire
    <3> QED BY <1>0, <1>2, <2>1, <3>1, ViewKept DEF OpenAcquire, TypeOK
  <2>2. CASE q = p
    BY <1>2, <2>2 DEF OpenAcquire, View, Viewing, Live, InCall, TypeOK
  <2> QED BY <2>1, <2>2
<1>3. ASSUME NEW p \in Procs, OpenCreate(p) PROVE View(q)'
  <2>1. \A r \in Procs : pc[r] \in Early
    BY <1>3, CreateIsFirst
  <2> QED BY <1>3, <2>1 DEF OpenCreate, View, Viewing, Early, Live, InCall, TypeOK
<1>4. ASSUME NEW p \in Procs, OpenHeader(p) PROVE View(q)'
  <2>1. LogGrows
    BY <1>4, AppendGrows DEF OpenHeader, Records
  <2>2. CASE q # p
    BY <1>0, <1>4, <2>1, <2>2, ViewKept DEF OpenHeader, TypeOK
  <2>3. CASE q = p
    BY <1>4, <2>3 DEF OpenHeader, View, Viewing, Live, InCall, TypeOK
  <2> QED BY <2>2, <2>3
<1>5. ASSUME NEW p \in Procs, OpenHeaderSync(p) PROVE View(q)'
  <2>1. CASE q # p
    <3>1. LogGrows
      BY <1>5, SameGrows DEF OpenHeaderSync
    <3> QED BY <1>0, <1>5, <2>1, <3>1, ViewKept DEF OpenHeaderSync, TypeOK
  <2>2. CASE q = p
    <3>1. seen'[p] = Redeemed(log, Len(log)) /\ offset'[p] = Len(log)
      BY <1>5, OpenIsReplay, <1>0 DEF OpenHeaderSync, TypeOK
    <3>2. Accounted(p)' = Len(log) /\ log' = log
      BY <1>5, <3>1 DEF OpenHeaderSync, Accounted, TypeOK
    <3> QED BY <1>0, <2>2, <3>1, <3>2 DEF View
  <2> QED BY <2>1, <2>2
<1>6. ASSUME NEW p \in Procs, OpenReplay(p) PROVE View(q)'
  <2>1. CASE q # p
    <3>1. LogGrows
      BY <1>6, SameGrows DEF OpenReplay
    <3> QED BY <1>0, <1>6, <2>1, <3>1, ViewKept DEF OpenReplay, TypeOK
  <2>2. CASE q = p
    <3>1. seen'[p] = Redeemed(log, Len(log)) /\ offset'[p] = Len(log)
      BY <1>6, OpenIsReplay, <1>0 DEF OpenReplay, TypeOK
    <3>2. Accounted(p)' = Len(log) /\ log' = log
      BY <1>6, <3>1 DEF OpenReplay, Accounted, TypeOK
    <3> QED BY <1>0, <2>2, <3>1, <3>2 DEF View
  <2> QED BY <2>1, <2>2
<1>7. ASSUME NEW p \in Procs, OpenRefused(p) PROVE View(q)'
  <2>1. CASE q # p
    <3>1. LogGrows
      BY <1>7, SameGrows DEF OpenRefused
    <3> QED BY <1>0, <1>7, <2>1, <3>1, ViewKept DEF OpenRefused, TypeOK
  <2>2. CASE q = p
    BY <1>7, <2>2 DEF OpenRefused, View, Viewing, Live, InCall, TypeOK
  <2> QED BY <2>1, <2>2
<1>8. ASSUME NEW p \in Procs, OpenPin(p) PROVE View(q)'
  <2>1. CASE q # p
    <3>1. LogGrows
      BY <1>8, SameGrows DEF OpenPin
    <3> QED BY <1>0, <1>8, <2>1, <3>1, ViewKept DEF OpenPin, TypeOK
  <2>2. CASE q = p
    BY <1>0, <1>8, <2>2 DEF OpenPin, View, Viewing, Accounted, Live, InCall,
        TypeOK
  <2> QED BY <2>1, <2>2
<1>9. ASSUME NEW p \in Procs, OpenDone(p) PROVE View(q)'
  <2>1. CASE q # p
    <3>1. LogGrows
      BY <1>9, SameGrows DEF OpenDone
    <3> QED BY <1>0, <1>9, <2>1, <3>1, ViewKept DEF OpenDone, TypeOK
  <2>2. CASE q = p
    BY <1>0, <1>9, <2>2 DEF OpenDone, View, Viewing, Accounted, Live, InCall,
        TypeOK
  <2> QED BY <2>1, <2>2
<1>10. ASSUME NEW p \in Procs, Acquire(p) PROVE View(q)'
  <2>1. CASE q # p
    <3>1. LogGrows
      BY <1>10, SameGrows DEF Acquire
    <3> QED BY <1>0, <1>10, <2>1, <3>1, ViewKept DEF Acquire, TypeOK
  <2>2. CASE q = p
    BY <1>0, <1>10, <2>2 DEF Acquire, View, Viewing, Accounted, Live, InCall,
        TypeOK
  <2> QED BY <2>1, <2>2
<1>11. ASSUME NEW p \in Procs, Decide(p) PROVE View(q)'
  <2>1. CASE q # p
    <3>1. LogGrows
      BY <1>11, SameGrows DEF Decide
    <3> QED BY <1>0, <1>11, <2>1, <3>1, ViewKept DEF Decide, TypeOK
  <2>2. CASE q = p
    <3>1. pc[p] = "decide" /\ ~poison[p]
      BY <1>11 DEF Decide, CallInv, Calling, InCall
    <3>2. offset[p] \in 0..Len(log) /\ seen[p] = Redeemed(log, offset[p])
      BY <1>0, <2>2, <3>1 DEF View, Viewing, Accounted, Live, InCall
    <3>3. seen'[p] = Redeemed(log, Len(log)) /\ offset'[p] = Len(log)
      BY <1>0, <1>11, <3>2, RefreshIsReplay DEF Decide, TypeOK
    <3>4. Accounted(p)' = Len(log) /\ log' = log
      BY <1>11, <3>3 DEF Decide, Accounted, TypeOK
    <3> QED BY <1>0, <2>2, <3>3, <3>4 DEF View
  <2> QED BY <2>1, <2>2
<1>12. ASSUME NEW p \in Procs, DecideFails(p) PROVE View(q)'
  <2>1. CASE q # p
    <3>1. LogGrows
      BY <1>12, SameGrows DEF DecideFails
    <3> QED BY <1>0, <1>12, <2>1, <3>1, ViewKept DEF DecideFails, TypeOK
  <2>2. CASE q = p
    BY <1>12, <2>2 DEF DecideFails, View, Viewing, Live, InCall, TypeOK
  <2> QED BY <2>1, <2>2
<1>13. ASSUME NEW p \in Procs, AppendRecord(p) PROVE View(q)'
  <2>1. LogGrows
    BY <1>13, AppendGrows, SameGrows DEF AppendRecord, TypeOK
  <2>2. CASE q # p
    BY <1>0, <1>13, <2>1, <2>2, ViewKept DEF AppendRecord, TypeOK
  <2>3. CASE q = p
    <3>1. /\ pc[p] = "append" /\ pc'[p] = "sync" /\ ~poison[p]
          /\ Accounted(p) = offset[p] /\ Accounted(p)' = offset[p]
          /\ seen'[p] = seen[p]
      BY <1>13 DEF AppendRecord, Accounted, TypeOK, CallInv, Calling, InCall
    <3>2. offset[p] \in 0..Len(log) /\ seen[p] = Redeemed(log, offset[p])
      BY <1>0, <2>3, <3>1 DEF View, Viewing, Live, InCall
    <3>3. Redeemed(log', offset[p]) = Redeemed(log, offset[p])
      BY <2>1, <3>2, RedeemedPrefix DEF LogGrows
    <3> QED BY <2>1, <2>3, <3>1, <3>2, <3>3 DEF View, LogGrows
  <2> QED BY <2>2, <2>3
<1>14. ASSUME NEW p \in Procs, SyncRecord(p) PROVE View(q)'
  <2>1. CASE q # p
    <3>1. LogGrows
      BY <1>14, SameGrows DEF SyncRecord
    <3> QED BY <1>0, <1>14, <2>1, <3>1, ViewKept DEF SyncRecord, TypeOK
  <2>2. CASE q = p
    <3>1. /\ pc[p] = "sync" /\ pc'[p] = "confirm" /\ ~poison[p]
          /\ offset'[p] = offset[p] + 1 /\ seen'[p] = seen[p] /\ log' = log
      BY <1>14 DEF SyncRecord, CallInv, Calling, InCall, TypeOK
    <3>2. Accounted(p)' = Accounted(p) /\ Viewing(p)
      BY <3>1 DEF Accounted, Viewing, Live, InCall, TypeOK
    <3> QED BY <1>0, <2>2, <3>1, <3>2 DEF View
  <2> QED BY <2>1, <2>2
<1>15. ASSUME NEW p \in Procs, Confirm(p) PROVE View(q)'
  <2>1. CASE q # p
    <3>1. LogGrows
      BY <1>15, SameGrows DEF Confirm
    <3> QED BY <1>0, <1>15, <2>1, <3>1, ViewKept DEF Confirm, TypeOK
  <2>2. CASE q = p
    <3>1. /\ pc[p] = "confirm" /\ pc'[p] = "idle" /\ ~poison[p]
          /\ offset'[p] = offset[p] /\ log' = log /\ ~torn
          /\ seen'[p] = Apply(seen[p], op[p]) /\ Len(log) = offset[p]
      BY <1>15 DEF Confirm, CallInv, Calling, InCall, TypeOK, CurrentState
    <3>2. Accounted(p) = offset[p] - 1 /\ Accounted(p)' = offset[p]
      BY <3>1 DEF Accounted
    <3>3. offset[p] - 1 \in Nat /\ seen[p] = Redeemed(log, offset[p] - 1)
      BY <1>0, <2>2, <3>1, <3>2 DEF View, Viewing, Live, InCall
    <3>4. log[Len(log)] = op[p]
      BY <3>1, <3>2 DEF WroteInv, Written, Wrote, AtTail, TypeOK
    <3>5. Apply(Redeemed(log, offset[p] - 1), log[offset[p]])
            = Redeemed(log, offset[p])
      <4>1. (offset[p] - 1) + 1 = offset[p]
        BY <3>1, <1>0
      <4>2. Apply(Redeemed(log, offset[p] - 1), log[(offset[p] - 1) + 1])
              = Redeemed(log, (offset[p] - 1) + 1)
        BY <3>3, ApplyIsReplay
      <4> QED BY <4>1, <4>2
    <3>6. seen'[p] = Redeemed(log, offset[p])
      BY <3>1, <3>3, <3>4, <3>5
    <3>7. offset[p] \in 0..Len(log)
      BY <3>1, <1>0
    <3> QED BY <2>2, <3>1, <3>2, <3>6, <3>7 DEF View
  <2> QED BY <2>1, <2>2
<1>16. ASSUME NEW p \in Procs, ConfirmFails(p) PROVE View(q)'
  <2>1. CASE q # p
    <3>1. LogGrows
      BY <1>16, SameGrows DEF ConfirmFails
    <3> QED BY <1>0, <1>16, <2>1, <3>1, ViewKept DEF ConfirmFails, TypeOK
  <2>2. CASE q = p
    BY <1>16, <2>2 DEF ConfirmFails, View, Viewing, Live, InCall, TypeOK
  <2> QED BY <2>1, <2>2
<1>17. ASSUME NEW p \in Procs, Close(p) PROVE View(q)'
  <2>1. CASE q # p
    <3>1. LogGrows
      BY <1>17, SameGrows DEF Close
    <3> QED BY <1>0, <1>17, <2>1, <3>1, ViewKept DEF Close, TypeOK
  <2>2. CASE q = p
    BY <1>17, <2>2 DEF Close, View, Viewing, Live, InCall, TypeOK
  <2> QED BY <2>1, <2>2
<1>18. ASSUME NEW p \in Procs, IOError(p) PROVE View(q)'
  <2>1. CASE q # p
    <3>1. LogGrows
      BY <1>18, SameGrows DEF IOError
    <3> QED BY <1>0, <1>18, <2>1, <3>1, ViewKept DEF IOError, TypeOK
  <2>2. CASE q = p
    BY <1>18, <2>2 DEF IOError, View, Viewing, Live, InCall, Opening, TypeOK
  <2> QED BY <2>1, <2>2
<1>19. ASSUME NEW p \in Procs, Kill(p) PROVE View(q)'
  <2>1. CASE q # p
    <3>1. LogGrows
      BY <1>19, SameGrows DEF Kill
    <3> QED BY <1>0, <1>19, <2>1, <3>1, ViewKept DEF Kill, TypeOK
  <2>2. CASE q = p
    BY <1>19, <2>2 DEF Kill, View, Viewing, Live, InCall, TypeOK
  <2> QED BY <2>1, <2>2
<1>20. ASSUME NEW p \in Procs, NEW o \in Ops, Call(p, o) PROVE View(q)'
  <2>1. LogGrows
    BY <1>20, SameGrows DEF Call
  <2>2. CASE q # p
    BY <1>0, <1>20, <2>1, <2>2, ViewKept DEF Call, TypeOK
  <2>3. CASE q = p
    BY <1>0, <1>20, <2>3 DEF Call, View, Viewing, Accounted, Live, InCall, TypeOK
  <2> QED BY <2>2, <2>3
<1>21. CASE PowerLoss
  BY <1>21 DEF PowerLoss, View, Viewing, Live, InCall
<1>22. CASE UnlinkLock
  BY <1>0, <1>22, SameGrows, ViewKept DEF UnlinkLock
<1>23. CASE ReplaceJournal
  BY <1>0, <1>23, SameGrows, ViewKept DEF ReplaceJournal
<1>24. CASE UNCHANGED vars
  BY <1>0, <1>24, SameGrows, ViewKept DEF vars
<1> QED
  BY <1>1, <1>2, <1>3, <1>4, <1>5, <1>6, <1>7, <1>8, <1>9, <1>10, <1>11, <1>12,
     <1>13, <1>14, <1>15, <1>16, <1>17, <1>18, <1>19, <1>20, <1>21, <1>22, <1>23, <1>24 DEF Next, Step
\* A call in progress is on a store that is not poisoned, and a record that is
\* being written is one the map asks for.
LEMMA CallStep == TypeOK /\ CallInv /\ [Next]_vars => CallInv'
<1> SUFFICES ASSUME TypeOK, CallInv, [Next]_vars, NEW q \in Procs
             PROVE  Calling(q)'
  BY DEF CallInv
<1>0. Calling(q)
  BY DEF CallInv
<1> USE DEF Calling, file, locks, procs, history, Goto, Refuse, Poisoned, InCall,
        Live, Opening, TypeOK
<1>1. ASSUME NEW p \in Procs, OpenLock(p) PROVE Calling(q)'
  BY <1>0, <1>1 DEF OpenLock
<1>2. ASSUME NEW p \in Procs, OpenAcquire(p) PROVE Calling(q)'
  BY <1>0, <1>2 DEF OpenAcquire
<1>3. ASSUME NEW p \in Procs, OpenCreate(p) PROVE Calling(q)'
  BY <1>0, <1>3 DEF OpenCreate
<1>4. ASSUME NEW p \in Procs, OpenHeader(p) PROVE Calling(q)'
  BY <1>0, <1>4 DEF OpenHeader
<1>5. ASSUME NEW p \in Procs, OpenHeaderSync(p) PROVE Calling(q)'
  BY <1>0, <1>5 DEF OpenHeaderSync
<1>6. ASSUME NEW p \in Procs, OpenReplay(p) PROVE Calling(q)'
  BY <1>0, <1>6 DEF OpenReplay
<1>7. ASSUME NEW p \in Procs, OpenRefused(p) PROVE Calling(q)'
  BY <1>0, <1>7 DEF OpenRefused
<1>8. ASSUME NEW p \in Procs, OpenPin(p) PROVE Calling(q)'
  BY <1>0, <1>8 DEF OpenPin
<1>9. ASSUME NEW p \in Procs, OpenDone(p) PROVE Calling(q)'
  BY <1>0, <1>9 DEF OpenDone
<1>10. ASSUME NEW p \in Procs, Acquire(p) PROVE Calling(q)'
  BY <1>0, <1>10 DEF Acquire
<1>11. ASSUME NEW p \in Procs, Decide(p) PROVE Calling(q)'
  BY <1>0, <1>11 DEF Decide
<1>12. ASSUME NEW p \in Procs, DecideFails(p) PROVE Calling(q)'
  BY <1>0, <1>12 DEF DecideFails
<1>13. ASSUME NEW p \in Procs, AppendRecord(p) PROVE Calling(q)'
  BY <1>0, <1>13 DEF AppendRecord
<1>14. ASSUME NEW p \in Procs, SyncRecord(p) PROVE Calling(q)'
  BY <1>0, <1>14 DEF SyncRecord
<1>15. ASSUME NEW p \in Procs, Confirm(p) PROVE Calling(q)'
  BY <1>0, <1>15 DEF Confirm
<1>16. ASSUME NEW p \in Procs, ConfirmFails(p) PROVE Calling(q)'
  BY <1>0, <1>16 DEF ConfirmFails
<1>17. ASSUME NEW p \in Procs, Close(p) PROVE Calling(q)'
  BY <1>0, <1>17 DEF Close
<1>18. ASSUME NEW p \in Procs, IOError(p) PROVE Calling(q)'
  BY <1>0, <1>18 DEF IOError
<1>19. ASSUME NEW p \in Procs, Kill(p) PROVE Calling(q)'
  BY <1>0, <1>19 DEF Kill
<1>20. ASSUME NEW p \in Procs, NEW o \in Ops, Call(p, o) PROVE Calling(q)'
  BY <1>0, <1>20 DEF Call
<1>21. CASE PowerLoss
  BY <1>0, <1>21 DEF PowerLoss
<1>22. CASE UnlinkLock
  BY <1>0, <1>22 DEF UnlinkLock
<1>23. CASE ReplaceJournal
  BY <1>0, <1>23 DEF ReplaceJournal
<1>24. CASE UNCHANGED vars
  BY <1>0, <1>24 DEF vars
<1> QED
  BY <1>1, <1>2, <1>3, <1>4, <1>5, <1>6, <1>7, <1>8, <1>9, <1>10, <1>11, <1>12,
     <1>13, <1>14, <1>15, <1>16, <1>17, <1>18, <1>19, <1>20, <1>21, <1>22, <1>23, <1>24 DEF Next, Step

-------------------------------------------------------------------------------
(* Exclusive claims.                                                       *)

\* A step that leaves the journal and its claims alone leaves a writer's
\* position alone.
LEMMA WrittenKept ==
    ASSUME TypeOK, NEW q \in Procs, Written(q), log' = log, holder' = holder,
           synced' >= synced, synced' \in Nat,
           pc'[q] \in Wrote => /\ pc'[q] = pc[q] /\ op'[q] = op[q]
                               /\ offset'[q] = offset[q],
           \A r \in Procs : pc'[r] \in Wrote =>
                pc'[r] = pc[r] /\ offset'[r] = offset[r]
    PROVE  Written(q)'
<1> SUFFICES ASSUME pc'[q] \in Wrote PROVE Written(q)'
  BY DEF Written
<1>1. \A r \in Procs : pc'[r] \in Wrote =>
          /\ pc[r] \in Wrote
          /\ Accounted(r)' = Accounted(r) /\ AtTail(r)' = AtTail(r)
  BY DEF Accounted, AtTail
<1>2. Accounted(q) \in Int /\ synced \in Nat
  BY DEF Accounted, TypeOK
<1> QED BY <1>1, <1>2 DEF Written

\* The writers of the journal keep to its end, or find that they do not.
LEMMA WroteStep ==
    IInv /\ [Next]_vars => WroteInv'
<1> SUFFICES ASSUME IInv, [Next]_vars, ~torn', NEW q \in Procs
             PROVE  Written(q)'
  BY DEF WroteInv
<1>0. TypeOK /\ Len(log) \in Nat /\ synced \in 0..Len(log)
  BY DEF IInv, TypeOK
<1> USE DEF file, locks, procs, history, Goto, Refuse, Poisoned
<1>1. ASSUME NEW p \in Procs, OpenLock(p) PROVE Written(q)'
  <2>1. Written(q)
    BY <1>0, <1>1 DEF OpenLock, IInv, WroteInv, TypeOK
  <2>2. /\ log' = log /\ holder' = holder /\ synced' \in Nat /\ synced' >= synced
        /\ \A r \in Procs : pc'[r] \in Wrote =>
              pc'[r] = pc[r] /\ op'[r] = op[r] /\ offset'[r] = offset[r]
    BY <1>0, <1>1 DEF OpenLock, Wrote, TypeOK
  <2> QED BY <1>0, <2>1, <2>2, WrittenKept
<1>2. ASSUME NEW p \in Procs, OpenAcquire(p) PROVE Written(q)'
  <2>1. Written(q)
    BY <1>0, <1>2 DEF OpenAcquire, IInv, WroteInv, TypeOK
  <2>2. /\ log' = log /\ holder' = holder /\ synced' \in Nat /\ synced' >= synced
        /\ \A r \in Procs : pc'[r] \in Wrote =>
              pc'[r] = pc[r] /\ op'[r] = op[r] /\ offset'[r] = offset[r]
    BY <1>0, <1>2 DEF OpenAcquire, Wrote, TypeOK
  <2> QED BY <1>0, <2>1, <2>2, WrittenKept
<1>3. ASSUME NEW p \in Procs, OpenCreate(p) PROVE Written(q)'
  <2>1. \A r \in Procs : pc[r] \in Early
    BY <1>0, <1>3, CreateIsFirst DEF IInv
  <2> QED BY <1>0, <1>3, <2>1 DEF OpenCreate, Written, Wrote, Early, TypeOK
<1>4. ASSUME NEW p \in Procs, OpenHeader(p) PROVE Written(q)'
  <2>1. ~torn /\ log' = Append(log, Header) /\ Header \in Records
    BY <1>0, <1>4 DEF OpenHeader, TypeOK, Records
  <2>2. Len(log') = Len(log) + 1 /\ log'[Len(log')] = Header
    BY <1>0, <2>1, AppendGrows
  <2>3. ASSUME NEW r \in Procs, pc[r] \in Wrote, pc'[r] = pc[r]
        PROVE  ~AtTail(r)' /\ Len(log') > Accounted(r)'
    <3>1. Written(r) /\ Accounted(r)' = Accounted(r) /\ Accounted(r) \in Int
      BY <1>0, <1>4, <2>1, <2>3 DEF OpenHeader, IInv, WroteInv, Accounted, TypeOK
    <3> QED BY <1>0, <2>2, <2>3, <3>1 DEF Written, AtTail
  <2>4. \A r \in Procs : pc'[r] \in Wrote => pc'[r] = pc[r]
    BY <1>0, <1>4 DEF OpenHeader, TypeOK, Wrote
  <2>5. CASE pc'[q] \in Wrote
    <3>1. /\ Written(q) /\ Accounted(q)' = Accounted(q) /\ synced' = synced
          /\ pc'[q] = pc[q]
      BY <1>0, <1>4, <2>1, <2>4, <2>5 DEF OpenHeader, IInv, WroteInv, Accounted,
         TypeOK
    <3> QED BY <2>3, <2>5, <3>1 DEF Written
  <2> QED BY <2>5 DEF Written
<1>5. ASSUME NEW p \in Procs, OpenHeaderSync(p) PROVE Written(q)'
  <2>1. Written(q)
    BY <1>0, <1>5 DEF OpenHeaderSync, IInv, WroteInv, TypeOK
  <2>2. /\ log' = log /\ holder' = holder /\ synced' \in Nat /\ synced' >= synced
        /\ \A r \in Procs : pc'[r] \in Wrote =>
              pc'[r] = pc[r] /\ op'[r] = op[r] /\ offset'[r] = offset[r]
    BY <1>0, <1>5 DEF OpenHeaderSync, Wrote, TypeOK
  <2> QED BY <1>0, <2>1, <2>2, WrittenKept
<1>6. ASSUME NEW p \in Procs, OpenReplay(p) PROVE Written(q)'
  <2>1. Written(q)
    BY <1>0, <1>6 DEF OpenReplay, IInv, WroteInv, TypeOK
  <2>2. /\ log' = log /\ holder' = holder /\ synced' \in Nat /\ synced' >= synced
        /\ \A r \in Procs : pc'[r] \in Wrote =>
              pc'[r] = pc[r] /\ op'[r] = op[r] /\ offset'[r] = offset[r]
    BY <1>0, <1>6 DEF OpenReplay, Wrote, TypeOK
  <2> QED BY <1>0, <2>1, <2>2, WrittenKept
<1>7. ASSUME NEW p \in Procs, OpenRefused(p) PROVE Written(q)'
  <2>1. Written(q)
    BY <1>0, <1>7 DEF OpenRefused, IInv, WroteInv, TypeOK
  <2>2. /\ log' = log /\ holder' = holder /\ synced' \in Nat /\ synced' >= synced
        /\ \A r \in Procs : pc'[r] \in Wrote =>
              pc'[r] = pc[r] /\ op'[r] = op[r] /\ offset'[r] = offset[r]
    BY <1>0, <1>7 DEF OpenRefused, Wrote, TypeOK
  <2> QED BY <1>0, <2>1, <2>2, WrittenKept
<1>8. ASSUME NEW p \in Procs, OpenPin(p) PROVE Written(q)'
  <2>1. Written(q)
    BY <1>0, <1>8 DEF OpenPin, IInv, WroteInv, TypeOK
  <2>2. /\ log' = log /\ holder' = holder /\ synced' \in Nat /\ synced' >= synced
        /\ \A r \in Procs : pc'[r] \in Wrote =>
              pc'[r] = pc[r] /\ op'[r] = op[r] /\ offset'[r] = offset[r]
    BY <1>0, <1>8 DEF OpenPin, Wrote, TypeOK
  <2> QED BY <1>0, <2>1, <2>2, WrittenKept
<1>9. ASSUME NEW p \in Procs, OpenDone(p) PROVE Written(q)'
  <2>1. Written(q)
    BY <1>0, <1>9 DEF OpenDone, IInv, WroteInv, TypeOK
  <2>2. /\ log' = log /\ holder' = holder /\ synced' \in Nat /\ synced' >= synced
        /\ \A r \in Procs : pc'[r] \in Wrote =>
              pc'[r] = pc[r] /\ op'[r] = op[r] /\ offset'[r] = offset[r]
    BY <1>0, <1>9 DEF OpenDone, Wrote, TypeOK
  <2> QED BY <1>0, <2>1, <2>2, WrittenKept
<1>10. ASSUME NEW p \in Procs, Acquire(p) PROVE Written(q)'
  <2>1. Written(q)
    BY <1>0, <1>10 DEF Acquire, IInv, WroteInv, TypeOK
  <2>2. /\ log' = log /\ holder' = holder /\ synced' \in Nat /\ synced' >= synced
        /\ \A r \in Procs : pc'[r] \in Wrote =>
              pc'[r] = pc[r] /\ op'[r] = op[r] /\ offset'[r] = offset[r]
    BY <1>0, <1>10 DEF Acquire, Wrote, TypeOK
  <2> QED BY <1>0, <2>1, <2>2, WrittenKept
<1>11. ASSUME NEW p \in Procs, Decide(p) PROVE Written(q)'
  <2>1. Written(q)
    BY <1>0, <1>11 DEF Decide, IInv, WroteInv, TypeOK
  <2>2. /\ log' = log /\ holder' = holder /\ synced' \in Nat /\ synced' >= synced
        /\ \A r \in Procs : pc'[r] \in Wrote =>
              pc'[r] = pc[r] /\ op'[r] = op[r] /\ offset'[r] = offset[r]
    BY <1>0, <1>11 DEF Decide, Wrote, TypeOK
  <2> QED BY <1>0, <2>1, <2>2, WrittenKept
<1>12. ASSUME NEW p \in Procs, DecideFails(p) PROVE Written(q)'
  <2>1. Written(q)
    BY <1>0, <1>12 DEF DecideFails, IInv, WroteInv, TypeOK
  <2>2. /\ log' = log /\ holder' = holder /\ synced' \in Nat /\ synced' >= synced
        /\ \A r \in Procs : pc'[r] \in Wrote =>
              pc'[r] = pc[r] /\ op'[r] = op[r] /\ offset'[r] = offset[r]
    BY <1>0, <1>12 DEF DecideFails, Wrote, TypeOK
  <2> QED BY <1>0, <2>1, <2>2, WrittenKept
<1>13. ASSUME NEW p \in Procs, AppendRecord(p) PROVE Written(q)'
  <2>1. ~torn /\ log' = Append(log, op[p]) /\ op[p] \in Records
    BY <1>0, <1>13 DEF AppendRecord, TypeOK, Records
  <2>2. Len(log') = Len(log) + 1 /\ log'[Len(log')] = op[p]
    BY <1>0, <2>1, AppendGrows
  <2>3. ASSUME NEW r \in Procs, pc[r] \in Wrote, pc'[r] = pc[r]
        PROVE  ~AtTail(r)' /\ Len(log') > Accounted(r)'
    <3>1. Written(r) /\ Accounted(r)' = Accounted(r) /\ Accounted(r) \in Int
      BY <1>0, <1>13, <2>1, <2>3 DEF AppendRecord, IInv, WroteInv, Accounted, TypeOK
    <3> QED BY <1>0, <2>2, <2>3, <3>1 DEF Written, AtTail
  <2>4. CASE q # p
    <3>1. pc'[q] = pc[q] /\ Written(q) /\ Accounted(q)' = Accounted(q)
      BY <1>0, <1>13, <2>1, <2>4 DEF AppendRecord, IInv, WroteInv, Accounted,
         TypeOK
    <3>2. synced' = synced
      BY <1>13 DEF AppendRecord
    <3> QED BY <2>3, <3>1, <3>2 DEF Written
  <2>5. CASE q = p
    <3>1. /\ pc[p] = "append" /\ pc'[p] = "sync" /\ op'[p] = op[p]
          /\ Accounted(p) = offset[p] /\ Accounted(p)' = offset[p]
      BY <1>0, <1>13 DEF AppendRecord, Accounted, TypeOK
    <3>2. /\ offset[p] \in 0..Len(log) /\ seen[p] = Redeemed(log, offset[p])
          /\ op[p] \in Ops /\ ~Needless(op[p], seen[p])
      BY <3>1 DEF IInv, ViewInv, View, Viewing, CallInv, Calling, InCall, Live
    <3>3. AtTail(p)' => offset[p] = Len(log)
      BY <1>0, <2>2, <3>1, <3>2 DEF AtTail
    <3>4. ASSUME AtTail(p)', NEW t \in Tokens, Claims(op[p], t)
          PROVE  holder'[t] = None
      <4>1. t \notin Redeemed(log, Len(log))
        BY <3>2, <3>3, <3>4 DEF Needless, Claims
      <4>2. holder[t] = None
        BY <1>0, <4>1 DEF IInv, RedemptionIsDurable
      <4> QED BY <1>13, <4>2 DEF AppendRecord
    <3>5. ASSUME AtTail(p)', NEW r \in Procs, pc'[r] \in Wrote, AtTail(r)'
          PROVE  r = p
      <4>1. r # p => pc'[r] = pc[r]
        BY <1>0, <1>13 DEF AppendRecord, TypeOK
      <4> QED BY <2>3, <3>5, <4>1
    <3>6. Len(log') > Accounted(p)'
      BY <1>0, <2>2, <3>1, <3>2
    <3> QED BY <2>2, <2>5, <3>1, <3>4, <3>5, <3>6 DEF Written
  <2> QED BY <2>4, <2>5
<1>14. ASSUME NEW p \in Procs, SyncRecord(p) PROVE Written(q)'
  <2>1. /\ pc[p] = "sync" /\ pc'[p] = "confirm" /\ log' = log /\ torn' = torn
        /\ holder' = holder /\ op' = op /\ synced' = Len(log)
    BY <1>0, <1>14 DEF SyncRecord, TypeOK
  <2>2. \A r \in Procs : /\ pc'[r] \in Wrote <=> pc[r] \in Wrote
                         /\ Accounted(r)' = Accounted(r)
                         /\ AtTail(r)' = AtTail(r)
                         /\ Accounted(r) \in Int
    BY <1>0, <1>14, <2>1 DEF SyncRecord, Accounted, AtTail, Wrote, TypeOK
  <2>3. Written(q)
    BY <2>1 DEF IInv, WroteInv
  <2> QED BY <1>0, <2>1, <2>2, <2>3 DEF Written
<1>15. ASSUME NEW p \in Procs, Confirm(p) PROVE Written(q)'
  <2>1. /\ pc[p] = "confirm" /\ pc'[p] = "idle" /\ log' = log /\ torn' = torn
        /\ op' = op /\ synced' = synced /\ offset' = offset
        /\ \A r \in Procs : r # p => pc'[r] = pc[r]
    BY <1>0, <1>15 DEF Confirm, TypeOK
  <2>2. Accounted(p) = offset[p] - 1 /\ AtTail(p) /\ Written(p) /\ Written(q)
    BY <1>0, <1>15, <2>1 DEF Confirm, CurrentState, Accounted, AtTail, IInv,
       WroteInv, TypeOK
  <2>3. \A r \in Procs : pc'[r] \in Wrote =>
            /\ r # p /\ pc'[r] = pc[r]
            /\ Accounted(r)' = Accounted(r) /\ AtTail(r)' = AtTail(r)
    BY <2>1 DEF Accounted, AtTail, Wrote
  <2>4. pc[q] \in Wrote /\ q # p => ~AtTail(q)
    BY <2>1, <2>2 DEF Written, Wrote
  <2> QED BY <2>1, <2>2, <2>3, <2>4 DEF Written
<1>16. ASSUME NEW p \in Procs, ConfirmFails(p) PROVE Written(q)'
  <2>1. Written(q)
    BY <1>0, <1>16 DEF ConfirmFails, IInv, WroteInv, TypeOK
  <2>2. /\ log' = log /\ holder' = holder /\ synced' \in Nat /\ synced' >= synced
        /\ \A r \in Procs : pc'[r] \in Wrote =>
              pc'[r] = pc[r] /\ op'[r] = op[r] /\ offset'[r] = offset[r]
    BY <1>0, <1>16 DEF ConfirmFails, Wrote, TypeOK
  <2> QED BY <1>0, <2>1, <2>2, WrittenKept
<1>17. ASSUME NEW p \in Procs, Close(p) PROVE Written(q)'
  <2>1. Written(q)
    BY <1>0, <1>17 DEF Close, IInv, WroteInv, TypeOK
  <2>2. /\ log' = log /\ holder' = holder /\ synced' \in Nat /\ synced' >= synced
        /\ \A r \in Procs : pc'[r] \in Wrote =>
              pc'[r] = pc[r] /\ op'[r] = op[r] /\ offset'[r] = offset[r]
    BY <1>0, <1>17 DEF Close, Wrote, TypeOK
  <2> QED BY <1>0, <2>1, <2>2, WrittenKept
<1>18. ASSUME NEW p \in Procs, IOError(p) PROVE Written(q)'
  <2>1. Written(q)
    BY <1>0, <1>18 DEF IOError, IInv, WroteInv, TypeOK, CutShort
  <2>2. /\ log' = log /\ holder' = holder /\ synced' \in Nat /\ synced' >= synced
        /\ \A r \in Procs : pc'[r] \in Wrote =>
              pc'[r] = pc[r] /\ op'[r] = op[r] /\ offset'[r] = offset[r]
    BY <1>0, <1>18 DEF IOError, Wrote, TypeOK
  <2> QED BY <1>0, <2>1, <2>2, WrittenKept
<1>19. ASSUME NEW p \in Procs, Kill(p) PROVE Written(q)'
  <2>1. Written(q)
    BY <1>0, <1>19 DEF Kill, IInv, WroteInv, TypeOK, CutShort
  <2>2. /\ log' = log /\ holder' = holder /\ synced' \in Nat /\ synced' >= synced
        /\ \A r \in Procs : pc'[r] \in Wrote =>
              pc'[r] = pc[r] /\ op'[r] = op[r] /\ offset'[r] = offset[r]
    BY <1>0, <1>19 DEF Kill, Wrote, TypeOK
  <2> QED BY <1>0, <2>1, <2>2, WrittenKept
<1>20. ASSUME NEW p \in Procs, NEW o \in Ops, Call(p, o) PROVE Written(q)'
  <2>1. Written(q)
    BY <1>0, <1>20 DEF Call, IInv, WroteInv, TypeOK
  <2>2. /\ log' = log /\ holder' = holder /\ synced' \in Nat /\ synced' >= synced
        /\ \A r \in Procs : pc'[r] \in Wrote =>
              pc'[r] = pc[r] /\ op'[r] = op[r] /\ offset'[r] = offset[r]
    BY <1>0, <1>20 DEF Call, Wrote, TypeOK
  <2> QED BY <1>0, <2>1, <2>2, WrittenKept
<1>21. CASE PowerLoss
  BY <1>21 DEF PowerLoss, Written, Wrote
<1>22. CASE UnlinkLock
  <2>1. Written(q)
    BY <1>22 DEF UnlinkLock, IInv, WroteInv
  <2> QED BY <1>0, <1>22, <2>1, WrittenKept DEF UnlinkLock
<1>23. CASE ReplaceJournal
  <2>1. Written(q)
    BY <1>23 DEF ReplaceJournal, IInv, WroteInv
  <2> QED BY <1>0, <1>23, <2>1, WrittenKept DEF ReplaceJournal
<1>24. CASE UNCHANGED vars
  <2>1. Written(q)
    BY <1>24 DEF vars, IInv, WroteInv
  <2> QED BY <1>0, <1>24, <2>1, WrittenKept DEF vars
<1> QED
  BY <1>1, <1>2, <1>3, <1>4, <1>5, <1>6, <1>7, <1>8, <1>9, <1>10, <1>11, <1>12,
     <1>13, <1>14, <1>15, <1>16, <1>17, <1>18, <1>19, <1>20, <1>21, <1>22, <1>23, <1>24 DEF Next, Step

-------------------------------------------------------------------------------
(* Durability.                                                             *)

\* Syncing, and releasing claims, keeps accepted tokens durable.
LEMMA DurableKept ==
    ASSUME TypeOK, RedemptionIsDurable, log' = log,
           synced' \in synced..Len(log),
           \A t \in Tokens : holder'[t] # None => holder[t] # None
    PROVE  RedemptionIsDurable'
  BY DEF RedemptionIsDurable, TypeOK

\* So does appending a record that releases no claim.
LEMMA DurableAppend ==
    ASSUME TypeOK, RedemptionIsDurable, NEW r \in Records,
           log' = Append(log, r), synced' = synced,
           \A t \in Tokens :
                holder'[t] # None => holder[t] # None /\ ~Releases(r, t)
    PROVE  RedemptionIsDurable'
<1> SUFFICES ASSUME NEW t \in Tokens, holder'[t] # None,
                    NEW n \in synced..Len(log')
             PROVE  t \in Redeemed(log', n)
  BY DEF RedemptionIsDurable
<1>1. LogGrows /\ Len(log') = Len(log) + 1 /\ log'[Len(log')] = r
  BY AppendGrows
<1>2. Len(log) \in Nat /\ synced \in 0..Len(log)
  BY DEF TypeOK
<1>3. CASE n <= Len(log)
  <2>1. t \in Redeemed(log, n)
    BY <1>1, <1>2, <1>3 DEF RedemptionIsDurable
  <2>2. n \in Nat /\ \A i \in 1..n : log[i] = log'[i]
    BY <1>1, <1>2, <1>3 DEF LogGrows
  <2>3. Redeemed(log, n) = Redeemed(log', n)
    BY <2>2, RedeemedPrefix
  <2> QED BY <2>1, <2>3
<1>4. CASE n = Len(log) + 1
  <2>1. t \in Redeemed(log, Len(log))
    BY <1>2 DEF RedemptionIsDurable
  <2>2. \A i \in 1..Len(log) : log[i] = log'[i]
    BY <1>1 DEF LogGrows
  <2>3. Redeemed(log, Len(log)) = Redeemed(log', Len(log))
    BY <1>2, <2>2, RedeemedPrefix
  <2>4. t \in Apply(Redeemed(log', Len(log)), r)
    BY <2>1, <2>3 DEF Apply
  <2>5. Apply(Redeemed(log', Len(log)), log'[Len(log) + 1])
          = Redeemed(log', Len(log) + 1)
    BY <1>2, ApplyIsReplay
  <2> QED BY <1>1, <1>4, <2>4, <2>5
<1> QED BY <1>1, <1>2, <1>3, <1>4

\* A call that returns has its record synced at the end of the journal, and
\* accepts only a token nobody holds.
LEMMA ConfirmIsLast ==
    ASSUME IInv, NEW p \in Procs, Confirm(p)
    PROVE  /\ synced = Len(log) /\ Len(log) >= 1 /\ log[Len(log)] = op[p]
           /\ op[p] \in Ops
           /\ \A t \in Tokens : Claims(op[p], t) => holder[t] = None
<1>1. /\ pc[p] = "confirm" /\ ~torn /\ Len(log) = offset[p]
      /\ Len(log) \in Nat /\ synced \in 0..Len(log)
  BY DEF Confirm, CurrentState, IInv, TypeOK
<1>2. Accounted(p) = Len(log) - 1 /\ AtTail(p)
  BY <1>1 DEF Accounted, AtTail
<1>3. Written(p) /\ Calling(p) /\ View(p)
  BY <1>1 DEF IInv, WroteInv, CallInv, ViewInv
<1>4. Accounted(p) \in Nat
  BY <1>1, <1>3 DEF View, Viewing, Calling, InCall, Live
<1> QED BY <1>1, <1>2, <1>3, <1>4 DEF Written, Wrote, Calling, InCall

\* Every step keeps accepted tokens durable.
LEMMA DurableStep == IInv /\ [Next]_vars => RedemptionIsDurable'
<1> SUFFICES ASSUME IInv, [Next]_vars PROVE RedemptionIsDurable'
  OBVIOUS
<1>0. /\ TypeOK /\ Len(log) \in Nat /\ synced \in 0..Len(log)
      /\ RedemptionIsDurable
  BY DEF IInv, TypeOK
<1> USE DEF file, locks, procs, history
<1>1. ASSUME NEW p \in Procs, OpenLock(p) PROVE RedemptionIsDurable'
  BY <1>0, <1>1, DurableKept DEF OpenLock
<1>2. ASSUME NEW p \in Procs, OpenAcquire(p) PROVE RedemptionIsDurable'
  BY <1>0, <1>2, DurableKept DEF OpenAcquire
<1>3. ASSUME NEW p \in Procs, OpenCreate(p) PROVE RedemptionIsDurable'
  <2>1. \A t \in Tokens : holder[t] = None
    BY <1>0, <1>3, CreateIsFirst DEF IInv, PublishedInv
  <2> QED BY <1>3, <2>1 DEF OpenCreate, RedemptionIsDurable
<1>4. ASSUME NEW p \in Procs, OpenHeader(p) PROVE RedemptionIsDurable'
  <2>1. \A t \in Tokens : ~Releases(Header, t)
    BY DEF Header, Releases
  <2>2. Header \in Records
    BY DEF Records
  <2> QED BY <1>0, <1>4, <2>1, <2>2, DurableAppend DEF OpenHeader
<1>5. ASSUME NEW p \in Procs, OpenHeaderSync(p) PROVE RedemptionIsDurable'
  BY <1>0, <1>5, DurableKept DEF OpenHeaderSync
<1>6. ASSUME NEW p \in Procs, OpenReplay(p) PROVE RedemptionIsDurable'
  BY <1>0, <1>6, DurableKept DEF OpenReplay
<1>7. ASSUME NEW p \in Procs, OpenRefused(p) PROVE RedemptionIsDurable'
  BY <1>0, <1>7, DurableKept DEF OpenRefused
<1>8. ASSUME NEW p \in Procs, OpenPin(p) PROVE RedemptionIsDurable'
  BY <1>0, <1>8, DurableKept DEF OpenPin
<1>9. ASSUME NEW p \in Procs, OpenDone(p) PROVE RedemptionIsDurable'
  BY <1>0, <1>9, DurableKept DEF OpenDone
<1>10. ASSUME NEW p \in Procs, Acquire(p) PROVE RedemptionIsDurable'
  BY <1>0, <1>10, DurableKept DEF Acquire
<1>11. ASSUME NEW p \in Procs, Decide(p) PROVE RedemptionIsDurable'
  BY <1>0, <1>11, DurableKept DEF Decide
<1>12. ASSUME NEW p \in Procs, DecideFails(p) PROVE RedemptionIsDurable'
  BY <1>0, <1>12, DurableKept DEF DecideFails
<1>13. ASSUME NEW p \in Procs, AppendRecord(p) PROVE RedemptionIsDurable'
  <2>1. CASE torn
    BY <1>0, <1>13, <2>1, DurableKept DEF AppendRecord
  <2>2. CASE ~torn
    <3>1. op[p] \in Records /\ log' = Append(log, op[p]) /\ synced' = synced
      BY <1>0, <1>13, <2>2 DEF AppendRecord, TypeOK
    <3>2. \A t \in Tokens :
             holder'[t] # None => holder[t] # None /\ ~Releases(op[p], t)
      BY <1>13, <2>2 DEF AppendRecord
    <3> QED BY <1>0, <3>1, <3>2, DurableAppend
  <2> QED BY <2>1, <2>2
<1>14. ASSUME NEW p \in Procs, SyncRecord(p) PROVE RedemptionIsDurable'
  BY <1>0, <1>14, DurableKept DEF SyncRecord
<1>15. ASSUME NEW p \in Procs, Confirm(p) PROVE RedemptionIsDurable'
  <2>1. /\ synced = Len(log) /\ Len(log) >= 1 /\ log[Len(log)] = op[p]
        /\ log' = log /\ synced' = synced
    BY <1>15, ConfirmIsLast DEF Confirm
  <2>2. ASSUME NEW t \in Tokens, holder'[t] # None
        PROVE  t \in Redeemed(log, Len(log))
    <3>1. CASE Claims(op[p], t)
      <4>1. \A j \in (Len(log) + 1)..Len(log) : ~Releases(log[j], t)
        BY <1>0
      <4> QED BY <1>0, <2>1, <3>1, <4>1 DEF Redeemed, ClaimedIn
    <3>2. CASE ~Claims(op[p], t)
      BY <1>0, <1>15, <2>1, <2>2, <3>2 DEF Confirm, RedemptionIsDurable
    <3> QED BY <3>1, <3>2
  <2> QED BY <1>0, <2>1, <2>2 DEF RedemptionIsDurable
<1>16. ASSUME NEW p \in Procs, ConfirmFails(p) PROVE RedemptionIsDurable'
  BY <1>0, <1>16, DurableKept DEF ConfirmFails
<1>17. ASSUME NEW p \in Procs, Close(p) PROVE RedemptionIsDurable'
  BY <1>0, <1>17, DurableKept DEF Close
<1>18. ASSUME NEW p \in Procs, IOError(p) PROVE RedemptionIsDurable'
  BY <1>0, <1>18, DurableKept DEF IOError
<1>19. ASSUME NEW p \in Procs, Kill(p) PROVE RedemptionIsDurable'
  BY <1>0, <1>19, DurableKept DEF Kill
<1>20. ASSUME NEW p \in Procs, NEW o \in Ops, Call(p, o) PROVE RedemptionIsDurable'
  BY <1>0, <1>20, DurableKept DEF Call
<1>21. CASE PowerLoss
  <2>1. PICK n \in synced..Len(log) : log' = SubSeq(log, 1, n) /\ synced' = n
    BY <1>21 DEF PowerLoss
  <2>2. n \in Nat /\ Len(log') = n /\ \A i \in 1..n : log[i] = log'[i]
    BY <1>0, <2>1 DEF TypeOK
  <2>3. Redeemed(log, n) = Redeemed(log', n)
    BY <2>2, RedeemedPrefix
  <2>4. holder' = holder
    BY <1>21 DEF PowerLoss
  <2> QED BY <1>0, <2>1, <2>2, <2>3, <2>4 DEF RedemptionIsDurable
<1>22. CASE UnlinkLock
  BY <1>0, <1>22, DurableKept DEF UnlinkLock
<1>23. CASE ReplaceJournal
  BY <1>0, <1>23, DurableKept DEF ReplaceJournal
<1>24. CASE UNCHANGED vars
  BY <1>0, <1>24, DurableKept DEF vars
<1> QED
  BY <1>1, <1>2, <1>3, <1>4, <1>5, <1>6, <1>7, <1>8, <1>9, <1>10, <1>11, <1>12,
     <1>13, <1>14, <1>15, <1>16, <1>17, <1>18, <1>19, <1>20, <1>21, <1>22,
     <1>23, <1>24 DEF Next, Step

\* The acknowledged refunds that rest on nothing unsynced are durable.
RefundsHold == \A t \in acked \ leaned : FreedForGood(t)

\* Syncing, and forgetting that a refund was acknowledged, keeps refunds durable.
LEMMA RefundKept ==
    ASSUME TypeOK, RefundsHold, log' = log,
           synced' \in synced..Len(log), acked' \ leaned' \subseteq acked \ leaned
    PROVE  RefundsHold'
  BY DEF RefundsHold, FreedForGood, TypeOK

\* So does appending a record that claims no refunded token.
LEMMA RefundAppend ==
    ASSUME TypeOK, RefundsHold, NEW r \in Records,
           log' = Append(log, r), synced' = synced,
           \A t \in acked' \ leaned' : t \in acked \ leaned /\ ~Claims(r, t)
    PROVE  RefundsHold'
<1> SUFFICES ASSUME NEW t \in acked' \ leaned', NEW n \in synced..Len(log')
             PROVE  t \notin Redeemed(log', n)
  BY DEF RefundsHold, FreedForGood
<1>1. LogGrows /\ Len(log') = Len(log) + 1 /\ log'[Len(log')] = r
  BY AppendGrows
<1>2. Len(log) \in Nat /\ synced \in 0..Len(log)
  BY DEF TypeOK
<1>3. ASSUME NEW m \in synced..Len(log)
      PROVE  t \notin Redeemed(log', m)
  <2>1. t \notin Redeemed(log, m)
    BY <1>2 DEF RefundsHold, FreedForGood
  <2>2. m \in Nat /\ \A i \in 1..m : log[i] = log'[i]
    BY <1>1, <1>2 DEF LogGrows
  <2>3. Redeemed(log, m) = Redeemed(log', m)
    BY <2>2, RedeemedPrefix
  <2> QED BY <2>1, <2>3
<1>4. CASE n = Len(log) + 1
  <2>1. t \notin Apply(Redeemed(log', Len(log)), r)
    BY <1>2, <1>3 DEF Apply
  <2>2. Apply(Redeemed(log', Len(log)), log'[Len(log) + 1])
          = Redeemed(log', Len(log) + 1)
    BY <1>2, ApplyIsReplay
  <2> QED BY <1>1, <1>4, <2>1, <2>2
<1> QED BY <1>1, <1>2, <1>3, <1>4

\* Every step keeps acknowledged refunds durable.
LEMMA RefundStep == IInv /\ RefundsHold /\ [Next]_vars => RefundsHold'
<1> SUFFICES ASSUME IInv, RefundsHold, [Next]_vars PROVE RefundsHold'
  OBVIOUS
<1>0. TypeOK /\ Len(log) \in Nat /\ synced \in 0..Len(log)
  BY DEF IInv, TypeOK
<1> USE DEF file, locks, procs, history
<1>1. ASSUME NEW p \in Procs, OpenLock(p) PROVE RefundsHold'
  BY <1>0, <1>1, RefundKept DEF OpenLock
<1>2. ASSUME NEW p \in Procs, OpenAcquire(p) PROVE RefundsHold'
  BY <1>0, <1>2, RefundKept DEF OpenAcquire
<1>3. ASSUME NEW p \in Procs, OpenCreate(p) PROVE RefundsHold'
  BY <1>3, EmptyLog DEF OpenCreate, RefundsHold, FreedForGood, Redeemed, ClaimedIn
<1>4. ASSUME NEW p \in Procs, OpenHeader(p) PROVE RefundsHold'
  <2>1. \A t \in acked : ~Claims(Header, t)
    BY DEF Header, Claims
  <2>2. Header \in Records
    BY DEF Records
  <2> QED BY <1>0, <1>4, <2>1, <2>2, RefundAppend DEF OpenHeader
<1>5. ASSUME NEW p \in Procs, OpenHeaderSync(p) PROVE RefundsHold'
  BY <1>0, <1>5, RefundKept DEF OpenHeaderSync
<1>6. ASSUME NEW p \in Procs, OpenReplay(p) PROVE RefundsHold'
  BY <1>0, <1>6, RefundKept DEF OpenReplay
<1>7. ASSUME NEW p \in Procs, OpenRefused(p) PROVE RefundsHold'
  BY <1>0, <1>7, RefundKept DEF OpenRefused
<1>8. ASSUME NEW p \in Procs, OpenPin(p) PROVE RefundsHold'
  BY <1>0, <1>8, RefundKept DEF OpenPin
<1>9. ASSUME NEW p \in Procs, OpenDone(p) PROVE RefundsHold'
  BY <1>0, <1>9, RefundKept DEF OpenDone
<1>10. ASSUME NEW p \in Procs, Acquire(p) PROVE RefundsHold'
  BY <1>0, <1>10, RefundKept DEF Acquire
<1>11. ASSUME NEW p \in Procs, Decide(p) PROVE RefundsHold'
  <2>1. CASE UNCHANGED <<acked, leaned>>
    BY <1>0, <1>11, <2>1, RefundKept DEF Decide
  <2>2. CASE /\ Needless(op[p], Refresh(seen[p], offset[p], log))
             /\ Acknowledge(op[p])
             /\ leaned' = IF op[p].kind = "F" /\ synced < Len(log)
                          THEN leaned \cup {op[p].arg} ELSE leaned
    <3>1. op[p].kind # "F" \/ synced < Len(log) => acked' \ leaned' \subseteq acked \ leaned
      BY <2>2 DEF Acknowledge
    <3>2. CASE op[p].kind = "F" /\ synced = Len(log)
      <4>1. /\ Accounted(p) = offset[p] /\ offset[p] \in 0..Len(log)
            /\ seen[p] = Redeemed(log, offset[p])
        BY <1>11 DEF Decide, IInv, CallInv, Calling, ViewInv, View, Viewing, Accounted, Live, InCall
      <4>2. op[p].arg \notin Redeemed(log, Len(log))
        BY <1>0, <2>2, <3>2, <4>1, RefreshIsReplay DEF Needless
      <4>3. \A t \in acked' \ leaned' : t \in acked \ leaned \/ t = op[p].arg
        BY <2>2, <3>2 DEF Acknowledge
      <4>4. UNCHANGED <<log, synced>>
        BY <1>11 DEF Decide
      <4> QED BY <1>0, <3>2, <4>2, <4>3, <4>4 DEF RefundsHold, FreedForGood
    <3> QED BY <1>0, <1>11, <3>1, <3>2, RefundKept DEF Decide
  <2> QED BY <1>11, <2>1, <2>2 DEF Decide
<1>12. ASSUME NEW p \in Procs, DecideFails(p) PROVE RefundsHold'
  BY <1>0, <1>12, RefundKept DEF DecideFails
<1>13. ASSUME NEW p \in Procs, AppendRecord(p) PROVE RefundsHold'
  <2>1. CASE torn
    BY <1>0, <1>13, <2>1, RefundKept DEF AppendRecord
  <2>2. CASE ~torn
    <3>1. op[p] \in Records /\ log' = Append(log, op[p]) /\ synced' = synced
      BY <1>0, <1>13, <2>2 DEF AppendRecord, TypeOK
    <3>2. \A t \in acked' \ leaned' : t \in acked \ leaned /\ ~Claims(op[p], t)
      BY <1>13 DEF AppendRecord
    <3> QED BY <1>0, <3>1, <3>2, RefundAppend
  <2> QED BY <2>1, <2>2
<1>14. ASSUME NEW p \in Procs, SyncRecord(p) PROVE RefundsHold'
  BY <1>0, <1>14, RefundKept DEF SyncRecord
<1>15. ASSUME NEW p \in Procs, Confirm(p) PROVE RefundsHold'
  <2>1. /\ synced = Len(log) /\ Len(log) >= 1 /\ log[Len(log)] = op[p]
        /\ log' = log /\ synced' = synced
    BY <1>15, ConfirmIsLast DEF Confirm
  <2>2. ASSUME NEW t \in acked' \ leaned' PROVE t \notin Redeemed(log, Len(log))
    <3>1. CASE t \in acked \ leaned
      BY <1>0, <2>1, <3>1 DEF RefundsHold, FreedForGood
    <3>2. CASE op[p].kind = "F" /\ t = op[p].arg
      <4>1. Releases(log[Len(log)], t) /\ ~Claims(log[Len(log)], t)
        BY <2>1, <3>2 DEF Releases, Claims
      <4> QED BY <1>0, <2>1, <4>1 DEF Redeemed, ClaimedIn
    <3> QED BY <1>15, <2>2, <3>1, <3>2 DEF Confirm, Acknowledge
  <2> QED BY <1>0, <2>1, <2>2 DEF RefundsHold, FreedForGood
<1>16. ASSUME NEW p \in Procs, ConfirmFails(p) PROVE RefundsHold'
  BY <1>0, <1>16, RefundKept DEF ConfirmFails
<1>17. ASSUME NEW p \in Procs, Close(p) PROVE RefundsHold'
  BY <1>0, <1>17, RefundKept DEF Close
<1>18. ASSUME NEW p \in Procs, IOError(p) PROVE RefundsHold'
  BY <1>0, <1>18, RefundKept DEF IOError
<1>19. ASSUME NEW p \in Procs, Kill(p) PROVE RefundsHold'
  BY <1>0, <1>19, RefundKept DEF Kill
<1>20. ASSUME NEW p \in Procs, NEW o \in Ops, Call(p, o) PROVE RefundsHold'
  BY <1>0, <1>20, RefundKept DEF Call
<1>21. CASE PowerLoss
  <2>1. PICK n \in synced..Len(log) : log' = SubSeq(log, 1, n) /\ synced' = n
    BY <1>21 DEF PowerLoss
  <2>2. n \in Nat /\ Len(log') = n /\ \A i \in 1..n : log[i] = log'[i]
    BY <1>0, <2>1 DEF TypeOK
  <2>3. Redeemed(log, n) = Redeemed(log', n)
    BY <2>2, RedeemedPrefix
  <2>4. acked' = acked /\ leaned' = leaned
    BY <1>21 DEF PowerLoss
  <2>5. ASSUME NEW m \in n..n PROVE m \in synced..Len(log) /\ Redeemed(log', m) = Redeemed(log, m)
    BY <1>0, <2>1, <2>3
  <2> QED BY <2>1, <2>2, <2>4, <2>5 DEF RefundsHold, FreedForGood
<1>22. CASE UnlinkLock
  BY <1>0, <1>22, RefundKept DEF UnlinkLock
<1>23. CASE ReplaceJournal
  BY <1>0, <1>23, RefundKept DEF ReplaceJournal
<1>24. CASE UNCHANGED vars
  BY <1>0, <1>24, RefundKept DEF vars
<1> QED
  BY <1>1, <1>2, <1>3, <1>4, <1>5, <1>6, <1>7, <1>8, <1>9, <1>10, <1>11, <1>12,
     <1>13, <1>14, <1>15, <1>16, <1>17, <1>18, <1>19, <1>20, <1>21, <1>22,
     <1>23, <1>24 DEF Next, Step

-------------------------------------------------------------------------------
(* The theorems.                                                           *)

\* The inductive invariant: types, paths, views, calls, exclusive writers and
\* durability, together.
THEOREM Invariant == Spec => []IInv
<1>1. Init => IInv
  <2> SUFFICES ASSUME Init PROVE IInv
    OBVIOUS
  <2>1. TypeOK
    BY InitType
  <2>2. LockInv /\ MissingInv /\ PublishedInv /\ HeadInv
    BY DEF Init, LockInv, MissingInv, PublishedInv, HeadInv, Early, Live, InCall
  <2>3. ViewInv /\ CallInv /\ WroteInv
    BY DEF Init, ViewInv, View, Viewing, CallInv, Calling, WroteInv, Written,
       Wrote, Live, InCall
  <2>4. RedemptionIsDurable
    BY DEF Init, RedemptionIsDurable
  <2> QED BY <2>1, <2>2, <2>3, <2>4 DEF IInv
<1>2. IInv /\ [Next]_vars => IInv'
  <2> SUFFICES ASSUME IInv, [Next]_vars PROVE IInv'
    OBVIOUS
  <2>1. HeadInv' /\ Headed'
    BY HeadStep DEF IInv
  <2>0. TypeOK'
    BY <2>1, TypeStep DEF IInv
  <2>2. LockInv' /\ MissingInv' /\ PublishedInv'
    BY LockStep, MissingStep, PublishedStep DEF IInv
  <2>3. ViewInv' /\ CallInv'
    BY ViewStep, CallStep DEF IInv
  <2>4. WroteInv' /\ RedemptionIsDurable'
    BY WroteStep, DurableStep
  <2> QED BY <2>0, <2>1, <2>2, <2>3, <2>4 DEF IInv
<1> QED BY <1>1, <1>2, PTL DEF Spec

\* Every variable stays in its range and the journal keeps its header.
THEOREM Typed == Spec => []TypeOK
<1>1. IInv => TypeOK
  BY DEF IInv
<1> QED BY <1>1, Invariant, PTL

\* "Spend must not return nil until the redemption is durable": no power loss
\* takes back a redemption that Spend acknowledged.
THEOREM Durable == Spec => []RedemptionIsDurable
<1>1. IInv => RedemptionIsDurable
  BY DEF IInv
<1> QED BY <1>1, Invariant, PTL

\* Replaying the records others appended, one call at a time, leaves every
\* store with the replay of the whole journal it has accounted for.
THEOREM Replayed == Spec => []ViewIsReplay
<1>1. IInv => ViewIsReplay
  BY DEF IInv, TypeOK, ViewInv, View, Viewing, ViewIsReplay
<1> QED BY <1>1, Invariant, PTL

\* A step accepts a token nobody holds, releases tokens, or changes no holder.
LEMMA RedemptionStep == IInv /\ [Next]_vars => [Abstract!Next]_holder
<1> SUFFICES ASSUME IInv, [Next]_vars PROVE [Abstract!Next]_holder
  OBVIOUS
<1>0. TypeOK
  BY DEF IInv
<1> USE DEF file, locks, procs, history
<1>1. ASSUME NEW p \in Procs, OpenLock(p) PROVE [Abstract!Next]_holder
  BY <1>1 DEF OpenLock
<1>2. ASSUME NEW p \in Procs, OpenAcquire(p) PROVE [Abstract!Next]_holder
  BY <1>2 DEF OpenAcquire
<1>3. ASSUME NEW p \in Procs, OpenCreate(p) PROVE [Abstract!Next]_holder
  BY <1>3 DEF OpenCreate
<1>4. ASSUME NEW p \in Procs, OpenHeader(p) PROVE [Abstract!Next]_holder
  BY <1>4 DEF OpenHeader
<1>5. ASSUME NEW p \in Procs, OpenHeaderSync(p) PROVE [Abstract!Next]_holder
  BY <1>5 DEF OpenHeaderSync
<1>6. ASSUME NEW p \in Procs, OpenReplay(p) PROVE [Abstract!Next]_holder
  BY <1>6 DEF OpenReplay
<1>7. ASSUME NEW p \in Procs, OpenRefused(p) PROVE [Abstract!Next]_holder
  BY <1>7 DEF OpenRefused
<1>8. ASSUME NEW p \in Procs, OpenPin(p) PROVE [Abstract!Next]_holder
  BY <1>8 DEF OpenPin
<1>9. ASSUME NEW p \in Procs, OpenDone(p) PROVE [Abstract!Next]_holder
  BY <1>9 DEF OpenDone
<1>10. ASSUME NEW p \in Procs, Acquire(p) PROVE [Abstract!Next]_holder
  BY <1>10 DEF Acquire
<1>11. ASSUME NEW p \in Procs, Decide(p) PROVE [Abstract!Next]_holder
  BY <1>11 DEF Decide
<1>12. ASSUME NEW p \in Procs, DecideFails(p) PROVE [Abstract!Next]_holder
  BY <1>12 DEF DecideFails
<1>13. ASSUME NEW p \in Procs, AppendRecord(p) PROVE [Abstract!Next]_holder
  <2>1. op[p] \in Ops
    BY <1>13 DEF AppendRecord, IInv, CallInv, Calling, InCall
  <2>2. CASE torn \/ op[p] \in Spends
    <3>1. \A t \in Tokens : Releases(op[p], t) => torn
      BY <2>2 DEF Releases, Spends
    <3>2. holder' = [t \in Tokens |-> holder[t]]
      BY <1>13, <3>1 DEF AppendRecord
    <3> QED BY <1>0, <3>2 DEF TypeOK
  <2>3. CASE ~torn /\ op[p] \in Refunds
    <3>1. PICK k \in Tokens : op[p] = [kind |-> "F", arg |-> k]
      BY <2>3 DEF Refunds
    <3>2. holder' = [t \in Tokens |-> IF t = k THEN None ELSE holder[t]]
      BY <1>13, <2>3, <3>1 DEF AppendRecord, Releases
    <3>3. holder' = [holder EXCEPT ![k] = None]
      BY <1>0, <3>2 DEF TypeOK
    <3> QED BY <3>3 DEF Abstract!Next, Abstract!Release
  <2>4. CASE ~torn /\ op[p] \in Retires
    <3>1. PICK k \in Keys : op[p] = [kind |-> "K", arg |-> k]
      BY <2>4 DEF Retires
    <3>2. holder' = [t \in Tokens |-> IF KeyOf[t] = k THEN None ELSE holder[t]]
      BY <1>13, <2>4, <3>1 DEF AppendRecord, Releases
    <3> QED BY <3>2 DEF Abstract!Next, Abstract!ReleaseKey
  <2> QED BY <2>1, <2>2, <2>3, <2>4 DEF Ops
<1>14. ASSUME NEW p \in Procs, SyncRecord(p) PROVE [Abstract!Next]_holder
  BY <1>14 DEF SyncRecord
<1>15. ASSUME NEW p \in Procs, Confirm(p) PROVE [Abstract!Next]_holder
  <2>1. /\ op[p] \in Ops
        /\ \A t \in Tokens : Claims(op[p], t) => holder[t] = None
        /\ holder' = [t \in Tokens |-> IF Claims(op[p], t) THEN p
                                                           ELSE holder[t]]
    BY <1>15, ConfirmIsLast DEF Confirm
  <2>2. CASE op[p] \in Spends
    <3>1. PICK k \in Tokens : op[p] = [kind |-> "S", arg |-> k]
      BY <2>2 DEF Spends
    <3>2. holder[k] = None
      BY <2>1, <3>1 DEF Claims
    <3>3. holder' = [t \in Tokens |-> IF t = k THEN p ELSE holder[t]]
      BY <2>1, <3>1 DEF Claims
    <3>4. holder' = [holder EXCEPT ![k] = p]
      BY <1>0, <3>3 DEF TypeOK
    <3> QED BY <3>2, <3>4 DEF Abstract!Next, Abstract!Accept
  <2>3. CASE op[p] \notin Spends
    <3>1. op[p].kind # "S"
      BY <2>1, <2>3 DEF Ops, Refunds, Retires
    <3>2. holder' = [t \in Tokens |-> holder[t]]
      BY <2>1, <3>1 DEF Claims
    <3> QED BY <1>0, <3>2 DEF TypeOK
  <2> QED BY <2>2, <2>3
<1>16. ASSUME NEW p \in Procs, ConfirmFails(p) PROVE [Abstract!Next]_holder
  BY <1>16 DEF ConfirmFails
<1>17. ASSUME NEW p \in Procs, Close(p) PROVE [Abstract!Next]_holder
  BY <1>17 DEF Close
<1>18. ASSUME NEW p \in Procs, IOError(p) PROVE [Abstract!Next]_holder
  BY <1>18 DEF IOError
<1>19. ASSUME NEW p \in Procs, Kill(p) PROVE [Abstract!Next]_holder
  BY <1>19 DEF Kill
<1>20. ASSUME NEW p \in Procs, NEW o \in Ops, Call(p, o) PROVE [Abstract!Next]_holder
  BY <1>20 DEF Call
<1>21. CASE PowerLoss
  BY <1>21 DEF PowerLoss
<1>22. CASE UnlinkLock
  BY <1>22 DEF UnlinkLock
<1>23. CASE ReplaceJournal
  BY <1>23 DEF ReplaceJournal
<1>24. CASE UNCHANGED vars
  BY <1>24 DEF vars
<1> QED
  BY <1>1, <1>2, <1>3, <1>4, <1>5, <1>6, <1>7, <1>8, <1>9, <1>10, <1>11, <1>12,
     <1>13, <1>14, <1>15, <1>16, <1>17, <1>18, <1>19, <1>20, <1>21, <1>22,
     <1>23, <1>24 DEF Next, Step

\* No token is accepted twice without a release in between: the journal
\* implements Redemption, for any number of processes and any faults.
THEOREM Refines == Spec => OneRedemption
<1>1. Init => Abstract!Init
  BY DEF Init, Abstract!Init
<1> QED
  BY <1>1, Invariant, RedemptionStep, PTL DEF Spec, OneRedemption, Abstract!Spec


-------------------------------------------------------------------------------
(* Startup.                                                                *)

\* Processes that run under the flock.
Inside == {"opening", "header", "hsync", "pinning", "verifying",
           "decide", "append", "sync", "confirm"}

\* Where every process has the one lock file open, and one at most runs under its
\* flock.
Serialised ==
    \A p \in Procs :
        /\ pc[p] # "down" => lockAt # 0 /\ myLock[p] = lockAt
        /\ pc[p] \in Inside => flock[lockAt] = p

\* What an open finds: no journal and no lock that pins one, or a journal whose
\* header is written, by the open in progress at the latest.
Findable ==
    /\ ~torn /\ at # "other"
    /\ \A l \in 1..MaxLocks : pin[l] # "damaged" /\ (at = "missing" => pin[l] = "empty")
    /\ at = "journal" /\ log = <<>> => \E p \in Procs : pc[p] = "header"
    /\ \A p \in Procs :
        /\ pc[p] \in {"pinning", "verifying"} => at = "journal" /\ offset[p] = Len(log)
        /\ pc[p] = "verifying" => pin[lockAt] = "pinned"

Undisturbed == faults = 0 => Serialised /\ Findable

\* Whoever runs under the flock runs alone.
LEMMA Alone ==
    ASSUME Serialised, NEW p \in Procs, pc[p] \in Inside
    PROVE  \A q \in Procs : q # p => pc[q] \notin Inside
BY DEF Serialised

\* A step of an open or of a call, in which nothing fails.
Calm(p) ==
    \/ OpenLock(p) \/ OpenAcquire(p) \/ OpenCreate(p) \/ OpenHeader(p)
    \/ OpenHeaderSync(p) \/ OpenReplay(p) \/ OpenRefused(p) \/ OpenPin(p) \/ OpenDone(p)
    \/ (\E o \in Ops : Call(p, o))
    \/ Acquire(p) \/ Decide(p) \/ DecideFails(p)
    \/ AppendRecord(p) \/ SyncRecord(p) \/ Confirm(p) \/ ConfirmFails(p) \/ Close(p)

\* Every other step is a fault, or none.
LEMMA CalmOrFault ==
    ASSUME TypeOK, [Next]_vars, faults' = 0
    PROVE  faults = 0 /\ (UNCHANGED vars \/ \E p \in Procs : Calm(p))
<1>1. ASSUME Fault PROVE FALSE
  BY <1>1 DEF Fault, TypeOK
<1>2. \A p \in Procs : ~IOError(p) /\ ~Kill(p)
  BY <1>1 DEF IOError, Kill
<1>3. ~PowerLoss /\ ~UnlinkLock /\ ~ReplaceJournal
  BY <1>1 DEF PowerLoss, UnlinkLock, ReplaceJournal
<1>4. UNCHANGED vars \/ \E p \in Procs : Calm(p)
  BY <1>2, <1>3 DEF Next, Step, Calm
<1>5. ASSUME NEW p \in Procs, Calm(p) PROVE UNCHANGED faults
  BY <1>5 DEF Calm, OpenLock, OpenAcquire, OpenCreate, OpenHeader, OpenHeaderSync, OpenReplay,
     OpenRefused, OpenPin, OpenDone, Call, Acquire, Decide, DecideFails, AppendRecord,
     SyncRecord, Confirm, ConfirmFails, Close
<1> QED BY <1>4, <1>5 DEF vars

\* A process moves; no other process does.
LEMMA OneMoves ==
    ASSUME TypeOK, NEW p \in Procs, Calm(p)
    PROVE  \A q \in Procs : q # p => pc'[q] = pc[q]
BY DEF Calm, OpenLock, OpenAcquire, OpenCreate, OpenHeader, OpenHeaderSync, OpenReplay,
   OpenRefused, OpenPin, OpenDone, Call, Acquire, Decide, DecideFails, AppendRecord,
   SyncRecord, Confirm, ConfirmFails, Close, Goto, Refuse, Poisoned, TypeOK

LEMMA SerialisedStep ==
    ASSUME TypeOK, LockInv, Serialised, NEW p \in Procs, Calm(p)
    PROVE  Serialised'
<1> USE NoneAssumption DEF TypeOK, LockInv, Serialised, Inside, Goto, Unlock, Refuse, Poisoned, file, locks, procs
<1>1. CASE OpenLock(p)
  BY <1>1 DEF OpenLock
<1>2. CASE OpenAcquire(p)
  <2>1. pc[p] = "openwait" /\ lockAt \in 1..MaxLocks /\ lockAt = myLock[p] /\ UNCHANGED <<lockAt, myLock>>
    BY <1>2 DEF OpenAcquire
  <2>2. CASE flock[lockAt] = None /\ flock' = [flock EXCEPT ![lockAt] = p] /\ pc' = [pc EXCEPT ![p] = "opening"]
    <3>1. flock'[lockAt] = p /\ \A q \in Procs : pc[q] \notin Inside
      BY <2>1, <2>2
    <3> QED BY <2>1, <2>2, <3>1
  <2> QED BY <2>1, <2>2, <1>2 DEF OpenAcquire, FlockFree
<1>3. CASE OpenCreate(p)
  BY <1>3 DEF OpenCreate
<1>4. CASE OpenHeader(p)
  BY <1>4 DEF OpenHeader
<1>5. CASE OpenHeaderSync(p)
  BY <1>5 DEF OpenHeaderSync
<1>6. CASE OpenReplay(p)
  BY <1>6 DEF OpenReplay
<1>7. CASE OpenRefused(p)
  BY <1>7 DEF OpenRefused
<1>8. CASE OpenPin(p)
  <2>1. pc[p] = "pinning" /\ UNCHANGED <<lockAt, myLock>> /\ lockAt \in 1..MaxLocks
    BY <1>8 DEF OpenPin
  <2>2. CASE pc' = [pc EXCEPT ![p] = "verifying"] /\ UNCHANGED flock
    BY <2>1, <2>2
  <2>3. CASE Refuse(p)
    BY <2>1, <2>3
  <2> QED BY <1>8, <2>2, <2>3 DEF OpenPin
<1>9. CASE OpenDone(p)
  BY <1>9 DEF OpenDone
<1>10. CASE \E o \in Ops : Call(p, o)
  BY <1>10 DEF Call
<1>11. CASE Acquire(p)
  <2>1. pc[p] = "wait" /\ lockAt \in 1..MaxLocks /\ lockAt = myLock[p] /\ UNCHANGED <<lockAt, myLock>>
    BY <1>11 DEF Acquire
  <2>2. CASE flock[lockAt] = None /\ flock' = [flock EXCEPT ![lockAt] = p] /\ pc' = [pc EXCEPT ![p] = "decide"]
    <3>1. flock'[lockAt] = p /\ \A q \in Procs : pc[q] \notin Inside
      BY <2>1, <2>2
    <3> QED BY <2>1, <2>2, <3>1
  <2> QED BY <2>1, <2>2, <1>11 DEF Acquire, FlockFree
<1>12. CASE Decide(p)
  BY <1>12 DEF Decide
<1>13. CASE DecideFails(p)
  BY <1>13 DEF DecideFails
<1>14. CASE AppendRecord(p)
  BY <1>14 DEF AppendRecord
<1>15. CASE SyncRecord(p)
  BY <1>15 DEF SyncRecord
<1>16. CASE Confirm(p)
  BY <1>16 DEF Confirm
<1>17. CASE ConfirmFails(p)
  BY <1>17 DEF ConfirmFails
<1>18. CASE Close(p)
  BY <1>18 DEF Close
<1> QED BY <1>1, <1>2, <1>3, <1>4, <1>5, <1>6, <1>7, <1>8, <1>9, <1>10, <1>11, <1>12,
        <1>13, <1>14, <1>15, <1>16, <1>17, <1>18 DEF Calm

\* A process at a step that does not touch the journal, its lock or its path.
LEMMA FoundStill ==
    ASSUME TypeOK, Findable, NEW p \in Procs, pc[p] # "header", UNCHANGED <<at, log, torn, lockAt, pin>>,
           \A q \in Procs : q # p => pc'[q] = pc[q] /\ offset'[q] = offset[q],
           pc'[p] \in {"pinning", "verifying"} => at = "journal" /\ offset'[p] = Len(log),
           pc'[p] = "verifying" => pin[lockAt] = "pinned"
    PROVE  Findable'
BY DEF Findable

LEMMA FindableStep ==
    ASSUME IInv, Serialised, Findable, NEW p \in Procs, Calm(p)
    PROVE  Findable'
<1>t. TypeOK /\ LockInv /\ MissingInv
  BY DEF IInv
<1>m. \A q \in Procs : q # p => pc'[q] = pc[q]
  BY <1>t, OneMoves
<1>o. ASSUME NEW n, offset' = [offset EXCEPT ![p] = n] PROVE \A q \in Procs : q # p => offset'[q] = offset[q]
  BY <1>t, <1>o DEF TypeOK
<1>1. CASE OpenLock(p)
  <2>1. pc[p] = "down" /\ pc'[p] = "openwait" /\ UNCHANGED <<at, log, torn, pin>>
        /\ \A q \in Procs : q # p => offset'[q] = offset[q]
    BY <1>t, <1>1 DEF OpenLock, Goto, TypeOK, file
  <2>2. ASSUME NEW q \in Procs, pc'[q] # "down", q # p PROVE lockAt' = lockAt
    BY <1>m, <1>1, <2>2 DEF OpenLock, Serialised
  <2> QED BY <1>m, <2>1, <2>2 DEF Findable
<1>2. CASE OpenAcquire(p)
  <2>1. pc[p] = "openwait" /\ pc'[p] \in {"down", "opening"} /\ UNCHANGED <<at, log, torn, lockAt, pin, offset>>
    BY <1>t, <1>2 DEF OpenAcquire, Refuse, Goto, TypeOK, file
  <2> QED BY <1>t, <1>m, <2>1, FoundStill
<1>3. CASE OpenCreate(p)
  <2>1. pc[p] = "opening" /\ pc'[p] = "header" /\ at' = "journal" /\ log' = <<>> /\ torn' = FALSE
        /\ UNCHANGED <<lockAt, pin, offset>>
    BY <1>t, <1>3 DEF OpenCreate, Goto, TypeOK, locks
  <2>2. \A q \in Procs : q # p => pc'[q] \notin Inside
    BY <1>m, <2>1, Alone DEF Inside
  <2> QED BY <2>1, <2>2 DEF Findable, Inside
<1>4. CASE OpenHeader(p)
  <2>1. pc[p] = "header" /\ pc'[p] = "hsync" /\ log' = Append(log, Header) /\ UNCHANGED <<at, torn, lockAt, pin, offset>>
    BY <1>t, <1>4 DEF OpenHeader, Goto, TypeOK, locks
  <2>2. \A q \in Procs : q # p => pc'[q] \notin Inside
    BY <1>m, <2>1, Alone DEF Inside
  <2>3. log' # <<>>
    BY <1>t, <2>1 DEF TypeOK
  <2> QED BY <2>1, <2>2, <2>3 DEF Findable, Inside
<1>5. CASE OpenHeaderSync(p)
  <2>1. pc[p] = "hsync" /\ pc'[p] = "pinning" /\ UNCHANGED <<at, log, torn, lockAt, pin>>
        /\ offset' = [offset EXCEPT ![p] = Len(log)] /\ offset'[p] = Len(log)
    BY <1>t, <1>5 DEF OpenHeaderSync, Goto, TypeOK, locks
  <2>2. at = "journal"
    <3>1. pc[p] \notin Early
      BY <2>1 DEF Early
    <3>2. at = "missing" => lockAt \in 1..MaxLocks /\ pin[lockAt] = "pinned"
      BY <1>t, <3>1 DEF MissingInv, TypeOK
    <3> QED BY <1>t, <3>2 DEF Findable, TypeOK
  <2> QED BY <1>t, <1>m, <1>o, <2>1, <2>2, FoundStill
<1>6. CASE OpenReplay(p)
  <2>1. pc[p] = "opening" /\ pc'[p] = "pinning" /\ UNCHANGED <<at, log, torn, lockAt, pin>> /\ at = "journal"
        /\ offset' = [offset EXCEPT ![p] = Len(log)] /\ offset'[p] = Len(log)
    BY <1>t, <1>6 DEF OpenReplay, Goto, TypeOK, locks, file
  <2> QED BY <1>t, <1>m, <1>o, <2>1, FoundStill
<1>7. CASE OpenRefused(p)
  <2>1. pc[p] = "opening" /\ pc'[p] = "down" /\ UNCHANGED <<at, log, torn, lockAt, pin, offset>>
    BY <1>t, <1>7 DEF OpenRefused, Refuse, Goto, TypeOK, file
  <2> QED BY <1>t, <1>m, <2>1, FoundStill
<1>8. CASE OpenPin(p)
  <2>1. pc[p] = "pinning" /\ pc'[p] \in {"verifying", "down"} /\ UNCHANGED <<at, log, torn, lockAt, offset>>
        /\ myLock[p] = lockAt /\ lockAt \in 1..MaxLocks
    BY <1>t, <1>8 DEF OpenPin, Refuse, Goto, TypeOK, file, Serialised
  <2>2. at = "journal" /\ offset[p] = Len(log)
    BY <2>1 DEF Findable
  <2>3. pin' = [pin EXCEPT ![lockAt] = "pinned"]
    BY <1>t, <1>8, <2>1 DEF OpenPin, Findable, TypeOK
  <2>4. \A q \in Procs : q # p => pc'[q] \notin Inside
    BY <1>m, <2>1, Alone DEF Inside
  <2>5. pin'[lockAt] = "pinned" /\ \A l \in 1..MaxLocks : pin'[l] \in {pin[l], "pinned"}
    BY <1>t, <2>1, <2>3 DEF TypeOK
  <2>6. \A l \in 1..MaxLocks : pin'[l] # "damaged"
    BY <2>5 DEF Findable
  <2>7. log # <<>>
    BY <1>m, <2>1, <2>2, <2>4 DEF Findable, Inside
  <2> QED BY <2>1, <2>2, <2>4, <2>5, <2>6, <2>7 DEF Findable, Inside
<1>9. CASE OpenDone(p)
  <2>1. pc[p] = "verifying" /\ pc'[p] \in {"idle", "down"} /\ UNCHANGED <<at, log, torn, lockAt, pin, offset>>
    BY <1>t, <1>9 DEF OpenDone, Refuse, Goto, TypeOK
  <2> QED BY <1>t, <1>m, <2>1, FoundStill
<1>10. CASE (\E o \in Ops : Call(p, o)) \/ Acquire(p) \/ DecideFails(p) \/ Confirm(p) \/ ConfirmFails(p) \/ Close(p)
  <2>1. pc[p] \in Live /\ pc'[p] \in Live \cup {"down"} /\ UNCHANGED <<at, log, torn, lockAt, pin, offset>>
    BY <1>t, <1>10 DEF Call, Acquire, DecideFails, Confirm, ConfirmFails, Close, Poisoned, Goto, TypeOK, file, locks, Live, InCall
  <2> QED BY <1>t, <1>m, <2>1, FoundStill DEF Live, InCall
<1>11. CASE Decide(p)
  <2>1. pc[p] = "decide" /\ pc'[p] \in {"idle", "append"} /\ UNCHANGED <<at, log, torn, lockAt, pin>>
        /\ offset' = [offset EXCEPT ![p] = Len(log)]
    BY <1>t, <1>11 DEF Decide, Goto, TypeOK, file
  <2> QED BY <1>t, <1>m, <1>o, <2>1, FoundStill
<1>12. CASE AppendRecord(p)
  <2>1. pc[p] = "append" /\ pc'[p] = "sync" /\ log' = Append(log, op[p]) /\ UNCHANGED <<at, torn, lockAt, pin, offset>>
    BY <1>t, <1>12 DEF AppendRecord, Goto, TypeOK, locks, Findable
  <2>2. \A q \in Procs : q # p => pc'[q] \notin Inside
    BY <1>m, <2>1, Alone DEF Inside
  <2>3. log' # <<>>
    BY <1>t, <2>1 DEF TypeOK
  <2> QED BY <2>1, <2>2, <2>3 DEF Findable, Inside
<1>13. CASE SyncRecord(p)
  <2>1. pc[p] = "sync" /\ pc'[p] = "confirm" /\ UNCHANGED <<at, log, torn, lockAt, pin>>
        /\ offset' = [offset EXCEPT ![p] = offset[p] + 1]
    BY <1>t, <1>13 DEF SyncRecord, Goto, TypeOK, locks
  <2> QED BY <1>t, <1>m, <1>o, <2>1, FoundStill
<1> QED BY <1>1, <1>2, <1>3, <1>4, <1>5, <1>6, <1>7, <1>8, <1>9, <1>10, <1>11, <1>12, <1>13 DEF Calm

\* Nothing that an open finds, when nothing has failed, makes it give up.
LEMMA OpensSucceed ==
    ASSUME IInv, Serialised, Findable, NEW p \in Procs, Calm(p),
           NEW q \in Procs, pc[q] \in Opening
    PROVE  pc'[q] # "down"
<1>t. TypeOK /\ LockInv /\ pc[q] # "down" /\ pc[q] \notin Live
  BY DEF IInv, Opening, Live, InCall
<1>1. CASE q # p
  BY <1>t, <1>1, OneMoves
<1>2. CASE q = p
  <2>l. lockAt # 0 /\ myLock[p] = lockAt /\ lockAt \in 1..MaxLocks
    BY <1>t, <1>2 DEF Serialised, TypeOK
  <2>1. CASE OpenAcquire(p)
    BY <1>t, <1>2, <2>l, <2>1 DEF OpenAcquire, Goto, TypeOK
  <2>2. CASE OpenRefused(p)
    <3>1. pc[p] = "opening" /\ ~torn /\ at # "other" /\ (at = "missing" => pin[lockAt] = "empty")
      BY <2>l, <2>2 DEF OpenRefused, Findable
    <3>2. at = "journal" => log # <<>>
      BY <3>1, Alone DEF Findable, Inside
    <3> QED BY <2>l, <2>2, <3>1, <3>2 DEF OpenRefused
  <2>3. CASE OpenPin(p)
    BY <1>t, <2>l, <2>3 DEF OpenPin, Goto, TypeOK, Findable
  <2>4. CASE OpenDone(p)
    <3>1. CurrentState(p)
      BY <2>l, <2>4 DEF OpenDone, CurrentState, PathsOK, Findable
    <3> QED BY <1>t, <2>4, <3>1 DEF OpenDone, Goto, TypeOK
  <2>5. CASE OpenCreate(p) \/ OpenHeader(p) \/ OpenHeaderSync(p) \/ OpenReplay(p) \/ OpenLock(p)
    BY <1>t, <2>5 DEF OpenCreate, OpenHeader, OpenHeaderSync, OpenReplay, OpenLock, Goto, TypeOK
  <2>6. CASE \/ (\E o \in Ops : Call(p, o)) \/ Acquire(p) \/ Decide(p) \/ DecideFails(p)
             \/ AppendRecord(p) \/ SyncRecord(p) \/ Confirm(p) \/ ConfirmFails(p) \/ Close(p)
    BY <1>t, <1>2, <2>6 DEF Call, Acquire, Decide, DecideFails, AppendRecord, SyncRecord, Confirm,
       ConfirmFails, Close, Live, InCall
  <2> QED BY <2>1, <2>2, <2>3, <2>4, <2>5, <2>6 DEF Calm
<1> QED BY <1>1, <1>2

LEMMA UndisturbedStep == IInv /\ Undisturbed /\ [Next]_vars => Undisturbed'
<1> SUFFICES ASSUME IInv, Undisturbed, [Next]_vars, faults' = 0 PROVE (Serialised /\ Findable)'
  BY DEF Undisturbed
<1>1. faults = 0 /\ (UNCHANGED vars \/ \E p \in Procs : Calm(p))
  BY CalmOrFault DEF IInv
<1>2. Serialised /\ Findable
  BY <1>1 DEF Undisturbed
<1>3. CASE UNCHANGED vars
  BY <1>2, <1>3 DEF vars, file, locks, procs, Serialised, Findable
<1>4. ASSUME NEW p \in Procs, Calm(p) PROVE (Serialised /\ Findable)'
  BY <1>2, <1>4, SerialisedStep, FindableStep DEF IInv
<1> QED BY <1>1, <1>3, <1>4

\* "the ordering that makes simultaneous first startup deterministic": as long as
\* nothing fails, every open succeeds, the first ones and those that race with them
\* or with calls.
THEOREM StartupClean == Spec => CleanStartup
<1>1. Init => Undisturbed
  BY DEF Init, Undisturbed, Serialised, Findable, Inside
<1>2. /\ IInv /\ Undisturbed /\ [Next]_vars
      => [faults' = 0 => \A p \in Procs : pc[p] \in Opening => pc'[p] # "down"]_vars
  <2> SUFFICES ASSUME IInv, Undisturbed, [Next]_vars, ~UNCHANGED vars, faults' = 0,
                      NEW q \in Procs, pc[q] \in Opening
               PROVE  pc'[q] # "down"
    OBVIOUS
  <2>1. faults = 0 /\ \E p \in Procs : Calm(p)
    BY CalmOrFault DEF IInv
  <2> QED BY <2>1, OpensSucceed DEF Undisturbed
<1> QED BY <1>1, <1>2, Invariant, UndisturbedStep, PTL DEF Spec, CleanStartup

-------------------------------------------------------------------------------
(* Refunds.                                                                *)

\* As long as nothing fails, no refund leans on an unsynced record: the only one
\* there ever is belongs to the process that holds the flock.
Settled ==
    faults = 0 =>
        /\ leaned = {}
        /\ synced < Len(log) => \E p \in Procs : pc[p] \in {"hsync", "sync"}

LEMMA SettledStep == IInv /\ Undisturbed /\ Settled /\ [Next]_vars => Settled'
<1> SUFFICES ASSUME IInv, Undisturbed, Settled, [Next]_vars, faults' = 0
             PROVE  /\ leaned' = {}
                    /\ synced' < Len(log)' => \E p \in Procs : pc'[p] \in {"hsync", "sync"}
  BY DEF Settled
<1>1. TypeOK /\ faults = 0 /\ (UNCHANGED vars \/ \E p \in Procs : Calm(p))
  BY CalmOrFault DEF IInv
<1>2. Serialised /\ leaned = {}
  BY <1>1 DEF Undisturbed, Settled
<1>3. CASE UNCHANGED vars
  BY <1>1, <1>2, <1>3 DEF vars, file, procs, history, Settled
<1>4. ASSUME NEW p \in Procs, Calm(p)
      PROVE  /\ leaned' = {}
             /\ synced' < Len(log)' => \E q \in Procs : pc'[q] \in {"hsync", "sync"}
  <2>m. \A q \in Procs : q # p => pc'[q] = pc[q]
    BY <1>1, <1>4, OneMoves
  <2>0. synced < Len(log) => \E q \in Procs : pc[q] \in {"hsync", "sync"}
    BY <1>1 DEF Settled
  <2>1. CASE OpenCreate(p)
    BY <1>2, <2>1, EmptyLog DEF OpenCreate, history
  <2>2. CASE OpenHeader(p) \/ AppendRecord(p)
    BY <1>1, <1>2, <2>2 DEF OpenHeader, AppendRecord, Goto, TypeOK, history
  <2>3. CASE OpenHeaderSync(p) \/ SyncRecord(p)
    BY <1>1, <1>2, <2>3 DEF OpenHeaderSync, SyncRecord, TypeOK, history
  <2>4. CASE Decide(p)
    <3>1. pc[p] = "decide" /\ UNCHANGED <<log, synced>>
      BY <2>4 DEF Decide, file
    <3>2. \A q \in Procs : pc[q] \notin {"hsync", "sync"}
      BY <1>2, <3>1, Alone DEF Inside
    <3>3. ~(synced < Len(log))
      BY <2>0, <3>2
    <3> QED BY <1>2, <2>4, <3>1, <3>3 DEF Decide
  <2>5. CASE \/ OpenLock(p) \/ OpenAcquire(p) \/ OpenReplay(p) \/ OpenRefused(p)
             \/ OpenPin(p) \/ OpenDone(p) \/ (\E o \in Ops : Call(p, o))
             \/ Acquire(p) \/ DecideFails(p) \/ Confirm(p) \/ ConfirmFails(p) \/ Close(p)
    <3>1. pc[p] \notin {"hsync", "sync"} /\ UNCHANGED <<log, synced>>
      BY <2>5 DEF OpenLock, OpenAcquire, OpenReplay, OpenRefused, OpenPin, OpenDone, Call,
         Acquire, DecideFails, Confirm, ConfirmFails, Close, file
    <3>2. leaned' = {}
      BY <1>2, <2>5 DEF OpenLock, OpenAcquire, OpenReplay, OpenRefused, OpenPin, OpenDone, Call,
         Acquire, DecideFails, Confirm, ConfirmFails, Close, history
    <3> QED BY <2>m, <2>0, <3>1, <3>2
  <2> QED BY <1>4, <2>1, <2>2, <2>3, <2>4, <2>5 DEF Calm
<1> QED BY <1>1, <1>3, <1>4

\* "Refund must not make a token spendable until that change is durable": no
\* power loss brings back a redemption whose refund was acknowledged, unless the
\* refund found its token free by a record of another process that is not synced;
\* and there is such a record only after something failed.
THEOREM Refunded == Spec => []RefundIsDurable
<1>1. Init => RefundsHold /\ Undisturbed /\ Settled
  BY DEF Init, RefundsHold, Undisturbed, Serialised, Findable, Inside, Settled
<1>2. IInv /\ RefundsHold /\ Settled => RefundIsDurable
  BY DEF IInv, TypeOK, RefundsHold, Settled, RefundIsDurable
<1> QED BY <1>1, <1>2, Invariant, RefundStep, UndisturbedStep, SettledStep, PTL DEF Spec
===============================================================================
