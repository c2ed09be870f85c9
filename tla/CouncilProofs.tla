---------------------------- MODULE CouncilProofs ----------------------------
(***************************************************************************)
(* Proofs about Council, for any authorities, threshold, mirrors, epochs   *)
(* and bodies that satisfy its assumptions.                                *)
(***************************************************************************)
EXTENDS Council, FiniteSetTheorems, TLAPS

\* What an honest authority has voted for, and what is public, never conflict.
HonestVotes ==
    \A a \in Authorities \ Faulty : \A v, w \in votes :
        v.by = a /\ w.by = a => ~Promise!Conflicts(v, w)

\* The bodies a threshold of authorities has voted for.
Backed == {v \in Votes : Cardinality(SignersOf(v) \cap Authorities) >= Threshold}

\* Mirrors read, hold and serve nothing else, and clients accept nothing else.
AllBacked ==
    /\ accepted \subseteq Backed
    /\ \A m \in Mirrors :
        /\ pending[m] \in Backed \cup {None}
        /\ held[m] \in Backed \cup {None}
        /\ served[m] \subseteq Backed

\* The vote w is not behind v.
Beyond(w, v) == w # None /\ Follows(w, v)

\* The record of a mirror is never behind its memory, nor behind what it served,
\* nor is memory; and where a power loss may leave an older record, it may also
\* leave the vote itself, so that the loss is accounted for.
RecordLeads ==
    \A m \in Mirrors :
        /\ phase[m] = "recorded" => record[m] = pending[m]
        /\ held[m] # None =>
            /\ Beyond(record[m], held[m])
            /\ held[m] \in onDisk[m] \/ \A u \in onDisk[m] : Beyond(u, held[m])
        /\ \A v \in served[m] \ undone[m] :
            /\ Beyond(record[m], v)
            /\ held[m] # None => Follows(held[m], v)
            /\ v \in onDisk[m] \/ \A u \in onDisk[m] : Beyond(u, v)

IInv == TypeOK /\ HonestVotes /\ AllBacked

-------------------------------------------------------------------------------
\* The initial states are well typed.
LEMMA TypedInit == Init => TypeOK
BY NumbersAssumption DEF Init, TypeOK, Phases, Votes

\* Voting, forging, fetching and time keep the types.
LEMMA TypedCouncil ==
    ASSUME TypeOK, (\E k \in Keys : Vote(k) \/ Forge(k)) \/ Fetch \/ Tick
    PROVE  TypeOK'
<1>1. CASE \E k \in Keys : Vote(k)
  BY <1>1 DEF TypeOK, Vote, Keys, mirrors, disk
<1>2. CASE \E k \in Keys : Forge(k)
  BY <1>2 DEF TypeOK, Forge, mirrors, disk
<1>3. CASE Fetch
  BY <1>3 DEF TypeOK, Fetch, mirrors, disk
<1>4. CASE Tick
  BY <1>4 DEF TypeOK, Tick, mirrors, disk
<1> QED BY <1>1, <1>2, <1>3, <1>4

\* The steps of a mirror keep the types.
LEMMA TypedMirror ==
    ASSUME TypeOK, NEW m \in Mirrors, MirrorStep(m)
    PROVE  TypeOK'
<1> USE NumbersAssumption, NoneAssumption DEF TypeOK, Phases, Goto, SetLock, GiveUp, disk
<1>1. CASE Read(m)
  BY <1>1 DEF Read, Votes
<1>2. CASE Compare(m)
  <2>1. CASE Follows(pending[m], held[m]) /\ ~lock[m]
    BY <1>2, <2>1 DEF Compare
  <2>2. CASE ~(Follows(pending[m], held[m]) /\ ~lock[m])
    BY <1>2, <2>2 DEF Compare
  <2> QED BY <2>1, <2>2
<1>3. CASE Record(m)
  <2>1. CASE Installable(pending[m], record[m])
    BY <1>3, <2>1 DEF Record
  <2>2. CASE ~Installable(pending[m], record[m])
    BY <1>3, <2>2 DEF Record
  <2> QED BY <2>1, <2>2
<1>4. CASE RecordFails(m)
  BY <1>4 DEF RecordFails, WriteStops
<1>5. CASE Install(m)
  BY <1>5 DEF Install
<1>6. CASE Serve(m)
  BY <1>6 DEF Serve
<1>7. CASE Kill(m)
  BY <1>7 DEF Kill, Dies, WriteStops
<1>8. CASE RemoveLock(m)
  BY <1>8 DEF RemoveLock
<1>9. CASE PowerLoss(m)
  <2>1. PICK v \in onDisk[m] :
          /\ record' = [record EXCEPT ![m] = v]
          /\ onDisk' = [onDisk EXCEPT ![m] = {v}]
          /\ undone' = [undone EXCEPT ![m] =
                          @ \cup {w \in onDisk[m] \ {None} : v = None \/ ~Follows(v, w)}]
    BY <1>9 DEF PowerLoss
  <2>2. undone' \in [Mirrors -> SUBSET Votes]
    BY <2>1
  <2>3. lock' \in [Mirrors -> BOOLEAN]
    BY <1>9 DEF PowerLoss
  <2> QED BY <1>9, <2>1, <2>2, <2>3 DEF PowerLoss, Dies
<1> QED BY <1>1, <1>2, <1>3, <1>4, <1>5, <1>6, <1>7, <1>8, <1>9 DEF MirrorStep

\* Type correctness: the assumptions on the constants are enough for it.
THEOREM Typed == Spec => []TypeOK
<1>1. TypeOK /\ [Next]_vars => TypeOK'
  <2>1. ASSUME TypeOK, Next PROVE TypeOK'
    BY <2>1, TypedCouncil, TypedMirror DEF Next
  <2>2. ASSUME TypeOK, UNCHANGED vars PROVE TypeOK'
    BY <2>2 DEF TypeOK, vars, mirrors, disk
  <2> QED BY <2>1, <2>2
<1> QED BY <1>1, TypedInit, PTL DEF Spec

-------------------------------------------------------------------------------
\* Two quorums share an honest authority.
LEMMA QuorumsMeet ==
    ASSUME NEW A \in SUBSET Authorities, NEW B \in SUBSET Authorities,
           Cardinality(A) >= Threshold, Cardinality(B) >= Threshold
    PROVE  \E a \in Authorities \ Faulty : a \in A /\ a \in B
<1>1. IsFiniteSet(A) /\ IsFiniteSet(B) /\ IsFiniteSet(Faulty)
  BY KeysAssumption, FS_Subset
<1>2. Cardinality(A \cup B) = Cardinality(A) + Cardinality(B) - Cardinality(A \cap B)
  BY <1>1, FS_Union
<1>3. Cardinality(A \cup B) <= Cardinality(Authorities)
  BY KeysAssumption, FS_Subset, A \cup B \in SUBSET Authorities
<1>4. /\ Cardinality(A) \in Nat /\ Cardinality(B) \in Nat /\ Cardinality(Faulty) \in Nat
      /\ Cardinality(A \cap B) \in Nat /\ Cardinality(Authorities) \in Nat
  BY <1>1, KeysAssumption, FS_CardinalityType, FS_Intersection
<1>5. Cardinality(A \cap B) > Cardinality(Faulty)
  BY <1>2, <1>3, <1>4, QuorumAssumption
<1>6. ~(A \cap B \subseteq Faulty)
  BY <1>1, <1>4, <1>5, FS_Subset
<1> QED BY <1>6

\* So two backed bodies of one epoch are the same.
LEMMA BackedAgree ==
    ASSUME HonestVotes, NEW v \in Backed, NEW w \in Backed, v.epoch = w.epoch
    PROVE  v.body = w.body
<1>1. PICK a \in Authorities \ Faulty : a \in SignersOf(v) /\ a \in SignersOf(w)
  <2>1. \E a \in Authorities \ Faulty :
            a \in SignersOf(v) \cap Authorities /\ a \in SignersOf(w) \cap Authorities
    BY QuorumsMeet DEF Backed
  <2> QED BY <2>1
<1> DEFINE x == [by |-> a, epoch |-> v.epoch, body |-> v.body]
           y == [by |-> a, epoch |-> w.epoch, body |-> w.body]
<1>2. x \in votes /\ y \in votes
  BY <1>1 DEF SignersOf
<1>3. ~Promise!Conflicts(x, y)
  BY <1>2 DEF HonestVotes
<1> QED BY <1>3 DEF Promise!Conflicts

\* A quorum, once reached, is never lost: signatures can not be taken back.
LEMMA BackedGrows == ASSUME votes \subseteq votes' PROVE Backed \subseteq Backed'
<1> SUFFICES ASSUME NEW v \in Backed PROVE v \in Backed'
  OBVIOUS
<1> DEFINE A == SignersOf(v) \cap Authorities
           B == SignersOf(v)' \cap Authorities
<1>1. A \subseteq B
  BY DEF SignersOf
<1>2. IsFiniteSet(A) /\ IsFiniteSet(B)
  BY KeysAssumption, FS_Subset, A \in SUBSET Authorities, B \in SUBSET Authorities
<1>3. Cardinality(A) <= Cardinality(B) /\ Cardinality(A) \in Nat /\ Cardinality(B) \in Nat
  BY <1>1, <1>2, FS_Subset, FS_CardinalityType
<1> QED BY <1>3, QuorumAssumption DEF Backed

\* What a client or a mirror verified has a quorum.
LEMMA ParsedIsBacked ==
    ASSUME NEW v \in Votes, NEW S \in SUBSET SignersOf(v), Parses(v, S)
    PROVE  v \in Backed
<1> DEFINE A == S \cap Authorities
           B == SignersOf(v) \cap Authorities
<1>1. IsFiniteSet(A) /\ IsFiniteSet(B) /\ A \in SUBSET B
  BY KeysAssumption, FS_Subset, A \in SUBSET Authorities, B \in SUBSET Authorities
<1>2. Cardinality(A) <= Cardinality(B) /\ Cardinality(A) \in Nat /\ Cardinality(B) \in Nat
  BY <1>1, FS_Subset, FS_CardinalityType
<1> QED BY <1>2, QuorumAssumption DEF Parses, Backed

-------------------------------------------------------------------------------
\* No step takes a signature back.
LEMMA VotesGrow == ASSUME Next PROVE votes \subseteq votes'
<1>1. ASSUME NEW k \in Keys, Vote(k) \/ Forge(k) PROVE votes \subseteq votes'
  BY <1>1 DEF Vote, Forge
<1>2. ASSUME NEW m \in Mirrors, MirrorStep(m) PROVE votes \subseteq votes'
  BY <1>2 DEF MirrorStep, Read, Compare, Record, RecordFails, Install, Serve, Kill, PowerLoss, Dies, RemoveLock
<1>3. CASE Fetch \/ Tick
  BY <1>3 DEF Fetch, Tick
<1> QED BY <1>1, <1>2, <1>3 DEF Next

\* Honest authorities stay consistent: Vote checks it, and no one forges them.
LEMMA HonestStep == ASSUME TypeOK, HonestVotes, Next PROVE HonestVotes'
<1>1. ASSUME NEW k \in Keys, Vote(k) PROVE HonestVotes'
  <2>1. PICK b \in Bodies :
            LET v == [by |-> k, epoch |-> clock, body |-> b] IN
            Consistent(k, v) /\ votes' = votes \cup {v}
    BY <1>1 DEF Vote
  <2> QED BY <2>1 DEF HonestVotes, Consistent, Promise!Conflicts
<1>2. ASSUME NEW k \in Keys, Forge(k) PROVE HonestVotes'
  <2>1. k \notin Authorities \ Faulty
    BY <1>2, KeysAssumption DEF Forge
  <2>2. \A v \in votes' : v.by # k => v \in votes
    BY <1>2 DEF Forge
  <2> QED BY <2>1, <2>2 DEF HonestVotes, Promise!Conflicts
<1>3. ASSUME UNCHANGED votes PROVE HonestVotes'
  BY <1>3 DEF HonestVotes, Promise!Conflicts
<1>4. ASSUME NEW m \in Mirrors, MirrorStep(m) PROVE UNCHANGED votes
  BY <1>4 DEF MirrorStep, Read, Compare, Record, RecordFails, Install, Serve, Kill, PowerLoss, Dies, RemoveLock
<1>5. CASE Fetch \/ Tick
  BY <1>3, <1>5 DEF Fetch, Tick
<1> QED BY <1>1, <1>2, <1>3, <1>4, <1>5 DEF Next

\* A step of the council leaves the mirrors alone, and a client accepts only
\* what has a quorum.
LEMMA BackedCouncil ==
    ASSUME TypeOK, AllBacked, (\E k \in Keys : Vote(k) \/ Forge(k)) \/ Fetch \/ Tick
    PROVE  AllBacked'
<1>1. Backed \subseteq Backed'
  BY BackedGrows DEF Vote, Forge, Fetch, Tick
<1>2. UNCHANGED <<pending, held, served>>
  BY DEF Vote, Forge, Fetch, Tick, mirrors, disk
<1>3. accepted' \subseteq Backed'
  <2>1. CASE Fetch
    BY <1>1, <2>1, ParsedIsBacked DEF Fetch, AllBacked
  <2>2. CASE UNCHANGED accepted
    BY <1>1, <2>2 DEF AllBacked
  <2> QED BY <2>1, <2>2 DEF Vote, Forge, Tick
<1> QED BY <1>1, <1>2, <1>3 DEF AllBacked

\* A mirror reads only what has a quorum, and serves only what it has read.
LEMMA BackedMirror ==
    ASSUME TypeOK, AllBacked, NEW m \in Mirrors, MirrorStep(m)
    PROVE  AllBacked'
<1> USE DEF AllBacked, TypeOK
<1>1. UNCHANGED <<votes, accepted>>
  BY DEF MirrorStep, Read, Compare, Record, RecordFails, Install, Serve, Kill, PowerLoss, Dies, RemoveLock
<1>2. Backed' = Backed
  BY <1>1 DEF Backed, SignersOf
<1>3. CASE Read(m)
  <2>1. PICK v \in Backed : pending' = [pending EXCEPT ![m] = v]
    BY <1>3, ParsedIsBacked DEF Read, Merges
  <2> QED BY <1>1, <1>2, <1>3, <2>1 DEF Read
<1>4. CASE Compare(m) \/ Record(m) \/ RecordFails(m)
  BY <1>1, <1>2, <1>4 DEF Compare, Record, RecordFails, GiveUp
<1>5. CASE Install(m)
  BY <1>1, <1>2, <1>5 DEF Install
<1>6. CASE Serve(m)
  BY <1>1, <1>2, <1>6 DEF Serve
<1>7. CASE Kill(m) \/ PowerLoss(m)
  BY <1>1, <1>2, <1>7 DEF Kill, PowerLoss, Dies
<1>8. CASE RemoveLock(m)
  BY <1>1, <1>2, <1>8 DEF RemoveLock
<1> QED BY <1>3, <1>4, <1>5, <1>6, <1>7, <1>8 DEF MirrorStep

-------------------------------------------------------------------------------
\* The inductive invariant.
THEOREM Invariant == Spec => []IInv
<1>1. Init => IInv
  BY TypedInit DEF Init, IInv, HonestVotes, AllBacked
<1>2. IInv /\ [Next]_vars => IInv'
  <2>1. ASSUME IInv, Next PROVE IInv'
    <3>1. TypeOK'
      BY <2>1, TypedCouncil, TypedMirror DEF IInv, Next
    <3>2. HonestVotes'
      BY <2>1, HonestStep DEF IInv
    <3>3. AllBacked'
      BY <2>1, BackedCouncil, BackedMirror DEF IInv, Next
    <3> QED BY <3>1, <3>2, <3>3 DEF IInv
  <2>2. ASSUME IInv, UNCHANGED vars PROVE IInv'
    <3>1. TypeOK'
      BY <2>2 DEF IInv, TypeOK, vars, mirrors, disk
    <3>2. HonestVotes' /\ AllBacked'
      BY <2>2 DEF IInv, HonestVotes, AllBacked, Backed, SignersOf, vars, mirrors, Promise!Conflicts
    <3> QED BY <3>1, <3>2 DEF IInv
  <2> QED BY <2>1, <2>2
<1> QED BY <1>1, <1>2, PTL DEF Spec

\* For every number of authorities, any threshold with 2T > N + F: no two
\* bodies of one epoch are ever served or accepted anywhere.
THEOREM NoSplit == Spec => []OneDirectory
<1>1. IInv => OneDirectory
  <2> SUFFICES ASSUME IInv, NEW v \in Published, NEW w \in Published, v.epoch = w.epoch
               PROVE  v.body = w.body
    BY DEF OneDirectory
  <2>1. v \in Backed /\ w \in Backed
    BY DEF IInv, AllBacked, Published
  <2> QED BY <2>1, BackedAgree DEF IInv
<1> QED BY <1>1, Invariant, PTL

-------------------------------------------------------------------------------
\* Follows is a preorder on votes, with None at the bottom.
LEMMA FollowsTransitive ==
    ASSUME NEW u \in Votes, NEW v \in Votes, NEW w \in Votes, Follows(w, v), Follows(v, u)
    PROVE  Follows(w, u)
<1>1. u.epoch \in Nat /\ v.epoch \in Nat /\ w.epoch \in Nat
  BY NumbersAssumption DEF Votes
<1>2. u # None /\ v # None
  BY NoneAssumption DEF Votes
<1> QED BY <1>1, <1>2 DEF Follows

\* A vote that follows the record is beyond all that the record is beyond.
LEMMA Advances ==
    ASSUME TypeOK, NEW m \in Mirrors, pending[m] \in Votes, Follows(pending[m], record[m])
    PROVE  /\ Beyond(pending[m], pending[m])
           /\ \A v \in Votes : Beyond(record[m], v) => Beyond(pending[m], v)
<1>1. record[m] \in Votes \cup {None} /\ None \notin Votes
  BY NoneAssumption DEF TypeOK, Votes
<1> QED BY <1>1, FollowsTransitive DEF Beyond, Follows

\* A mirror never gets behind its record, whatever stops the write of it.
LEMMA RecordLeadsWrite ==
    ASSUME TypeOK, RecordLeads, NEW m \in Mirrors, Record(m) \/ RecordFails(m) \/ Kill(m)
    PROVE  RecordLeads'
<1> USE DEF TypeOK, Goto
<1>1. \A n \in Mirrors : held[n] # None => held[n] \in Votes
  OBVIOUS
<1>2. \A n \in Mirrors : phase[n] = "recording" => pending[n] \in Votes
  OBVIOUS
<1>3. CASE Record(m) /\ Installable(pending[m], record[m])
  BY <1>1, <1>2, <1>3, Advances DEF Record, Installable, RecordLeads
<1>4. CASE Record(m) /\ ~Installable(pending[m], record[m])
  BY <1>4 DEF Record, GiveUp, RecordLeads, disk
<1>5. CASE RecordFails(m)
  BY <1>1, <1>2, <1>5, Advances DEF RecordFails, WriteStops, GiveUp, Installable, RecordLeads, disk
<1>6. CASE Kill(m)
  BY <1>1, <1>2, <1>6, Advances DEF Kill, Dies, WriteStops, Installable, RecordLeads, disk
<1> QED BY <1>3, <1>4, <1>5, <1>6

\* What a power loss leaves is beyond all that it does not account for.
LEMMA RecordLeadsPowerLoss ==
    ASSUME TypeOK, RecordLeads, NEW m \in Mirrors, PowerLoss(m)
    PROVE  RecordLeads'
<1> USE DEF TypeOK, PowerLoss, Dies, Goto
<1>1. PICK u \in onDisk[m] :
        /\ record' = [record EXCEPT ![m] = u]
        /\ onDisk' = [onDisk EXCEPT ![m] = {u}]
        /\ undone' = [undone EXCEPT ![m] =
                        @ \cup {w \in onDisk[m] \ {None} : u = None \/ ~Follows(u, w)}]
  OBVIOUS
<1>2. ASSUME NEW v \in served[m], v \notin undone'[m] PROVE Beyond(u, v)
  <2>1. v \in Votes /\ v # None /\ v \notin undone[m]
    BY <1>1, <1>2, NoneAssumption DEF Votes
  <2>2. CASE v \in onDisk[m]
    BY <1>1, <1>2, <2>1, <2>2 DEF Beyond
  <2>3. CASE \A w \in onDisk[m] : Beyond(w, v)
    BY <2>3
  <2> QED BY <2>1, <2>2, <2>3 DEF RecordLeads
<1> QED BY <1>1, <1>2 DEF RecordLeads

\* The other steps of a mirror.
LEMMA RecordLeadsMirror ==
    ASSUME TypeOK, RecordLeads, NEW m \in Mirrors, MirrorStep(m)
    PROVE  RecordLeads'
<1> USE DEF TypeOK, Goto, SetLock, GiveUp, disk
<1>1. CASE Read(m)
  BY <1>1 DEF Read, RecordLeads
<1>2. CASE Compare(m)
  BY <1>2 DEF Compare, RecordLeads
<1>3. CASE Record(m) \/ RecordFails(m) \/ Kill(m)
  BY <1>3, RecordLeadsWrite
<1>4. CASE PowerLoss(m)
  BY <1>4, RecordLeadsPowerLoss
<1>5. CASE Install(m)
  BY <1>5 DEF Install, RecordLeads, Beyond, Follows
<1>6. CASE Serve(m)
  BY <1>6 DEF Serve, RecordLeads, Beyond, Follows
<1>7. CASE RemoveLock(m)
  BY <1>7 DEF RemoveLock, RecordLeads
<1> QED BY <1>1, <1>2, <1>3, <1>4, <1>5, <1>6, <1>7 DEF MirrorStep

\* A mirror, restarted at any point, never goes back behind what it has served,
\* unless a power loss took back the record of it, left by a write that failed or
\* was killed after its rename.
THEOREM Forward == Spec => []NoRollback
<1>1. Init => RecordLeads
  BY DEF Init, RecordLeads
<1>2. TypeOK /\ RecordLeads /\ [Next]_vars => RecordLeads'
  <2>1. ASSUME TypeOK, RecordLeads, NEW m \in Mirrors, MirrorStep(m) PROVE RecordLeads'
    BY <2>1, RecordLeadsMirror
  <2>2. ASSUME RecordLeads, UNCHANGED mirrors PROVE RecordLeads'
    BY <2>2 DEF RecordLeads, mirrors, disk, Beyond, Follows
  <2> QED BY <2>1, <2>2 DEF Next, vars, Vote, Forge, Fetch, Tick
<1>3. RecordLeads => NoRollback
  BY DEF RecordLeads, NoRollback
<1> QED BY <1>1, <1>2, <1>3, Typed, PTL DEF Spec
===============================================================================
