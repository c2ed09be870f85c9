------------------------------- MODULE Council -------------------------------
(***************************************************************************)
(* The council: authorities vote for the consensus body of an epoch, any   *)
(* machine joins signatures into documents, mirrors (council serve) verify,*)
(* record and serve them, and clients verify what they fetch from anywhere.*)
(*                                                                         *)
(* An honest authority keeps the promise of Vote, which Signing implements.*)
(* Keys in hostile hands, those of faulty authorities and of outsiders,    *)
(* sign anything.  A document is a vote with any subset of the signatures  *)
(* that exist for it: the file a mirror reloads and the answer a client    *)
(* gets is any document, partial, merged, old or replayed.                 *)
(***************************************************************************)
EXTENDS Naturals, FiniteSets

CONSTANTS
    Authorities,  \* keys that mirrors and clients are configured with
    Faulty,       \* those of them that do not follow the code
    Outsiders,    \* other keys
    Threshold,    \* distinct signatures a document needs
    Mirrors,      \* council serve, each with a serving state of its own
    Epochs, Bodies,
    Lifetime,     \* epochs a document stays valid
    Skew,         \* epochs a clock may lag: clockSkew is 5 minutes
    None,
    MaxFailures   \* bound: kills, failed writes and power losses

ASSUME KeysAssumption ==
    /\ IsFiniteSet(Authorities) /\ Faulty \subseteq Authorities
    /\ Outsiders \cap Authorities = {}
\* The operators' choice of a threshold; the code only asks for
\* 1 <= Threshold <= Cardinality(Authorities).
ASSUME QuorumAssumption ==
    /\ Threshold \in Nat
    /\ 2 * Threshold > Cardinality(Authorities) + Cardinality(Faulty)
ASSUME NumbersAssumption ==
    Epochs \subseteq Nat /\ Lifetime \in Nat /\ Skew \in Nat /\ MaxFailures \in Nat
ASSUME NoneAssumption == None \notin [epoch : Epochs, body : Bodies]

VARIABLES
    clock,     \* the current epoch
    votes,     \* signatures that exist: key, epoch and body
    record,    \* mirror: its state file, the highest vote installed
    onDisk,    \* mirror: what a power loss may leave of that file
    lock,      \* mirror: the lock directory beside it exists
    held,      \* mirror: the document in memory, p.parsed
    pending,   \* mirror: the document being reloaded
    phase,     \* mirror: where the reload is
    served,    \* mirror: history, the votes it ever answered with
    undone,    \* mirror: history, the votes a power loss took off its record
    accepted,  \* history, the votes some client accepted
    failures

disk    == <<record, onDisk>>
mirrors == <<disk, lock, held, pending, phase, served, undone>>
vars    == <<clock, votes, mirrors, accepted, failures>>

Keys   == Authorities \cup Outsiders
Votes  == [epoch : Epochs, body : Bodies]
Phases == {"down", "idle", "verified", "recording", "recorded"}

Promise == INSTANCE Vote WITH released <- votes

SignersOf(v) == {k \in Keys : [by |-> k, epoch |-> v.epoch, body |-> v.body] \in votes}

Init ==
    /\ clock \in Epochs /\ \A e \in Epochs : clock <= e
    /\ votes = {} /\ accepted = {} /\ failures = 0
    /\ record = [m \in Mirrors |-> None]
    /\ onDisk = [m \in Mirrors |-> {None}]
    /\ lock = [m \in Mirrors |-> FALSE]
    /\ held = [m \in Mirrors |-> None]
    /\ pending = [m \in Mirrors |-> None]
    /\ phase = [m \in Mirrors |-> "down"]
    /\ served = [m \in Mirrors |-> {}]
    /\ undone = [m \in Mirrors |-> {}]

\* A document of epoch e may be fresh: later in the current epoch the next one
\* comes within reach of the clock skew.
Fresh(e) == e <= clock + Skew /\ clock < e + Lifetime

\* What may follow document v: v again, or a document of a later epoch.
Follows(w, v) == v # None => w.epoch > v.epoch \/ w = v

-------------------------------------------------------------------------------
\* An honest authority never signs against a vote it has cast.
Consistent(a, v) == \A w \in votes : w.by = a => ~Promise!Conflicts(v, w)

Vote(a) ==
    /\ a \in Authorities \ Faulty
    /\ \E b \in Bodies :
        LET v == [by |-> a, epoch |-> clock, body |-> b] IN
        Consistent(a, v) /\ votes' = votes \cup {v}
    /\ UNCHANGED <<clock, mirrors, accepted, failures>>

\* A key in hostile hands has signed every body there is.
Forge(k) ==
    /\ k \in Faulty \cup Outsiders
    /\ votes' = votes \cup [by : {k}, epoch : Epochs, body : Bodies]
    /\ UNCHANGED <<clock, mirrors, accepted, failures>>

\* Mutant: every signature counts.
ParsesAny(v, S) == Fresh(v.epoch) /\ Cardinality(S) >= Threshold

\* ParseConsensus: signatures of unknown keys are ignored.
Parses(v, S) == Fresh(v.epoch) /\ Cardinality(S \cap Authorities) >= Threshold

\* MergeConsensus of one part: unknown keys are refused.
Merges(v, S) == S \subseteq Authorities /\ Parses(v, S)

\* A client's Fetcher verifies an answer, whoever sent it.
Fetch ==
    /\ \E v \in Votes : \E S \in SUBSET SignersOf(v) :
        Parses(v, S) /\ accepted' = accepted \cup {v}
    /\ UNCHANGED <<clock, votes, mirrors, failures>>

-------------------------------------------------------------------------------
(* A mirror.  reload runs at start and then in one loop; publisher.mu is   *)
(* held, and nothing is served, from the comparison to the installation.   *)

Goto(m, label) == phase' = [phase EXCEPT ![m] = label]

\* Mutant: the error of the first reload is only logged.
LogOnly(m) == Goto(m, "idle") /\ pending' = [pending EXCEPT ![m] = None]

\* The reload returns an error.  At start the process exits, later it goes on.
GiveUp(m) ==
    /\ Goto(m, IF held[m] = None THEN "down" ELSE "idle")
    /\ pending' = [pending EXCEPT ![m] = None]

SetLock(m, b) == lock' = [lock EXCEPT ![m] = b]

\* The consensus file is read and verified.
Read(m) ==
    /\ phase[m] \in {"down", "idle"}
    /\ \E v \in Votes : \E S \in SUBSET SignersOf(v) :
        Merges(v, S) /\ pending' = [pending EXCEPT ![m] = v]
    /\ Goto(m, "verified")
    /\ UNCHANGED <<clock, votes, disk, lock, held, served, undone, accepted, failures>>

\* It is compared with the document in memory, and the lock directory is made.
Compare(m) ==
    /\ phase[m] = "verified"
    /\ IF Follows(pending[m], held[m]) /\ ~lock[m]
        THEN SetLock(m, TRUE) /\ Goto(m, "recording") /\ UNCHANGED pending
        ELSE GiveUp(m) /\ UNCHANGED lock
    /\ UNCHANGED <<clock, votes, disk, held, served, undone, accepted, failures>>

\* Mutant: the state file is written without a look at what it holds.
Overwritable(w, v) == TRUE

\* The document may be installed after the one on record.
Installable(w, v) == Follows(w, v)

\* recordServedConsensus: compared with the state file, which is replaced and
\* its directory synced.  A vote it holds already is neither written nor synced.
Record(m) ==
    /\ phase[m] = "recording"
    /\ SetLock(m, FALSE)
    /\ IF Installable(pending[m], record[m])
        THEN /\ record' = [record EXCEPT ![m] = pending[m]]
             /\ onDisk' = [onDisk EXCEPT ![m] = IF record[m] = pending[m] THEN @ ELSE {pending[m]}]
             /\ Goto(m, "recorded") /\ UNCHANGED pending
        ELSE GiveUp(m) /\ UNCHANGED disk
    /\ UNCHANGED <<clock, votes, held, served, undone, accepted, failures>>

\* The write stops anywhere: the old file is in place, or the new one is, in a
\* directory that was not synced.
WriteStops(m) ==
    \/ UNCHANGED disk
    \/ /\ Installable(pending[m], record[m])
       /\ record' = [record EXCEPT ![m] = pending[m]]
       /\ onDisk' = [onDisk EXCEPT ![m] = @ \cup {pending[m]}]

\* The state file cannot be read, written or synced.
RecordFails(m) ==
    /\ phase[m] = "recording"
    /\ failures < MaxFailures /\ failures' = failures + 1
    /\ SetLock(m, FALSE)
    /\ WriteStops(m) /\ GiveUp(m)
    /\ UNCHANGED <<clock, votes, held, served, undone, accepted>>

Install(m) ==
    /\ phase[m] = "recorded"
    /\ held' = [held EXCEPT ![m] = pending[m]]
    /\ pending' = [pending EXCEPT ![m] = None]
    /\ Goto(m, "idle")
    /\ UNCHANGED <<clock, votes, disk, lock, served, undone, accepted, failures>>

\* A request is answered with the document in memory, unless it has expired.
Serve(m) ==
    /\ phase[m] \in {"idle", "verified"} /\ held[m] # None
    /\ Fresh(held[m].epoch)
    /\ served' = [served EXCEPT ![m] = @ \cup {held[m]}]
    /\ undone' = [undone EXCEPT ![m] = @ \ {held[m]}]
    /\ UNCHANGED <<clock, votes, disk, lock, held, pending, phase, accepted, failures>>

\* The process is gone.
Dies(m) ==
    /\ failures < MaxFailures /\ failures' = failures + 1
    /\ Goto(m, "down")
    /\ held' = [held EXCEPT ![m] = None]
    /\ pending' = [pending EXCEPT ![m] = None]
    /\ UNCHANGED <<clock, votes, served, accepted>>

\* It is killed.  A lock directory it has made stays behind, ...
Kill(m) ==
    /\ phase[m] # "down" /\ Dies(m)
    /\ IF phase[m] = "recording" THEN WriteStops(m) ELSE UNCHANGED disk
    /\ UNCHANGED <<lock, undone>>

\* ... until the operator removes it.
RemoveLock(m) ==
    /\ lock[m] /\ phase[m] # "recording"
    /\ SetLock(m, FALSE)
    /\ UNCHANGED <<clock, votes, disk, held, pending, phase, served, undone, accepted, failures>>

\* Its machine loses power: a rename that was not synced may be undone, and so
\* may the making or the removal of the lock directory, which no one syncs.
PowerLoss(m) ==
    /\ Dies(m)
    /\ \E v \in onDisk[m] :
        /\ record' = [record EXCEPT ![m] = v]
        /\ onDisk' = [onDisk EXCEPT ![m] = {v}]
        /\ undone' = [undone EXCEPT ![m] =
                        @ \cup {w \in onDisk[m] \ {None} : v = None \/ ~Follows(v, w)}]
    /\ \E b \in {lock[m], record[m] # None} : SetLock(m, b)

Tick ==
    /\ clock + 1 \in Epochs
    /\ clock' = clock + 1
    /\ UNCHANGED <<votes, mirrors, accepted, failures>>

MirrorStep(m) ==
    \/ Read(m) \/ Compare(m) \/ Record(m) \/ RecordFails(m)
    \/ Install(m) \/ Serve(m) \/ Kill(m) \/ PowerLoss(m) \/ RemoveLock(m)

Next ==
    \/ \E k \in Keys : Vote(k) \/ Forge(k)
    \/ \E m \in Mirrors : MirrorStep(m)
    \/ Fetch \/ Tick

Spec == Init /\ [][Next]_vars

-------------------------------------------------------------------------------
(* Properties.                                                             *)

\* Types.  A mirror between reloads has a document, and no other in sight; a
\* power loss may leave its state file as it is.
TypeOK ==
    /\ clock \in Epochs
    /\ votes \subseteq [by : Keys, epoch : Epochs, body : Bodies]
    /\ record \in [Mirrors -> Votes \cup {None}]
    /\ lock \in [Mirrors -> BOOLEAN]
    /\ held \in [Mirrors -> Votes \cup {None}]
    /\ pending \in [Mirrors -> Votes \cup {None}]
    /\ phase \in [Mirrors -> Phases]
    /\ onDisk \in [Mirrors -> SUBSET (Votes \cup {None})]
    /\ served \in [Mirrors -> SUBSET Votes]
    /\ undone \in [Mirrors -> SUBSET Votes]
    /\ accepted \subseteq Votes
    /\ failures \in 0..MaxFailures
    /\ \A m \in Mirrors :
        /\ pending[m] # None <=> phase[m] \notin {"down", "idle"}
        /\ phase[m] = "idle" => held[m] # None
        /\ record[m] \in onDisk[m]

Published == accepted \cup UNION {served[m] : m \in Mirrors}

\* No "split vote": of one epoch, all mirrors and clients ever served or
\* accepted the same body, whatever the joining machines and the hostile keys
\* did ("two conflicting views for the same round").
OneDirectory ==
    \A v, w \in Published : v.epoch = w.epoch => v.body = w.body

\* A mirror restarted at any point, after kills, failed writes and power losses,
\* holds nothing older than what it has served, nor another body of that epoch,
\* except what it served on a record that a power loss took back: one whose write
\* failed or was killed after the rename.
NoRollback ==
    \A m \in Mirrors : \A v \in served[m] \ undone[m] :
        held[m] # None => Follows(held[m], v)

\* "rollback and same-epoch conflict protection survive a restart"
\* (docs/directory.md:196-197).  Refuted: reload after a failed sync of the
\* directory finds the vote in the state file, recordServedConsensus returns
\* without a sync, and a power loss brings the old file back.
RollbackSurvivesRestart ==
    \A m \in Mirrors : \A v \in served[m] :
        held[m] # None => Follows(held[m], v)
===============================================================================
