-------------------------------- MODULE Listing --------------------------------
(***************************************************************************)
(* How an authority daemon comes to list a relay (cmd/council/main.go,     *)
(* internal/directory/store.go, internal/health).  Relays submit signed    *)
(* descriptors, one handler each; every submission ends in a rebuild, as   *)
(* does every boundary of an epoch, and a rebuild reads the directory,     *)
(* probes what it read and serves what is left unless another body has been*)
(* served for the epoch.  The handler's answer says from which epoch the   *)
(* relay can appear.                                                       *)
(*                                                                         *)
(* The daemon signs by itself here: what other processes do to the record  *)
(* of its votes is the subject of Signing.                                 *)
(***************************************************************************)
EXTENDS Naturals, FiniteSets

CONSTANTS
    Operators,      \* identities of relays
    Descriptors,    \* documents: [relay, published, expires]
    Submissions,    \* handlers of POST /publish
    Loop,           \* the main goroutine until it has started, then publisher.loop
    EpochLength, Validity,  \* -rebuild, -lifetime
    ClockSkew,
    UnhealthyAfter,
    Nobody,
    MaxTime,        \* bound: the clock
    MaxMishaps      \* bound: crashes, I/O errors, edits of the accept list

ASSUME ListingAssumption ==
    /\ Descriptors \subseteq [relay : Operators, published : Nat, expires : Nat]
    /\ \A d \in Descriptors : d.published < d.expires
    /\ {EpochLength, UnhealthyAfter} \subseteq Nat \ {0}
    /\ {Validity, ClockSkew, MaxTime, MaxMishaps} \subseteq Nat
    /\ EpochLength < Validity
    /\ Loop \notin Submissions

\* A rebuild in progress, and what it ends in.
Drafts == [epoch : Nat, todo : SUBSET Operators, body : SUBSET Descriptors]
Directories == [epoch : Nat, body : SUBSET Descriptors]

ASSUME NobodyAssumption ==
    Nobody \notin Submissions \cup Descriptors \cup Drafts \cup Directories

VARIABLES
    time,
    file, allowed,  \* the accept list: its file, and as the daemon last read it
    stored,         \* the descriptor directory
    storeLock,      \* the handler that holds Store.mu
    fails,          \* Tracker.failures
    up,             \* "down", "starting", "up"
    wake,           \* the boundary publisher.loop waits for
    served,         \* what GET /consensus serves: epoch and body, Nobody if nothing
    vote,           \* the record of the last signature
    at,             \* where each goroutine is
    doc,            \* the descriptor each handler was sent
    eligible,       \* the epoch each handler would name in its answer, 0 if none
    draft,          \* the rebuild of each goroutine: its epoch, what it has still
                    \* to read or probe, and the body so far
    answers,        \* history: the answers 202
    setAside,       \* history: descriptors a rebuild read and did not list
    rolledBack,     \* history: descriptors on file that an older one replaced
                    \* because the file could not be read
    mishaps

authority   == <<served, vote, fails>>
acceptList  == <<file, allowed>>
handlers    == <<doc, eligible>>
histories   == <<answers, setAside, rolledBack>>
listingVars == <<time, acceptList, stored, storeLock, authority, up, wake, at,
                 handlers, draft, histories, mishaps>>

Goroutines == Submissions \cup {Loop}

ListingInit ==
    /\ time = EpochLength
    /\ file \in {{}, Operators} /\ allowed = file
    /\ stored = [o \in Operators |-> Nobody] /\ storeLock = Nobody
    /\ fails = [o \in Operators |-> 0]
    /\ up = "down" /\ wake = 0
    /\ served = Nobody /\ vote = Nobody
    /\ at = [g \in Goroutines |-> "idle"]
    /\ doc = [s \in Submissions |-> Nobody]
    /\ eligible = [s \in Submissions |-> 0]
    /\ draft = [g \in Goroutines |-> Nobody]
    /\ answers = {} /\ setAside = {} /\ rolledBack = {}
    /\ mishaps = 0

Moves(g, label) == at' = [at EXCEPT ![g] = label]

Mishap == mishaps < MaxMishaps /\ mishaps' = mishaps + 1

-------------------------------------------------------------------------------
\* The epoch of a moment, named by its beginning (Truncate).
EpochOf(t) == (t \div EpochLength) * EpochLength

Expired(d, t) == t > d.expires \/ t + ClockSkew < d.published

\* Valid for the whole window of an epoch.
ValidThroughout(d, e) == ~Expired(d, e) /\ e + Validity <= d.expires

\* The first window, this or the next, that could hold d; 0 if neither can.
FirstListing(d) ==
    LET windows == {e \in {EpochOf(time), EpochOf(time + EpochLength)} : ValidThroughout(d, e)}
    IN  IF windows = {} THEN 0 ELSE CHOOSE e \in windows : \A w \in windows : e <= w

-------------------------------------------------------------------------------
\* A handler ends, whatever it answered.
HandlerEnds(s) ==
    /\ Moves(s, "idle")
    /\ doc' = [doc EXCEPT ![s] = Nobody]
    /\ eligible' = [eligible EXCEPT ![s] = 0]

\* A descriptor that parses arrives, and the accept list is read again; one
\* that cannot be read stays as it was.  An admitted relay hears at once of a
\* descriptor that no window can hold.
Receive(s) ==
    /\ at[s] = "idle" /\ up = "up"
    /\ allowed' \in {file, allowed}
    /\ \E d \in Descriptors :
        IF d.relay \in allowed' /\ FirstListing(d) = 0
        THEN UNCHANGED <<at, doc>>
        ELSE Moves(s, "admit") /\ doc' = [doc EXCEPT ![s] = d]
    /\ UNCHANGED <<time, file, stored, storeLock, authority, up, wake, eligible, draft, histories, mishaps>>

\* Put, before it takes the lock.
Admit(s) ==
    /\ at[s] = "admit"
    /\ IF doc[s].relay \in allowed /\ ~Expired(doc[s], time)
       THEN Moves(s, "compare") /\ UNCHANGED handlers
       ELSE HandlerEnds(s)
    /\ UNCHANGED <<time, acceptList, stored, storeLock, authority, up, wake, draft, histories, mishaps>>

\* Mutant: the stored descriptor is compared before the lock is taken.
CompareUnlocked(s) == UNCHANGED storeLock

TakeStore(s) == storeLock = Nobody /\ storeLock' = s

Newer(d) == stored[d.relay] = Nobody \/ d.published > stored[d.relay].published

\* Put, under the lock: a stored descriptor as new as this one is kept, unless
\* it cannot be read or parsed.  Then nothing is compared (and nothing would be
\* different for a newer one).
Compare(s) ==
    /\ at[s] = "compare" /\ storeLock = Nobody
    /\ \/ /\ IF Newer(doc[s]) THEN TakeStore(s) /\ Moves(s, "install") /\ UNCHANGED handlers
                              ELSE HandlerEnds(s) /\ UNCHANGED storeLock
          /\ UNCHANGED mishaps
       \/ /\ ~Newer(doc[s]) /\ Mishap
          /\ TakeStore(s) /\ Moves(s, "overwrite") /\ UNCHANGED handlers
    /\ UNCHANGED <<time, acceptList, stored, authority, up, wake, draft, histories>>

\* Descriptors the directory held, or held newer ones of, and will not.
Undone(s) ==
    {e \in Descriptors :
        /\ e.relay = doc[s].relay /\ stored[e.relay] # Nobody
        /\ doc[s].published < e.published /\ e.published <= stored[e.relay].published}

\* The temporary file is renamed, or something before that fails.
Install(s) ==
    /\ at[s] \in {"install", "overwrite"}
    /\ storeLock' = (IF storeLock = s THEN Nobody ELSE storeLock)
    /\ \/ /\ stored' = [stored EXCEPT ![doc[s].relay] = doc[s]]
          /\ rolledBack' = rolledBack \cup (IF at[s] = "overwrite" THEN Undone(s) ELSE {})
          /\ Moves(s, "estimate")
          /\ UNCHANGED <<handlers, mishaps>>
       \/ Mishap /\ HandlerEnds(s) /\ UNCHANGED <<stored, rolledBack>>
    /\ UNCHANGED <<time, acceptList, authority, up, wake, draft, answers, setAside>>

Estimate(s) ==
    /\ at[s] = "estimate"
    /\ eligible' = [eligible EXCEPT ![s] = FirstListing(doc[s])]
    /\ Moves(s, "rebuild")
    /\ UNCHANGED <<time, acceptList, stored, storeLock, authority, up, wake, doc, draft, histories, mishaps>>

-------------------------------------------------------------------------------
\* After a submission, at the start, and at the boundary of an epoch.
Due(g) ==
    \/ at[g] = "rebuild"
    \/ g = Loop /\ at[g] = "idle" /\ (up = "starting" \/ (up = "up" /\ time >= wake))

\* A rebuild reads the clock and the names in the directory.
Begin(g) ==
    /\ Due(g)
    /\ draft' = [draft EXCEPT ![g] =
          [epoch |-> EpochOf(time), todo |-> {o \in Operators : stored[o] # Nobody}, body |-> {}]]
    /\ Moves(g, "load")
    /\ UNCHANGED <<time, acceptList, stored, storeLock, authority, up, wake, handlers, histories, mishaps>>

\* A rebuild is done with a relay, and has this body.
Past(g, o, body) ==
    draft' = [draft EXCEPT ![g] = [epoch |-> @.epoch, todo |-> @.todo \ {o}, body |-> body]]

\* The file of one relay is read: it is listed if it is valid for the window.
\* A file that cannot be read is passed over.
Load(g) ==
    /\ at[g] = "load"
    /\ \E o \in draft[g].todo :
        \/ /\ ValidThroughout(stored[o], draft[g].epoch)
           /\ Past(g, o, draft[g].body \cup {stored[o]})
           /\ UNCHANGED <<setAside, mishaps>>
        \/ /\ (~ValidThroughout(stored[o], draft[g].epoch) /\ UNCHANGED mishaps) \/ Mishap
           /\ Past(g, o, draft[g].body)
           /\ setAside' = setAside \cup {[epoch |-> draft[g].epoch, doc |-> stored[o]]}
    /\ UNCHANGED <<time, acceptList, stored, storeLock, authority, up, wake, at, handlers, answers, rolledBack>>

\* All is read: the failures of relays that are no longer here are forgotten,
\* unless there is none to probe.
Forget(g) ==
    /\ at[g] = "load" /\ draft[g].todo = {}
    /\ LET keep == {d.relay : d \in draft[g].body} IN
        /\ fails' = (IF keep = {} THEN fails
                     ELSE [o \in Operators |-> IF o \in keep THEN fails[o] ELSE 0])
        /\ draft' = [draft EXCEPT ![g].todo = keep]
    /\ Moves(g, "probe")
    /\ UNCHANGED <<time, acceptList, stored, storeLock, served, vote, up, wake, handlers, histories, mishaps>>

\* A success ends the failures in a row, which are counted up to the threshold
\* (bound: no count goes further).
Count(o, ok) == IF ok THEN 0 ELSE IF fails[o] < UnhealthyAfter THEN fails[o] + 1 ELSE fails[o]

\* A probe, a TLS handshake with the pinned key, succeeds or fails, and its
\* outcome is recorded: the relay is dropped at the UnhealthyAfter-th failure.
Record(g) ==
    /\ at[g] = "probe"
    /\ \E o \in draft[g].todo, ok \in BOOLEAN :
        LET dropped == {d \in draft[g].body :
                           d.relay = o /\ ~ok /\ Count(o, ok) >= UnhealthyAfter}
        IN  /\ fails' = [fails EXCEPT ![o] = Count(o, ok)]
            /\ Past(g, o, draft[g].body \ dropped)
            /\ setAside' = setAside \cup {[epoch |-> draft[g].epoch, doc |-> d] : d \in dropped}
    /\ UNCHANGED <<time, acceptList, stored, storeLock, served, vote, up, wake, at, handlers, answers, rolledBack, mishaps>>

-------------------------------------------------------------------------------
\* Mutant: the conflict is logged and the answer names the first epoch all the same.
DefersNot(s, e) == eligible[s]

\* A conflict puts the descriptor off to the next epoch.
DefersTo(s, e) == IF eligible[s] < e + EpochLength THEN e + EpochLength ELSE eligible[s]

\* What goroutine g does with the outcome of its rebuild: the loop waits for
\* the next boundary, a start that failed ends the process, a handler answers.
Done(g, outcome) ==
    /\ draft' = [draft EXCEPT ![g] = Nobody]
    /\ IF g = Loop
       THEN /\ Moves(Loop, "idle")
            /\ up' = (IF up = "starting" /\ outcome # "served" THEN "down" ELSE "up")
            /\ wake' = EpochOf(time) + EpochLength
            /\ UNCHANGED <<handlers, answers>>
       ELSE /\ HandlerEnds(g)
            /\ answers' = answers \cup
                  {[doc |-> doc[g], outcome |-> outcome,
                    from |-> IF outcome = "conflict" THEN DefersTo(g, draft[g].epoch) ELSE eligible[g]]}
            /\ UNCHANGED <<up, wake>>

Draft(g) == [epoch |-> draft[g].epoch, body |-> draft[g].body]

\* The record refuses an older vote, and another body for its epoch.
Signable(v) == vote = Nobody \/ (vote # Nobody => v.epoch > vote.epoch \/ v = vote)

\* The end of a rebuild, under publisher.mu.
Seal(g) ==
    /\ at[g] = "probe" /\ draft[g].todo = {}
    /\ LET v    == Draft(g)
           last == IF served = Nobody THEN v ELSE served
       IN  \/ /\ v.epoch > last.epoch \/ v = last
              /\ Signable(v)
              /\ served' = v /\ vote' = v
              /\ Done(g, "served") /\ UNCHANGED mishaps
           \/ /\ v.epoch = last.epoch /\ v # last
              /\ Done(g, "conflict") /\ UNCHANGED <<served, vote, mishaps>>
           \/ /\ v.epoch < last.epoch
              /\ Done(g, "rollback") /\ UNCHANGED <<served, vote, mishaps>>
           \/ /\ v.epoch > last.epoch \/ v = last
              /\ \/ ~Signable(v) /\ UNCHANGED <<vote, mishaps>>
                 \/ Signable(v) /\ Mishap /\ vote' \in {vote, v}
              /\ Done(g, "failed") /\ UNCHANGED served
    /\ UNCHANGED <<time, acceptList, stored, storeLock, fails, setAside, rolledBack>>

\* The directory itself cannot be read.
NoDirectory(g) ==
    /\ Due(g) /\ Mishap
    /\ Done(g, "failed")
    /\ UNCHANGED <<time, acceptList, stored, storeLock, authority, setAside, rolledBack>>

-------------------------------------------------------------------------------
\* The daemon is started: it reads the accept list and rebuilds before it serves.
Start ==
    /\ up = "down"
    /\ up' = "starting" /\ allowed' = file
    /\ UNCHANGED <<time, file, stored, storeLock, authority, wake, at, handlers, draft, histories, mishaps>>

\* The process is killed: the files remain, and what was answered.
Crash ==
    /\ up = "up" /\ Mishap
    /\ up' = "down" /\ wake' = 0
    /\ storeLock' = Nobody /\ served' = Nobody
    /\ fails' = [o \in Operators |-> 0]
    /\ at' = [g \in Goroutines |-> "idle"] /\ draft' = [g \in Goroutines |-> Nobody]
    /\ doc' = [s \in Submissions |-> Nobody] /\ eligible' = [s \in Submissions |-> 0]
    /\ UNCHANGED <<time, acceptList, stored, vote, histories>>

\* The authority's operator edits the accept list.
Edit ==
    /\ Mishap
    /\ \E o \in Operators : file' = (IF o \in file THEN file \ {o} ELSE file \cup {o})
    /\ UNCHANGED <<time, allowed, stored, storeLock, authority, up, wake, at, handlers, draft, histories>>

Passes ==
    /\ time < MaxTime /\ time' = time + 1
    /\ UNCHANGED <<acceptList, stored, storeLock, authority, up, wake, at, handlers, draft, histories, mishaps>>

ListingNext ==
    \/ \E s \in Submissions :
        Receive(s) \/ Admit(s) \/ Compare(s) \/ Install(s) \/ Estimate(s)
    \/ \E g \in Goroutines :
        Begin(g) \/ Load(g) \/ Forget(g) \/ Record(g) \/ Seal(g) \/ NoDirectory(g)
    \/ Start \/ Crash \/ Edit \/ Passes

ListingSpec == ListingInit /\ [][ListingNext]_listingVars

-------------------------------------------------------------------------------
\* "eligible from the consensus beginning ...": what a relay was told on its
\* submission (submitHandler) holds of every consensus served afterwards, across
\* conflicts, restarts, replays and submissions that overtake one another.  From
\* the epoch named the relay is listed, with the descriptor it submitted or a
\* newer one, unless a rebuild of that epoch read such a descriptor and set it
\* aside as not valid for the window, unreadable or unhealthy.  Two promises are
\* excepted: one made after a rebuild that failed, since nothing checks what it
\* says, and one whose descriptor an older one replaced on file because Put
\* could not read it.  That the epoch named is one that could list the relay is
\* another matter (EligibleCanList).
PromisedIsListed ==
    \A a \in answers : a.outcome # "failed" /\ a.doc \notin rolledBack /\ served # Nobody =>
        LET Fulfils(d) == d.relay = a.doc.relay /\ d.published >= a.doc.published IN
        served.epoch >= a.from =>
            \/ \E d \in served.body : Fulfils(d)
            \/ \E x \in setAside : x.epoch = served.epoch /\ Fulfils(x.doc)

\* What docs/directory.md says of replays: a submission no newer than what is
\* stored is refused, so a relay is never moved back to an earlier descriptor.
\* Refuted: Put compares only with a stored descriptor it can read.
NeverMovedBack ==
    [][\A o \in Operators : stored[o] # Nobody /\ stored'[o] # stored[o] =>
          stored'[o].published > stored[o].published]_stored

\* What it says of the answer: an accepted submission hears of a consensus it is
\* eligible for, also when it is put off to the next one, and is refused when it
\* could never be listed.
EligibleCanList ==
    \A a \in answers : a.outcome = "conflict" => ValidThroughout(a.doc, a.from)
===============================================================================
