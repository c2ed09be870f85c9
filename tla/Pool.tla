---------------------------------- MODULE Pool ----------------------------------
(***************************************************************************)
(* The relay pool of the local client (internal/pool/pool.go): one loop    *)
(* refreshes the relay set from the directory (internal/directory          *)
(* client.go) while requests dial through it.  Dials copy the candidates   *)
(* under the lock and report what became of each afterwards.               *)
(*                                                                         *)
(* Consensus documents are numbered by the time they are valid from; that  *)
(* there is one of each number is what module Council shows.  An entry of  *)
(* the set is a relay and the document that introduced it: the pointer     *)
(* that survives refreshes while the relay stays listed.                   *)
(***************************************************************************)
EXTENDS Ranger, Sequences, SequencesExt

CONSTANTS
    Documents,  \* numbers of the documents
    Lists,      \* document -> relays for this destination, without the expired
                \* ones and those no dialer can be made for
    Valid,      \* moments a document stays fresh
    Ahead,      \* moments it may come early: clockSkew
    MaxStale,
    MaxNow      \* bound: the clock stops here

ASSUME PoolAssumption ==
    /\ Documents \subseteq Nat /\ Lists \in [Documents -> SUBSET Relays]
    /\ \A e \in Documents : IsFiniteSet(Lists[e])
    /\ Nil \notin Documents /\ Nil \notin Relays \X Documents
    /\ Valid \in Nat /\ Ahead \in Nat /\ MaxStale \in Nat /\ MaxNow \in Nat

VARIABLES
    now,
    relays,    \* p.relays: entries in the order they are tried
    guard,     \* p.guard: an entry
    validity,  \* p.validAfter and p.validUntil: the document they are from
    failing,   \* p.refreshFailing
    fetched,   \* the document Refresh works with
    resting,   \* entries in backoff
    dial,      \* each dial, one for each connection: its step and candidates left
    source,    \* history: the document of the installed set
    newest,    \* history: the newest document accepted
    overtaken  \* history: the entries that became guard by a dial which a new set
               \* overtook, since that set was installed

poolVars == <<now, relays, guard, validity, failing, fetched, resting, dial,
              source, newest, overtaken>>

PoolInit ==
    /\ now = 0 /\ relays = <<>> /\ guard = Nil /\ validity = Nil
    /\ failing = FALSE /\ fetched = Nil /\ resting = {}
    /\ dial = [d \in Conns |-> [step |-> "idle", left |-> <<>>, late |-> FALSE]]
    /\ source = Nil /\ newest = Nil /\ overtaken = {}
--------------------------------------------------------------------------------
(* Refresh, in one loop: at start and on a timer *)

FreshNow(e) == e <= now + Ahead /\ now < e + Valid

\* Mutant: any document that verifies.
AcceptableAny(e) == FreshNow(e)

\* FetchNewer: some endpoint serves a document that verifies and is no older
\* than the one held when the fetch began.  Another one may serve anything.
Acceptable(e) == FreshNow(e) /\ (validity # Nil => e >= validity)

\* The document's validity is taken over; its relays are not installed yet.
Refresh(e) ==
    /\ fetched = Nil /\ Acceptable(e)
    /\ fetched' = e /\ validity' = e
    /\ newest' = IF newest = Nil \/ (newest # Nil => e > newest) THEN e ELSE newest
    /\ UNCHANGED <<now, relays, guard, failing, resting, dial, source, overtaken>>

\* No endpoint served one.  The relays already held stay.
RefreshFails ==
    /\ fetched = Nil
    /\ failing' = TRUE
    /\ UNCHANGED <<now, relays, guard, validity, fetched, resting, dial, source, newest,
                   overtaken>>

\* Mutant: a document without a usable relay counts as a good refresh.
NothingUsableUnnoticed ==
    /\ fetched # Nil
    /\ fetched # Nil => Lists[fetched] = {}
    /\ fetched' = Nil /\ failing' = FALSE
    /\ UNCHANGED <<now, relays, guard, validity, resting, dial, source, newest, overtaken>>

\* It lists no relay for the destination, or none a dialer can be made for.
NothingUsable ==
    /\ fetched # Nil
    /\ fetched # Nil => Lists[fetched] = {}
    /\ fetched' = Nil /\ failing' = TRUE
    /\ UNCHANGED <<now, relays, guard, validity, resting, dial, source, newest, overtaken>>

\* The entry of a relay: the one already known, or a new one.
Entry(r) ==
    LET known == {e \in ToSet(relays) : e[1] = r}
    IN  IF known # {} THEN CHOOSE e \in known : TRUE ELSE <<r, fetched>>

\* Mutant: the guard outlives the listing.
InstallKeepsGuard ==
    /\ fetched # Nil
    /\ LET next == {Entry(r) : r \in Lists[fetched]} IN
        /\ next # {}
        /\ \E order \in SetToSeqs(next) : relays' = order
        /\ resting' = {e \in resting : e \in next \/ e = guard}
    /\ failing' = FALSE /\ fetched' = Nil
    /\ source' = fetched /\ overtaken' = {}
    /\ dial' = [d \in Conns |-> [dial[d] EXCEPT !.late = dial[d].step \in {"next", "asked"}]]
    /\ UNCHANGED <<now, guard, validity, newest>>

\* install: shuffled, with what is known of relays that stay; the guard is kept
\* if it is one of them.
InstallRelays ==
    /\ fetched # Nil
    /\ LET next == {Entry(r) : r \in Lists[fetched]} IN
        /\ next # {}
        /\ \E order \in SetToSeqs(next) : relays' = order
        /\ guard' = IF guard \in next THEN guard ELSE Nil
        /\ resting' = resting \cap next
    /\ failing' = FALSE /\ fetched' = Nil
    /\ source' = fetched /\ overtaken' = {}
    /\ dial' = [d \in Conns |-> [dial[d] EXCEPT !.late = dial[d].step \in {"next", "asked"}]]
    /\ UNCHANGED <<now, validity, newest>>
--------------------------------------------------------------------------------
(* DialContext *)

TooStale == validity # Nil /\ (validity # Nil => now > validity + Valid + MaxStale)

InOrder(e, f) == \E i, j \in 1..Len(relays) : i < j /\ relays[i] = e /\ relays[j] = f

\* candidates: the guard first, then the others in their order, without those in
\* backoff; all of the set when nothing else is left.  There is one such sequence.
Candidates(backoff) ==
    LET others == {e \in ToSet(relays) : e # guard /\ e \notin backoff}
        first == IF guard # Nil /\ guard \notin backoff THEN <<guard>> ELSE <<>>
    IN  {IF first \o rest = <<>> THEN relays ELSE first \o rest : rest \in
            {q \in SetToSeqs(others) : \A i \in 1..(Len(q) - 1) : InOrder(q[i], q[i + 1])}}

\* Any of the backoffs may have ended by now.
StartDial(d) ==
    /\ dial[d].step = "idle"
    /\ resting' \in SUBSET resting
    /\ IF relays = <<>> \/ TooStale THEN dial' = [dial EXCEPT ![d].step = "over"]
       ELSE \E left \in Candidates(resting') :
            dial' = [dial EXCEPT ![d] = [@ EXCEPT !.step = "next", !.left = left]]
    /\ UNCHANGED <<now, relays, guard, validity, failing, fetched, source, newest,
                   overtaken, rangerVars>>

\* fail: the entry rests.  One that is neither listed nor guard is forgotten.
Failed(e) == resting' = IF e \in ToSet(relays) \/ e = guard THEN resting \cup {e} ELSE resting

\* The 200 has arrived.
Ok(c) == conn[c] # Nil /\ (conn[c] # Nil => conn[c].ok)

\* The client closes its end.
Leave(c) == conn' = IF conn[c] = Nil THEN conn ELSE [conn EXCEPT ![c].open = FALSE]

\* What follows an attempt that failed: the next candidate, or the end.
Onward(d) ==
    LET left == Tail(dial[d].left)
    IN  dial' = [dial EXCEPT ![d] = [step |-> IF left = <<>> THEN "over" ELSE "next",
                                     left |-> left,
                                     late |-> @.late /\ left # <<>>]]

\* A tunnel is asked of the next candidate.  Bound: the relay asked before has
\* let go of its connection by then.
Ask(d) ==
    /\ dial[d].step = "next"
    /\ Connects(d, Head(dial[d].left)[1])
    /\ dial' = [dial EXCEPT ![d].step = "asked"]
    /\ UNCHANGED <<now, relays, guard, validity, failing, fetched, resting, source, newest,
                   overtaken>>

\* Nobody answers at the address, or with another key than the published one, or
\* the relay refuses: bad secret, destination, no slot.
Unreachable(d) ==
    /\ dial[d].step = "next"
    /\ Failed(Head(dial[d].left)) /\ Onward(d)
    /\ UNCHANGED <<now, relays, guard, validity, failing, fetched, source, newest, overtaken, rangerVars>>

\* The relay closes or takes longer than a dial may, and the client closes.
Refused(d) ==
    /\ dial[d].step = "asked" /\ ~Ok(d)
    /\ Failed(Head(dial[d].left)) /\ Onward(d)
    /\ Leave(d)
    /\ UNCHANGED <<now, relays, guard, validity, failing, fetched, source, newest, overtaken, reserved, ranger, tunnels, cutting>>

\* succeed: the entry of the dial becomes the guard, listed or not.  The request
\* has its tunnel, until either side closes it.
Succeed(d) ==
    /\ dial[d].step = "asked" /\ Ok(d)
    /\ LET e == Head(dial[d].left) IN
        /\ guard' = e /\ resting' = resting \ {e}
        /\ overtaken' = IF dial[d].late /\ guard # e THEN overtaken \cup {e} ELSE overtaken
    /\ dial' = [dial EXCEPT ![d] = [step |-> "over", left |-> <<>>, late |-> FALSE]]
    /\ UNCHANGED <<now, relays, validity, failing, fetched, source, newest, rangerVars>>

\* The request is cancelled: no relay is blamed for it.
Cancelled(d) ==
    /\ dial[d].step \in {"next", "asked"}
    /\ dial' = [dial EXCEPT ![d] = [step |-> "over", left |-> <<>>, late |-> FALSE]]
    /\ IF dial[d].step = "asked" THEN Leave(d) ELSE UNCHANGED conn
    /\ UNCHANGED <<now, relays, guard, validity, failing, fetched, resting, source, newest,
                   overtaken, reserved, ranger, tunnels, cutting>>

TimePasses ==
    /\ now < MaxNow /\ now' = now + 1
    /\ UNCHANGED <<relays, guard, validity, failing, fetched, resting, dial, source, newest,
                   overtaken, rangerVars>>

RefreshStep ==
    /\ (\E e \in Documents : Refresh(e)) \/ RefreshFails \/ NothingUsable \/ InstallRelays
    /\ UNCHANGED rangerVars

PoolStep ==
    \/ RefreshStep
    \/ \E d \in Conns :
        \/ StartDial(d) \/ Ask(d) \/ Unreachable(d) \/ Refused(d) \/ Succeed(d) \/ Cancelled(d)
    \/ TimePasses
--------------------------------------------------------------------------------
(* Properties *)

\* When DirectoryHealth says that the refresh is well, the relays in use are
\* those of the newest document ever accepted, and the staleness ceiling is
\* measured by that document: a mirror that replays, a document without a usable
\* relay and a failed fetch all show.
HealthIsTrue ==
    ~failing /\ fetched = Nil => source = newest /\ validity = newest

\* A relay that was withdrawn is guard only because a dial that began before the
\* withdrawal succeeded through that relay after it, and no longer than to the
\* next installed set.  As long as it is guard, dials that begin later try it first
\* and may make it guard again.
WithdrawnGuardWasDialing ==
    guard # Nil /\ guard \notin ToSet(relays) => guard \in overtaken
===============================================================================
