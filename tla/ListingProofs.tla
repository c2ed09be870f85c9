----------------------------- MODULE ListingProofs -----------------------------
(***************************************************************************)
(* What an authority tells a relay holds (cmd/council/main.go): theorems   *)
(* about Listing for any number of relays, descriptors, handlers, crashes  *)
(* and ticks of the clock.                                                 *)
(***************************************************************************)
EXTENDS Listing, TLAPS

\* Two descriptors of a relay, the first at least as new.
Fulfils(d, e) == d.relay = e.relay /\ d.published >= e.published

\* A body of an epoch does what a relay that submitted e was told, if it has to:
\* it lists the relay, or a rebuild of that epoch set the relay's descriptor
\* aside, or an older descriptor has replaced e's in the directory unread.
Covers(body, epoch, e) ==
    \/ e \in rolledBack
    \/ \E d \in body : Fulfils(d, e)
    \/ \E x \in setAside : x.epoch = epoch /\ Fulfils(x.doc, e)

\* A descriptor that was installed is in the directory, or a newer one is, or it
\* was replaced unread.
Filed(e) ==
    /\ e \in Descriptors /\ stored[e.relay] # Nobody
    /\ Fulfils(stored[e.relay], e) \/ e \in rolledBack

\* A handler that holds the lock of the store.
Storing == {"install", "overwrite"}

Rebuilding == {g \in Goroutines : at[g] \in {"load", "probe"}}

\* A rebuild that began when e was in the directory covers it, or will read it.
Sees(g, e) ==
    \/ Covers(draft[g].body, draft[g].epoch, e)
    \/ at[g] = "load" /\ e.relay \in draft[g].todo

\* Handlers whose descriptor is in the directory, and those whose rebuild runs.
Filers == {s \in Submissions : at[s] \in {"estimate", "rebuild", "load", "probe"}}
Rebuilders == {s \in Submissions : at[s] \in {"load", "probe"}}

Asides == [epoch : Nat, doc : Descriptors]
Answers == [doc : Descriptors, outcome : {"served", "conflict", "rollback", "failed"}, from : Nat]

-------------------------------------------------------------------------------
(* The inductive invariant.                                                *)

Shapes ==
    /\ time \in Nat
    /\ stored \in [Operators -> Descriptors \cup {Nobody}]
    /\ \A o \in Operators : stored[o] # Nobody => stored[o].relay = o
    /\ served \in Directories \cup {Nobody}
    /\ at \in [Goroutines -> {"idle", "admit", "compare", "install", "overwrite", "estimate", "rebuild", "load", "probe"}]
    /\ doc \in [Submissions -> Descriptors \cup {Nobody}]
    /\ eligible \in [Submissions -> Nat]
    /\ draft \in [Goroutines -> Drafts \cup {Nobody}]
    /\ setAside \subseteq Asides /\ answers \subseteq Answers

\* A handler past the first step has its descriptor, and one about to install it
\* holds the lock and found nothing as new, or could not read what there is.
\* The loop only rebuilds.
Handling ==
    /\ \A s \in Submissions : at[s] # "idle" => doc[s] \in Descriptors
    /\ \A s \in Submissions : at[s] \in Storing => storeLock = s
    /\ \A s \in Submissions : at[s] = "install" => Newer(doc[s])
    /\ \A s \in Filers : Filed(doc[s])
    /\ at[Loop] \in {"idle", "load", "probe"}
    /\ \A g \in Rebuilding :
        /\ draft[g] \in Drafts
        /\ at[g] = "load" => \A o \in draft[g].todo : stored[o] # Nobody

\* No epoch is ahead of the clock.
NotAhead ==
    /\ \A g \in Rebuilding : draft[g].epoch <= EpochOf(time)
    /\ served # Nobody => served.epoch <= EpochOf(time)

\* A handler's own rebuild sees its descriptor; every other does or is for no later
\* an epoch; and a body served for a later epoch covers the descriptor.
Pending ==
    \A s \in Rebuilders :
        /\ Sees(s, doc[s])
        /\ \A g \in Rebuilding : Sees(g, doc[s]) \/ draft[g].epoch <= draft[s].epoch
        /\ served # Nobody /\ served.epoch > draft[s].epoch => Covers(served.body, served.epoch, doc[s])

\* An answer is kept by what is served, and every rebuild under way sees its
\* descriptor, is for an epoch before the one named, or comes too late to be
\* served.
Kept(a) ==
    /\ served # Nobody /\ served.epoch >= a.from => Covers(served.body, served.epoch, a.doc)
    /\ \A g \in Rebuilding :
        \/ Sees(g, a.doc)
        \/ draft[g].epoch < a.from
        \/ served # Nobody /\ draft[g].epoch <= served.epoch

Answered ==
    \A a \in answers : Filed(a.doc) /\ (a.outcome # "failed" => Kept(a))

IInv == Shapes /\ Handling /\ NotAhead /\ Pending /\ Answered

-------------------------------------------------------------------------------
(* Epochs.                                                                 *)

LEMMA Divided ==
    ASSUME NEW n \in Nat, NEW p \in Nat \ {0}
    PROVE  n \div p \in Nat /\ n % p \in 0..(p - 1) /\ (n \div p) * p + (n % p) = n
<1>1. n \div p \in Nat
  OBVIOUS
<1>2. n % p \in 0..(p - 1)
  OBVIOUS
<1>3. (n \div p) * p + (n % p) = n
  OBVIOUS
<1> QED BY <1>1, <1>2, <1>3

LEMMA Multiples ==
    ASSUME NEW i \in Nat, NEW q \in Nat, i <= q, NEW p \in Nat
    PROVE  i * p \in Nat /\ q * p \in Nat /\ i * p <= q * p
<1>1. PICK d \in Nat : q = i + d
  <2>1. q - i \in Nat /\ q = i + (q - i)
    OBVIOUS
  <2> QED BY <2>1
<1>2. q * p = i * p + d * p
  BY <1>1
<1>3. d * p \in Nat /\ i * p \in Nat
  OBVIOUS
<1> QED BY <1>2, <1>3

\* Later moments are in the same epoch or in later ones.
LEMMA EpochGrows ==
    ASSUME NEW t \in Nat
    PROVE  EpochOf(t) \in Nat /\ EpochOf(t + 1) \in Nat /\ EpochOf(t) <= EpochOf(t + 1)
<1> DEFINE len == EpochLength
<1>1. len \in Nat \ {0} /\ t + 1 \in Nat
  BY ListingAssumption
<1> HIDE DEF len
<1> PICK d \in Nat, r \in 0..(len - 1) : d = t \div len /\ d * len + r = t
  BY <1>1, Divided
<1> PICK e \in Nat, q \in 0..(len - 1) : e = (t + 1) \div len /\ e * len + q = t + 1
  BY <1>1, Divided
<1>2. d * len \in Nat /\ e * len \in Nat
  BY <1>1, Multiples
<1>3. d * len <= e * len
  <2>1. CASE d <= e
    BY <1>1, <2>1, Multiples
  <2>2. CASE e + 1 <= d
    <3>1. (e + 1) * len <= d * len
      BY <1>1, <2>2, Multiples
    <3>2. (e + 1) * len = e * len + len
      BY <1>1
    <3> QED BY <1>1, <1>2, <3>1, <3>2
  <2> QED BY <2>1, <2>2
<1>4. EpochOf(t) = d * len /\ EpochOf(t + 1) = e * len
  BY DEF EpochOf, len
<1> QED BY <1>2, <1>3, <1>4

\* An epoch is a number, and so is what a handler names.
LEMMA FirstListingType == ASSUME NEW d, time \in Nat PROVE FirstListing(d) \in Nat
<1> DEFINE windows == {e \in {EpochOf(time), EpochOf(time + EpochLength)} : ValidThroughout(d, e)}
<1>1. windows \subseteq Nat
  BY EpochGrows, ListingAssumption
<1>2. CASE windows = {}
  BY <1>2 DEF FirstListing
<1>3. CASE windows # {}
  <2>1. EpochOf(time) \in Nat /\ EpochOf(time + EpochLength) \in Nat
    BY EpochGrows, ListingAssumption
  <2>2. \E e \in windows : \A w \in windows : e <= w
    BY <1>3, <2>1
  <2> HIDE DEF windows
  <2>3. FirstListing(d) = CHOOSE e \in windows : \A w \in windows : e <= w
    BY <1>3 DEF FirstListing, windows
  <2> QED BY <1>1, <2>2, <2>3
<1> QED BY <1>2, <1>3

-------------------------------------------------------------------------------
(* The steps of a handler before its rebuild.                              *)

\* A moving goroutine leaves the others where they are.
LEMMA Moved ==
    ASSUME Shapes, NEW g \in Goroutines, NEW step, at' = [at EXCEPT ![g] = step]
    PROVE  at'[g] = step /\ \A h \in Goroutines : h # g => at'[h] = at[h]
BY DEF Shapes

\* Nothing that a rebuild has read or that was answered changes.
LEMMA Frame ==
    ASSUME Shapes, Pending, Answered, Rebuilding' = Rebuilding, Rebuilders' = Rebuilders,
           \A g \in Rebuilding : at'[g] = at[g], \A s \in Rebuilders : doc'[s] = doc[s],
           UNCHANGED <<served, draft, setAside, answers>>, rolledBack \subseteq rolledBack',
           \A e \in Descriptors : Filed(e) => Filed(e)'
    PROVE  Pending' /\ Answered'
<1>1. \A body, epoch, e : Covers(body, epoch, e) => Covers(body, epoch, e)'
  BY DEF Covers
<1>2. \A g \in Rebuilding, e \in Descriptors : Sees(g, e) => Sees(g, e)'
  BY <1>1 DEF Sees
<1>3. \A s \in Rebuilders : s \in Rebuilding
  BY DEF Rebuilders, Rebuilding, Goroutines
<1>4. Pending'
  <2> SUFFICES ASSUME NEW s \in Rebuilders
               PROVE  /\ Sees(s, doc[s])'
                      /\ \A g \in Rebuilding : Sees(g, doc[s])' \/ draft[g].epoch <= draft[s].epoch
                      /\ served # Nobody /\ served.epoch > draft[s].epoch
                            => Covers(served.body, served.epoch, doc[s])'
    BY DEF Pending
  <2> PICK e : e = doc[s] /\ e = doc'[s]
    OBVIOUS
  <2>1. Sees(s, e) => Sees(s, e)'
    BY <1>1, <1>3 DEF Sees
  <2>2. \A g \in Rebuilding : Sees(g, e) => Sees(g, e)'
    BY <1>1 DEF Sees
  <2>3. served # Nobody /\ served.epoch > draft[s].epoch => Covers(served.body, served.epoch, e)'
    BY <1>1 DEF Pending
  <2>4. Sees(s, e) /\ \A g \in Rebuilding : Sees(g, e) \/ draft[g].epoch <= draft[s].epoch
    BY DEF Pending
  <2> QED BY <2>1, <2>2, <2>3, <2>4 DEF Sees, Covers
<1>5. Answered'
  <2> SUFFICES ASSUME NEW a \in answers
               PROVE  Filed(a.doc)' /\ (a.outcome # "failed" => Kept(a)')
    BY DEF Answered
  <2>1. a.doc \in Descriptors /\ Filed(a.doc)
    BY DEF Answered, Filed
  <2>2. ASSUME a.outcome # "failed" PROVE Kept(a)'
    BY <1>1, <1>2, <2>1, <2>2 DEF Answered, Kept
  <2> QED BY <2>1, <2>2
<1> QED BY <1>4, <1>5

LEMMA HandlerMoves ==
    ASSUME IInv, NEW s \in Submissions, at[s] \in {"idle", "admit", "compare"} \cup Storing,
           NEW step \in {"idle", "admit", "compare"} \cup Storing, NEW d \in Descriptors \cup {Nobody},
           at' = [at EXCEPT ![s] = step], doc' = [doc EXCEPT ![s] = d],
           eligible' \in [Submissions -> Nat],
           step # "idle" => d \in Descriptors,
           step \in Storing => storeLock' = s,
           step = "install" => Newer(d),
           \A r \in Submissions : r # s /\ at[r] \in Storing => storeLock' = storeLock,
           UNCHANGED <<time, stored, served, draft, setAside, rolledBack, answers>>
    PROVE  IInv'
<1> USE DEF IInv
<1>0. s \in Goroutines /\ s # Loop
  BY ListingAssumption DEF Goroutines
<1>1. at'[s] = step /\ \A h \in Goroutines : h # s => at'[h] = at[h]
  BY <1>0, Moved
<1>2. doc'[s] = d /\ \A r \in Submissions : r # s => doc'[r] = doc[r]
  BY DEF Shapes
<1>3. Rebuilding' = Rebuilding /\ s \notin Rebuilding
  BY <1>0, <1>1 DEF Storing, Rebuilding
<1>4. Rebuilders' = Rebuilders /\ Filers' = Filers /\ s \notin Rebuilders /\ s \notin Filers
  BY <1>0, <1>1 DEF Storing, Rebuilders, Filers, Goroutines
<1>5. Shapes'
  BY DEF Storing, Shapes
<1>6. \A e \in Descriptors : Filed(e) => Filed(e)'
  BY DEF Filed
<1>7. Handling'
  <2>1. \A r \in Submissions : at'[r] # "idle" => doc'[r] \in Descriptors
    BY <1>0, <1>1, <1>2 DEF Handling, Goroutines
  <2>2. \A r \in Submissions : (at'[r] \in Storing => storeLock' = r) /\ (at'[r] = "install" => Newer(doc'[r]))
    BY <1>0, <1>1, <1>2 DEF Handling, Goroutines
  <2>3. \A r \in Filers : Filed(doc'[r])
    BY <1>2, <1>4 DEF Handling, Filers
  <2>4. at'[Loop] \in {"idle", "load", "probe"}
    BY <1>0, <1>1 DEF Handling, Goroutines
  <2>5. \A g \in Rebuilding : draft'[g] \in Drafts /\ (at'[g] = "load" => \A o \in draft'[g].todo : stored'[o] # Nobody)
    BY <1>1, <1>3 DEF Handling, Rebuilding
  <2>6. \A r \in Filers : Filed(doc[r])'
    BY <2>3 DEF Filed
  <2>7. \A r \in Submissions : at'[r] = "install" => Newer(doc[r])'
    BY <2>2 DEF Newer
  <2> QED BY <2>1, <2>2, <2>4, <2>5, <2>6, <2>7, <1>3, <1>4 DEF Handling
<1>8. NotAhead'
  BY <1>3 DEF NotAhead, EpochOf
<1>9. Pending' /\ Answered'
  <2>1. \A g \in Rebuilding : at'[g] = at[g]
    BY <1>1, <1>3 DEF Rebuilding
  <2>2. \A r \in Rebuilders : doc'[r] = doc[r]
    BY <1>2, <1>4 DEF Rebuilders
  <2> QED BY <1>3, <1>4, <1>6, <2>1, <2>2, Frame
<1> QED BY <1>5, <1>7, <1>8, <1>9

LEMMA BeforeStore ==
    ASSUME IInv, NEW s \in Submissions, Receive(s) \/ Admit(s) \/ Compare(s)
    PROVE  IInv'
<1>1. Shapes /\ Handling
  BY DEF IInv
<1>2. doc[s] \in Descriptors \cup {Nobody} /\ eligible \in [Submissions -> Nat]
      /\ doc \in [Submissions -> Descriptors \cup {Nobody}]
  BY <1>1 DEF Shapes
<1>3. UNCHANGED <<time, stored, served, draft, setAside, rolledBack, answers>>
  BY DEF Receive, Admit, Compare, authority, histories
<1>4. ASSUME HandlerEnds(s), at[s] \in {"admit", "compare"}, UNCHANGED storeLock PROVE IInv'
  <2>1. at' = [at EXCEPT ![s] = "idle"] /\ doc' = [doc EXCEPT ![s] = Nobody] /\ eligible' \in [Submissions -> Nat]
    BY <1>2, <1>4 DEF HandlerEnds, Moves
  <2> QED BY <1>3, <1>4, <2>1, HandlerMoves DEF Storing
<1>5. CASE Receive(s)
  <2>1. at[s] = "idle" /\ UNCHANGED <<storeLock, eligible>>
    BY <1>5 DEF Receive
  <2>2. CASE UNCHANGED <<at, doc>>
    <3>1. s \in Goroutines /\ at' = [at EXCEPT ![s] = "idle"] /\ doc' = [doc EXCEPT ![s] = doc[s]]
      BY <1>1, <2>1, <2>2 DEF Shapes, Goroutines
    <3> QED BY <1>2, <1>3, <2>1, <3>1, HandlerMoves DEF Storing
  <2>3. ASSUME NEW d \in Descriptors, Moves(s, "admit"), doc' = [doc EXCEPT ![s] = d] PROVE IInv'
    BY <1>2, <1>3, <2>1, <2>3, HandlerMoves DEF Moves, Storing
  <2> QED BY <1>5, <2>2, <2>3 DEF Receive
<1>6. CASE Admit(s)
  <2>1. at[s] = "admit" /\ UNCHANGED storeLock
    BY <1>6 DEF Admit
  <2>2. CASE Moves(s, "compare") /\ UNCHANGED handlers
    <3>1. doc[s] \in Descriptors /\ doc' = [doc EXCEPT ![s] = doc[s]] /\ UNCHANGED eligible
      BY <1>1, <1>2, <2>1, <2>2 DEF Handling, handlers
    <3> QED BY <1>2, <1>3, <2>1, <2>2, <3>1, HandlerMoves DEF Moves, Storing
  <2> QED BY <1>4, <1>6, <2>1, <2>2 DEF Admit
<1>7. CASE Compare(s)
  <2>1. at[s] = "compare" /\ storeLock = Nobody
    BY <1>7 DEF Compare
  <2>2. CASE TakeStore(s) /\ Moves(s, "install") /\ UNCHANGED handlers /\ Newer(doc[s])
    <3>1. doc[s] \in Descriptors /\ doc' = [doc EXCEPT ![s] = doc[s]] /\ UNCHANGED eligible
      BY <1>1, <1>2, <2>1, <2>2 DEF Handling, handlers
    <3>2. \A r \in Submissions : at[r] \notin Storing
      BY <1>1, <2>1, NobodyAssumption DEF Handling
    <3> QED BY <1>2, <1>3, <2>1, <2>2, <3>1, <3>2, HandlerMoves DEF Moves, TakeStore, Storing
  <2>3. CASE TakeStore(s) /\ Moves(s, "overwrite") /\ UNCHANGED handlers
    <3>1. doc[s] \in Descriptors /\ doc' = [doc EXCEPT ![s] = doc[s]] /\ UNCHANGED eligible
      BY <1>1, <1>2, <2>1, <2>3 DEF Handling, handlers
    <3>2. \A r \in Submissions : at[r] \notin Storing
      BY <1>1, <2>1, NobodyAssumption DEF Handling
    <3> QED BY <1>2, <1>3, <2>1, <2>3, <3>1, <3>2, HandlerMoves DEF Moves, TakeStore, Storing
  <2> QED BY <1>4, <1>7, <2>1, <2>2, <2>3 DEF Compare
<1> QED BY <1>5, <1>6, <1>7

\* A descriptor is installed over an older one, or over one that was not read.
LEMMA InstallStep == ASSUME IInv, NEW s \in Submissions, Install(s) PROVE IInv'
<1> USE DEF IInv
<1>0. s \in Goroutines /\ s # Loop /\ at[s] \in Storing /\ storeLock = s
      /\ doc[s] \in Descriptors /\ (at[s] = "install" => Newer(doc[s]))
  BY ListingAssumption DEF Goroutines, Install, Handling, Storing
<1>i. \A r \in Submissions : r # s => at[r] \notin Storing
  BY <1>0 DEF Handling
<1>u. UNCHANGED <<time, served, draft, setAside, answers>> /\ storeLock' = Nobody
      /\ rolledBack \subseteq rolledBack'
  BY <1>0 DEF Install, authority
<1>1. CASE HandlerEnds(s) /\ UNCHANGED <<stored, rolledBack>>
  <2>1. at' = [at EXCEPT ![s] = "idle"] /\ doc' = [doc EXCEPT ![s] = Nobody] /\ eligible' \in [Submissions -> Nat]
    BY <1>1 DEF HandlerEnds, Moves, Shapes
  <2> HIDE DEF IInv
  <2> QED BY <1>0, <1>1, <1>i, <1>u, <2>1, HandlerMoves DEF Storing
<1>2. CASE /\ stored' = [stored EXCEPT ![doc[s].relay] = doc[s]] /\ Moves(s, "estimate") /\ UNCHANGED handlers
           /\ rolledBack' = rolledBack \cup (IF at[s] = "overwrite" THEN Undone(s) ELSE {})
  <2> PICK d \in Descriptors : d = doc[s]
    BY <1>0
  <2> PICK o \in Operators : o = d.relay
    BY ListingAssumption
  <2>1. stored' = [stored EXCEPT ![o] = d] /\ at' = [at EXCEPT ![s] = "estimate"] /\ UNCHANGED <<doc, eligible>>
    BY <1>2 DEF Moves, handlers
  <2>2. at'[s] = "estimate" /\ \A h \in Goroutines : h # s => at'[h] = at[h]
    BY <1>0, <2>1, Moved
  <2>3. stored'[o] = d /\ d # Nobody /\ \A p \in Operators : p # o => stored'[p] = stored[p]
    BY <2>1, NobodyAssumption DEF Shapes
  <2>4. \A e \in Descriptors : Filed(e) => Filed(e)'
    <3> SUFFICES ASSUME NEW e \in Descriptors, Filed(e) PROVE Filed(e)'
      OBVIOUS
    <3>1. e.relay \in Operators /\ e.published \in Nat /\ d.published \in Nat
      BY ListingAssumption
    <3>2. CASE e.relay = o /\ e \notin rolledBack /\ at[s] = "install"
      <4>1. stored[o] # Nobody /\ stored[o] \in Descriptors /\ stored[o].published >= e.published
        BY <3>2 DEF Filed, Fulfils, Shapes
      <4>2. stored[o].published \in Nat /\ d.published > stored[o].published
        BY <1>0, <3>2, <4>1, ListingAssumption DEF Newer
      <4>3. d.published >= e.published
        BY <3>1, <4>1, <4>2
      <4> QED BY <2>3, <3>2, <4>3 DEF Filed, Fulfils
    <3>3. CASE e.relay = o /\ e \notin rolledBack /\ at[s] = "overwrite" /\ ~(d.published >= e.published)
      <4>1. stored[o] # Nobody /\ stored[o] \in Descriptors /\ stored[o].published >= e.published
        BY <3>3 DEF Filed, Fulfils, Shapes
      <4>2. stored[o].published \in Nat
        BY <4>1, ListingAssumption
      <4>3. e \in Undone(s)
        BY <3>1, <3>3, <4>1, <4>2 DEF Undone
      <4>4. e \in rolledBack'
        BY <1>2, <3>3, <4>3
      <4> QED BY <2>3, <3>3, <4>4 DEF Filed
    <3>4. CASE e.relay = o /\ (e \in rolledBack \/ d.published >= e.published)
      BY <1>u, <2>3, <3>4 DEF Filed, Fulfils
    <3>5. CASE e.relay # o
      BY <1>u, <2>3, <3>1, <3>5 DEF Filed, Fulfils
    <3> QED BY <1>0, <3>2, <3>3, <3>4, <3>5 DEF Storing
  <2>5. Rebuilding' = Rebuilding /\ s \notin Rebuilding
    BY <1>0, <2>2 DEF Rebuilding, Storing
  <2>6. Rebuilders' = Rebuilders /\ Filers' = Filers \cup {s}
    BY <1>0, <2>2 DEF Rebuilders, Filers, Goroutines, Storing
  <2>7. Shapes'
    <3>1. stored' \in [Operators -> Descriptors \cup {Nobody}]
      BY <2>1 DEF Shapes
    <3>2. \A p \in Operators : stored'[p] # Nobody => stored'[p].relay = p
      BY <2>3 DEF Shapes
    <3> QED BY <1>0, <1>u, <2>1, <3>1, <3>2 DEF Shapes
  <2>8. Handling'
    <3>1. \A r \in Submissions : at'[r] # "idle" => doc'[r] \in Descriptors
      BY <1>0, <2>1, <2>2 DEF Handling, Goroutines, Storing
    <3>2. \A r \in Submissions : at'[r] \notin Storing /\ at'[r] # "install"
      BY <1>i, <2>2 DEF Goroutines, Storing
    <3>3. Filed(d)'
      <4>1. d.published \in Nat
        BY ListingAssumption
      <4> QED BY <2>3, <4>1 DEF Filed, Fulfils
    <3>4. \A r \in Filers' : Filed(doc[r])'
      <4> SUFFICES ASSUME NEW r \in Filers' PROVE Filed(doc[r])'
        OBVIOUS
      <4>1. CASE r = s
        BY <3>3, <4>1, <2>1 DEF Filed
      <4>2. CASE r # s
        <5> PICK e \in Descriptors : e = doc[r] /\ Filed(e)
          BY <2>6, <4>2 DEF Handling, Filed
        <5> QED BY <2>1, <2>4 DEF Filed
      <4> QED BY <4>1, <4>2
    <3>5. at'[Loop] \in {"idle", "load", "probe"}
      BY <1>0, <2>2 DEF Handling, Goroutines
    <3>6. \A g \in Rebuilding :
            draft'[g] \in Drafts /\ (at'[g] = "load" => \A p \in draft'[g].todo : stored'[p] # Nobody)
      <4>1. \A g \in Rebuilding : at'[g] = at[g] /\ draft'[g] = draft[g] /\ draft[g].todo \subseteq Operators
        BY <1>u, <2>2, <2>5 DEF Handling, Rebuilding, Drafts
      <4> QED BY <2>3, <4>1 DEF Handling
    <3> QED BY <2>5, <3>1, <3>2, <3>4, <3>5, <3>6 DEF Handling
  <2>9. NotAhead'
    BY <1>u, <2>5 DEF NotAhead, EpochOf
  <2>10. \A g \in Rebuilding : at'[g] = at[g]
    BY <2>2, <2>5 DEF Rebuilding
  <2>11. Pending' /\ Answered'
    BY <1>u, <2>1, <2>4, <2>5, <2>6, <2>10, Frame
  <2> QED BY <2>7, <2>8, <2>9, <2>11
<1> QED BY <1>1, <1>2 DEF Install

\* The handler looks which epoch to name.
LEMMA EstimateStep == ASSUME IInv, NEW s \in Submissions, Estimate(s) PROVE IInv'
<1> USE DEF IInv
<1>0. s \in Goroutines /\ s # Loop /\ at[s] = "estimate" /\ at' = [at EXCEPT ![s] = "rebuild"]
      /\ UNCHANGED <<time, stored, storeLock, served, doc, draft, setAside, rolledBack, answers>>
  BY ListingAssumption DEF Goroutines, Estimate, Moves, authority, histories
<1>1. at'[s] = "rebuild" /\ \A h \in Goroutines : h # s => at'[h] = at[h]
  BY <1>0, Moved
<1>2. Rebuilding' = Rebuilding /\ s \notin Rebuilding /\ Rebuilders' = Rebuilders /\ Filers' = Filers
  BY <1>0, <1>1 DEF Rebuilding, Rebuilders, Filers, Goroutines
<1>3. Shapes'
  <2>1. FirstListing(doc[s]) \in Nat
    BY FirstListingType DEF Shapes
  <2>2. eligible' \in [Submissions -> Nat]
    BY <2>1 DEF Estimate, Shapes
  <2> QED BY <1>0, <2>2 DEF Shapes
<1>4. Handling'
  <2>1. \A r \in Submissions : (at'[r] # "idle" => at[r] # "idle") /\ (at'[r] \in Storing => at[r] = at'[r])
    BY <1>0, <1>1 DEF Storing, Goroutines
  <2>2. at'[Loop] = at[Loop]
    BY <1>0, <1>1 DEF Goroutines
  <2>3. \A g \in Rebuilding : at'[g] = at[g]
    BY <1>1, <1>2 DEF Rebuilding
  <2>4. \A r \in Submissions : at[r] = "install" => Newer(doc[r])'
    BY <1>0 DEF Handling, Newer
  <2>5. \A r \in Filers : Filed(doc[r])'
    BY <1>0 DEF Handling, Filed
  <2> QED BY <1>0, <1>2, <2>1, <2>2, <2>3, <2>4, <2>5 DEF Handling
<1>5. NotAhead'
  BY <1>0, <1>2 DEF NotAhead, EpochOf
<1>6. \A g \in Rebuilding : at'[g] = at[g]
  BY <1>1, <1>2 DEF Rebuilding
<1>7. \A e \in Descriptors : Filed(e) => Filed(e)'
  BY <1>0 DEF Filed
<1>8. Pending' /\ Answered'
  BY <1>0, <1>2, <1>6, <1>7, Frame
<1> QED BY <1>3, <1>4, <1>5, <1>8

\* The clock, the accept list or the daemon's start.
LEMMA AroundStep == ASSUME IInv, Start \/ Edit \/ Passes \/ UNCHANGED listingVars PROVE IInv'
<1> USE DEF IInv
<1>0. UNCHANGED <<stored, storeLock, served, at, doc, eligible, draft, setAside, rolledBack, answers>>
      /\ (time' = time \/ time' = time + 1)
  BY DEF Start, Edit, Passes, listingVars, authority, handlers, histories
<1>1. Rebuilding' = Rebuilding /\ Rebuilders' = Rebuilders /\ Filers' = Filers
  BY <1>0 DEF Rebuilding, Rebuilders, Filers
<1>2. Shapes'
  BY <1>0 DEF Shapes
<1>3. Handling'
  BY <1>0, <1>1 DEF Handling, Newer, Filed
<1>4. NotAhead'
  <2>1. EpochOf(time) \in Nat /\ EpochOf(time') \in Nat /\ EpochOf(time) <= EpochOf(time')
    BY <1>0, EpochGrows DEF Shapes
  <2>2. EpochOf(time)' = EpochOf(time')
    BY DEF EpochOf
  <2>3. \A g \in Rebuilding : draft[g].epoch \in Nat
    BY DEF Handling, Drafts
  <2>4. served # Nobody => served.epoch \in Nat
    BY DEF Shapes, Directories
  <2> QED BY <1>0, <1>1, <2>1, <2>2, <2>3, <2>4 DEF NotAhead
<1>5. \A e \in Descriptors : Filed(e) => Filed(e)'
  BY <1>0 DEF Filed
<1>6. Pending' /\ Answered'
  BY <1>0, <1>1, <1>5, Frame
<1> QED BY <1>2, <1>3, <1>4, <1>6

\* The process is killed: no rebuild survives, and nothing is served.
LEMMA CrashStep == ASSUME IInv, Crash PROVE IInv'
<1> USE DEF IInv
<1>0. /\ served' = Nobody /\ at' = [g \in Goroutines |-> "idle"] /\ draft' = [g \in Goroutines |-> Nobody]
      /\ doc' = [s \in Submissions |-> Nobody] /\ eligible' = [s \in Submissions |-> 0]
      /\ UNCHANGED <<time, stored, setAside, rolledBack, answers>>
  BY DEF Crash, histories
<1>1. Rebuilding' = {} /\ Rebuilders' = {} /\ Filers' = {}
  BY <1>0 DEF Rebuilding, Rebuilders, Filers, Goroutines
<1>2. Shapes'
  BY <1>0 DEF Shapes
<1>3. Handling'
  BY <1>0, <1>1 DEF Storing, Handling, Goroutines
<1>4. NotAhead' /\ Pending'
  BY <1>0, <1>1 DEF NotAhead, Pending
<1>5. Answered'
  <2>1. \A a \in answers : Filed(a.doc)'
    BY <1>0 DEF Answered, Filed
  <2>2. \A a : Kept(a)'
    BY <1>0, <1>1 DEF Kept
  <2> QED BY <1>0, <2>1, <2>2 DEF Answered
<1> QED BY <1>2, <1>3, <1>4, <1>5

-------------------------------------------------------------------------------
(* The steps of a rebuild.                                                 *)

\* A rebuild that begins will read every descriptor that was installed.
LEMMA BeginStep == ASSUME IInv, NEW g \in Goroutines, Begin(g) PROVE IInv'
<1> USE DEF IInv
<1> DEFINE k == [epoch |-> EpochOf(time), todo |-> {o \in Operators : stored[o] # Nobody}, body |-> {}]
<1>0. /\ at[g] = "rebuild" \/ (g = Loop /\ at[g] = "idle")
      /\ at' = [at EXCEPT ![g] = "load"] /\ draft' = [draft EXCEPT ![g] = k]
      /\ UNCHANGED <<time, stored, storeLock, served, doc, eligible, setAside, rolledBack, answers>>
  BY DEF Begin, Due, Moves, authority, handlers, histories
<1>k. k \in Drafts /\ k.epoch = EpochOf(time) /\ k.todo = {o \in Operators : stored[o] # Nobody}
  BY EpochGrows DEF Drafts, Shapes
<1> HIDE DEF k
<1>1. at'[g] = "load" /\ \A h \in Goroutines : h # g => at'[h] = at[h]
  BY <1>0, Moved
<1>2. draft'[g] = k /\ \A h \in Goroutines : h # g => draft'[h] = draft[h]
  BY <1>0 DEF Shapes
<1>3. Rebuilding' = Rebuilding \cup {g} /\ g \notin Rebuilding
  BY <1>0, <1>1 DEF Rebuilding
<1>4. Filers' = Filers /\ Rebuilders' \subseteq Rebuilders \cup {g} /\ Rebuilders \subseteq Rebuilding
      /\ Rebuilders' \subseteq Filers
  BY <1>0, <1>1, ListingAssumption DEF Filers, Rebuilders, Rebuilding, Goroutines
<1>5. Shapes'
  BY <1>0, <1>k DEF Shapes
<1>6. \A e : Filed(e) => Sees(g, e)' /\ Filed(e)'
  <2> SUFFICES ASSUME NEW e, Filed(e) PROVE Sees(g, e)' /\ Filed(e)'
    OBVIOUS
  <2>1. e.relay \in k.todo
    BY <1>k, ListingAssumption DEF Filed
  <2> QED BY <1>0, <1>1, <1>2, <2>1 DEF Sees, Filed
<1>7. \A h \in Rebuilding : \A e : Sees(h, e) => Sees(h, e)'
  BY <1>0, <1>1, <1>2, <1>3 DEF Sees, Covers, Rebuilding
<1>8. Handling'
  <2>1. \A r \in Submissions : (at'[r] # "idle" => at[r] # "idle") /\ (at'[r] \in Storing => at[r] = at'[r])
    BY <1>0, <1>1, ListingAssumption DEF Storing, Goroutines
  <2>2. at'[Loop] \in {"idle", "load", "probe"}
    BY <1>0, <1>1 DEF Handling, Goroutines
  <2>3. \A h \in Rebuilding' : draft'[h] \in Drafts /\ (at'[h] = "load" => \A o \in draft'[h].todo : stored'[o] # Nobody)
    BY <1>0, <1>1, <1>2, <1>3, <1>k DEF Handling, Rebuilding
  <2>4. \A r \in Submissions : at[r] = "install" => Newer(doc[r])'
    BY <1>0 DEF Handling, Newer
  <2>5. \A r \in Filers : Filed(doc[r])'
    BY <1>0 DEF Handling, Filed
  <2> QED BY <1>0, <1>4, <2>1, <2>2, <2>3, <2>4, <2>5 DEF Handling
<1>t. EpochOf(time) \in Nat /\ EpochOf(time)' = EpochOf(time)
  BY <1>0, EpochGrows DEF Shapes, EpochOf
<1>9. NotAhead'
  BY <1>0, <1>2, <1>3, <1>k, <1>t DEF NotAhead, Rebuilding
<1>10. Pending'
  <2> SUFFICES ASSUME NEW s \in Rebuilders'
               PROVE  /\ Sees(s, doc[s])'
                      /\ \A h \in Rebuilding' : Sees(h, doc[s])' \/ draft'[h].epoch <= draft'[s].epoch
                      /\ served' # Nobody /\ served'.epoch > draft'[s].epoch
                            => Covers(served.body, served.epoch, doc[s])'
    BY DEF Pending
  <2> PICK e : e = doc[s] /\ e = doc'[s] /\ Filed(e)
    BY <1>0, <1>4 DEF Handling
  <2>1. \A h : Sees(h, e)' <=> Sees(h, doc[s])'
    BY DEF Sees, Covers
  <2>2. Covers(served.body, served.epoch, e)' <=> Covers(served.body, served.epoch, doc[s])'
    BY DEF Covers
  <2>3. CASE s = g
    <3>1. Sees(s, e)' /\ draft'[s].epoch = EpochOf(time)
      BY <1>2, <1>6, <1>k, <2>3
    <3>2. \A h \in Rebuilding' : draft'[h].epoch <= EpochOf(time)
      BY <1>9, <1>t DEF NotAhead
    <3>3. served' # Nobody => served'.epoch <= EpochOf(time) /\ served'.epoch \in Nat
      BY <1>0 DEF NotAhead, Shapes, Directories
    <3> QED BY <1>t, <2>1, <3>1, <3>2, <3>3
  <2>4. CASE s # g
    <3>1. s \in Rebuilders /\ draft'[s] = draft[s]
      BY <1>2, <1>3, <1>4, <2>4 DEF Rebuilding
    <3>2. Sees(s, e)'
      BY <1>4, <1>7, <3>1 DEF Pending
    <3>3. \A h \in Rebuilding' : Sees(h, e)' \/ draft'[h].epoch <= draft'[s].epoch
      BY <1>2, <1>3, <1>6, <1>7, <3>1 DEF Pending, Rebuilding
    <3>4. served' # Nobody /\ served'.epoch > draft'[s].epoch => Covers(served.body, served.epoch, e)'
      BY <1>0, <3>1 DEF Pending, Covers
    <3> QED BY <2>1, <2>2, <3>2, <3>3, <3>4
  <2> QED BY <2>3, <2>4
<1>11. Answered'
  <2> SUFFICES ASSUME NEW a \in answers PROVE Filed(a.doc)' /\ (a.outcome # "failed" => Kept(a)')
    BY <1>0 DEF Answered
  <2>1. Filed(a.doc)
    BY DEF Answered
  <2>2. ASSUME a.outcome # "failed" PROVE Kept(a)'
    <3>1. \A h \in Rebuilding' : \/ Sees(h, a.doc)' \/ draft'[h].epoch < a.from
                                 \/ served' # Nobody /\ draft'[h].epoch <= served'.epoch
      BY <1>0, <1>2, <1>3, <1>6, <1>7, <2>1, <2>2 DEF Answered, Kept, Rebuilding
    <3>2. served' # Nobody /\ served'.epoch >= a.from => Covers(served.body, served.epoch, a.doc)'
      BY <1>0, <2>2 DEF Answered, Kept, Covers
    <3> QED BY <3>1, <3>2 DEF Kept
  <2> QED BY <1>6, <2>1, <2>2
<1> QED BY <1>5, <1>8, <1>9, <1>10, <1>11

\* A rebuild goes on: it keeps seeing what it saw.
LEMMA RebuildMoves ==
    ASSUME IInv, NEW g \in Rebuilding, NEW step \in {"load", "probe"}, NEW k \in Drafts,
           at' = [at EXCEPT ![g] = step], draft' = [draft EXCEPT ![g] = k],
           k.epoch = draft[g].epoch,
           step = "load" => at[g] = "load" /\ k.todo \subseteq draft[g].todo,
           setAside \subseteq setAside', setAside' \subseteq Asides,
           \A e : Filed(e) /\ Sees(g, e) => \/ Covers(k.body, k.epoch, e)'
                                            \/ step = "load" /\ e.relay \in k.todo,
           UNCHANGED <<time, stored, storeLock, served, doc, eligible, rolledBack, answers>>
    PROVE  IInv'
<1> USE DEF IInv
<1>0. g \in Goroutines /\ at[g] \in {"load", "probe"}
  BY DEF Rebuilding
<1>1. at'[g] = step /\ \A h \in Goroutines : h # g => at'[h] = at[h]
  BY <1>0, Moved
<1>2. draft'[g] = k /\ \A h \in Goroutines : h # g => draft'[h] = draft[h]
  BY <1>0 DEF Shapes
<1>3. Rebuilding' = Rebuilding /\ Rebuilders' = Rebuilders /\ Filers' = Filers
  BY <1>0, <1>1 DEF Rebuilding, Rebuilders, Filers, Goroutines
<1>4. Rebuilders \subseteq Rebuilding /\ Rebuilders \subseteq Filers /\ \A h \in Rebuilding : draft'[h].epoch = draft[h].epoch
  BY <1>2 DEF Rebuilders, Rebuilding, Filers, Goroutines
<1>5. Shapes'
  BY <1>0 DEF Shapes
<1>6. \A body, epoch, e : Covers(body, epoch, e) => Covers(body, epoch, e)'
  BY DEF Covers
<1>7. \A h \in Rebuilding : \A e : Filed(e) /\ Sees(h, e) => Sees(h, e)'
  <2> SUFFICES ASSUME NEW h \in Rebuilding, NEW e, Filed(e), Sees(h, e) PROVE Sees(h, e)'
    OBVIOUS
  <2>1. CASE h = g
    <3>1. Covers(k.body, k.epoch, e)' <=> Covers(draft[h].body, draft[h].epoch, e)'
      BY <1>2, <2>1 DEF Covers
    <3> QED BY <1>1, <1>2, <2>1, <3>1 DEF Sees
  <2>2. CASE h # g
    <3>1. at'[h] = at[h] /\ draft'[h] = draft[h]
      BY <1>1, <1>2, <2>2 DEF Rebuilding
    <3> QED BY <3>1 DEF Sees, Covers
  <2> QED BY <2>1, <2>2
<1>8. Handling'
  <2>1. \A r \in Submissions : (at'[r] # "idle" => at[r] # "idle") /\ (at'[r] \in Storing => at[r] = at'[r])
    BY <1>0, <1>1 DEF Storing, Goroutines
  <2>2. at'[Loop] \in {"idle", "load", "probe"}
    BY <1>0, <1>1 DEF Handling, Goroutines
  <2>3. \A h \in Rebuilding : draft'[h] \in Drafts /\ (at'[h] = "load" => \A o \in draft'[h].todo : stored'[o] # Nobody)
    BY <1>1, <1>2 DEF Handling, Rebuilding
  <2>4. \A r \in Submissions : at[r] = "install" => Newer(doc[r])'
    BY DEF Handling, Newer
  <2>5. \A r \in Filers : Filed(doc[r])'
    BY DEF Handling, Filed
  <2> QED BY <1>3, <2>1, <2>2, <2>3, <2>4, <2>5 DEF Handling
<1>9. NotAhead'
  BY <1>3, <1>4 DEF NotAhead, EpochOf
<1>10. Pending'
  <2> SUFFICES ASSUME NEW s \in Rebuilders
               PROVE  /\ Sees(s, doc[s])'
                      /\ \A h \in Rebuilding : Sees(h, doc[s])' \/ draft'[h].epoch <= draft'[s].epoch
                      /\ served' # Nobody /\ served'.epoch > draft'[s].epoch
                            => Covers(served.body, served.epoch, doc[s])'
    BY <1>3 DEF Pending
  <2> PICK e : e = doc[s] /\ e = doc'[s] /\ Filed(e)
    BY <1>4 DEF Handling
  <2>1. \A h : Sees(h, e)' <=> Sees(h, doc[s])'
    BY DEF Sees, Covers
  <2>2. Covers(served.body, served.epoch, e)' <=> Covers(served.body, served.epoch, doc[s])'
    BY DEF Covers
  <2>3. /\ Sees(s, e) /\ \A h \in Rebuilding : Sees(h, e) \/ draft[h].epoch <= draft[s].epoch
        /\ served # Nobody /\ served.epoch > draft[s].epoch => Covers(served.body, served.epoch, e)
    BY DEF Pending
  <2>4. Covers(served.body, served.epoch, e) => Covers(served.body, served.epoch, e)'
    BY DEF Covers
  <2> QED BY <1>4, <1>7, <2>1, <2>2, <2>3, <2>4
<1>11. Answered'
  <2> SUFFICES ASSUME NEW a \in answers PROVE Filed(a.doc)' /\ (a.outcome # "failed" => Kept(a)')
    BY DEF Answered
  <2>1. Filed(a.doc) /\ Filed(a.doc)'
    BY DEF Answered, Filed
  <2>2. ASSUME a.outcome # "failed" PROVE Kept(a)'
    <3>1. \A h \in Rebuilding : \/ Sees(h, a.doc)' \/ draft'[h].epoch < a.from
                                \/ served' # Nobody /\ draft'[h].epoch <= served'.epoch
      BY <1>4, <1>7, <2>1, <2>2 DEF Answered, Kept
    <3>2. served' # Nobody /\ served'.epoch >= a.from => Covers(served.body, served.epoch, a.doc)'
      BY <2>2 DEF Answered, Kept, Covers
    <3> QED BY <1>3, <3>1, <3>2 DEF Kept
  <2> QED BY <2>1, <2>2
<1> QED BY <1>5, <1>8, <1>9, <1>10, <1>11

\* A file is read, and its descriptor is listed or set aside.
LEMMA LoadStep == ASSUME IInv, NEW g \in Goroutines, Load(g) PROVE IInv'
<1>1. at[g] = "load" /\ g \in Rebuilding
  BY DEF Load, Rebuilding
<1> PICK j \in Drafts : j = draft[g]
  BY <1>1 DEF IInv, Handling
<1> PICK o \in j.todo :
        \/ Past(g, o, j.body \cup {stored[o]}) /\ UNCHANGED setAside
        \/ /\ Past(g, o, j.body)
           /\ setAside' = setAside \cup {[epoch |-> j.epoch, doc |-> stored[o]]}
  BY DEF Load
<1>2. o \in Operators /\ stored[o] \in Descriptors /\ stored[o] # Nobody
  BY <1>1 DEF Drafts, IInv, Shapes, Handling
<1> PICK d \in Descriptors : d = stored[o]
  BY <1>2
<1>3. at' = [at EXCEPT ![g] = "load"]
  BY <1>1 DEF Load, IInv, Shapes
<1>4. UNCHANGED <<time, stored, storeLock, served, doc, eligible, rolledBack, answers>>
  BY DEF Load, authority, handlers
<1>5. ASSUME NEW e, Filed(e), e.relay = o PROVE Fulfils(d, e) \/ e \in rolledBack'
  BY <1>4, <1>5 DEF Filed
<1>6. CASE Past(g, o, j.body \cup {stored[o]}) /\ UNCHANGED setAside
  <2> DEFINE k == [epoch |-> j.epoch, todo |-> j.todo \ {o}, body |-> j.body \cup {d}]
  <2>1. draft' = [draft EXCEPT ![g] = k]
    BY <1>6 DEF Past
  <2>2. k \in Drafts /\ k.epoch = j.epoch /\ k.todo = j.todo \ {o} /\ k.body = j.body \cup {d}
    BY DEF Drafts
  <2> HIDE DEF k
  <2>3. ASSUME NEW e, Filed(e), Sees(g, e) PROVE Covers(k.body, k.epoch, e)' \/ e.relay \in k.todo
    BY <1>4, <1>5, <1>6, <2>2, <2>3 DEF Sees, Covers
  <2>4. setAside' \subseteq Asides
    BY <1>6 DEF IInv, Shapes
  <2> QED BY <1>1, <1>3, <1>4, <1>6, <2>1, <2>2, <2>3, <2>4, RebuildMoves
<1>7. CASE Past(g, o, j.body) /\ setAside' = setAside \cup {[epoch |-> j.epoch, doc |-> stored[o]]}
  <2> DEFINE k == [epoch |-> j.epoch, todo |-> j.todo \ {o}, body |-> j.body]
             x == [epoch |-> j.epoch, doc |-> d]
  <2>1. draft' = [draft EXCEPT ![g] = k] /\ setAside' = setAside \cup {x}
    BY <1>7 DEF Past
  <2>2. k \in Drafts /\ k.epoch = j.epoch /\ k.todo = j.todo \ {o} /\ k.body = j.body
    BY DEF Drafts
  <2>3. x \in Asides /\ x.epoch = j.epoch /\ x.doc = d
    BY DEF Asides, Drafts
  <2> HIDE DEF k, x
  <2>4. ASSUME NEW e, Filed(e), Sees(g, e) PROVE Covers(k.body, k.epoch, e)' \/ e.relay \in k.todo
    <3>1. CASE e.relay = o
      BY <1>5, <2>1, <2>2, <2>3, <2>4, <3>1 DEF Covers
    <3>2. CASE e.relay # o
      BY <1>4, <2>1, <2>2, <2>4, <3>2 DEF Sees, Covers
    <3> QED BY <3>1, <3>2
  <2>5. setAside' \subseteq Asides
    BY <2>1, <2>3 DEF IInv, Shapes
  <2> QED BY <1>1, <1>3, <1>4, <2>1, <2>2, <2>4, <2>5, RebuildMoves
<1> QED BY <1>6, <1>7

\* All is read, and the relays that are listed so far are probed.
LEMMA ForgetStep == ASSUME IInv, NEW g \in Goroutines, Forget(g) PROVE IInv'
<1>1. at[g] = "load" /\ g \in Rebuilding /\ draft[g].todo = {}
  BY DEF Forget, Rebuilding
<1> PICK j \in Drafts : j = draft[g]
  BY <1>1 DEF IInv, Handling
<1> DEFINE keep == {d.relay : d \in j.body}
           k == [j EXCEPT !.todo = keep]
<1>2. keep \subseteq Operators
  BY ListingAssumption DEF Drafts
<1>3. k \in Drafts /\ k.epoch = j.epoch /\ k.body = j.body
  BY <1>2 DEF Drafts
<1>4. draft' = [draft EXCEPT ![g] = k] /\ at' = [at EXCEPT ![g] = "probe"]
      /\ UNCHANGED <<time, stored, storeLock, served, doc, eligible, answers, setAside, rolledBack>>
  BY DEF Forget, Moves, handlers, histories
<1> HIDE DEF k
<1>5. \A e : Filed(e) /\ Sees(g, e) => Covers(k.body, k.epoch, e)'
  BY <1>1, <1>3, <1>4 DEF Sees, Covers
<1>6. setAside' \subseteq Asides
  BY <1>4 DEF IInv, Shapes
<1> QED BY <1>1, <1>3, <1>4, <1>5, <1>6, RebuildMoves

\* A relay that failed too often in a row is set aside.
LEMMA RecordStep == ASSUME IInv, NEW g \in Goroutines, Record(g) PROVE IInv'
<1>1. at[g] = "probe" /\ g \in Rebuilding
  BY DEF Record, Rebuilding
<1> PICK j \in Drafts : j = draft[g]
  BY <1>1 DEF IInv, Handling
<1> DEFINE Dropped(p, ok) == {d \in draft[g].body : d.relay = p /\ ~ok /\ Count(p, ok) >= UnhealthyAfter}
<1>d. PICK o \in draft[g].todo, ok \in BOOLEAN :
        /\ Past(g, o, draft[g].body \ Dropped(o, ok))
        /\ setAside' = setAside \cup {[epoch |-> draft[g].epoch, doc |-> d] : d \in Dropped(o, ok)}
  BY Zenon DEF Record
<1> PICK dropped : dropped = Dropped(o, ok)
  OBVIOUS
<1>e. dropped \subseteq j.body /\ \A d \in dropped : d.relay = o
  OBVIOUS
<1> HIDE DEF Dropped
<1>f. /\ Past(g, o, j.body \ dropped)
      /\ setAside' = setAside \cup {[epoch |-> j.epoch, doc |-> d] : d \in dropped}
  BY <1>d
<1> DEFINE k == [epoch |-> j.epoch, todo |-> j.todo \ {o}, body |-> j.body \ dropped]
<1>2. k \in Drafts /\ k.epoch = j.epoch /\ k.body = j.body \ dropped /\ dropped \subseteq j.body
  BY <1>e DEF Drafts
<1>3. draft' = [draft EXCEPT ![g] = k]
  BY <1>f DEF Past
<1>4. at' = [at EXCEPT ![g] = "probe"]
  BY <1>1 DEF Record, IInv, Shapes
<1>5. UNCHANGED <<time, stored, storeLock, served, doc, eligible, rolledBack, answers>>
  BY DEF Record, handlers
<1>6. setAside' \subseteq Asides /\ setAside \subseteq setAside'
  BY <1>2, <1>f DEF IInv, Shapes, Asides, Drafts
<1> HIDE DEF k
<1>7. ASSUME NEW e, Covers(j.body, j.epoch, e) PROVE Covers(k.body, k.epoch, e)'
  <2>1. CASE \E d \in j.body \ dropped : Fulfils(d, e)
    BY <1>2, <2>1 DEF Covers
  <2>2. CASE \E d \in dropped : Fulfils(d, e)
    <3> PICK d \in dropped : Fulfils(d, e)
      BY <2>2
    <3> DEFINE x == [epoch |-> j.epoch, doc |-> d]
    <3>1. x \in setAside' /\ x.epoch = j.epoch /\ x.doc = d
      BY <1>f
    <3> HIDE DEF x
    <3> QED BY <1>2, <3>1 DEF Covers
  <2>3. CASE \E x \in setAside : x.epoch = j.epoch /\ Fulfils(x.doc, e)
    BY <1>2, <1>6, <2>3 DEF Covers
  <2>4. CASE e \in rolledBack
    BY <1>5, <2>4 DEF Covers
  <2> QED BY <2>4, <1>7, <2>1, <2>2, <2>3 DEF Covers
<1>8. \A e : Filed(e) /\ Sees(g, e) => Covers(k.body, k.epoch, e)'
  BY <1>1, <1>7 DEF Sees
<1> QED BY <1>1, <1>2, <1>3, <1>4, <1>5, <1>6, <1>8, RebuildMoves

\* The first epoch that the answer of a handler names.
Named(g, outcome) == IF outcome = "conflict" THEN DefersTo(g, draft[g].epoch) ELSE eligible[g]

\* The body of a rebuild that has probed everything is served, for a later epoch.
Serves(g) ==
    /\ at[g] = "probe" /\ draft[g].todo = {} /\ served' = Draft(g)
    /\ served = Nobody \/ draft[g].epoch > served.epoch

\* A rebuild ends.  What is served then keeps every promise made before, and the
\* one that is made, if there is one.
LEMMA RebuildEnds ==
    ASSUME IInv, NEW g \in Goroutines, NEW outcome \in {"served", "conflict", "rollback", "failed"},
           at[g] \in {"rebuild", "probe"} \/ (g = Loop /\ at[g] = "idle"),
           outcome # "failed" => at[g] = "probe",
           Done(g, outcome), UNCHANGED <<time, stored, storeLock, setAside, rolledBack>>,
           UNCHANGED served \/ Serves(g),
           g # Loop /\ outcome # "failed" =>
              /\ served' # Nobody /\ served'.epoch >= Named(g, outcome)
                    => Covers(served'.body, served'.epoch, doc[g])
              /\ \A h \in Rebuilding \ {g} :
                    \/ Sees(h, doc[g])
                    \/ draft[h].epoch < Named(g, outcome)
                    \/ served' # Nobody /\ draft[h].epoch <= served'.epoch
    PROVE  IInv'
<1> USE DEF IInv
<1>0. /\ at' = [at EXCEPT ![g] = "idle"] /\ draft' = [draft EXCEPT ![g] = Nobody]
      /\ doc' \in [Submissions -> Descriptors \cup {Nobody}] /\ eligible' \in [Submissions -> Nat]
      /\ \A s \in Submissions : s # g => doc'[s] = doc[s]
  BY ListingAssumption DEF Done, HandlerEnds, Moves, Shapes, Goroutines, handlers
<1>1. at'[g] = "idle" /\ \A h \in Goroutines : h # g => at'[h] = at[h]
  BY <1>0, Moved
<1>2. \A h \in Goroutines : h # g => draft'[h] = draft[h]
  BY <1>0 DEF Shapes
<1>3. Rebuilding' = Rebuilding \ {g} /\ Rebuilders' = Rebuilders \ {g} /\ Filers' = Filers \ {g}
  BY <1>0, <1>1 DEF Rebuilding, Rebuilders, Filers, Goroutines
<1>4. Rebuilders \subseteq Rebuilding /\ Rebuilders \subseteq Filers
  BY DEF Rebuilders, Rebuilding, Filers, Goroutines
<1>5. at[g] = "probe" => g \in Rebuilding /\ draft[g] \in Drafts
  BY DEF Rebuilding, Handling
<1>6. \A body, epoch, e : Covers(body, epoch, e) <=> Covers(body, epoch, e)'
  BY DEF Covers
<1>7. \A h \in Rebuilding : \A e : h # g /\ Sees(h, e) => Sees(h, e)'
  BY <1>1, <1>2 DEF Sees, Covers, Rebuilding
<1>8. \A e : Filed(e) => Filed(e)'
  BY DEF Filed
<1>s. ASSUME Serves(g)
      PROVE  /\ served'.epoch = draft[g].epoch /\ served'.body = draft[g].body /\ served' \in Directories
             /\ \A e : Sees(g, e) => Covers(served'.body, served'.epoch, e)
             /\ g \in Rebuilding /\ draft[g] \in Drafts /\ served' # Nobody
  BY <1>5, <1>s, NobodyAssumption DEF Serves, Draft, Directories, Drafts, Sees
<1>9. served' \in Directories \cup {Nobody}
  BY <1>s DEF Shapes
<1>10. ASSUME served # Nobody PROVE served' # Nobody /\ served.epoch <= served'.epoch
  BY <1>10, <1>s DEF Shapes, Directories, Serves, Drafts
<1>11. Handling'
  <2>1. \A r \in Submissions : (at'[r] # "idle" => at[r] # "idle" /\ doc'[r] = doc[r])
                               /\ (at'[r] \in Storing => at[r] = at'[r] /\ doc'[r] = doc[r])
    BY <1>0, <1>1 DEF Storing, Goroutines
  <2>2. at'[Loop] \in {"idle", "load", "probe"}
    BY <1>1 DEF Handling, Goroutines
  <2>3. \A h \in Rebuilding' : draft'[h] \in Drafts /\ (at'[h] = "load" => \A o \in draft'[h].todo : stored'[o] # Nobody)
    BY <1>1, <1>2, <1>3 DEF Handling, Rebuilding
  <2>4. \A r \in Submissions : at'[r] = "install" => Newer(doc[r])'
    BY <2>1 DEF Storing, Handling, Newer
  <2>5. \A r \in Filers' : Filed(doc[r])'
    <3> SUFFICES ASSUME NEW r \in Filers' PROVE Filed(doc[r])'
      OBVIOUS
    <3>1. r \in Filers /\ doc'[r] = doc[r]
      BY <1>0, <1>3 DEF Filers
    <3> QED BY <3>1 DEF Handling, Filed
  <2> QED BY <2>1, <2>2, <2>3, <2>4, <2>5 DEF Handling
<1>12. NotAhead'
  <2>1. EpochOf(time)' = EpochOf(time)
    BY DEF EpochOf
  <2> QED BY <1>2, <1>3, <1>s, <2>1 DEF NotAhead, Rebuilding
<1>13. Pending'
  <2> SUFFICES ASSUME NEW s \in Rebuilders, s # g
               PROVE  /\ Sees(s, doc[s])'
                      /\ \A h \in Rebuilding' : Sees(h, doc[s])' \/ draft'[h].epoch <= draft'[s].epoch
                      /\ served' # Nobody /\ served'.epoch > draft'[s].epoch
                            => Covers(served.body, served.epoch, doc[s])'
    BY <1>3 DEF Pending
  <2> PICK e : e = doc[s] /\ e = doc'[s]
    BY <1>0 DEF Rebuilders
  <2>1. \A h : Sees(h, e)' <=> Sees(h, doc[s])'
    BY DEF Sees, Covers
  <2>2. Covers(served'.body, served'.epoch, e) <=> Covers(served.body, served.epoch, doc[s])'
    BY DEF Covers
  <2>3. /\ Sees(s, e) /\ \A h \in Rebuilding : Sees(h, e) \/ draft[h].epoch <= draft[s].epoch
        /\ served # Nobody /\ served.epoch > draft[s].epoch => Covers(served.body, served.epoch, e)
    BY DEF Pending
  <2>4. s \in Rebuilding /\ draft'[s] = draft[s] /\ draft[s] \in Drafts
    BY <1>2, <1>4 DEF Handling, Rebuilding
  <2>5. \A h \in Rebuilding' : Sees(h, e)' \/ draft'[h].epoch <= draft'[s].epoch
    BY <1>2, <1>3, <1>7, <2>3, <2>4 DEF Rebuilding
  <2>6. ASSUME served' # Nobody, served'.epoch > draft'[s].epoch PROVE Covers(served'.body, served'.epoch, e)
    <3>1. CASE UNCHANGED served
      BY <2>3, <2>4, <2>6, <3>1
    <3>2. CASE Serves(g)
      <4>1. ~(draft[g].epoch <= draft[s].epoch)
        BY <1>s, <2>4, <2>6, <3>2 DEF Drafts
      <4> QED BY <1>s, <2>3, <3>2, <4>1
    <3> QED BY <3>1, <3>2
  <2> QED BY <1>7, <2>1, <2>2, <2>3, <2>4, <2>5, <2>6
<1>14. ASSUME NEW a \in Answers, NEW e, e = a.doc,
              served' # Nobody /\ served'.epoch >= a.from => Covers(served'.body, served'.epoch, e),
              \A h \in Rebuilding \ {g} : \/ Sees(h, e)
                                          \/ draft[h].epoch < a.from
                                          \/ served' # Nobody /\ draft[h].epoch <= served'.epoch
       PROVE  Kept(a)'
  <2>1. \A h \in Rebuilding' : \/ Sees(h, a.doc)'
                               \/ draft'[h].epoch < a.from
                               \/ served' # Nobody /\ draft'[h].epoch <= served'.epoch
    BY <1>2, <1>3, <1>7, <1>14 DEF Rebuilding
  <2>2. served' # Nobody /\ served'.epoch >= a.from => Covers(served.body, served.epoch, a.doc)'
    BY <1>14 DEF Covers
  <2> QED BY <2>1, <2>2 DEF Kept
<1>15. ASSUME NEW a \in answers, a.outcome # "failed" PROVE Kept(a)'
  <2>1. Kept(a) /\ a \in Answers /\ a.from \in Nat
    BY <1>15 DEF Answered, Shapes, Answers
  <2>2. ASSUME served' # Nobody, served'.epoch >= a.from PROVE Covers(served'.body, served'.epoch, a.doc)
    <3>1. CASE UNCHANGED served
      BY <2>1, <2>2, <3>1 DEF Kept
    <3>2. CASE Serves(g)
      <4>1. ~(draft[g].epoch < a.from)
        BY <1>s, <2>1, <2>2, <3>2 DEF Drafts
      <4>2. ~(served # Nobody /\ draft[g].epoch <= served.epoch)
        BY <1>s, <3>2 DEF Serves, Shapes, Directories, Drafts
      <4> QED BY <1>s, <2>1, <3>2, <4>1, <4>2 DEF Kept
    <3> QED BY <3>1, <3>2
  <2>3. \A h \in Rebuilding \ {g} : \/ Sees(h, a.doc)
                                    \/ draft[h].epoch < a.from
                                    \/ served' # Nobody /\ draft[h].epoch <= served'.epoch
    <3>1. \A h \in Rebuilding : draft[h].epoch \in Nat
      BY DEF Handling, Drafts
    <3>2. served # Nobody => served.epoch \in Nat /\ served'.epoch \in Nat
      BY <1>9, <1>10 DEF Shapes, Directories
    <3> QED BY <1>10, <2>1, <3>1, <3>2 DEF Kept
  <2> QED BY <1>14, <2>1, <2>2, <2>3
<1>16. CASE g = Loop
  <2>1. UNCHANGED answers
    BY <1>16 DEF Done
  <2>2. Shapes'
    BY <1>0, <1>9, <2>1 DEF Shapes
  <2>3. Answered'
    BY <1>8, <1>15, <2>1 DEF Answered
  <2> QED BY <1>11, <1>12, <1>13, <2>2, <2>3
<1>17. CASE g # Loop
  <2>1. g \in Submissions /\ g \in Filers /\ doc[g] \in Descriptors /\ Filed(doc[g])
    BY <1>17 DEF Goroutines, Filers, Handling
  <2> PICK a : a = [doc |-> doc[g], outcome |-> outcome, from |-> Named(g, outcome)]
    OBVIOUS
  <2>2. answers' = answers \cup {a}
    BY <1>17 DEF Done, Named
  <2>3. Named(g, outcome) \in Nat
    BY <1>5, <2>1, ListingAssumption DEF Named, DefersTo, Shapes, Drafts
  <2>4. a \in Answers /\ a.doc = doc[g] /\ a.outcome = outcome /\ a.from = Named(g, outcome)
    BY <2>1, <2>3 DEF Answers
  <2>5. Shapes'
    BY <1>0, <1>9, <2>2, <2>4 DEF Shapes
  <2>6. ASSUME outcome # "failed" PROVE Kept(a)'
    <3> PICK e : e = doc[g] /\ e = a.doc
      BY <2>4
    <3>1. /\ served' # Nobody /\ served'.epoch >= a.from => Covers(served'.body, served'.epoch, e)
          /\ \A h \in Rebuilding \ {g} : \/ Sees(h, e)
                                         \/ draft[h].epoch < a.from
                                         \/ served' # Nobody /\ draft[h].epoch <= served'.epoch
      BY <1>17, <2>4, <2>6
    <3> QED BY <1>14, <2>4, <3>1
  <2>7. Answered'
    <3> SUFFICES ASSUME NEW b \in answers' PROVE Filed(b.doc)' /\ (b.outcome # "failed" => Kept(b)')
      BY DEF Answered
    <3>1. CASE b \in answers
      BY <1>8, <1>15, <3>1 DEF Answered
    <3>2. CASE b = a
      <4> PICK e : e = a.doc /\ e = b.doc
        BY <3>2
      <4>1. Filed(e)'
        BY <1>8, <2>1, <2>4
      <4> QED BY <2>4, <2>6, <3>2, <4>1
    <3> QED BY <2>2, <3>1, <3>2
  <2> QED BY <1>11, <1>12, <1>13, <2>5, <2>7
<1> QED BY <1>16, <1>17

\* What a rebuild ends in follows from what it saw, and from what is served.
LEMMA SealStep == ASSUME IInv, NEW g \in Goroutines, Seal(g) PROVE IInv'
<1>0. /\ at[g] = "probe" /\ draft[g].todo = {} /\ UNCHANGED <<time, stored, storeLock, setAside, rolledBack>>
      /\ g \in Rebuilding
  BY DEF Seal, Rebuilding
<1> PICK v \in Directories : v = Draft(g)
  BY <1>0 DEF IInv, Handling, Draft, Drafts, Directories
<1>1. v.epoch = draft[g].epoch /\ v.body = draft[g].body /\ v.epoch \in Nat
  BY DEF Draft, Directories
<1>2. served # Nobody => served \in Directories /\ served.epoch \in Nat
  BY DEF IInv, Shapes, Directories
<1> DEFINE last == IF served = Nobody THEN v ELSE served
\* What holds of a handler's own rebuild.
<1>3. ASSUME g # Loop
      PROVE  /\ Covers(v.body, v.epoch, doc[g])
             /\ \A h \in Rebuilding : Sees(h, doc[g]) \/ draft[h].epoch <= v.epoch
             /\ served # Nobody /\ served.epoch > v.epoch => Covers(served.body, served.epoch, doc[g])
             /\ eligible[g] \in Nat
  <2>1. g \in Rebuilders
    BY <1>0, <1>3 DEF Rebuilders, Goroutines
  <2> QED BY <1>0, <1>1, <2>1 DEF IInv, Pending, Sees, Rebuilders, Shapes
<1>4. \A h \in Rebuilding : draft[h].epoch \in Nat
  BY DEF IInv, Handling, Drafts
<1>5. CASE (v.epoch > last.epoch \/ v = last) /\ served' = v /\ Done(g, "served")
  <2>1. UNCHANGED served \/ Serves(g)
    BY <1>0, <1>1, <1>5 DEF Serves
  <2>2. g # Loop => /\ Covers(served'.body, served'.epoch, doc[g]) /\ served' # Nobody
                    /\ \A h \in Rebuilding : Sees(h, doc[g]) \/ draft[h].epoch <= served'.epoch
    BY <1>3, <1>5, NobodyAssumption
  <2> HIDE DEF last
  <2> QED BY <1>0, <1>5, <2>1, <2>2, RebuildEnds
<1>6. CASE v.epoch = last.epoch /\ v # last /\ Done(g, "conflict") /\ UNCHANGED served
  <2>1. served # Nobody /\ served.epoch = v.epoch
    BY <1>6
  <2>2. g # Loop => Named(g, "conflict") \in Nat /\ Named(g, "conflict") > v.epoch
    BY <1>1, <1>3, ListingAssumption DEF Named, DefersTo
  <2>3. g # Loop => \A h \in Rebuilding : Sees(h, doc[g]) \/ draft[h].epoch < Named(g, "conflict")
    BY <1>1, <1>3, <1>4, <2>2
  <2>4. g # Loop => ~(served'.epoch >= Named(g, "conflict"))
    BY <1>1, <1>6, <2>1, <2>2
  <2> HIDE DEF last
  <2> QED BY <1>0, <1>6, <2>3, <2>4, RebuildEnds
<1>7. CASE v.epoch < last.epoch /\ Done(g, "rollback") /\ UNCHANGED served
  <2>1. served # Nobody /\ served.epoch > v.epoch
    BY <1>1, <1>2, <1>7
  <2>2. g # Loop => Covers(served'.body, served'.epoch, doc[g])
    BY <1>3, <1>7, <2>1
  <2>3. g # Loop => \A h \in Rebuilding : Sees(h, doc[g]) \/ draft[h].epoch <= served'.epoch
    BY <1>1, <1>2, <1>3, <1>4, <1>7, <2>1
  <2> HIDE DEF last
  <2> QED BY <1>0, <1>7, <2>1, <2>2, <2>3, RebuildEnds
<1>8. CASE Done(g, "failed") /\ UNCHANGED served
  BY <1>0, <1>8, RebuildEnds
<1> QED BY <1>5, <1>6, <1>7, <1>8 DEF Seal

LEMMA NoDirectoryStep == ASSUME IInv, NEW g \in Goroutines, NoDirectory(g) PROVE IInv'
<1>1. UNCHANGED <<time, stored, storeLock, served, setAside, rolledBack>> /\ Done(g, "failed")
  BY DEF NoDirectory, authority
<1>2. at[g] \in {"rebuild", "probe"} \/ (g = Loop /\ at[g] = "idle")
  BY DEF NoDirectory, Due
<1> QED BY <1>1, <1>2, RebuildEnds

-------------------------------------------------------------------------------
(* The theorems.                                                           *)

LEMMA InitOK == ListingInit => IInv
<1> SUFFICES ASSUME ListingInit PROVE IInv
  OBVIOUS
<1>1. at = [g \in Goroutines |-> "idle"] /\ served = Nobody /\ answers = {}
  BY DEF ListingInit
<1>2. Rebuilding = {} /\ Rebuilders = {} /\ Filers = {}
  BY <1>1 DEF Rebuilding, Rebuilders, Filers, Goroutines
<1>3. Shapes
  BY ListingAssumption DEF ListingInit, Shapes
<1>4. Handling
  BY <1>1, <1>2 DEF Storing, Handling, Goroutines
<1>5. NotAhead /\ Pending /\ Answered
  BY <1>1, <1>2 DEF NotAhead, Pending, Answered
<1> QED BY <1>3, <1>4, <1>5 DEF IInv

LEMMA StepOK == IInv /\ [ListingNext]_listingVars => IInv'
<1> SUFFICES ASSUME IInv, [ListingNext]_listingVars PROVE IInv'
  OBVIOUS
<1>1. ASSUME NEW s \in Submissions,
             Receive(s) \/ Admit(s) \/ Compare(s) \/ Install(s) \/ Estimate(s)
      PROVE  IInv'
  BY <1>1, BeforeStore, InstallStep, EstimateStep
<1>2. ASSUME NEW g \in Goroutines,
             Begin(g) \/ Load(g) \/ Forget(g) \/ Record(g) \/ Seal(g) \/ NoDirectory(g)
      PROVE  IInv'
  BY <1>2, BeginStep, LoadStep, ForgetStep, RecordStep, SealStep, NoDirectoryStep
<1>3. CASE Start \/ Crash \/ Edit \/ Passes \/ UNCHANGED listingVars
  BY <1>3, AroundStep, CrashStep
<1> QED BY <1>1, <1>2, <1>3 DEF ListingNext

\* The inductive invariant of an authority's listing of its relays holds always.
THEOREM Invariant == ListingSpec => []IInv
BY InitOK, StepOK, PTL DEF ListingSpec

\* What a relay is told on its submission holds of every consensus served from
\* then on, however many submissions, rebuilds, crashes and epochs intervene,
\* unless the rebuild failed or its descriptor was later replaced unread.
THEOREM Promised == ListingSpec => []PromisedIsListed
<1>1. IInv => PromisedIsListed
  <2> SUFFICES ASSUME IInv, NEW a \in answers, a.outcome # "failed", a.doc \notin rolledBack,
                      served # Nobody, served.epoch >= a.from
               PROVE  \/ \E d \in served.body : Fulfils(d, a.doc)
                      \/ \E x \in setAside : x.epoch = served.epoch /\ Fulfils(x.doc, a.doc)
    BY DEF PromisedIsListed, Fulfils
  <2> QED BY DEF IInv, Answered, Kept, Covers
<1> QED BY <1>1, Invariant, PTL
===============================================================================
