-------------------------------- MODULE Invites --------------------------------
(***************************************************************************)
(* Invite programs (internal/mint/invites.go): the operator generates one  *)
(* secret book per seat and one manifest of voucher fingerprints for the   *)
(* mint.  A wallet decides from its book which vouchers it may present now *)
(* and the mint decides from its manifest which it accepts now; the two    *)
(* files share nothing but the program's numbers.                          *)
(*                                                                         *)
(* Derived vouchers are pairs of a seat and a slot: HMAC of a secret seed  *)
(* and the slot number.  A fingerprint stands for its voucher.             *)
(***************************************************************************)
EXTENDS Naturals, Sequences, FiniteSets

CONSTANT MaxVouchers  \* maxInviteVouchers

ASSUME InvitesAssumption == MaxVouchers \in Nat \ {0}

\* A program: [seats, perInvite, perEpoch, epochLength, from, until].  perEpoch
\* and epochLength are both 0 for a program with one fixed window.
Daily(c) == c.perEpoch # 0 \/ c.epochLength # 0

Window(c, first, last) == [from |-> first, until |-> last]

\* The epochs partition the program's window exactly.
EpochsPartition(c) ==
    c.until - c.from = (c.perInvite \div c.perEpoch) * c.epochLength

\* validateInviteGeneration and validateInviteManifestFields.
ValidProgram(c) ==
    /\ c.seats >= 1 /\ c.perInvite >= 1 /\ c.from < c.until
    /\ c.seats <= MaxVouchers /\ c.perInvite <= MaxVouchers
    /\ c.seats <= MaxVouchers \div c.perInvite
    /\ Daily(c) => /\ c.perEpoch >= 1 /\ c.perInvite % c.perEpoch = 0
                   /\ c.epochLength >= 1
                   /\ EpochsPartition(c)

Slots(c) == 0..(c.perInvite - 1)

\* The start times of the generated epochs: the loop runs from the start of the
\* program while it is before its end.
EpochCount(c) ==
    IF Daily(c) THEN Cardinality({i \in 0..(c.until - c.from) : c.from + i * c.epochLength < c.until})
                ELSE 0

Epochs(c) ==
    [i \in 1..EpochCount(c) |->
        Window(c, c.from + (i - 1) * c.epochLength, c.from + i * c.epochLength)]

\* Which epoch of the manifest gets the fingerprint of a slot.
EpochOfSlot(c, slot) == slot \div c.perEpoch

\* The generated manifest, as the mint parses it: vouchers with their windows.
Manifest(c) ==
    [voucher \in (1..c.seats) \X Slots(c) |->
        IF Daily(c) THEN Epochs(c)[EpochOfSlot(c, voucher[2]) + 1] ELSE Window(c, c.from, c.until)]

\* validateDailyInviteEpochs: contiguous epochs that cover the program, each
\* with the fingerprints of every seat, no fingerprint twice.
ValidManifest(c) ==
    Daily(c) =>
        /\ EpochCount(c) = c.perInvite \div c.perEpoch
        /\ \A i \in 1..EpochCount(c) :
            /\ Epochs(c)[i].from = IF i = 1 THEN c.from ELSE Epochs(c)[i - 1].until
            /\ Epochs(c)[i].from < Epochs(c)[i].until /\ Epochs(c)[i].until <= c.until
            /\ Cardinality({v \in DOMAIN Manifest(c) : EpochOfSlot(c, v[2]) + 1 = i})
                = c.seats * c.perEpoch
        /\ Epochs(c)[EpochCount(c)].until = c.until

Inside(window, now) == window.from <= now /\ now < window.until

\* The book written for a seat.  Its schema is always that of a fixed window,
\* also when the manifest beside it has epochs (invites.go:300).
GeneratedBook(c, seat) ==
    [schema |-> 1, seat |-> seat, perEpoch |-> c.perEpoch, count |-> c.perInvite,
     epochs |-> Epochs(c), from |-> c.from, until |-> c.until]

\* The book of a daily program as the tests of the wallet write it by hand: no
\* code writes one that can be activated.
HandmadeBook(c, seat) == [GeneratedBook(c, seat) EXCEPT !.schema = 2]

\* parseInviteBook.
ParsesBook(b) ==
    /\ b.schema \in {1, 2} /\ b.from < b.until /\ b.count \in 1..MaxVouchers
    /\ IF b.schema = 1 THEN b.perEpoch = 0 /\ b.epochs = <<>>
       ELSE /\ b.perEpoch >= 1 /\ b.count % b.perEpoch = 0
            /\ Len(b.epochs) = b.count \div b.perEpoch
            /\ \A i \in DOMAIN b.epochs :
                /\ b.epochs[i].from = IF i = 1 THEN b.from ELSE b.epochs[i - 1].until
                /\ b.epochs[i].from < b.epochs[i].until
            /\ b.epochs[Len(b.epochs)].until = b.until

\* Mutant: a window is open at its end.
CurrentSlotsLate(b, now) ==
    IF b.schema = 1
    THEN {s \in 0..(b.count - 1) : b.from <= now /\ now <= b.until}
    ELSE UNION {((i - 1) * b.perEpoch)..(i * b.perEpoch - 1) :
                    i \in {j \in DOMAIN b.epochs : b.epochs[j].from <= now /\ now <= b.epochs[j].until}}

\* inviteBookCurrentEpoch: the slots of a book that may be reserved now.
CurrentSlots(b, now) ==
    IF b.schema = 1
    THEN {s \in 0..(b.count - 1) : Inside(Window(b, b.from, b.until), now)}
    ELSE UNION {((i - 1) * b.perEpoch)..(i * b.perEpoch - 1) :
                    i \in {j \in DOMAIN b.epochs : Inside(b.epochs[j], now)}}

\* Authorize: the mint knows the voucher and its window is open.
Accepts(c, voucher, now) ==
    voucher \in DOMAIN Manifest(c) /\ Inside(Manifest(c)[voucher], now)
===============================================================================
