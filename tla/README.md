# Verification of Osanwe

Osanwe lets a local tool use a hosted model without telling the provider who
asks. A *bearer* on the user's machine buys blind-signed tokens from a *mint*,
finds a relay (*ranger*) in a directory signed by a *council* of authorities,
opens an end-to-end TLS tunnel through it to a *gateway*, and pays with one
token per request. The gateway reserves provider capacity, redeems the token
durably, forwards the request and tells the bearer what became of the token.

This directory holds TLA+ models of the parts of that system whose state is
hard to get right, TLC runs that check them on small instances, and TLAPS
proofs of their main invariants. `PROJECT.json` maps every definition to the
source lines it stands for and lists the runs, the mutants that show each
property can fail, the hazards and the findings.

    tlasany M.tla                              parse
    tlc -workers 2 -config X.cfg MCM.tla       model-check (cfg names below)
    tlapm MProofs.tla                          check the proofs

## 1. Inventory

| Component | Code | State it keeps | Operations | Status |
|---|---|---|---|---|
| Durable redemption store | `internal/mint/spentfile.go` | append-only journal, lock file that pins it, per process a replayed map, an offset and a sticky failure | open, Spend, Refund, Retire, Close | modelled, proved |
| Redemption contract, in-memory set | `internal/mint/mint.go` | map of spent fingerprints, signing keys | Spend, Refund, Retire, Verify | contract modelled |
| Provider budget | `internal/gateway/budget.go` | one bbolt record per window: start, requests, bytes, tokens, cost | Reserve, Release, Usage, composed by MultiBudget | modelled, proved |
| Gateway handler | `internal/gateway/gateway.go` | the charge and the redemption of each request | admit, reserve, redeem, forward, answer, release, refund | modelled with the bearer, proved |
| Gateway routing, price, translation | `routes.go cost.go catalog.go translate.go modelmeta.go` | the routes, the catalogue | start, list, estimate, rewrite, translate an answer or a stream | modelled, proved; content lists not |
| Bearer | `internal/bearer/bearer.go` | request counters, last outcome, per request the token and a tracker | take, present, hear the outcome, put back | modelled with the gateway, proved; status, guard and error pages not |
| Wallets | `internal/mint/client.go`, `invite_wallet.go` | stock of tokens, receipts reserved; durable vouchers, tokens and a counter | activate, Take, Put, buy, refill, restart | modelled, proved |
| Mint issuance | `server.go receipts.go btcpay.go invites.go` | claimed receipts, the signing key, invite programs | authorize, claim, sign, restart; generate and validate programs | modelled, proved; formats partly |
| Checkout | `internal/checkout/server.go`, `internal/btcpay` | a counter per minute | create an invoice | modelled, proved; the page not |
| Council signing | `cmd/council/signing_state.go`, `main.go`, `workflow.go` | last vote, lock directory, the daemon's published body | build, cosign, rebuild | modelled, proved |
| Council documents and mirrors | `workflow.go serving_state.go`, `internal/directory/{workflow,consensus,client}.go` | served document, highest epoch and body installed | merge, reload, serve, fetch | modelled, proved |
| Descriptor store and listing | `internal/directory/store.go`, `cmd/council/main.go` | newest descriptor per relay, accept list, the answer to each submission | submit, Put, Reload, rebuild, loop | modelled, proved |
| Health | `internal/health/health.go` | consecutive failures per relay | probe, Record, Forget | modelled with the listing, proved |
| Relay pool | `internal/pool/pool.go`, `internal/tunnel` | relays, guard, backoff, validity of the consensus | Refresh, dial, failover | modelled, proved |
| Ranger | `internal/ranger/ranger.go` | tunnel slots, tunnels to cut | CONNECT, pump, Shutdown | modelled, proved |
| Blind signatures, certificates, auth, policy | `blind.go`, `internal/{certs,auth,policy}` | none | pure checks | not modelled |
| Commands, UI, web client, packaging | `cmd/*`, `internal/ui`, ... | flags, pages | wiring | not modelled |

How they interact:

- **bearer to gateway**: one HTTP request in a tunnel. The token travels in a
  header, the outcome (`spent`, `invalid`, `rejected`, `refunded`) comes back in
  one. Either side may lose the other at any point.
- **gateway to store and budget**: calls, in the order reserve, Spend, forward;
  on a provable non-dispatch release, then Refund. Both are durable and shared
  with other processes on the host.
- **store processes**: only through the file system: the flock of the companion
  lock file, the journal, their path names.
- **wallet to mint**: a request that carries a receipt and a blinded message;
  either side may lose the other after the receipt is claimed. **Checkout to
  payment server to mint**: an invoice, asked for at one and looked up by the
  other.
- **pool to ranger to gateway**: a CONNECT per connection, through a relay the
  pool chose from a consensus it may have replaced since.
- **relay to authority**: a submitted descriptor; **authority to relay**: a probe.
- **authority processes**: a lock directory, a state file and, inside the
  daemon, `publisher.mu`.
- **authorities, aggregators, mirrors, clients**: signed documents that anyone
  may carry, merge, hold back or replay.

What is hard, and what makes each part correct:

| Part | Hard behaviour | Correct when |
|---|---|---|
| Redemption store | several processes; death inside a write or between write and fsync; power loss; files moved under open descriptors | a token is accepted at most once between releases; what was acknowledged survives; nothing is accepted on another journal; calls return |
| Budget | clock read before the writer lock; windows that end during a reservation; partial refusal of a MultiBudget | ceilings hold; counters are exact; refused requests keep nothing |
| Paid request | refusals and failures at every stage; crash of the gateway; answer lost; several copies of a token | one dispatch per token; what was dispatched stays charged; the outcome told is true; tokens in the wallet are unspent |
| Council signing | commands and daemon with one key; kill between record and release; power loss; stale lock | one body per epoch, recorded first |
| Council | hostile authorities, outsiders, replayed and partial documents; restarted mirrors | one directory per epoch; no rollback |
| Wallets and mint | a receipt claimed and the answer lost; loop and requests buying at once; restarts; several holders of a receipt; epochs that end meanwhile | one signature per receipt; no receipt shown twice; no token lost but to a failure |
| Admission and price | hostile JSON, translated fields, widths of numbers, retired models | what is sent is what was priced, and has one meaning |
| Answers | a provider that fails in the middle of a stream that began with 200 | a failure never ends like a whole answer |
| Pool | dials that a refresh overtakes; replayed, late and empty documents | health says what is in use; withdrawn relays are not preferred |
| Ranger | return paths of a handler; Shutdown while a handler passes its checks | slots exact; silence after Shutdown |
| Listing | submissions overtaking each other, rebuilds across a boundary, conflicts, restarts | the answer to a submission holds |

## 2. Modules

| Module | Models | Extends, instantiates |
|---|---|---|
| `Redemption` | the promise of the `RedemptionStore` interface: one holder per token until a release | |
| `SpentJournal` | `FileSpentSet`, several processes on one journal | implements `Redemption` (`OneRedemption`) |
| `SpentJournalProofs` | theorems about it | `SpentJournal`, TLAPS |
| `Budget` | `MultiBudget` over `FileBudget`s | |
| `PaidRequest` | bearer `withToken` and gateway `ServeHTTP` joined by a connection | uses `Redemption` as its store |
| `PaidRequestProofs` | theorems about it | `PaidRequest`, TLAPS |
| `Vote` | the promise of an honest authority: one body per epoch | |
| `Signing` | all signers of one authority | implements `Vote` (`OneVote`) |
| `SigningProofs` | theorems about it | `Signing`, TLAPS |
| `Council` | authorities, documents, mirrors, clients | honest keys obey `Vote` |
| `CouncilProofs` | theorems about it | `Council`, TLAPS |
| `Entitlement` | the promise of an authorizer with its receipt store: one signature per receipt | |
| `Invites` | invite programs: generator, manifest, book, and who accepts what when | pure operators |
| `Checkout` | invoices and the limiter of the checkout page | |
| `Mint` | `POST /issue` on either rail, restarts | `Invites`, `Checkout` |
| `Wallets` | the durable invite wallet and the memory wallet, buying from the mint | `Mint` |
| `Issuance` | all of these with a second holder of the receipts | `Wallets`; implements `Entitlement` (`OneSignature`) |
| `IssuanceProofs` | theorems about it and its parts | `Issuance`, TLAPS |
| `Ranger` | slots, tunnels and Shutdown of relays | |
| `Pool` | the client's pool: refresh, install, dial | `Ranger` |
| `Relaying` | pool and rangers together | `Pool` |
| `RelayingProofs` | theorems about both | `Relaying`, TLAPS |
| `Listing` | the authority daemon: submissions, descriptor store, probes, rebuilds | |
| `ListingProofs` | theorems about it | `Listing`, TLAPS |
| `Pricing` | price arithmetic in words of a machine | pure operators |
| `Routing` | route files, configuration, catalogue | `Pricing` |
| `Admission` | what the gateway admits and what it sends | `Routing` |
| `Translation` | what it makes of an answer or a stream | |
| `GatewayProofs` | theorems about the budget, the arithmetic, what is sent and the answers | `Budget`, `Pricing`, `Admission`, `Translation`, TLAPS |
| `MC*` | instances for TLC: model values, symmetry, functions a cfg cannot write. `MCGateway`, `MCCouncil` and `MCAuthority` hold parts of one process that share no state; one variable says which part a behaviour belongs to | |

The compositions are by contract. `PaidRequest` uses the four lines of
`Redemption` where the code calls the store, and `SpentJournal` is shown to
implement them; `Council` lets an honest key sign only what `Vote` allows, and
`Signing` is shown to take no other steps, up to finding 4 of section 5.

### SpentJournal

A process is one open store: the mutex of `FileSpentSet` is held for the whole
of a call, so its goroutines are one caller. `pc` runs through the steps of
`OpenFileSpentSet` (`openwait opening header hsync pinning verifying`) and of a
call (`wait decide append sync confirm`), and anything may happen between two of
them. The journal is the sequence of its complete records (`log`), a torn last
record (`torn`), and how much of it an fsync has confirmed (`synced`).
`offset` counts records instead of bytes: records have fixed forms, and the code
compares the length with `offset` only for equality. `lockAt`, `pin` and `flock`
are the lock file at its path, the identity record inside it, and who holds its
flock; a new lock file is a new number, so that two processes may hold
different locks. Faults: I/O error at any step, kill, power loss (unsynced
records vanish or tear, unsynced directory entries too), the lock file unlinked,
the journal of stores in use replaced or removed. One file is tampered with per run: with both
moved at once the pin and the path agree on an impostor, which the code cannot
tell.

`holder`, `acked`, `forgot` are history: what callers were told. An acknowledged
refund is in `acked` on both of its paths, the record that was synced and the
token found free already; those of the second path that rest on another process's
record not synced yet are also in `leaned`. `mine` is what the gateway may refund:
a token it spent itself, once.

Assumed: a local POSIX file system; the group of verifications done under the
flock is one step; the journal is not truncated in place by someone else (the
code detects a length below its offset; that path is not modelled).

### Budget

One step per bbolt transaction. The clock is read (`ReadClock`) before the
transaction of each ceiling, as `Reserve` does. Bytes, output tokens and cost
are checked and kept alike, `units` stands for all three; a unit is a pair of the
request that asks for it and a number, so that the units of a set of requests
are a cardinality. `charge[r][c]` is the
window a reservation was made in, which is what Release compares. `late` is the
history of the anomaly of section 5.

### PaidRequest

`bearer[r]` and `gateway[r]` are the two program counters of a request; `Present`
is the moment `httptrace` reports the request written, `heard` the outcome the
bearer read. Copies present a token of a restored wallet. The gateway's handler
is one action per outcome of each call, including a release or a refund that
fails. A provider answer of any status leaves the token spent
(`modifyResponse`). The bearer's transport speaks HTTP/1.1, so a request is
written at most once. Buying a token is the subject of `Wallets`: a request
that finds the wallet empty answers 402 here.

### Vote and Signing

`Propose` is building a body for the epoch the clock shows; which body depends on
descriptor directories and health probes, so it is any. `Enter` is
`publisher.mu` and the daemon's comparison with what it serves, `MakeLock` the
`mkdir`, `Check` the comparison with the state file, `Commit` the rename of the
new state file, `SyncDirectory` the fsync after it, `Close` the deferred removal
of the lock directory, `Release` the write of the document. Kills, I/O errors,
clocks set back, a lock directory that cannot be removed, and power losses come
at any step. The operator removes a lock directory only when its maker is gone,
as the documentation asks.

### Council

`votes` are the signatures that exist. A document is a vote with any subset of
them, so any aggregator, partial or replay is covered by quantifying over
subsets. Mirrors verify (`Read`: `MergeConsensus` of one part refuses unknown
keys), compare with memory (`Compare`), record (`Record`) and install; clients
count only keys they know (`Parses`). A write of the serving state may stop
before or after its rename (`WriteStops`), a mirror may be killed (`Dies`) or
lose power (`PowerLoss`). `record` is what a read of the state file returns and
`onDisk` what a power loss may leave of it, more than one vote while the
directory is not synced. `served`, `accepted` and `undone` (served on a record
that a power loss took back) are history. Freshness is counted in epochs; a
clock may be `Skew` epochs behind. A serving state belongs to one mirror process
at a time, as the documentation requires.

### Listing

A handler of `POST /publish` is `Receive` (the accept list is read again, a
descriptor no window can hold is refused), `Admit`, `Compare` and `Install` (the
two halves of `Put`, under its lock), `Estimate` (the first epoch that could
list it) and a rebuild. A rebuild, the loop's too, is `Begin` (clock and names),
`Load` for each file, `Forget` and `Record` for each probe, and `Seal`, the
comparison and the signature under `publisher.mu`; its outcome is what the
answer depends on (`Done`). `Put` compares only if it can read the file it has;
otherwise `Compare` goes on to overwrite it, as the code does. Epochs are named
by the time they begin. The daemon may be killed and started again: files
remain, the record of votes remains, the counters do not. Failures of the
directory, of one file, of the signature and of the accept list's file are
steps. Left out: other processes that sign with the key, which `Signing` has.
`answers`, `setAside` and `rolledBack` (descriptors an older one replaced
unread) are history.

### Entitlement, Invites, Checkout, Mint, Wallets, Issuance

`rail` decides between invite vouchers with the durable wallet and invoices with
the memory wallet. Both wallets buy, fill and take by the same actions, since
their code is the same twice; where they differ an action looks at the rail.
Requests and the refill loop are buyers: `TakeStocked` or `GetKey`,
`ReserveVoucher` or `ReserveReceipt`, `Send`, `Receive`, `Bought`; the loop runs
`Fill`, `Stock`, `Wake`. A call of the mint is `Arrive`, the authorizer with its
lookup (`Entitled`, `LookupFails`), `Claim`, `Sign`, and an answer the client
may no longer wait for. Faults: a lost request or answer, a failed transaction,
a kill of the client or a stop of the mint. A transaction of either bbolt file
that fails may have been committed all the same, as when only its last sync
fails, and the caller goes its error path either way; that of `Put`, whose error
`invite_wallet.go:206` ignores, is among them. Tokens carry the name of the
receipt that bought them. `Invites` has the arithmetic of programs with one
window and with daily epochs: what the generator refuses, what it writes, what
the client parses, what the mint accepts at a time and what the wallet presents
at a time. A wallet activates one of `Books`: a book the generator writes, or
one made by hand as `invite_wallet_test.go` makes its daily ones, with schema 2.

### Ranger, Pool, Relaying

A connection is a handler of a ranger and a dial of the pool at once. The
handler is `Connects` (reserveTunnel), `Upstream`, `Track`, `Reply`, `PumpEnds`,
with the deferred calls in `End`; `Stop` and `Cut` are `Shutdown` taking the
tunnels and closing them one by one. The pool's loop reads the epoch it holds,
fetches without the lock and installs; `Acceptable` is what `FetchNewer`
refuses. Documents are numbered by time, one of each number, as `Council` shows.
Dials copy their candidates in `StartDial` and report through `Succeed` and
`Failed`, with whatever set is installed by then. `newest`, `source`, `validity`
are history or tell where the pool's fields come from. `overtaken` are the
entries that became guard by a dial which a new set had overtaken, since the last
set was installed.

### Pricing, Routing, Admission, Translation

Numbers are words of `Word` values in place of 2^64 and a currency unit has
`Places` decimals in place of six, so that overflow happens within the bounds. A
configuration is parsed, refused or served (`New`), then one request is prepared
against it (`Prepare`): its frame and headers, ambiguous JSON, fields, model and
bounds, its translation for the other style, its price. JSON is a tree of
records. `Level(v)[n]` are the values inside `v` under `n` objects and arrays,
each with its place: the walk of `walkJSONValue` reads them level by level down to
`MaxDepth`, where it refuses one that has values inside, and the size of a body is
the number of its values. A stream is read line by line (`Line`), may end,
break off or report an error, and is written event by event to a client who may
leave. A line whose JSON does not decode into the expected types, be it an error
or a text, is "garbled" and skipped as noise is. What the provider declares as
trailers is cleared when the header arrives and is back when the end of the body
is read (`trailers`).

## 3. Runs

| Run | Instance | Shows |
|---|---|---|
| `spent_lock` | 2 processes, 2 tokens of one key, 4 records, 2 lock files, 2 faults, the lock file may be unlinked | `OneRedemption`: implements `Redemption`; `RedemptionIsDurable`, `RefundIsDurable`, `ViewIsReplay`, `CleanStartup`, `TypeOK` |
| `spent_journal` | 2 processes, 1 token, 3 records, 2 faults, the journal may be replaced, fair | `OneRedemption` when stores are opened on the replacement, `CallsReturn` |
| `spent_retire` | 2 processes, 1 fault | violation, see 5 |
| `budget_multi` | 3 requests, 2 ceilings with windows of different length, 3 windows, 1 fault; in behaviours of their own 584 requests against 128 configurations, and every stream of 4 lines of 8 kinds | `CeilingHolds`, `CountersAreExact`, `AllOrNothing`, `TypeOK`; `PaidForIsSent`; `AnswerIsTrue` |
| `budget_late` | 3 requests, 1 ceiling, 2 windows | violation, see 5 |
| `paid_copies` | 3 requests, 2 tokens, a copy of one of them, 2 faults | `OneDispatch`, `DispatchedIsCharged`, `NoCapacityLeak`, `OutcomeIsTrue`, `WalletIsUnspent`, `TypeOK` |
| `paid_abort` | 2 requests, 2 tokens, 1 fault | violation, see 5 |
| `signing_faults` | 1 command, 2 rebuilds, 2 epochs, 2 bodies, 2 failures, 1 power loss; in behaviours of their own 1 relay with 2 descriptors, 2 handlers and the loop, 2 epochs, 1 mishap | `OneVote`: every step is one of `Vote`; `RecordedFirst`, `LockIsFreed`, `TypeOK`; `PromisedIsListed` |
| `signing_unsynced` | 2 commands, 1 failure, 1 power loss | violation, see 5 |
| `listing_window` | the listing half of `signing_faults` without mishaps | violation, see 5 |
| `council_split` | 4 authorities of which 1 hostile, 1 outsider, threshold 3, 1 mirror, 2 epochs, 2 kills, failed writes or power losses; in behaviours of their own 2 relays of one slot, 2 connections, 3 documents of which one is empty | `OneDirectory`, `NoRollback`, `TypeOK`; `SlotsExact`, `StoppedIsQuiet`, `HealthIsTrue`, `WithdrawnGuardWasDialing` |
| `issuance_rails` | 2 requests, the loop and another holder of the receipts; 1 invite book of two epochs of one voucher and 1 invoice; 1 failure, both rails | `OneSignature`: implements `Entitlement`; `ShownOnce`, `NothingLost`, `SpentIsWhatLeft`, `NoForgottenRefill`, `InvoicesBounded`, `OffersAccepted`, `TypeOK` |

What the properties say that take more than their names, in a sentence each.
`RefundIsDurable`: an acknowledged refund survives every power loss, except one
in `leaned`, and there is none of these unless something failed. `NoRollback`: a
mirror holds nothing that conflicts with, or is older than, what it has served,
except what is in `undone`. `OneSignature`: a receipt buys one blind signature,
whoever presents it and wherever the mint stops. `ShownOnce`: a wallet never
presents a receipt twice. `NothingLost`: what was reserved is in hand, used, on
its way or spoiled by a failure. `SpentIsWhatLeft`: the counter on the status
page, whichever transactions fail and whether those were committed.
`NoForgottenRefill`: a low wallet has a refill running, pending or coming,
unless one gave up or a failed transaction took the token. `InvoicesBounded`:
the limiter bounds every span shorter than a minute, not only the minutes it
counts. `OffersAccepted`: the wallet offers exactly the vouchers left that the
mint accepts at the time on the wallet's clock. `SlotsExact`, `StoppedIsQuiet`:
the ranger's counters and its Shutdown. `HealthIsTrue`: a healthy pool uses the
newest document it ever accepted. `WithdrawnGuardWasDialing`: only a dial in
progress can keep a withdrawn relay. `PaidForIsSent`: a request that is sent was
listed, priced and bounded in full, reads the same to every parser and reveals
no header of the caller. `AnswerIsTrue`: an answer that broke off, or reported
an error that decodes, does not end like a whole one, and no header that is not
for the client reaches it. `PromisedIsListed`: what a relay was told on its
submission holds of every consensus served afterwards, unless its rebuild failed
or its descriptor is in `rolledBack`.

Why the bounds are enough to meet the interesting cases: two processes race and
a third only adds waiting; four records hold header, redemption, refund and
another redemption, the proofs any number; two faults allow a failure and a
second one during the recovery from it. Two ceilings are the smallest
MultiBudget that can be refused half way, and three windows let a release arrive
two windows late. Three requests on two tokens make a token be put back, taken
again and redeemed. Two epochs and two bodies make a conflict and a rollback
possible; four authorities with threshold three are the smallest council that
tolerates a hostile one; two faults are a failed sync and the power loss after
it. Two vouchers in two epochs let one expire between reservation and claim; two
requests, a loop and a copy meet at one receipt in every order. Two connections
on relays of one slot fill a relay, and three documents withdraw a relay and
then all of them. Two handlers and the loop are enough for each to overtake the
other two, of the two descriptors one is too short for the second epoch, and the
mishap is a crash, a failure, or an unreadable file anywhere around them. A
stream of four lines holds text, a reason, a count and a failure in any order.

Bounds in guards: the clocks (`MaxNow`, `MaxTime`, `Ahead`), what may go wrong
(`MaxFaults`, `MaxFailures`, `MaxPowerLosses`, `MaxMishaps`, `Stoppable`), what
may be repeated (`MaxRecords`, `MaxLocks`, `MaxCopies`, `MaxLines`, one request
per behaviour of Admission), and the failure counters of `Listing`, which stop
at the threshold. `MaxDepth`, `MaxVouchers`, `MaxPrice` and the limits of
requests are the code's own, made small. A bounded run stops, hence
`CHECK_DEADLOCK FALSE`.

Symmetry is used only in runs without liveness, over processes, requests,
tokens, bodies, connections and submissions that no definition tells apart.

**Fairness.** `spent_journal` is the one run that needs it. Every step of a call
that is not a wait is weakly fair: a goroutine that can run, runs. Acquiring the
flock is strongly fair: Linux queues waiters first come first served, so a
waiter is not overtaken forever. Nothing is assumed of callers, failures or the
operator.

## 4. Proofs

TLAPS checks every theorem for all values of the constants, bounds included,
under the named assumptions of each module.

**SpentJournal** (`SpentJournalProofs`). `Typed`, then `Invariant`: an inductive
invariant that says, for each process and each point of a call, how its map, its
offset and the sync mark relate to the journal; who may have an unsynced record
at the end; and that a holder's redemption is at or below the sync mark with no
release after it. From it follow `Durable` (`RedemptionIsDurable`), `Refunded`
(`RefundIsDurable`), `Replayed` (`ViewIsReplay`) and `Refines`
(`OneRedemption`). The proof uses nothing about the flock: two processes with
two lock files may be inside at once. What makes a claim exclusive is the check
after the append, that the journal has exactly the length the process accounted
for: of two appends that overlapped, at most one finds it so, and a claim whose
append nobody overlapped was decided on a complete replay. `RedemptionIsDurable`
alone is not inductive, since a redemption becomes durable steps before it is
acknowledged.

Startup needs the flock. `StartupClean` (`CleanStartup`) rests on an invariant of
the time before the first fault: where every process has opened the same lock
file, one at most runs under its flock (`Serialised`), and then the journal has
its header or nothing pins it (`Findable`).

`Refunded` excepts the refunds in `leaned`, and shows that there are none before
the first fault: a record that is not synced and whose writer no longer runs is
left by a fault.

**Signing** (`SigningProofs`). `Typed`; `LockFreed` (`LockIsFreed`); then
`Invariant`: as long as power losses and other failures have not both happened
(`OneKindOfFault`), the record in the state file is equal to or later than every
vote cast, votes cast never conflict, and before the first other failure only a
rename in progress is not yet on disk. `Recorded` (`RecordedFirst`),
`NeverTwoBodies` (`OneVote`) and `NoTwoBodies` follow, and `Implements`: where
only one kind of fault occurs the signers refine `Vote`. The condition is
needed: `signing_unsynced` shows one failure and one power loss break it.

**Council** (`CouncilProofs`). `Typed`; `Invariant`: honest keys never signed two
bodies of one epoch, and whatever is read, held, served or accepted carries a
threshold of authorities. `NoSplit` (`OneDirectory`) then is quorum
intersection: with `2 * Threshold > |Authorities| + |Faulty|` two quorums share
an honest authority. That inequality is an assumption about the operators'
choice; the code only checks `1 <= Threshold <= |Authorities|`. `Forward`
(`NoRollback`) needs no quorum: the record of a mirror is never behind what it
served, except what a power loss undid (`undone`), and every vote a power loss may
leave in its place is in `onDisk`.

**PaidRequest** (`PaidRequestProofs`). `Invariant` says at each pair of program
counters what connects the two handlers (`Connected`), what is charged
(`Charging`), who holds which token and that no one takes it from a handler that
may still use it (`Holding`), and that a token belongs to one request of the
wallet until it went back (`Owning`). From it `PaidOnce` (`OneDispatch`),
`StaysCharged` (`DispatchedIsCharged`), `NothingLeaks` (`NoCapacityLeak`),
`OutcomeTrue` (`OutcomeIsTrue`) and `WalletGood` (`WalletIsUnspent`). `OneDispatch`
alone is not inductive: it needs that a dispatched request keeps its token and
that the two sides agree on the outcome. `RefundsItsOwn` is what `SpentJournal`
assumes of its callers, and `UsesStore` that the whole implements `Redemption`:
the two compositions of section 2 are closed on both sides.

**Budget** (`GatewayProofs`). `Invariant`: `Charges`, what a request holds of each
ceiling at each point of `Reserve` and of the way back; `NoneAhead`, nobody is
charged in a later window than the recorded one; and the counters and limits. From
it `Typed`, `CeilingKept` (`CeilingHolds`), `CountersExactly`
(`CountersAreExact`) and `AllOrNone` (`AllOrNothing`), for any number of
requests: only finitely many are charged (`Finite`), so the units of a window are
a cardinality that a reservation increases by its weight. The ceilings in `late`
are excepted, as in the properties: `NoneAhead` fails for them, finding 2.

**Price** (`GatewayProofs`). `RoundsUp`: `CeilMulDiv` is the least multiple that
covers a product, or the product needs more than a word. `CostCovers`: a charge
is a word, covers the price of the bytes, the padding and every token that may be
answered by less than two parts too much, and is refused only when no word would
cover it. Nothing is assumed of the size of a word but that it holds a unit.

**Routes** (`GatewayProofs`). `ServedRoutes`: whichever way its models are
configured, a gateway that starts sends none of them to an address that is absent
or not https, or without a credential; every price is a word, and where a ceiling
on cost is set every model has both. Below it is what parsing yields
(`NumberType`, `AmountType`, `LineRates`, `FileRates`).

**Admission** (`GatewayProofs`). `SentPaid` (`PaidForIsSent`), for requests,
configurations and words of any size. The invariant (`AdmissionInv`) is short: the
server is one a configuration starts, and what is sent is `Sent` of a request that
is admissible now. The work is in what an admissible request is. `Admitted`: its
fields are supported, valid and flat (`Piece`: a plain value, or an array of plain
values and of objects whose names differ and whose values are plain), since
`Unambiguous` looked at every level the fields have. `Translated`: what `toOpenAI`
makes of them is flat too and keeps the bound. `Encoded`: the body decodes to the
fields it was made of. `BodyNodes`: a flat body ends on its third level, so it has
finitely many values and each reads one way. `SaidWhole`: the texts are those of
the request, in order. `CostCovers` then bounds the price, for rates
`ServedRoutes` shows to be words. Level and number are functions defined by
recursion; their equations (`LevelDef`, `NumberDef`) say that such functions
exist, which is proved of the least depth, or length, that would have none
(`First`), since induction over an operator is not available.

**Translation** (`GatewayProofs`). `AnswersTrue` (`AnswerIsTrue`), for streams
of any length. The invariant has the number of texts written (`Deltas`: the i-th
speaking line is event i + 2, and no other event is a text), what the goroutine
remembers (`Remembered`: stop reason, counts and number of texts are those of
the lines read that decode, and no error was among those), the length of what
was written at each stage (`Written`), and the three ways to end (`Over`).

**Relaying** (`RelayingProofs`). For the rangers: `reserved` is the number of
connections a relay carries (`Slots`), registered tunnels are among them, and a
tunnel that carries bytes is one `Shutdown` finds or has found (`Reached`):
`SlotsKept` (`SlotsExact`) and `Quiet` (`StoppedIsQuiet`). For the pool: what is
being installed is the newest document (`Newest`), and an entry a dial may try is
listed, or the dial was overtaken, or the entry is in `overtaken`
(`Candidacy`): `HealthTrue` (`HealthIsTrue`) and `WithdrawnGuard`
(`WithdrawnGuardWasDialing`). The last was once stated with one overtaken entry.
That holds for two connections and is false for three, where two dials that a
refresh overtook make their relays guard in turn and a later dial takes the first
of them again; the proof found it, since the run has two
connections.

**Issuance** (`IssuanceProofs`). For the mint, `Once`: a claim that is not
signed yet has one call. For the wallets, `Owned`: each buyer at work holds a
receipt of its own that is reserved, `Kept` and `Fresh`: what was shown is
reserved and what is about to be shown was not. For the page, `Counted`: the
requests the limiter counts are the last ones. `OneEach` (`OneSignature`, the
refinement of `Entitlement`), `Shown` (`ShownOnce`), `Nothing` (`NothingLost`),
`SpentExactly` (`SpentIsWhatLeft`), `RefillRemembered` (`NoForgottenRefill`) and
`PageBounded` (`InvoicesBounded`) follow, for any number of buyers, receipts and
restarts. `SpentExactly` counts failed transactions that were committed.
`Offered` (`OffersAccepted`) assumes a program the generator accepts
(`ValidProgram`) and books it writes or the tests make. `ManifestLoads`: the
mint loads the manifest of every such program. `GeneratedImports`: the client
parses a generated book exactly when the program has one window, so no generated
book of a daily program can be activated (section 5). Where an induction is
needed (the first request of a span), the least element of a set of numbers
does.

**Listing** (`ListingProofs`). `Promised` (`PromisedIsListed`). A descriptor
that was installed stays on file or is replaced by a newer one, or is in
`rolledBack` (`Filed`). While its handler rebuilds, every rebuild under way sees
it (has read it, or will) or is for no later an epoch than the handler's
(`Pending`), since epochs are never ahead of the clock and a rebuild takes its
names after its epoch; so a body that could contradict the answer is never newer
than what the answer is for (`Kept`). Answers to a failed rebuild and
descriptors in `rolledBack` are excepted, as in the property (section 5).

**Assumptions.** Each proof cites the named assumptions of its modules. They are
of three kinds: constants are numbers of the right kind, with the code's own
checks (`EpochLength < Validity`, windows and weights positive); a model value
that stands for nothing is none of the things it stands among (`NoneAssumption`,
`NilAssumption`, `NobodyAssumption`); and the shapes of inputs (`Descriptors`,
`Lines`, and for the gateway `AskedAssumption` and `ConfigsAssumption`: a
request is JSON, a price is digits around points). One restricts the operator:
`QuorumAssumption`, above. TLC evaluates all of them on the runs.

**Model-checked only.** `CallsReturn`: liveness under fairness is beyond the
prover. The violation runs of section 5 are counterexamples, found by TLC.

## 5. Findings

Each is a violation run; `PROJECT.json` quotes the lines.

1. **Retire can be acknowledged and lost** (`spent_retire`). Retire returns nil
   without a sync when the map it replayed has nothing left under the key; the
   record it relied on may be one a killed process wrote and never synced.
2. **A late reservation resets a newer window** (`budget_late`). The clock is
   read before the writer lock; a transaction that commits after another one has
   opened the next window takes that record for a foreign one and starts from
   zero. Both ceilings can be crossed. `CeilingHolds` shows that this is the
   only way.
3. **A token given back is lost when the reverse proxy aborts** (`paid_abort`).
   `withToken` returns the token after `ServeHTTP`, not in a `defer`, and the
   proxy panics when it cannot copy the body to the tool.
4. **A retried vote may rest on an unsynced record** (`signing_unsynced`). The
   state file is renamed before its directory is synced; after a failure between
   the two a retry finds its own vote on record and skips writing. A power loss
   can then undo the record of a released signature.
5. **A relay is put off to an epoch that cannot list it** (`listing_window`). A
   submission that fits the window of the current epoch but not the next is
   accepted; if another body was signed for the epoch it is answered "eligible
   from" the next one, in which it never appears. `firstListing` says it prevents
   such a wait (`cmd/council/main.go:334-345`), and `docs/directory.md:279-281`
   that such a descriptor is refused.

Six more things the documents or comments say are stated next to the properties
that hold instead, which except them openly. TLC refutes each with the cfg named,
when it takes the place of that cfg's properties:

| Stated | cfg | What the code does |
|---|---|---|
| `RefundAlwaysDurable` | `SpentJournal_retire` | Refund has the shortcut of finding 1 (`spentfile.go:435`) |
| `RollbackSurvivesRestart` | `Council_split` | the serving state has that of finding 4 (`serving_state.go:70`): a mirror serves an epoch on a record a power loss undoes, and an older one after its restart |
| `NeverMovedBack` | `Signing_faults` | `Put` compares with the stored descriptor only if it can read and parse it (`store.go:157-159`); otherwise an older one replaces it |
| `NoErrorPassedOffAsWhole` | `Budget_multi` | `translate.go:304` skips a chunk that does not decode before it looks for an error in it; an error given as a string ends as `end_turn` |
| `TrailersAreOurs` | `Budget_multi` | `gateway.go:946` clears the trailers before the body is read; net/http fills them in at its end, and the proxy forwards them past the policy for headers |
| `GeneratedBooksImport` | `Issuance_rails` | a book of a daily program says schema 1 and carries the epoch fields of schema 2, which the wallet refuses (`invites.go:300`); the tests write their daily books by hand. `GeneratedImports` proves it of every daily program |

Seen while modelling, without a run of their own:

- A rebuild that fails other than by a conflict is only logged: the answer names
  an epoch although nothing was signed, and a concurrent rebuild that read the
  directory earlier may then serve that epoch without the relay.
  `PromisedIsListed` excepts that answer.
- `docs/directory.md:252` says an authority publishes only identities on its
  accept list. The list is consulted on submission only: removing an operator
  from it does not unlist the relay (`loadDescriptorsMode`).
- A daemon restarted after a submission was put off to the next epoch builds a
  body its record refuses, and exits until that epoch (`main.go:177`).
- Every submission's rebuild records a probe of every relay: `-unhealthy-after`
  counts rebuilds, not moments.
- `pool.go:312-318` logs that another guard will be chosen on the next request; a
  dial a refresh overtook makes the withdrawn relay guard again until the next
  set is installed (`WithdrawnGuardWasDialing` states exactly that).
- A consensus without a usable relay replaces `validUntil` and leaves the old
  relays: the ceiling on staleness (`pool.go:60-70`) is then measured by another
  document. `HealthIsTrue` holds since the failure shows.
- A provider's stream that ends without a finish reason ends as `end_turn`.

## 6. Not modelled, and why

- Cryptography and formats: a token, a signature, a descriptor or a body is a
  value that verifies. Canonical encodings are assumed injective.
- Key files, file permissions, JSON of the invite files beyond the fields that
  decide, the checks the BTCPay client makes of an answer: either a failure step
  or left out.
- The flattening of content lists in translate.go: `prepareRequest` refuses the
  requests that would reach it.
- The bearer's status page, guard and error pages, metrics and log lines: they
  read state and change none the properties see.
- TLS, certificates, secrets, allow lists, time limits: whether a relay or a
  gateway accepts is a choice. Terminal and web interfaces, commands, packaging:
  I/O and wiring without shared state.
- The in-memory `SpentSet`: a map under a mutex, `Redemption` restated.

## 7. Plan

Every safety property of the passing runs is proved. Left is a liveness property
of `Ranger` with fairness: a tunnel ends once its peers do.
