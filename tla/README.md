# A TLA+ development of txmill

txmill relays transactions to an EVM chain on behalf of apps. Each app has a
pool of signing accounts and a treasury that keeps them in gas. The process is
one Go binary with HTTP handlers and three background workers around a
PostgreSQL database and a JSON-RPC node. This directory holds specifications of
its parts, the configurations with which TLC checks them, and proofs that TLAPS
checks.

Run them from this directory:

    tlc -config RelayFaults.cfg MCRelay     # a run: <name>.cfg with its MC module
    tlapm RelayProofs.tla                   # the proofs

`PROJECT.json` lists every run, the source lines every definition stands for,
the mutants (a plausible bug for every checked property, which TLC must find),
the hazards and the findings.

## The system

| Part | Source | State | Operations |
|---|---|---|---|
| signer pool | `internal/signer` | map of apps, a buffered channel of idle signers per app, an atomic nonce per signer | Load, Checkout, Release, UseNonce, RewindNonce |
| relay submission | `internal/relay/service.go` | rows of `relay_requests` and `tx_attempts` | Submit, one goroutine per request |
| receipt watcher | `internal/relay/watcher.go` | the same rows | tick, process |
| start-up recovery | `internal/relay/recovery.go` | none (reads) | Recover |
| status queries | `internal/relay/get.go` | none (reads) | Get, GetRaw |
| webhooks | `internal/webhook` | rows of `webhook_deliveries` | Enqueue, tick, deliver, recordFailure |
| gas worker | `internal/gas` | rows of `gas_attempts` | tick, processApp, hasRecentTopup, refill |
| treasury sweep | `internal/treasury`, `internal/api/treasury.go` | none of its own | Sweep |
| chain client | `internal/chain` | the node's: nonces, mempool, receipts | PendingNonceAt, SendTransaction, TransactionReceipt, ... |
| apps, keystore | `internal/app`, `internal/keystore` | rows of `apps` and `signers`, key files | Create, ListSigners, Generate, Load |
| alerts | `internal/alert` | the throttle's map of sent keys | Notify |
| HTTP API | `internal/api` | none | parsing, authentication, answers |
| process | `cmd/txmill` | none | start-up, shutdown |

What interacts with what:

- A request's goroutine, other requests of the same app, the watcher and a
  client that hangs up meet on the signer pool and on the two rows of the
  request. The request's context is used by every database call and RPC of
  Submit, so after the client has gone all of them fail.
- Submit and the watcher both enqueue webhooks; each reads the request again
  when it does.
- The gas worker and the sweeps share the treasury's nonce, through the node
  only.
- A restart empties the signer pool and ends every goroutine; rows, and
  transactions on their way to the node, survive.

What is hard about it: the lock of the pool is not held while Load reads
nonces; a lost answer to SendTransaction looks like a refusal; a transaction
may arrive after its sender gave up; rows are written before and after RPCs, so
a crash falls in between; two writers update one row without a condition;
batches ordered by age can be blocked by their head; an update that records a
failure can fail itself; a row's time is that of a transaction's start, its
content that of the last commit; key files and rows are written one after the
other. `PROJECT.json` lists these hazards at their lines.

## Modules

| Module | Models |
|---|---|
| `SignerPool` | `pool.go`, `signer.go`: the pool as its callers use it |
| `SignerLease` | what the pool promises: exclusive leases, counters set once |
| `Chain` | the node, external: accounts, mempool slots, receipts, the wire |
| `Relay` | Submit, watcher, Enqueue, restart; EXTENDS `SignerPool` and `Chain` |
| `Webhook` | the delivery worker |
| `Callback` | the two writers of a request, the `updated_at` trigger and the receiver; EXTENDS `Webhook` |
| `Treasury` | gas worker and sweeps; EXTENDS `Chain` |
| `Alerts` | the gas worker's low-treasury alerts, throttle and transports |
| `Keystore` | the key files |
| `Apps` | creating apps, and the queries that find them; EXTENDS `Keystore` |
| `AppRegistry` | what creating apps promises |
| `SignerPoolProofs`, `RelayNonceSteps`, `RelayProofs`, `ChainProofs`, `TreasuryProofs`, `WebhookProofs`, `AppsProofs`, `AlertsProofs` | theorems |
| `MCSignerPool`, `MCRelay`, `MCWebhook`, `MCCallback`, `MCTreasury`, `MCApps`, `MCAlerts` | constants for TLC |

**SignerPool.** `loaded` and `idle` are `Pool.apps` and its channels, `nonce`
the atomic counters, `pc[c]` where goroutine c stands. Load is four actions:
the first critical section (`LoadBegin`), the query (`LoadList`), one turn of
the loop (`LoadSigner`, with any nonce the node may report), the second
critical section (`LoadInstall`); `LoadFail` is every early return. `Checkout`
and `CheckoutCancel` are the branches of the select, `Release` is a send that
blocks on a full channel. `PoolRestart` is a new process. The counter wraps as
`atomic.Uint64` does, at `NonceSpace`. In the code the counter belongs to a Signer
object, in the model to an address: `LoadInstall` never replaces the objects of a
loaded app, so there is one object per address; for a Load that would replace them
(a mutant) the model resets the address's counter, as the next Checkout would see it.

**Chain.** A transaction is a record and is its own hash. A sent transaction is
on the `wire` until the node takes it and accepts or refuses it; the node may
refuse anything, replaces a pending transaction of the same slot by one that
pays more, and mines in nonce order. It may evict what it has not mined, and
remembers it in `dropped`; `NoGap(a, n)` says that below n an account has no gap but
for evicted nonces. There are no reorganisations: the code
takes the first receipt as final too.

**Relay.** A caller of the pool is one POST /v1/relay. Each database call and
each RPC of Submit is one action, `at[c]` tells which is next, and the deferred
Release is the last (`Finish`). A database call can fail before or after it took
effect (`DbErr`); with a finished context it fails before. `request`,
`attempt`, `tx` and `order` are the two tables, `outbox` the payload statuses
of `webhook_deliveries`. The watcher works through `batch`, and its Enqueue is
two steps like Submit's; `Oldest` is the ORDER BY and LIMIT of its query. When a
transaction reverts, the watcher stores the reason the node gives; `Unstorable` has
the calls whose reason is no text for the database (a contract may put a NUL into
it), so that the update fails every time. `Crash` is the end of the process and its
restart; Recover only reads, so it changes nothing more.

**Webhook.** `line` has the pending rows by `next_attempt_at`, `wait` the time
until each is due. `work` holds the rows a tick selected, with the attempt count
it read. `posts`, `acks` and `since` record what the receiver sees. There is one
clock: the code sets `next_attempt_at` by the process's and compares it with the
database's, and a difference between the two would shift every gap by itself.

**Treasury.** The worker walks over the managed apps (`BeginApp`) and their
signers (`CheckRecent`, `CheckBalance`, `Refill`, then `RefillSucceeds` or
`RefillFails`) with one nonce and one price per app; a sweep reads its own. The
balance is read and the top-up sent in two steps, and the node may evict, and change
the price it suggests, at any time. Balances are abstracted to `low`. The managed apps
have amounts that are numbers; what the others do to the worker is in `Alerts`.

**Callback.** One request from the node's acceptance on. Submit's markSubmitted
and the watcher's process are two writers with the same steps: BEGIN, whose time
the trigger puts into `updated_at`; the updates and the commit; Enqueue's reading
and its insert. The rows they insert are the deliveries of `Webhook`, with their
`payload`; `seen` is what a receiver keeps that drops older `updated_at`s as
`docs/integration.md` tells it to. `overlap` and `silent` record that the two
transactions were open together, and that a fault kept an announcement from the
queue.

**Keystore, Apps.** A call c is one POST /v1/apps. Each key is a temporary file
(`GenerateTemp`) and a rename (`GenerateKey`); a file is absent, torn or whole.
Then come the steps of the transaction, each of which can fail; an error of the
commit leaves both outcomes possible. An amount is a text of which the model
keeps what Go and what the database read in it, because validateGasPolicy works
with the first and the row holds the second. The database reads more notations
than Go, and NaN, which it holds greater than every number.

**Alerts.** `age` is the throttle's map as the time since an entry was made;
`app` is the app in processApp and `turn` the transport that is being called for it,
and a call may take up to its timeout. The policies are those that `Apps` lets into the
table, and an app appears in one step because `Apps` implements `AppRegistry`. An
amount that is not a number is a nil pointer to the worker, which panics where it
uses it: at the treasury's minimum in `CheckTreasury`, at the signers' in `FinishApp`.

## Runs

Passing runs (distinct states in parentheses):

- `PoolOneApp` (53 thousand): three goroutines, one app, two signers. Exclusive
  checkout, no signer lost or doubled, Release never blocks, Rewind never wraps,
  a slow Load never resets a counter in use, the pool implements `SignerLease`,
  and a waiter for a signer is served or cancelled. Two signers and three
  goroutines give contention, and two concurrent Loads while a third goroutine
  already holds a signer.
- `RelayFaults` (1.3 million): two requests with calls of their own on one signer,
  two gas prices, one callback, faults of any two kinds. Write-ahead of attempts,
  statuses and webhook payloads true to the chain, no nonce gap but for evicted
  nonces, counters equal to what the node expects while no answer was lost, the two
  rows of an acknowledged request agree, final statuses stay once Submit is over,
  and are announced unless a crash, a database error or a cancelled request
  prevents it.
- `RelayLive` (48 thousand): the same without callbacks, a crash and an eviction. A
  nonce is acknowledged once unless an eviction lowered what the node reports;
  Submit ends; what is mined is resolved, unless the reason of its revert cannot be
  stored.
- `WebhookFaults` (417 thousand): three deliveries, the failures of one of which
  cannot be stored, a batch of two, two gaps, a fault. A bound on POSTs, no early
  end, gaps are kept, and every storable delivery is settled although the other one
  never is. With as many of the latter as a batch has places nothing else would be
  selected; the property has this exception.
- `CallbackOrder` (510 thousand): two writers, three rows, a fault of each. A receiver
  that goes by `updated_at` ends with what Get returns, in whatever order
  deliveries arrive, unless the two transactions overlapped or a fault kept an
  announcement from the queue; the final status reaches it.
- `TreasuryLive` (130 thousand): two signers, a sweep, two prices; a fault (an
  eviction is one), a move of the price or a signer that runs low again. Records and
  acknowledgements are true unless outbid or evicted, no nonce gap but for evicted
  nonces, top-ups are spaced by the window, a low signer is refilled.
- `AppsCreate` (75 thousand): two calls, faults of every kind. An app in the
  database has all its keys and shares none, answers are true, List names no
  torn file, a policy with one amount in decimals is sound, and creation
  implements `AppRegistry`.
- `AlertsLow` (353 thousand): two apps, one with a complete policy and one with any
  kind, two transports, a restart. Alerts are spaced by the interval, and a treasury
  that stays low is reported again and again though one transport always fails,
  unless the other app's amounts are not numbers.

Runs in which the code does not do what a document says; the trace TLC prints is
the scenario:

| Run | What happens |
|---|---|
| `RelayOrphan` | a lost answer: mined, but marked failed and never looked at again |
| `RelayStarved` | an attempt that was never sent keeps the watcher from a mined one |
| `WebhookAttempts` | a failure that cannot be stored is retried without end |
| `CallbackNewest` | the final status has the older `updated_at`, and the receiver drops it |

Met while modelling, visible in the same models and without a run of their own:

- The lost answer of `RelayOrphan` also rewinds a nonce the node has consumed
  (`signer.go:25` says when RewindNonce is safe).
- A failed insertAttempt leaves the request pending; `docs/integration.md:340`
  has it end as failed, a status no code sets. An identical retry reaches this
  without a fault, through the unique index on the hash.
- The attempt that starves the watcher in `RelayStarved` stays 'submitting' for
  ever; `recovery.go:12` calls such rows work the watcher will pick up.
- If the watcher resolves a request before Submit's Enqueue reads it, no webhook
  says submitted (`docs/integration.md:363`: every status change).
- The comment on BackoffSchedule (`webhook.go:18`) is off by one: the row is
  marked dead after one attempt more than there are gaps, as
  `docs/integration.md:408` says.
- markSubmitted has no condition on the status: when the watcher was faster, a
  confirmed request becomes submitted again until the next tick
  (`docs/integration.md:353` calls the state terminal). `FinalAfterReturn` says
  that this ends with Submit.
- After an eviction and a restart a counter begins below nonces that are
  acknowledged and still pending: the exception of `AcknowledgedOnce`.
- `treasury_min_balance` is not validated: with only this amount set the app is
  not managed and its treasury never looked at (`app.go:41`: all three together).
- Two amounts in a notation that only the database reads as a number pass
  validateGasPolicy as two zeros, and may have a refill below the minimum.
- `NaN` is an amount to PostgreSQL and nothing to Go: as `treasury_min_balance`, or
  as `signer_min_balance` beside a refill that Go does not read either, it passes Create, and the gas worker then panics at every
  tick (`worker.go:110` drops the result of SetString), for all apps.
- A revert reason with a NUL byte is not text to PostgreSQL: the watcher's update
  fails at every tick and the request stays submitted, unless the call that asks for
  the reason fails once (the exception of `AcceptedResolves`).
- createApp answers every error with 400, an ambiguous commit too: the app may
  exist (the exception of `AnswerIsTrue`).
- `throttle.go:9` says "already sent"; an alert whose sending failed suppresses
  its repetitions as well.

**Bounds.** `MaxFaults` counts faults (per kind in `Relay`, where `MaxKinds` says of how
many kinds they may be in one behaviour: the crossings of two are those the code has
to survive, and three or more are beyond TLC's time; the proofs have no such limit). `NonceSpace`,
`MaxNonce` and `MaxPosts` cap counters; in `Relay` and `Webhook` their values are
beyond what a run's requests or deliveries can use, in `SignerPool` `MaxNonce`
leaves out only larger values of the same counter, and the runs of `Callback`,
whose properties do not look at the POSTs counted per row, do not count them. In `Treasury` `MaxTroubles`
counts faults, moves of the price and signers that run low again together, and no
tick begins while the node can mine `MaxPending` transactions; `MaxDrains` is how often
a treasury runs low in `Alerts`. `MaxCrashes` and `MaxErrors` bound restarts and the database errors
of the writers in `Alerts` and `Callback`. `AppsCreate` has a pool of one or two
signers per app, enough for a failure between two keys, with amounts of every
kind of text on both sides of the minimum. Two requests are enough for every race between a request and its
retry, for reuse of a rewound nonce and for displacement. Gaps of the backoff
schedule keep their order, not their length, and `WebhookFaults` has two of the four:
its subject is the competition of three rows for the places of a batch. The proofs hold for any value of
these constants. Deadlock is not checked in `Relay`, where all requests may be
over and no attempt open.

**Fairness.** A goroutine that can run does; a waiter on a Go channel is served
in its turn, which is strong fairness of Checkout; tickers fire; the node
answers and mines. No client and no fault is assumed to act. In `Treasury` the
node does not refuse for ever a top-up it could accept and an app is not skipped
for ever: without that no top-up is owed. In `Alerts` one transport is assumed
not to fail for ever, nor the balance query when an alert is due: without that no
alert can arrive.

## Proofs

All for arbitrary constants that satisfy the named assumptions
(`PoolAssumption`, `AddressIsKey`, `ChainAssumption`, `RelayAssumption`,
`TreasuryAssumption`, `WebhookAssumption`, `CallbackAssumption`,
`AppsAssumption`, `AlertsAssumption`), which TLC evaluates in every run that uses
them. `AddressIsKey` is the primary key of table `signers`; `TreasuryAssumption`
tells sweeps from top-ups and gives each app its own treasury; the rest are
types. `USE Zenon` at the head of a module makes Zenon
its default prover; a leaf that needs arithmetic names SMT, with Z3 as a second attempt.

`SignerPoolProofs`. The properties are not inductive one by one: that a rewind
stays in range needs the one holder that reserved the nonce, and that a signer has
one holder needs to know what is in the channel. `PoolInv` is their conjunction
with the type invariant and three facts: a goroutine holds a signer exactly between
Checkout and Release, and one of its own app (`HoldsOwn`); a channel has signers of
its own app, none before the app is loaded (`IdleOwn`); and nobody is past Load
while the app is not loaded (`LoadedBeforeCheckout`). From it: `PoolTypeCorrect`,
`PoolExclusive`, `PoolConserved`, `PoolRewindNeverWraps`, `PoolReleaseNeverBlocks`
(a pigeonhole argument: the channel is an injection into the app's other signers),
`PoolOnlyHolderMovesNonce` and `PoolImplementsLease` (each step maps to a lease
step or a stutter; the leaseholder of an address is its one holder).

`RelayProofs`. `RelayUsesPool`: each step of Relay is a step of the pool or
leaves it alone, crashes and errors included, so the pool's theorems hold in Relay (`RelayExclusive`).
`RelayInv` adds what a step needs to know: the node's bookkeeping (`ChainInv`: one
receipt per transaction, receipts below and mempool at or above the account's
nonce), what each position of Submit says of its signer (`PoolPosition`) and of
its rows (`RowPosition`), that each transaction at the node belongs to a Submit
past insertAttempt (`Recorded`), that an acknowledged request is past
markSubmitted with rows that agree (`Tracked`), and that a final status has its
receipt (`FinalIsTrue`). From it: `RelayWriteAhead`, `RelayAcceptedIsTracked`,
`RelayFinalAfterReturn`.

The nonces, in `RelayNonceSteps` (the steps) and `RelayProofs` (the theorems).
`Filled[a]` has the n such that every nonce of account a below n is mined, pending or
one whose transaction was evicted (`NoGap`), and `Gone[a]` those above an evicted one;
what is filled and not gone has no gap at all (`FilledOrGone`). No step of the node or
of Relay takes a number out of either (`Keeps`), which is what makes the argument go
through. `NonceInv` says what is filled: the nonce of every signed transaction,
and its successor once the node has accepted it (`TxFilled`); the counter of every
loaded signer, or the nonce its holder has reserved (`CounterFilled`,
`CounterAhead`); what a Load has read so far (`DraftsFilled`). It also keeps
counters and drafts beyond what was acknowledged or marked submitted
(`CounterBeyond`) and slots acknowledged once (`SlotsOnce`). Drafts are needed
because a Load may install nonces it read long before; `LoadInstall` discards
them when the app has been loaded meanwhile, so only drafts of an app that is not
loaded must be beyond what was acknowledged. From it, with
any faults: `RelayAcknowledgedOnce` and `RelayHasNoNonceGap`.
`Steady` is what the steps use of `PoolInv` and `RelayInv`.

The other theorems of `RelayProofs` add to these invariants:

- `RelayTypes`. `ShapeInv` is the part of `RelayTypeOK` that `RelayInv` lacks, with
  two facts that make it inductive: Submit marks an attempt only where there is
  one, and the watcher is past its scan only with an attempt in its hands. The
  watcher's query returns attempts because every rank up to the size of a finite
  set of places is taken (`RankExists`, `OldestAreAttempts`).
- `RelayStatusIsTrue`. A webhook tells
  what was read earlier, so the invariant is about what stays true of a status
  after it was read (`Told`): a receipt stays, a rejected request stays rejected, an
  accepted one never leaves the accepted statuses. It covers the rows of
  the outbox and both readings that are still to be written (`BoxTold`, `SnapTold`,
  `WatchTold`). `AcceptedKept` follows an accepted transaction: it is pending, mined,
  evicted, or outbid by another Submit's in its slot; by `SlotsOnce` that other one was
  never secured unless a transaction at this nonce or below was evicted, which is
  what `Displaced` says.
- `RelayNonceInSync`. The counters never run ahead by `NonceInv`; that they do not
  fall behind either needs that no answer goes astray. `InSync` says so of all places a nonce can
  be: on the wire is only what a Submit still waits for (`WireAwaited`), a counter is
  the node's next nonce unless a transaction is in flight (`CounterInSync`), which has
  that nonce until it is accepted (`FlightInSync`), and so is what a Load has read,
  until somebody else installs the app (`DraftInSync`). It holds until the first
  crash, lost answer, cancelled request or eviction (`Undisturbed`); refusals and
  database errors do not disturb it.
- `RelayFinalIsAnnounced`. `AnnounceInv` says it of the time when no process, client or
  connection was lost (`Unlost`), when no context is done either. Whoever makes a
  status final stands before its own Enqueue then (`NewlyFinal`), and a status that is
  announced, or on its way into a payload, stays so for as long as it is the status
  (`AnnouncedStays`): Enqueue reads it before it inserts, and deliveries are not removed.

`ChainProofs` has the facts about a node's nonces that both of the above and
`TreasuryProofs` use: the pending nonce is the first free one
(`PendingNonceIsFirstFree`, from the finiteness of the mempool), accepting and
mining keep everything below a number taken (`TakesGrows`, `MineGrows`), mining
and other accounts' transactions leave the pending nonce where it is
(`PendingAfterMine`, `PendingOfOthers`), and accepting the expected transaction
moves it on by one (`PendingAfterAccept`). `NoGap` survives every step, an eviction
too (`NoGapStays`, `NoGapAfterEvict`), and holds of what PendingNonceAt returns
(`NoGapAfterPending`).

`TreasuryProofs`. `TreasuryHasNoGap`: below the nonces the worker and the sweeps hold
there is no gap but for evicted nonces, because they begin at the first free one and
the worker counts up only after an acceptance. `TreasurySentOrOutbid`: what is recorded or acknowledged was accepted,
and an accepted transaction leaves its slot only to a receipt or to one that pays
more. `TreasuryTypes`: the worker has an app, and signers left of it, exactly inside
processApp. `TreasuryTopupsSpaced`: `extra` counts the top-ups made within the window
of an earlier one. The worker makes one only when it does not know of the earlier,
which is then either on the wire with nobody waiting for it (`Lost`) or accepted
without a row (`Unknown`). A fault makes one such top-up, and it can be followed by
one early top-up at most; so the early ones and the two sets never add up to more
than the faults that have struck (`Paid`).

`WebhookProofs`, the queue. `WebhookInv` has the type invariant (the line has every
pending row once, sorted by the time it is due), what the worker has selected
(`WorkOK`: pending rows, each once, with their current attempt counts, because
nobody else changes them between the query and the update), how attempts and POSTs are related (`AttemptsOK`, `CountsOK`: a POST is
recorded as an attempt or a fault was spent on it) and that a row waits as long as
its schedule says (`GapsOK`). It rests on lemmas about the two operations on the
line, taking a row out and putting one in at its place. From it:
`LineIsThePendingRows`, `PostsAreBounded`, `GapsAreKept`, and `NoneGivenUpEarly`, whose
hypothesis says only that the history counter `posts` can count as far as the
schedule is long.

`WebhookProofs`, the receiver. `CallbackUsesQueue`: writers and receiver take steps
of the queue or leave it alone, so the queue's theorems hold of the callbacks.
`CallbackInv` adds that without overlapping transactions dates rise with every commit
and tell payloads apart (`DatesOK`), that without a silenced announcement the row as it
stands is announced, about to be read or about to be written (`Announced`), and that
the receiver's date is at least that of every payload it has answered. When all is
settled the row's payload was answered, and nothing newer exists:
`ReceiverEndsWithTheRow`.

`AppsProofs`. The invariant ties where Create stands to the files it has written
(its keys are whole, the current one has no file yet), to the rows (none before
the commit) and to the faults that were spent (one per app whose creation was
answered 400). From it: type correctness, `AppsListedIsLoadable`,
`AppsRowsHaveKeys`, `AppsDecimalPolicies`, `AppsAnswerIsTrue`, and
`AppsImplementRegistry` (a rename stores a key, the commit registers an app, the
answer acknowledges it; all other steps stutter).

`AlertsProofs`. `AlertsAreSpaced` needs how far the throttle's entry and what a
transport has heard can be apart: at most the time of the calls before and in its
turn.

Every invariant that a run checks is proved, and every action property and
refinement. Only model-checked: liveness under fairness, which the prover does not
do, and the four runs that end in a violation.

## Not modelled

- Parsing and validation of HTTP bodies, authentication and the read-only
  handlers: stateless. The queries behind them are operators of `Apps`.
- The amounts and prices themselves, gas estimates and receipts' details: data no
  property tells apart.
- Deadlines: they are looked at once, before the wait for a signer, and no
  document says that they hold at sending time.
- A power failure: `Keystore` loses nothing that WriteFile and Rename returned
  from, but the code does not sync files or directories.
- Cryptography, configuration, migrations as a process, command-line tools.
- What becomes of a signer after an eviction: the documentation leaves the gap to the
  operator. `NoNonceGap`, `NoTreasuryGap` and `AcknowledgedOnce` say that there is no other.
- A top-up whose amount is not a number: `Treasury` has numbers only.

## Plan

1. An abstract specification of a relay request (pending, then rejected or
   submitted, then a final status) that `Relay` implements once Submit is over.
2. A file system with power failures under `Keystore`.
