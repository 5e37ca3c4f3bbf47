------------------------------ MODULE Treasury ------------------------------
(***************************************************************************)
(* The two users of an app's treasury account: the gas worker, which tops  *)
(* up the app's signers (internal/gas/worker.go), and the sweeps that the  *)
(* operator asks for over HTTP (internal/treasury/sweep.go).  Each of them *)
(* reads the account's pending nonce from the node before it signs; there  *)
(* is no lock between them.                                                *)
(*                                                                         *)
(* Of a balance only one fact is kept: whether a signer's is below the     *)
(* app's minimum.  A treasury that cannot pay shows as a node that refuses *)
(* the transaction.                                                        *)
(***************************************************************************)
EXTENDS Chain, Sequences

CONSTANTS
    Apps,          \* the apps of the database
    Managed,       \* the apps with a minimum balance and a refill amount
    TreasuryOf,    \* TreasuryOf[p]: the treasury account of app p
    ListSigners,   \* ListSigners[p]: the signers of app p, in order
    Sweeps,        \* the POSTs that ask for a sweep
    SweptApp,      \* SweptApp[k]: the app whose treasury k sweeps
    NoApp,         \* "no app"
    NoTx,          \* "no transaction"
    FirstPrice,    \* the gas price at the start
    TopupWindow,   \* recentTopupWindow
    MaxTroubles,   \* bound: faults, moves of the gas price, and signers that run low again
    MaxPending     \* bound: no tick starts while the node can mine that many transactions

Signers == UNION {{ListSigners[p][i] : i \in 1..Len(ListSigners[p])} : p \in Apps}

ASSUME TreasuryAssumption ==
    /\ Managed \subseteq Apps
    /\ NoApp \notin Apps
    /\ TreasuryOf \in [Apps -> Accounts]
    /\ \A p, q \in Apps : TreasuryOf[p] = TreasuryOf[q] => p = q
    /\ ListSigners \in [Apps -> Seq(Bodies)]
    /\ SweptApp \in [Sweeps -> Apps]
    /\ Sweeps \subseteq Bodies /\ Sweeps \intersect Signers = {}
    /\ NoTx \notin Tx
    /\ FirstPrice \in Prices
    /\ TopupWindow \in Nat \ {0} /\ MaxTroubles \in Nat /\ MaxPending \in Nat

VARIABLES
    price,    \* SuggestGasPrice: what the node suggests to pay
    low,      \* the signers whose balance is below the minimum
    rows,     \* gas_attempts: the transactions recorded as submitted
    recent,   \* recent[s]: for how long the newest row of s still counts as recent
    \* the gas worker
    gpos,     \* where it stands
    apps,     \* the apps of this tick it has not begun with
    app,      \* the app it works on
    todo,     \* the signers of app it has not dealt with
    gnonce,   \* processApp's local variables nonce ...
    gprice,   \* ... and gasPrice
    greply,   \* the node's answer to its SendTransaction
    \* the sweeps
    spos,     \* spos[k]: where Sweep stands
    stx,      \* stx[k]: the transaction it has signed
    sreply,   \* sreply[k]: the node's answer to its SendTransaction
    \* bounds and history
    budget,   \* the troubles that may still come
    faults,   \* the faults that have struck
    last,     \* last[s]: time since the node accepted a top-up of s, up to TopupWindow
    extra     \* how many more top-ups it accepted before that time was over

workerVars  == <<gpos, apps, app, todo, gnonce, gprice, greply>>
sweepVars   == <<spos, stx, sreply>>
troubleVars == <<budget, faults>>
historyVars == <<last, extra>>
vars == <<chainVars, price, low, rows, recent, workerVars, sweepVars, troubleVars, historyVars>>

Init ==
    /\ ChainInit
    /\ price = FirstPrice
    /\ low = Signers  \* a new signer is empty
    /\ rows = {}
    /\ recent = [s \in Signers |-> 0]
    /\ gpos = "idle" /\ apps = {} /\ app = NoApp /\ todo = << >>
    /\ gnonce = 0 /\ gprice = 0 /\ greply = "none"
    /\ spos = [k \in Sweeps |-> "start"]
    /\ stx = [k \in Sweeps |-> NoTx]
    /\ sreply = [k \in Sweeps |-> "none"]
    /\ budget = MaxTroubles /\ faults = 0
    /\ last = [s \in Signers |-> TopupWindow] /\ extra = 0

\* The transactions the node can mine, one after the other.
Mineable == {t \in mempool : t.nonce < PendingNonceAt(t.from)}

\* Trouble comes; a fault is trouble.
Trouble == budget > 0 /\ budget' = budget - 1

Strike == Trouble /\ faults' = faults + 1

-----------------------------------------------------------------------------
(* The gas worker *)

\* Mutant: the query has no WHERE.
TickUnfiltered ==
    /\ gpos = "idle" /\ Cardinality(Mineable) < MaxPending
    /\ gpos' = "app" /\ apps' = Apps
    /\ UNCHANGED <<chainVars, price, low, rows, recent, app, todo, gnonce, gprice, greply, sweepVars, troubleVars, historyVars>>

\* tick: the apps that have a policy.
Tick ==
    /\ gpos = "idle" /\ Cardinality(Mineable) < MaxPending
    /\ gpos' = "app" /\ apps' = Managed
    /\ UNCHANGED <<chainVars, price, low, rows, recent, app, todo, gnonce, gprice, greply, sweepVars, troubleVars, historyVars>>

\* processApp up to its loop: the signers of one app, its treasury's pending
\* nonce, and one gas price for all of its top-ups.  The app is skipped when a
\* query, the key or an RPC fails.
BeginApp(p) ==
    /\ gpos = "app" /\ p \in apps
    /\ apps' = apps \ {p}
    /\ \/ /\ gpos' = "loop" /\ app' = p /\ todo' = ListSigners[p]
          /\ gnonce' = PendingNonceAt(TreasuryOf[p]) /\ gprice' = price
       \/ UNCHANGED <<gpos, app, todo, gnonce, gprice>>
    /\ UNCHANGED <<chainVars, price, low, rows, recent, greply, sweepVars, troubleVars, historyVars>>

\* The ends of processApp's and of tick's loop.
EndApp ==
    /\ gpos = "loop" /\ todo = << >>
    /\ gpos' = "app" /\ app' = NoApp /\ gnonce' = 0 /\ gprice' = 0
    /\ UNCHANGED <<chainVars, price, low, rows, recent, apps, todo, greply, sweepVars, troubleVars, historyVars>>

EndTick ==
    /\ gpos = "app" /\ apps = {}
    /\ gpos' = "idle"
    /\ UNCHANGED <<chainVars, price, low, rows, recent, apps, app, todo, gnonce, gprice, greply, sweepVars, troubleVars, historyVars>>

\* Mutant: earlier top-ups are not looked at.
CheckRecentNever ==
    /\ gpos = "loop" /\ todo # << >>
    /\ gpos' = "balance"
    /\ UNCHANGED <<chainVars, price, low, rows, recent, apps, app, todo, gnonce, gprice, greply, sweepVars, troubleVars, historyVars>>

\* Mutant: a row counts as recent for ever.
CheckRecentEver ==
    /\ gpos = "loop" /\ todo # << >>
    /\ \/ (\A t \in rows : t.body # Head(todo)) /\ gpos' = "balance" /\ UNCHANGED todo
       \/ (\E t \in rows : t.body = Head(todo)) /\ todo' = Tail(todo) /\ UNCHANGED gpos
    /\ UNCHANGED <<chainVars, price, low, rows, recent, apps, app, gnonce, gprice, greply, sweepVars, troubleVars, historyVars>>

\* hasRecentTopup: a signer with a recent row is passed over, and so is one for
\* which the query fails.
CheckRecent ==
    /\ gpos = "loop" /\ todo # << >>
    /\ \/ recent[Head(todo)] = 0 /\ gpos' = "balance" /\ UNCHANGED <<todo, troubleVars>>
       \/ recent[Head(todo)] > 0 /\ todo' = Tail(todo) /\ UNCHANGED <<gpos, troubleVars>>
       \/ Strike /\ todo' = Tail(todo) /\ UNCHANGED gpos
    /\ UNCHANGED <<chainVars, price, low, rows, recent, apps, app, gnonce, gprice, greply, sweepVars, historyVars>>

Topup == [from |-> TreasuryOf[app], nonce |-> gnonce, body |-> Head(todo), price |-> gprice]

\* BalanceAt: a signer that has enough, or whose balance cannot be read, is
\* passed over.
CheckBalance ==
    /\ gpos = "balance"
    /\ \/ Head(todo) \in low /\ gpos' = "send" /\ UNCHANGED <<todo, troubleVars>>
       \/ /\ (Head(todo) \notin low /\ UNCHANGED troubleVars) \/ Strike
          /\ gpos' = "loop" /\ todo' = Tail(todo)
    /\ UNCHANGED <<chainVars, price, low, rows, recent, apps, app, gnonce, gprice, greply, sweepVars, historyVars>>

\* refill signs a top-up and sends it, whatever the balance is by now.
Refill ==
    /\ gpos = "send"
    /\ gpos' = "await" /\ wire' = wire \union {Topup}
    /\ UNCHANGED <<accountNonce, mempool, receipts, dropped, price, low, rows, recent, apps, app, todo, gnonce, gprice, greply, sweepVars, troubleVars, historyVars>>

\* Mutant: a refused top-up is recorded as submitted.
RefillFailsRecorded ==
    /\ gpos = "await" /\ greply = "err"
    /\ rows' = rows \union {Topup}
    /\ gpos' = "loop" /\ todo' = Tail(todo) /\ greply' = "none"
    /\ UNCHANGED <<chainVars, price, low, recent, apps, app, gnonce, gprice, sweepVars, troubleVars, historyVars>>

\* Mutant: the nonce is counted up whether or not the top-up was sent.
RefillFailsCounted ==
    /\ gpos = "await" /\ greply = "err"
    /\ gpos' = "loop" /\ todo' = Tail(todo) /\ gnonce' = gnonce + 1 /\ greply' = "none"
    /\ UNCHANGED <<chainVars, price, low, rows, recent, apps, app, gprice, sweepVars, troubleVars, historyVars>>

\* refill fails: the node refused the top-up, or its answer was lost.  The
\* next signer's top-up gets the same nonce.
RefillFails ==
    /\ gpos = "await"
    /\ (greply = "err" /\ UNCHANGED troubleVars) \/ Strike
    /\ gpos' = "loop" /\ todo' = Tail(todo) /\ greply' = "none"
    /\ UNCHANGED <<chainVars, price, low, rows, recent, apps, app, gnonce, gprice, sweepVars, historyVars>>

\* refill succeeds: the row is inserted, and a failure to do so only logged.
\* The next top-up gets the next nonce.
RefillSucceeds ==
    /\ gpos = "await" /\ greply = "ok"
    /\ \/ rows' = rows \union {Topup} /\ recent' = [recent EXCEPT ![Head(todo)] = TopupWindow] /\ UNCHANGED troubleVars
       \/ Strike /\ UNCHANGED <<rows, recent>>
    /\ gpos' = "loop" /\ todo' = Tail(todo) /\ gnonce' = gnonce + 1 /\ greply' = "none"
    /\ UNCHANGED <<chainVars, price, low, apps, app, gprice, sweepVars, historyVars>>

-----------------------------------------------------------------------------
(* Sweep *)

\* The treasury's nonce, a gas price and, for a sweep of everything, the
\* balance are read, and the transaction signed.
SweepSign(k) ==
    LET a == TreasuryOf[SweptApp[k]] IN
    /\ spos[k] = "start"
    /\ spos' = [spos EXCEPT ![k] = "send"]
    /\ stx' = [stx EXCEPT ![k] = [from |-> a, nonce |-> PendingNonceAt(a), body |-> k, price |-> price]]
    /\ UNCHANGED <<chainVars, price, low, rows, recent, workerVars, sreply, troubleVars, historyVars>>

SweepSend(k) ==
    /\ spos[k] = "send"
    /\ spos' = [spos EXCEPT ![k] = "await"]
    /\ wire' = wire \union {stx[k]}
    /\ UNCHANGED <<accountNonce, mempool, receipts, dropped, price, low, rows, recent, workerVars, stx, sreply, troubleVars, historyVars>>

\* Answered 202, or 502 when the node refused or did not answer, or when one
\* of the reads before it failed.
SweepReturns(k) ==
    /\ \/ /\ spos[k] = "await" /\ sreply[k] = "ok"
          /\ spos' = [spos EXCEPT ![k] = "202"] /\ UNCHANGED <<stx, troubleVars>>
       \/ /\ \/ (spos[k] = "start" \/ (spos[k] = "await" /\ sreply[k] = "err")) /\ UNCHANGED troubleVars
             \/ spos[k] = "await" /\ Strike
          /\ spos' = [spos EXCEPT ![k] = "502"] /\ stx' = [stx EXCEPT ![k] = NoTx]
    /\ sreply' = [sreply EXCEPT ![k] = "none"]
    /\ UNCHANGED <<chainVars, price, low, rows, recent, workerVars, historyVars>>

-----------------------------------------------------------------------------
(* The environment *)

\* The node takes a transaction from the wire, and its sender, if it still
\* waits, gets the answer.
NodeReceive(t, accepts) ==
    LET verdict == IF accepts THEN "ok" ELSE "err"
        again == \E u \in mempool : SameSlot(t, u) /\ u.body = t.body
        topsUp == accepts /\ t.body \in Signers /\ ~ again
    IN
    /\ NodeTakes(t, accepts)
    /\ greply' = IF gpos = "await" /\ t = Topup THEN verdict ELSE greply
    /\ sreply' = [k \in Sweeps |-> IF spos[k] = "await" /\ t = stx[k] THEN verdict ELSE sreply[k]]
    /\ last' = [s \in Signers |-> IF topsUp /\ s = t.body /\ last[s] = TopupWindow THEN 0 ELSE last[s]]
    /\ extra' = IF topsUp /\ last[t.body] < TopupWindow THEN extra + 1 ELSE extra
    /\ UNCHANGED <<price, low, rows, recent, gpos, apps, app, todo, gnonce, gprice, spos, stx, troubleVars>>

\* A plain transfer does not revert; a top-up lifts its signer's balance.
NodeMines(t) ==
    /\ Mine(t, TRUE)
    /\ low' = low \ {t.body}
    /\ UNCHANGED <<price, rows, recent, workerVars, sweepVars, troubleVars, historyVars>>

NodeEvicts(t) ==
    /\ Strike
    /\ Evict(t)
    /\ UNCHANGED <<price, low, rows, recent, workerVars, sweepVars, historyVars>>

\* A signer spends its gas.
Drain(s) ==
    /\ s \notin low /\ Trouble
    /\ low' = low \union {s}
    /\ UNCHANGED <<chainVars, price, rows, recent, workerVars, sweepVars, faults, historyVars>>

PriceMoves ==
    /\ Trouble
    /\ price' \in Prices \ {price}
    /\ UNCHANGED <<chainVars, low, rows, recent, workerVars, sweepVars, faults, historyVars>>

Tock ==
    /\ recent' = [s \in Signers |-> IF recent[s] > 0 THEN recent[s] - 1 ELSE 0]
    /\ last' = [s \in Signers |-> IF last[s] < TopupWindow THEN last[s] + 1 ELSE last[s]]
    /\ UNCHANGED <<chainVars, price, low, rows, workerVars, sweepVars, troubleVars, extra>>

Crash ==
    /\ Strike
    /\ gpos' = "idle" /\ apps' = {} /\ app' = NoApp /\ todo' = << >>
    /\ gnonce' = 0 /\ gprice' = 0 /\ greply' = "none"
    /\ spos' = [k \in Sweeps |-> IF spos[k] \in {"send", "await"} THEN "dead" ELSE spos[k]]
    /\ stx' = [k \in Sweeps |-> IF spos[k] \in {"send", "await"} THEN NoTx ELSE stx[k]]
    /\ sreply' = [k \in Sweeps |-> "none"]
    /\ UNCHANGED <<chainVars, price, low, rows, recent, historyVars>>

-----------------------------------------------------------------------------

Worker == \/ Tick \/ EndApp \/ EndTick \/ CheckRecent \/ CheckBalance \/ Refill \/ RefillFails \/ RefillSucceeds
          \/ \E p \in apps : BeginApp(p)

Sweep(k) == SweepSign(k) \/ SweepSend(k) \/ SweepReturns(k)

Next ==
    \/ Worker
    \/ \E k \in Sweeps : Sweep(k)
    \/ \E t \in wire, accepts \in BOOLEAN : NodeReceive(t, accepts)
    \/ \E t \in mempool : NodeMines(t) \/ NodeEvicts(t)
    \/ \E s \in Signers : Drain(s)
    \/ PriceMoves
    \/ Tock
    \/ Crash

Spec == Init /\ [][Next]_vars

\* The worker's ticker fires and time passes; an app is not skipped for ever;
\* the node answers, mines, and does not refuse for ever what it could accept.
FairSpec ==
    /\ Spec
    /\ WF_vars(Worker) /\ WF_vars(Tock)
    /\ \A p \in Apps : SF_vars(BeginApp(p) /\ app' = p)
    /\ \A k \in Sweeps : WF_vars(Sweep(k) /\ spos[k] # "start")
    /\ WF_vars(\E t \in wire, accepts \in BOOLEAN : NodeReceive(t, accepts))
    /\ \A s \in Signers : SF_vars(\E t \in wire : t.body = s /\ NodeReceive(t, TRUE))
    /\ WF_vars(\E t \in mempool : NodeMines(t))

-----------------------------------------------------------------------------
(* Properties *)

\* The variables hold values of the expected shape; the worker has an app
\* exactly when it is inside processApp.
TypeOK ==
    /\ price \in Prices
    /\ low \subseteq Signers
    /\ rows \subseteq Tx
    /\ recent \in [Signers -> 0..TopupWindow]
    /\ gpos \in {"idle", "app", "loop", "balance", "send", "await"}
    /\ apps \subseteq Managed /\ app \in Managed \union {NoApp}
    /\ app # NoApp <=> gpos \in {"loop", "balance", "send", "await"}
    /\ gpos \in {"balance", "send", "await"} => todo # << >>
    /\ spos \in [Sweeps -> {"start", "send", "await", "202", "502", "dead"}]
    /\ stx \in [Sweeps -> Tx \union {NoTx}]
    /\ last \in [Signers -> 0..TopupWindow]

\* The node has, or had, a transaction of the same sender and nonce that pays
\* more.
Displaced(t) ==
    \E u \in mempool \union dropped \union {r.tx : r \in receipts} : SameSlot(t, u) /\ t.price < u.price

\* A top-up recorded as submitted, and a sweep answered 202, is in the mempool
\* or mined unless the node has evicted it or another user of the treasury's
\* nonce has outbid it.
SentOrOutbid ==
    \A t \in rows \union {stx[k] : k \in {j \in Sweeps : spos[j] = "202"}} :
        t \in mempool \union dropped \/ Mined(t) \/ Displaced(t)

\* The worker, which counts its nonces up from one it has read, and the sweeps,
\* which read their own, leave no gap in the treasury's nonces, whatever is
\* refused, lost or repeated: everything in the mempool can be mined but for what
\* the node has evicted.
NoTreasuryGap == \A t \in mempool : NoGap(t.from, t.nonce)

\* A signer gets a second top-up within recentTopupWindow only as often as a
\* fault hid the first one from the worker.
TopupsSpaced == extra <= faults

\* A signer that runs low is topped up, even if a sweep takes the nonce of the
\* worker's first top-up after it has been recorded.
LowIsRefilled == \A p \in Managed : \A i \in 1..Len(ListSigners[p]) :
    ListSigners[p][i] \in low ~> ListSigners[p][i] \notin low

=============================================================================
