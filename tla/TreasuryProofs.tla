--------------------------- MODULE TreasuryProofs ---------------------------
(***************************************************************************)
(* The nonces of a treasury have no gap, and what its users take for sent  *)
(* was accepted, for any number of apps, signers and sweeps and any        *)
(* faults.                                                                 *)
(***************************************************************************)
EXTENDS Treasury, ChainProofs

USE Zenon

-----------------------------------------------------------------------------
(* The inductive invariant *)

Inside == gpos \in {"loop", "balance", "send", "await"}

SweepPositions == {"start", "send", "await", "202", "502", "dead"}

\* No transaction that is pending, on its way or signed, and no nonce the worker
\* holds, is above a gap.  The worker has the next nonce only after the node has
\* accepted the one before it.
GapInv ==
    /\ ChainOK
    /\ \A t \in wire : Numbered(t)
    /\ \A t \in mempool \union wire : NoGap(t.from, t.nonce)
    /\ apps \subseteq Apps /\ gnonce \in Nat /\ gprice \in Nat /\ price \in Prices
    /\ Inside => app \in Apps /\ NoGap(TreasuryOf[app], gnonce)
    /\ greply = "ok" => gpos = "await" /\ NoGap(TreasuryOf[app], gnonce + 1)
    /\ spos \in [Sweeps -> SweepPositions] /\ DOMAIN stx = Sweeps
    /\ \A k \in Sweeps : spos[k] = "send" => Numbered(stx[k]) /\ NoGap(stx[k].from, stx[k].nonce)

\* GapInv says what NoTreasuryGap says.
LEMMA GapInvMeansNoGap == GapInv => NoTreasuryGap
BY DEF GapInv, NoTreasuryGap

\* The initial states have no transactions at all.
LEMMA GapInvInit == Init => GapInv
<1> SUFFICES ASSUME Init PROVE GapInv
    OBVIOUS
<1>1. ChainOK /\ mempool = {} /\ wire = {}
    BY FS_EmptySet DEF Init, ChainInit, ChainOK
<1>2. apps = {} /\ gnonce = 0 /\ gprice = 0 /\ gpos = "idle" /\ greply = "none" /\ price \in Prices
    BY TreasuryAssumption DEF Init
<1>3. spos = [k \in Sweeps |-> "start"] /\ stx = [k \in Sweeps |-> NoTx]
    BY DEF Init
<1>4. spos \in [Sweeps -> SweepPositions] /\ DOMAIN stx = Sweeps /\ \A k \in Sweeps : spos[k] # "send"
    BY <1>3 DEF SweepPositions
<1> QED  BY <1>1, <1>2, <1>4 DEF GapInv, Inside

\* The worker takes the first free nonce, and the next one after an ok.
LEMMA GapInvWorker ==
    ASSUME GapInv, Worker
    PROVE  GapInv'
<1> USE TreasuryAssumption
<1>0. ASSUME UNCHANGED <<accountNonce, mempool, dropped>>
      PROVE  /\ ChainOK'
             /\ \A a, n : NoGap(a, n) => NoGap(a, n)'
    BY <1>0, BelowUnchanged, NoGapUnchanged DEF GapInv
<1>1. CASE Tick
    BY <1>0, <1>1 DEF Tick, GapInv, Inside, chainVars, sweepVars
<1>2. CASE EndApp
    BY <1>0, <1>2 DEF EndApp, GapInv, Inside, chainVars, sweepVars
<1>3. CASE EndTick
    BY <1>0, <1>3 DEF EndTick, GapInv, Inside, chainVars, sweepVars
<1>4. CASE CheckRecent
    BY <1>0, <1>4 DEF CheckRecent, GapInv, Inside, chainVars, sweepVars
<1>5. CASE CheckBalance
    BY <1>0, <1>5 DEF CheckBalance, GapInv, Inside, chainVars, sweepVars
<1>6. CASE Refill
    <2>1. wire' = wire \union {Topup}
        BY <1>6 DEF Refill
    <2>2. /\ gpos = "send" /\ gpos' = "await" /\ greply # "ok"
          /\ UNCHANGED <<accountNonce, mempool, dropped, price, apps, app, gnonce, gprice, greply, spos, stx>>
        BY <1>6 DEF Refill, GapInv, sweepVars
    <2>3. Numbered(Topup) /\ NoGap(Topup.from, Topup.nonce)
        BY <2>2 DEF GapInv, Inside, Numbered, Topup
    <2> QED  BY <1>0, <2>1, <2>2, <2>3 DEF GapInv, Inside, Numbered
<1>7. CASE RefillFails
    BY <1>0, <1>7 DEF RefillFails, GapInv, Inside, chainVars, sweepVars
<1>8. CASE RefillSucceeds
    BY <1>0, <1>8, SMT, Z3 DEF RefillSucceeds, GapInv, Inside, chainVars, sweepVars
<1>9. ASSUME NEW p \in apps, BeginApp(p) PROVE GapInv'
    <2>1. /\ UNCHANGED <<accountNonce, mempool, wire, dropped, price, greply, spos, stx>> /\ apps' \subseteq Apps
          /\ p \in Apps /\ TreasuryOf[p] \in Accounts /\ gpos = "app"
        BY <1>9 DEF BeginApp, chainVars, sweepVars, GapInv
    <2>2. \/ UNCHANGED <<gpos, app, gnonce, gprice>>
          \/ gpos' = "loop" /\ app' = p /\ gnonce' = PendingNonceAt(TreasuryOf[p]) /\ gprice' \in Nat
        BY <1>9, ChainAssumption, Zenon DEF BeginApp, GapInv
    <2>3. PendingNonceAt(TreasuryOf[p]) \in Nat /\ NoGap(TreasuryOf[p], PendingNonceAt(TreasuryOf[p]))
        BY <2>1, PendingNonceIsFirstFree, BelowHasNoGap DEF GapInv
    <2> QED  BY <1>0, <2>1, <2>2, <2>3 DEF GapInv, Inside, Numbered
<1> QED  BY <1>1, <1>2, <1>3, <1>4, <1>5, <1>6, <1>7, <1>8, <1>9 DEF Worker

\* A sweep signs for the first free nonce and sends what it has signed.
LEMMA GapInvSweep ==
    ASSUME GapInv, NEW k \in Sweeps, Sweep(k)
    PROVE  GapInv'
<1> USE TreasuryAssumption
<1>0. ASSUME UNCHANGED <<accountNonce, mempool, dropped>>
      PROVE  /\ ChainOK'
             /\ \A a, n : NoGap(a, n) => NoGap(a, n)'
    BY <1>0, BelowUnchanged, NoGapUnchanged DEF GapInv
<1>1. CASE SweepSign(k)
    <2> DEFINE a == TreasuryOf[SweptApp[k]]
    <2>1. a \in Accounts
        OBVIOUS
    <2>2. PendingNonceAt(a) \in Nat /\ NoGap(a, PendingNonceAt(a)) /\ price \in Nat
        BY <2>1, PendingNonceIsFirstFree, BelowHasNoGap, ChainAssumption DEF GapInv
    <2>3. /\ UNCHANGED <<accountNonce, mempool, wire, dropped, price, apps, gnonce, gprice, gpos, app, greply>>
          /\ spos' = [spos EXCEPT ![k] = "send"]
        BY <1>1 DEF SweepSign, chainVars, workerVars
    <2>4. stx' = [stx EXCEPT ![k] = [from |-> a, nonce |-> PendingNonceAt(a), body |-> k, price |-> price]]
        BY <1>1, Zenon DEF SweepSign
    <2>5. /\ DOMAIN stx' = Sweeps
          /\ stx'[k].from = a /\ stx'[k].nonce = PendingNonceAt(a) /\ stx'[k].price \in Nat
        BY <2>2, <2>4 DEF GapInv
    <2>6. \A j \in Sweeps \ {k} : stx'[j] = stx[j]
        BY <2>4 DEF GapInv
    <2>7. spos' \in [Sweeps -> SweepPositions] /\ \A j \in Sweeps \ {k} : spos'[j] = spos[j]
        BY <2>3 DEF GapInv, SweepPositions
    <2>8. \A j \in Sweeps : spos'[j] = "send" => Numbered(stx[j])' /\ NoGap(stx'[j].from, stx'[j].nonce)
        <3>1. Numbered(stx[k])' /\ NoGap(stx'[k].from, stx'[k].nonce)
            BY <2>1, <2>2, <2>5 DEF Numbered
        <3>2. ASSUME NEW j \in Sweeps \ {k}, spos'[j] = "send" PROVE Numbered(stx[j])' /\ NoGap(stx'[j].from, stx'[j].nonce)
            BY <2>6, <2>7, <3>2 DEF GapInv, Numbered
        <3> QED  BY <3>1, <3>2
    <2> QED  BY <1>0, <2>3, <2>5, <2>7, <2>8 DEF GapInv, Inside, Numbered
<1>2. CASE SweepSend(k)
    <2>1. /\ UNCHANGED <<accountNonce, mempool, dropped, price, apps, gnonce, gprice, gpos, app, greply, stx>>
          /\ spos[k] = "send" /\ spos' = [spos EXCEPT ![k] = "await"]
          /\ wire' = wire \union {stx[k]}
        BY <1>2 DEF SweepSend, workerVars
    <2>2. spos' \in [Sweeps -> SweepPositions] /\ \A j \in Sweeps : spos'[j] = "send" => spos[j] = "send"
        BY <2>1 DEF GapInv, SweepPositions
    <2> QED  BY <1>0, <2>1, <2>2 DEF GapInv, Inside, Numbered
<1>3. CASE SweepReturns(k)
    <2>1. UNCHANGED <<accountNonce, mempool, wire, dropped, price, apps, gnonce, gprice, gpos, app, greply>>
        BY <1>3 DEF SweepReturns, chainVars, workerVars
    <2>2. PICK to \in {"202", "502"} : spos' = [spos EXCEPT ![k] = to]
        BY <1>3 DEF SweepReturns
    <2>3. /\ spos' \in [Sweeps -> SweepPositions]
          /\ \A j \in Sweeps : spos'[j] = "send" => j # k /\ spos[j] = "send"
        BY <2>2 DEF GapInv, SweepPositions
    <2>4. DOMAIN stx' = Sweeps /\ \A j \in Sweeps \ {k} : stx'[j] = stx[j]
        BY <1>3 DEF SweepReturns, GapInv
    <2> QED  BY <1>0, <2>1, <2>3, <2>4 DEF GapInv, Inside, Numbered
<1> QED  BY <1>1, <1>2, <1>3 DEF Sweep

\* The node and the rest of the environment.
LEMMA GapInvEnvironment ==
    ASSUME GapInv, 
           \/ \E t \in wire, accepts \in BOOLEAN : NodeReceive(t, accepts)
           \/ \E t \in mempool : NodeMines(t) \/ NodeEvicts(t)
           \/ \E s \in Signers : Drain(s)
           \/ PriceMoves \/ Tock \/ Crash \/ UNCHANGED vars
    PROVE  GapInv'
<1> USE TreasuryAssumption
<1>0. ASSUME ChainOK', Grows, dropped' = dropped PROVE \A a \in Accounts, n \in Nat : NoGap(a, n) => NoGap(a, n)'
    BY <1>0, NoGapStays, Zenon DEF GapInv
<1>1. ASSUME NEW t \in wire, NEW accepts \in BOOLEAN, NodeReceive(t, accepts) PROVE GapInv'
    <2>1. /\ NodeTakes(t, accepts) /\ UNCHANGED <<price, apps, gnonce, gprice, gpos, app, todo, spos, stx, dropped>>
          /\ greply' \in {greply, "ok", "err"}
          /\ greply' = "ok" => greply = "ok" \/ (gpos = "await" /\ t = Topup /\ accepts)
        BY <1>1 DEF NodeReceive, NodeTakes
    <2>2. Numbered(t)
        BY DEF GapInv
    <2>3. ChainOK' /\ Grows
        BY <2>1, <2>2, TakesGrows DEF GapInv
    <2>4. \A a \in Accounts, n \in Nat : NoGap(a, n) => NoGap(a, n)'
        BY <1>0, <2>1, <2>3
    <2>5. mempool' \union wire' \subseteq mempool \union wire
        BY <2>1 DEF NodeTakes
    <2>6. \A u \in mempool' \union wire' : Numbered(u) /\ NoGap(u.from, u.nonce)'
        BY <2>4, <2>5 DEF GapInv, ChainOK, Numbered
    <2>7. greply' = "ok" => gpos' = "await" /\ NoGap(TreasuryOf[app], gnonce + 1)'
        <3>1. CASE greply = "ok"
            BY <2>1, <2>4, <3>1, SMT, Z3 DEF GapInv, Inside
        <3>2. CASE gpos = "await" /\ t = Topup /\ accepts
            <4> DEFINE a == TreasuryOf[app]
            <4>1. a \in Accounts /\ gnonce \in Nat /\ NoGap(a, gnonce)'
                BY <2>1, <2>4, <3>2 DEF GapInv, Inside
            <4>2. t \in mempool' /\ t.from = a /\ t.nonce = gnonce
                BY <2>1, <3>2 DEF NodeTakes, Topup
            <4>3. gnonce \in PendingNonces(a)'
                BY <2>1, <4>2 DEF PendingNonces
            <4> QED  BY <2>1, <2>3, <3>2, <4>1, <4>3, NoGapAfterPendingNext DEF GapsEndBelow
        <3> QED  BY <2>1, <3>1, <3>2
    <2>8. Inside' => app' \in Apps /\ NoGap(TreasuryOf[app], gnonce)'
        BY <2>1, <2>4, SMTT(60), Z3T(60) DEF GapInv, Inside
    <2>9. \A k \in Sweeps : spos'[k] = "send" => Numbered(stx[k])' /\ NoGap(stx[k].from, stx[k].nonce)'
        BY <2>1, <2>4, SMTT(60), Z3T(60) DEF GapInv, Numbered
    <2> QED  BY <2>1, <2>3, <2>6, <2>7, <2>8, <2>9, SMTT(60), Z3T(60) DEF GapInv, Numbered
<1>2. ASSUME NEW t \in mempool, NodeMines(t) \/ NodeEvicts(t) PROVE GapInv'
    <2>1. /\ Mine(t, TRUE) \/ Evict(t)
          /\ UNCHANGED <<price, apps, gnonce, gprice, gpos, app, greply, spos, stx>>
        BY <1>2, Zenon DEF NodeMines, NodeEvicts, workerVars, sweepVars
    <2>2. ChainOK' /\ \A a \in Accounts, n \in Nat : NoGap(a, n) => NoGap(a, n)'
        <3>1. CASE Mine(t, TRUE)
            <4>1. ChainOK' /\ Grows /\ dropped' = dropped
                BY <3>1, MineGrows, ZenonT(60) DEF GapInv, Mine
            <4> QED  BY <1>0, <4>1
        <3>2. CASE Evict(t)
            BY <3>2, NoGapAfterEvict, ZenonT(60) DEF GapInv
        <3> QED  BY <2>1, <3>1, <3>2
    <2>3. mempool' \subseteq mempool /\ wire' = wire
        BY <2>1 DEF Mine, Evict
    <2> QED  BY <2>1, <2>2, <2>3, SMT, Z3 DEF GapInv, Inside, ChainOK, Numbered
<1>3. ASSUME \/ \E s \in Signers : Drain(s)
             \/ PriceMoves \/ Tock \/ UNCHANGED vars
      PROVE  GapInv'
    <2>1. /\ UNCHANGED <<accountNonce, mempool, wire, dropped, apps, gnonce, gprice, gpos, app, greply, spos, stx>>
          /\ price' \in Prices
        BY <1>3, ZenonT(60) DEF Drain, PriceMoves, Tock, vars, chainVars, workerVars, sweepVars, GapInv
    <2> QED  BY <2>1, BelowUnchanged, NoGapUnchanged DEF GapInv, Inside, Numbered
<1>4. ASSUME Crash PROVE GapInv'
    <2>1. /\ UNCHANGED <<accountNonce, mempool, wire, dropped, price>>
          /\ gpos' = "idle" /\ apps' = {} /\ gnonce' = 0 /\ gprice' = 0 /\ greply' = "none"
          /\ spos' = [k \in Sweeps |-> IF spos[k] \in {"send", "await"} THEN "dead" ELSE spos[k]]
          /\ DOMAIN stx' = Sweeps
        BY <1>4 DEF Crash, chainVars
    <2>2. spos' \in [Sweeps -> SweepPositions] /\ \A k \in Sweeps : spos'[k] # "send"
        BY <2>1 DEF GapInv, SweepPositions
    <2> QED  BY <2>1, <2>2, BelowUnchanged, NoGapUnchanged, Zenon DEF GapInv, Inside, Numbered
<1> QED  BY <1>1, <1>2, <1>3, <1>4

\* Every step keeps the invariant.
LEMMA GapInvStep == GapInv /\ [Next]_vars => GapInv'
BY GapInvWorker, GapInvSweep, GapInvEnvironment DEF Next

\* The worker and the sweeps never leave a gap in the nonces of a treasury but
\* where the node has evicted a transaction, although each takes its nonces from
\* the node and neither knows of the other.
THEOREM TreasuryHasNoGap == Spec => []NoTreasuryGap
BY GapInvInit, GapInvStep, GapInvMeansNoGap, PTL DEF Spec

-----------------------------------------------------------------------------
(* What became of the transactions *)

\* A transaction the node once accepted.
Sent(t) == t \in mempool \union dropped \/ Mined(t) \/ Displaced(t)

\* It stays so: it can leave the mempool only for the receipts, by eviction, or to
\* make room for one that pays more; and so can the one that displaced it.
LEMMA SentStays ==
    ASSUME GapInv, NEW t, Numbered(t), Sent(t),
           \/ \E u \in wire, accepts \in BOOLEAN : NodeTakes(u, accepts)
           \/ \E u \in mempool : Mine(u, TRUE) \/ Evict(u)
           \/ UNCHANGED <<mempool, receipts, dropped>>
    PROVE  Sent(t)'
<1>1. ASSUME NEW u \in wire, NEW accepts \in BOOLEAN, NodeTakes(u, accepts) PROVE Sent(t)'
    <2>0. UNCHANGED <<receipts, dropped>>
        BY <1>1 DEF NodeTakes
    <2>1. CASE ~ accepts
        BY <1>1, <2>1 DEF NodeTakes, Sent, Mined, Displaced
    <2>2. CASE accepts
        <3>1. /\ mempool' = {v \in mempool : ~ SameSlot(u, v)} \union {u}
              /\ \A v \in mempool : SameSlot(u, v) => v.price < u.price
            BY <1>1, <2>2 DEF NodeTakes, Acceptable
        <3>2. CASE t \in mempool
            BY <3>1, <3>2 DEF Sent, Displaced, SameSlot
        <3>3. CASE t \in dropped \/ Mined(t)
            BY <2>0, <3>3 DEF Sent, Mined
        <3>4. ASSUME NEW v \in mempool, SameSlot(t, v), t.price < v.price PROVE Sent(t)'
            <4>1. CASE ~ SameSlot(u, v)
                BY <3>1, <3>4, <4>1 DEF Sent, Displaced
            <4>2. CASE SameSlot(u, v)
                <5>1. v.price < u.price /\ u.price \in Nat /\ v.price \in Nat /\ t.price \in Nat
                    BY <3>1, <4>2 DEF GapInv, ChainOK, Numbered
                <5>2. t.price < u.price /\ SameSlot(t, u)
                    BY <3>4, <4>2, <5>1, SMT, Z3 DEF SameSlot
                <5> QED  BY <3>1, <5>2 DEF Sent, Displaced
            <4> QED  BY <4>1, <4>2
        <3>5. ASSUME NEW v \in dropped \union {r.tx : r \in receipts}, SameSlot(t, v), t.price < v.price PROVE Sent(t)'
            BY <2>0, <3>5 DEF Sent, Displaced
        <3> QED  BY <3>2, <3>3, <3>4, <3>5 DEF Sent, Displaced
    <2> QED  BY <2>1, <2>2
<1>2. ASSUME NEW u \in mempool, Mine(u, TRUE) \/ Evict(u) PROVE Sent(t)'
    <2> DEFINE AtNode == mempool \union dropped \union {r.tx : r \in receipts}
    <2>1. AtNode \subseteq AtNode'
        <3>1. CASE Mine(u, TRUE)
            <4> DEFINE r == [tx |-> u, ok |-> TRUE]
            <4>1. mempool' = mempool \ {u} /\ receipts' = receipts \union {r} /\ r.tx = u /\ dropped' = dropped
                BY <3>1 DEF Mine
            <4> QED  BY <4>1, Zenon
        <3>2. CASE Evict(u)
            BY <3>2, Zenon DEF Evict
        <3> QED  BY <1>2, <3>1, <3>2
    <2>2. Displaced(t) => Displaced(t)'
        BY <2>1, Zenon DEF Displaced
    <2>3. t \in AtNode => t \in AtNode'
        BY <2>1
    <2>4. /\ t \in mempool \union dropped \/ Mined(t) <=> t \in AtNode
          /\ t \in mempool' \union dropped' \/ Mined(t)' <=> t \in AtNode'
        BY Zenon DEF Mined
    <2> QED  BY <2>2, <2>3, <2>4, Zenon DEF Sent
<1>3. ASSUME UNCHANGED <<mempool, receipts, dropped>> PROVE Sent(t)'
    BY <1>3 DEF Sent, Mined, Displaced
<1> QED  BY <1>1, <1>2, <1>3, Zenon

\* What the worker and the sweeps take for accepted was accepted.
SentInv ==
    /\ GapInv
    /\ \A t \in rows : Numbered(t) /\ Sent(t)
    /\ greply = "ok" => Numbered(Topup) /\ Sent(Topup)
    /\ sreply \in [Sweeps -> {"none", "ok", "err"}]
    /\ \A k \in Sweeps : sreply[k] = "ok" \/ spos[k] = "202" =>
         spos[k] # "start" /\ Numbered(stx[k]) /\ Sent(stx[k])

\* Nothing is recorded initially.
LEMMA SentInvInit == Init => SentInv
<1> SUFFICES ASSUME Init PROVE SentInv
    OBVIOUS
<1>1. rows = {} /\ greply = "none" /\ sreply = [k \in Sweeps |-> "none"] /\ spos = [k \in Sweeps |-> "start"]
    BY DEF Init
<1> QED  BY <1>1, GapInvInit DEF SentInv

\* Every step keeps SentInv: what is recorded was answered ok, and an ok is given
\* to what has just been accepted.
LEMMA SentInvStep == SentInv /\ [Next]_vars => SentInv'
<1> SUFFICES ASSUME SentInv, [Next]_vars PROVE SentInv'
    OBVIOUS
<1>0. GapInv /\ GapInv'
    BY GapInvStep DEF SentInv
<1>1. ASSUME UNCHANGED <<mempool, receipts, dropped>> PROVE \A t : Numbered(t) /\ Sent(t) => Sent(t)'
    BY <1>0, <1>1, SentStays
<1>2. CASE Worker
    <2>1. UNCHANGED <<mempool, receipts, dropped, spos, stx, sreply>>
        BY <1>2 DEF Worker, Tick, EndApp, EndTick, CheckRecent, CheckBalance, Refill, RefillFails, RefillSucceeds,
                    BeginApp, chainVars, sweepVars
    <2>2. greply' = "ok" => FALSE
        <3>1. CASE gpos = "await"
            BY <1>2, <3>1, ZenonT(60) DEF Worker, Tick, EndApp, EndTick, CheckRecent, CheckBalance, Refill, RefillFails, RefillSucceeds, BeginApp
        <3>2. CASE gpos # "await"
            BY <1>0, <1>2, <3>2, SMTT(60), Z3T(60) DEF GapInv, Worker, Tick, EndApp, EndTick, CheckRecent, CheckBalance, Refill, RefillFails,
                                    RefillSucceeds, BeginApp
        <3> QED  BY <3>1, <3>2, SMTT(60), Z3T(60)
    <2>3. rows' \subseteq rows \union {Topup} /\ (rows' # rows => greply = "ok")
        BY <1>2, ZenonT(60) DEF Worker, Tick, EndApp, EndTick, CheckRecent, CheckBalance, Refill, RefillFails, RefillSucceeds, BeginApp
    <2>4. \A t \in rows' : Numbered(t) /\ Sent(t)'
        BY <1>1, <2>1, <2>3, SMTT(60), Z3T(60) DEF SentInv
    <2>5. \A k \in Sweeps : sreply'[k] = "ok" \/ spos'[k] = "202" =>
            spos'[k] # "start" /\ Numbered(stx[k])' /\ Sent(stx[k])'
        BY <1>1, <2>1 DEF SentInv, Numbered, Sent, Mined, Displaced
    <2> QED  BY <1>0, <2>1, <2>2, <2>4, <2>5, SMTT(60), Z3T(60) DEF SentInv, Numbered
<1>3. ASSUME NEW k \in Sweeps, Sweep(k) PROVE SentInv'
    <2>1. UNCHANGED <<mempool, receipts, dropped, rows, gpos, app, todo, gnonce, gprice, greply>>
        BY <1>3, SMTT(60), Z3T(60) DEF Sweep, SweepSign, SweepSend, SweepReturns, chainVars, workerVars
    <2>2. /\ \A j \in Sweeps \ {k} : stx'[j] = stx[j] /\ spos'[j] = spos[j]
          /\ spos'[k] # "start"
          /\ \A j \in Sweeps : sreply'[j] \in {sreply[j], "none"}
          /\ sreply' \in [Sweeps -> {"none", "ok", "err"}]
          /\ sreply'[k] = "ok" => spos[k] = "start" \/ stx'[k] = stx[k]
          /\ spos'[k] = "202" => sreply[k] = "ok" /\ stx'[k] = stx[k]
        BY <1>0, <1>3 DEF Sweep, SweepSign, SweepSend, SweepReturns, GapInv, SentInv
    <2>3. ASSUME NEW j \in Sweeps, sreply'[j] = "ok" \/ spos'[j] = "202"
          PROVE  spos'[j] # "start" /\ Numbered(stx'[j]) /\ Sent(stx[j])'
        <3>1. spos'[j] # "start" /\ stx'[j] = stx[j] /\ Numbered(stx[j]) /\ Sent(stx[j])
            BY <2>1, <2>2, <2>3, SMTT(60), Z3T(60) DEF SentInv
        <3>2. Sent(stx[j])'
            BY <2>1, <3>1, SMTT(60), Z3T(60) DEF Sent, Mined, Displaced
        <3> QED  BY <3>1, <3>2
    <2>4. Topup' = Topup /\ (Sent(Topup) => Sent(Topup)')
        BY <2>1, ZenonT(60) DEF Topup, Sent, Mined, Displaced
    <2>5. \A t \in rows : Sent(t)'
        BY <1>1, <2>1, SMTT(60), Z3T(60) DEF SentInv
    <2> QED  BY <1>0, <2>1, <2>2, <2>3, <2>4, <2>5, SMTT(60), Z3T(60) DEF SentInv, Numbered
<1>4. ASSUME NEW t \in wire, NEW accepts \in BOOLEAN, NodeReceive(t, accepts) PROVE SentInv'
    <2>1. /\ NodeTakes(t, accepts) /\ UNCHANGED <<rows, gpos, app, todo, gnonce, gprice, spos, stx>>
          /\ greply' = "ok" => greply = "ok" \/ (t = Topup /\ accepts)
          /\ sreply' = [k \in Sweeps |-> IF spos[k] = "await" /\ t = stx[k] THEN (IF accepts THEN "ok" ELSE "err") ELSE sreply[k]]
        BY <1>4 DEF NodeReceive
    <2>2. \A u : Numbered(u) /\ Sent(u) => Sent(u)'
        BY <1>0, <2>1, SentStays, ZenonT(60)
    <2>3. Numbered(t) /\ (accepts => Sent(t)')
        BY <1>0, <2>1, Zenon DEF GapInv, NodeTakes, Sent
    <2>4. Topup' = Topup
        BY <2>1, ZenonT(60) DEF Topup
    <2>5. greply' = "ok" => Numbered(Topup) /\ Sent(Topup)'
        BY <2>1, <2>2, <2>3, <2>4, ZenonT(60) DEF SentInv
    <2>6. ASSUME NEW k \in Sweeps, sreply'[k] = "ok" \/ spos'[k] = "202"
          PROVE  spos'[k] # "start" /\ Numbered(stx'[k]) /\ Sent(stx[k])'
        <3>1. stx'[k] = stx[k] /\ spos'[k] = spos[k]
            BY <2>1, SMTT(60), Z3T(60)
        <3>2. CASE sreply[k] = "ok" \/ spos[k] = "202"
            BY <2>2, <3>1, <3>2 DEF SentInv
        <3>3. CASE spos[k] = "await" /\ t = stx[k] /\ accepts
            BY <2>3, <3>1, <3>3
        <3> QED  BY <2>1, <2>6, <3>1, <3>2, <3>3
    <2>7. sreply' \in [Sweeps -> {"none", "ok", "err"}]
        BY <2>1 DEF SentInv
    <2>8. \A u \in rows : Sent(u)'
        BY <2>2, SMTT(60), Z3T(60) DEF SentInv
    <2> QED  BY <1>0, <2>1, <2>4, <2>5, <2>6, <2>7, <2>8, SMTT(60), Z3T(60) DEF SentInv, Numbered
<1>5. ASSUME \/ \E t \in mempool : NodeMines(t) \/ NodeEvicts(t)
             \/ \E s \in Signers : Drain(s)
             \/ PriceMoves \/ Tock \/ UNCHANGED vars
      PROVE  SentInv'
    <2>1. /\ UNCHANGED <<rows, gpos, app, todo, gnonce, gprice, greply, spos, stx, sreply>>
          /\ (\E t \in mempool : Mine(t, TRUE) \/ Evict(t)) \/ UNCHANGED <<mempool, receipts, dropped>>
        BY <1>5, Zenon DEF NodeMines, NodeEvicts, Drain, PriceMoves, Tock, vars, chainVars, workerVars, sweepVars
    <2>2. \A u : Numbered(u) /\ Sent(u) => Sent(u)'
        BY <1>0, <2>1, SentStays, Zenon
    <2>3. Topup' = Topup
        BY <2>1, Zenon DEF Topup
    <2>4. /\ \A u \in rows : Sent(u)'
          /\ greply = "ok" => Sent(Topup)'
          /\ \A k \in Sweeps : sreply[k] = "ok" \/ spos[k] = "202" => Sent(stx[k])'
        BY <2>1, <2>2, <2>3, SMTT(60), Z3T(60) DEF SentInv
    <2> QED  BY <1>0, <2>1, <2>3, <2>4, SMTT(60), Z3T(60) DEF SentInv, Numbered
<1>6. CASE Crash
    <2>1. /\ UNCHANGED <<mempool, receipts, dropped, rows>> /\ greply' = "none"
          /\ sreply' = [k \in Sweeps |-> "none"]
          /\ \A k \in Sweeps : spos'[k] = "202" => spos[k] = "202" /\ stx'[k] = stx[k]
        BY <1>6 DEF Crash, chainVars
    <2>2. /\ \A u \in rows : Sent(u)'
          /\ \A k \in Sweeps : spos[k] = "202" => Sent(stx[k])
        BY <1>1, <2>1 DEF SentInv
    <2>3. ASSUME NEW k \in Sweeps, sreply'[k] = "ok" \/ spos'[k] = "202"
          PROVE  spos'[k] # "start" /\ Numbered(stx'[k]) /\ Sent(stx[k])'
        <3>1. spos'[k] = "202" /\ spos[k] = "202" /\ stx'[k] = stx[k] /\ Numbered(stx[k]) /\ Sent(stx[k])
            BY <2>1, <2>3 DEF SentInv
        <3> QED  BY <2>1, <3>1 DEF Sent, Mined, Displaced
    <2> QED  BY <1>0, <2>1, <2>2, <2>3 DEF SentInv, Numbered
<1> QED  BY <1>2, <1>3, <1>4, <1>5, <1>6 DEF Next

\* A recorded top-up and an acknowledged sweep were accepted by the node, and
\* are pending or mined unless it has evicted them or one that pays more has taken
\* their place.
THEOREM TreasurySentOrOutbid == Spec => []SentOrOutbid
<1>1. SentInv => SentOrOutbid
    BY DEF SentInv, Sent, SentOrOutbid
<1> QED  BY <1>1, SentInvInit, SentInvStep, PTL DEF Spec

-----------------------------------------------------------------------------
(* The shape of the variables *)

\* What TypeOK leaves out: the worker goes through a list of signers, with a gas
\* price.
TypeInv ==
    /\ GapInv /\ TypeOK
    /\ todo \in Seq(Signers)
    /\ Inside => gprice \in Prices

\* The signers of an app are signers, and bodies.
LEMMA SignersListed ==
    /\ \A p \in Apps : ListSigners[p] \in Seq(Signers)
    /\ Signers \subseteq Bodies
<1>1. ASSUME NEW p \in Apps PROVE ListSigners[p] \in Seq(Signers) /\ \A i \in 1..Len(ListSigners[p]) : ListSigners[p][i] \in Bodies
    <2>1. PICK L \in Seq(Bodies) : L = ListSigners[p]
        BY TreasuryAssumption
    <2>2. {L[i] : i \in 1..Len(L)} \in {{ListSigners[q][i] : i \in 1..Len(ListSigners[q])} : q \in Apps}
        BY <2>1
    <2>3. \A i \in 1..Len(L) : L[i] \in Signers
        BY <2>2, Zenon DEF Signers
    <2>4. L \in [1..Len(L) -> Signers] /\ Len(L) \in Nat /\ \A i \in 1..Len(L) : L[i] \in Bodies
        BY <2>3, SMT, Z3
    <2>5. L \in Seq(Signers)
        BY <2>4, SMT, Z3
    <2> QED  BY <2>1, <2>4, <2>5
<1>2. ASSUME NEW s \in Signers PROVE s \in Bodies
    <2>1. PICK p \in Apps : s \in {ListSigners[p][i] : i \in 1..Len(ListSigners[p])}
        BY DEF Signers
    <2> QED  BY <1>1, <2>1
<1> QED  BY <1>1, <1>2

\* The ends of the window.
LEMMA WindowEnds == 0 \in 0..TopupWindow /\ TopupWindow \in 0..TopupWindow
BY TreasuryAssumption, SMT, Z3

\* What is left of the list, and its first signer.
LEMMA ListGoesOn ==
    ASSUME todo \in Seq(Signers), todo # << >>
    PROVE  Head(todo) \in Signers /\ Tail(todo) \in Seq(Signers)
BY SMT, Z3

\* The initial states.
LEMMA TypeInvInit == Init => TypeInv
<1> SUFFICES ASSUME Init PROVE TypeInv
    OBVIOUS
<1>1. /\ low = Signers /\ rows = {} /\ gpos = "idle" /\ apps = {} /\ app = NoApp /\ todo = << >>
      /\ recent = [s \in Signers |-> 0] /\ spos = [k \in Sweeps |-> "start"]
      /\ stx = [k \in Sweeps |-> NoTx] /\ last = [s \in Signers |-> TopupWindow]
    BY DEF Init
<1>2. recent \in [Signers -> 0..TopupWindow] /\ last \in [Signers -> 0..TopupWindow]
    BY <1>1, TreasuryAssumption, SMT, Z3
<1>3. todo \in Seq(Signers)
    BY <1>1, SMT, Z3
<1>4. /\ spos \in [Sweeps -> {"start", "send", "await", "202", "502", "dead"}]
      /\ stx \in [Sweeps -> Tx \union {NoTx}]
    BY <1>1
<1> QED  BY <1>1, <1>2, <1>3, <1>4, GapInvInit DEF TypeInv, TypeOK, Inside, GapInv

\* A top-up is a transaction.
LEMMA TopupIsTx ==
    ASSUME TypeInv, gpos \in {"balance", "send", "await"}
    PROVE  Topup \in Tx /\ Head(todo) \in Signers /\ Topup.body = Head(todo)
<1>1. TreasuryOf[app] \in Accounts /\ gnonce \in Nat /\ gprice \in Prices
    BY TreasuryAssumption DEF TypeInv, GapInv, Inside
<1>2. Head(todo) \in Signers /\ Head(todo) \in Bodies
    BY ListGoesOn, SignersListed DEF TypeInv, TypeOK
<1> QED  BY <1>1, <1>2, SMT, Z3 DEF Topup, Tx

\* The worker's steps.
LEMMA TypeInvWorker ==
    ASSUME TypeInv, Worker
    PROVE  TypeInv'
<1>0. GapInv'
    BY GapInvWorker DEF TypeInv
<1>1. UNCHANGED <<price, low, last, spos, stx>>
    BY ZenonT(60) DEF Worker, Tick, EndApp, EndTick, CheckRecent, CheckBalance, Refill, RefillFails, RefillSucceeds,
           BeginApp, sweepVars, historyVars
<1>2. todo # << >> => Tail(todo) \in Seq(Signers)
    BY ListGoesOn DEF TypeInv
<1>3. CASE Tick \/ EndApp \/ EndTick \/ CheckRecent \/ CheckBalance \/ Refill \/ RefillFails
    <2>1. /\ apps' \subseteq Managed
          /\ todo' \in Seq(Signers)
          /\ UNCHANGED <<rows, recent>>
        BY <1>2, <1>3, ZenonT(60) DEF Tick, EndApp, EndTick, CheckRecent, CheckBalance, Refill, RefillFails, TypeInv, TypeOK
    <2>2. /\ gpos' \in {"idle", "app", "loop", "balance", "send", "await"}
          /\ app' \in Managed \union {NoApp}
          /\ app' # NoApp <=> gpos' \in {"loop", "balance", "send", "await"}
          /\ gpos' \in {"balance", "send", "await"} => todo' # << >>
          /\ Inside' => gprice' \in Prices
        BY <1>3, SMTT(30), Z3T(30) DEF Tick, EndApp, EndTick, CheckRecent, CheckBalance, Refill, RefillFails, TypeInv, TypeOK, Inside
    <2> QED  BY <1>0, <1>1, <2>1, <2>2, SMTT(30), Z3T(30) DEF TypeInv, TypeOK
<1>4. CASE RefillSucceeds
    <2>1. Topup \in Tx /\ Head(todo) \in Signers
        BY <1>4, TopupIsTx DEF RefillSucceeds
    <2>2. /\ rows' \subseteq rows \union {Topup}
          /\ recent' = recent \/ recent' = [recent EXCEPT ![Head(todo)] = TopupWindow]
          /\ gpos = "await" /\ gpos' = "loop" /\ todo' = Tail(todo) /\ UNCHANGED <<apps, app, gprice>>
        BY <1>4 DEF RefillSucceeds
    <2>3. recent' \in [Signers -> 0..TopupWindow]
        BY <2>1, <2>2, WindowEnds DEF TypeInv, TypeOK
    <2> QED  BY <1>0, <1>1, <1>2, <2>1, <2>2, <2>3, SMT, Z3 DEF TypeInv, TypeOK, Inside
<1>5. ASSUME NEW p \in apps, BeginApp(p) PROVE TypeInv'
    <2>1. p \in Managed /\ p # NoApp /\ ListSigners[p] \in Seq(Signers)
        BY SignersListed, TreasuryAssumption DEF TypeInv, TypeOK
    <2>2. /\ apps' \subseteq apps /\ UNCHANGED <<rows, recent>> /\ gpos = "app"
          /\ \/ gpos' = "loop" /\ app' = p /\ todo' = ListSigners[p] /\ gprice' \in Prices
             \/ UNCHANGED <<gpos, app, todo, gprice>>
        BY <1>5 DEF BeginApp, TypeInv, TypeOK
    <2>3. CASE gpos' = "loop" /\ app' = p /\ todo' = ListSigners[p] /\ gprice' \in Prices
        <3>1. todo' \in Seq(Signers) /\ app' \in Managed /\ app' # NoApp /\ gpos' = "loop"
            BY <2>1, <2>3
        <3> QED  BY <1>0, <1>1, <2>2, <2>3, <3>1 DEF TypeInv, TypeOK, Inside
    <2>4. CASE UNCHANGED <<gpos, app, todo, gprice>>
        BY <1>0, <1>1, <2>2, <2>4 DEF TypeInv, TypeOK, Inside
    <2> QED  BY <2>2, <2>3, <2>4
<1> QED  BY <1>3, <1>4, <1>5 DEF Worker

\* The other steps: only a sweep's signature is more than a change of position.
LEMMA TypeInvOthers ==
    ASSUME TypeInv, [Next]_vars, ~ Worker
    PROVE  TypeInv'
<1>0. GapInv'
    BY GapInvStep DEF TypeInv
<1>1. ASSUME NEW k \in Sweeps, Sweep(k) PROVE TypeInv'
    <2>1. UNCHANGED <<price, low, rows, recent, gpos, apps, app, todo, gprice, last>>
        BY <1>1, ZenonT(60) DEF Sweep, SweepSign, SweepSend, SweepReturns, workerVars, historyVars
    <2>2. stx' \in [Sweeps -> Tx \union {NoTx}]
        <3>1. CASE UNCHANGED stx
            BY <3>1 DEF TypeInv, TypeOK
        <3>2. CASE SweepSign(k)
            <4> DEFINE a == TreasuryOf[SweptApp[k]]
            <4>1. a \in Accounts /\ k \in Bodies
                BY TreasuryAssumption
            <4>2. PendingNonceAt(a) \in Nat
                BY <4>1, PendingNonceIsFirstFree DEF TypeInv, GapInv
            <4>3. stx' = [stx EXCEPT ![k] = [from |-> a, nonce |-> PendingNonceAt(a), body |-> k, price |-> price]]
                BY <3>2 DEF SweepSign
            <4>4. [from |-> a, nonce |-> PendingNonceAt(a), body |-> k, price |-> price] \in Tx
                BY <4>1, <4>2, SMT, Z3 DEF Tx, TypeInv, TypeOK
            <4> QED  BY <4>3, <4>4 DEF TypeInv, TypeOK
        <3>3. CASE stx' = [stx EXCEPT ![k] = NoTx]
            BY <3>3 DEF TypeInv, TypeOK
        <3> QED  BY <1>1, <3>1, <3>2, <3>3 DEF Sweep, SweepSend, SweepReturns
    <2> QED  BY <1>0, <2>1, <2>2 DEF TypeInv, TypeOK, GapInv, SweepPositions, Inside
<1>2. ASSUME NEW t \in wire, NEW accepts \in BOOLEAN, NodeReceive(t, accepts) PROVE TypeInv'
    <2>1. UNCHANGED <<price, low, rows, recent, gpos, apps, app, todo, gprice, spos, stx>>
        BY <1>2 DEF NodeReceive
    <2>2. DOMAIN last' = Signers /\ \A s \in Signers : last'[s] \in {0, last[s]}
        BY <1>2 DEF NodeReceive
    <2>3. last' = [s \in Signers |-> last'[s]]
        BY <1>2 DEF NodeReceive
    <2>4. last' \in [Signers -> 0..TopupWindow]
        <3>1. \A s \in Signers : last'[s] \in 0..TopupWindow
            BY <2>2, WindowEnds DEF TypeInv, TypeOK
        <3> QED  BY <2>3, <3>1
    <2> QED  BY <1>0, <2>1, <2>4 DEF TypeInv, TypeOK, Inside
<1>3. ASSUME \/ \E t \in mempool : NodeMines(t) \/ NodeEvicts(t)
             \/ \E s \in Signers : Drain(s)
             \/ PriceMoves \/ UNCHANGED vars
      PROVE  TypeInv'
    <2>1. /\ UNCHANGED <<rows, recent, gpos, apps, app, todo, gprice, spos, stx, last>>
          /\ low' \subseteq Signers /\ price' \in Prices
        BY <1>3, ZenonT(60) DEF NodeMines, NodeEvicts, Drain, PriceMoves, vars, workerVars, sweepVars, historyVars, TypeInv, TypeOK
    <2> QED  BY <1>0, <2>1 DEF TypeInv, TypeOK, Inside
<1>4. CASE Tock
    <2>1. UNCHANGED <<price, low, rows, gpos, apps, app, todo, gprice, spos, stx>>
        BY <1>4 DEF Tock, workerVars, sweepVars
    <2>2. recent' \in [Signers -> 0..TopupWindow] /\ last' \in [Signers -> 0..TopupWindow]
        BY <1>4, TreasuryAssumption, SMT, Z3 DEF Tock, TypeInv, TypeOK
    <2> QED  BY <1>0, <2>1, <2>2 DEF TypeInv, TypeOK, Inside
<1>5. CASE Crash
    <2>1. /\ UNCHANGED <<price, low, rows, recent, last>>
          /\ gpos' = "idle" /\ apps' = {} /\ app' = NoApp /\ todo' = << >>
          /\ stx' \in [Sweeps -> Tx \union {NoTx}]
        BY <1>5 DEF Crash, historyVars, TypeInv, TypeOK
    <2>2. todo' \in Seq(Signers)
        BY <2>1, SMT, Z3
    <2> QED  BY <1>0, <2>1, <2>2 DEF TypeInv, TypeOK, GapInv, SweepPositions, Inside
<1> QED  BY <1>1, <1>2, <1>3, <1>4, <1>5 DEF Next

\* The variables keep their shape; in particular the worker is inside processApp
\* exactly when it has an app, and never looks at a signer that is not there.
THEOREM TreasuryTypes == Spec => []TypeOK
<1>1. TypeInv /\ [Next]_vars => TypeInv'
    BY TypeInvWorker, TypeInvOthers
<1>2. TypeInv => TypeOK
    BY DEF TypeInv
<1> QED  BY <1>1, <1>2, TypeInvInit, PTL DEF Spec

-----------------------------------------------------------------------------
(* The spacing of the top-ups *)

\* The top-ups on the wire that the worker no longer waits for, and the signers
\* topped up within the window of which it has no record: neither a recent row
\* nor an answer it has still to act on.  Each was made by a fault.
Lost == {t \in wire : t.body \in Signers /\ ~ (gpos = "await" /\ t = Topup)}

Unknown == {s \in Signers : /\ recent[s] + last[s] < TopupWindow
                            /\ ~ (gpos = "await" /\ greply = "ok" /\ Head(todo) = s)}

\* The faults pay for what the worker does not know and for the top-ups made
\* too early; each of the former can become one of the latter once.
Paid ==
    /\ IsFiniteSet(Lost) /\ IsFiniteSet(Unknown)
    /\ extra \in Nat /\ faults \in Nat
    /\ extra + Cardinality(Lost) + Cardinality(Unknown) <= faults

\* The worker waits for a top-up only while no recent one is recorded, and has
\* its answer only when the node has taken it.
Awaiting ==
    /\ greply \in {"none", "ok", "err"}
    /\ greply # "none" => gpos = "await" /\ Topup \notin wire
    /\ gpos \in {"balance", "send", "await"} => recent[Head(todo)] = 0
    /\ \A k \in Sweeps : spos[k] = "send" => stx[k].body = k

SpacedInv == TypeInv /\ Awaiting /\ Paid

\* Paid is about numbers: a step that adds at most as much to the three sets as
\* there are new faults, or as it takes from the other sets, keeps it.
LEMMA PaidStays ==
    ASSUME Paid, faults' = faults, extra' = extra, Lost' \subseteq Lost, Unknown' \subseteq Unknown
    PROVE  Paid'
<1>1. /\ IsFiniteSet(Lost') /\ Cardinality(Lost') \in Nat /\ Cardinality(Lost') <= Cardinality(Lost)
      /\ IsFiniteSet(Unknown') /\ Cardinality(Unknown') \in Nat /\ Cardinality(Unknown') <= Cardinality(Unknown)
      /\ Cardinality(Lost) \in Nat /\ Cardinality(Unknown) \in Nat
    BY FS_Subset, FS_CardinalityType DEF Paid
<1> QED  BY <1>1, TreasuryAssumption, SMTT(40), Z3T(40) DEF Paid

\* One more lost or unknown, for one fault.
LEMMA PaidByFault ==
    ASSUME Paid, faults' = faults + 1, extra' = extra, NEW x,
           \/ Lost' \subseteq Lost \union {x} /\ Unknown' \subseteq Unknown
           \/ Lost' \subseteq Lost /\ Unknown' \subseteq Unknown \union {x}
    PROVE  Paid'
<1>1. /\ IsFiniteSet(Lost \union {x}) /\ IsFiniteSet(Unknown \union {x})
      /\ Cardinality(Lost \union {x}) <= Cardinality(Lost) + 1
      /\ Cardinality(Unknown \union {x}) <= Cardinality(Unknown) + 1
      /\ Cardinality(Lost \union {x}) \in Nat /\ Cardinality(Unknown \union {x}) \in Nat
      /\ Cardinality(Lost) \in Nat /\ Cardinality(Unknown) \in Nat
    <2>1. \A S : IsFiniteSet(S) => /\ IsFiniteSet(S \union {x}) /\ Cardinality(S) \in Nat
                                   /\ Cardinality(S \union {x}) \in Nat
                                   /\ Cardinality(S \union {x}) <= Cardinality(S) + 1
        <3> SUFFICES ASSUME NEW S, IsFiniteSet(S)
                     PROVE  /\ IsFiniteSet(S \union {x}) /\ Cardinality(S) \in Nat
                            /\ Cardinality(S \union {x}) \in Nat
                            /\ Cardinality(S \union {x}) <= Cardinality(S) + 1
            OBVIOUS
        <3>1. /\ IsFiniteSet(S \union {x}) /\ Cardinality(S) \in Nat
              /\ Cardinality(S \union {x}) = IF x \in S THEN Cardinality(S) ELSE Cardinality(S) + 1
            BY FS_AddElement, FS_CardinalityType
        <3> QED  BY <3>1, SMT, Z3
    <2> QED  BY <2>1 DEF Paid
<1>2. CASE Lost' \subseteq Lost \union {x} /\ Unknown' \subseteq Unknown
    <2>1. /\ IsFiniteSet(Lost') /\ Cardinality(Lost') \in Nat /\ Cardinality(Lost') <= Cardinality(Lost \union {x})
          /\ IsFiniteSet(Unknown') /\ Cardinality(Unknown') \in Nat /\ Cardinality(Unknown') <= Cardinality(Unknown)
        BY <1>1, <1>2, FS_Subset, FS_CardinalityType DEF Paid
    <2> QED  BY <1>1, <2>1, TreasuryAssumption, SMTT(40), Z3T(40) DEF Paid
<1>3. CASE Lost' \subseteq Lost /\ Unknown' \subseteq Unknown \union {x}
    <2>1. /\ IsFiniteSet(Lost') /\ Cardinality(Lost') \in Nat /\ Cardinality(Lost') <= Cardinality(Lost)
          /\ IsFiniteSet(Unknown') /\ Cardinality(Unknown') \in Nat /\ Cardinality(Unknown') <= Cardinality(Unknown \union {x})
        BY <1>1, <1>3, FS_Subset, FS_CardinalityType DEF Paid
    <2> QED  BY <1>1, <2>1, TreasuryAssumption, SMTT(40), Z3T(40) DEF Paid
<1> QED  BY <1>2, <1>3

\* The node takes a lost top-up, or tops up an unknown signer: that one is gone
\* from its set, and there is one unknown signer, or one early top-up, more.
LEMMA PaidByTaking ==
    ASSUME Paid, faults' = faults, NEW x,
           \/ x \in Lost /\ Lost' \subseteq Lost \ {x} /\ Unknown' \subseteq Unknown /\ extra' \in {extra, extra + 1}
           \/ x \in Unknown /\ Unknown' \subseteq Unknown \ {x} /\ Lost' \subseteq Lost /\ extra' \in {extra, extra + 1}
           \/ \E s : x \in Lost /\ Lost' \subseteq Lost \ {x} /\ Unknown' \subseteq Unknown \union {s} /\ extra' = extra
    PROVE  Paid'
<1>0. \A S : IsFiniteSet(S) /\ x \in S => /\ IsFiniteSet(S \ {x}) /\ Cardinality(S) \in Nat
                                          /\ Cardinality(S \ {x}) \in Nat
                                          /\ Cardinality(S \ {x}) + 1 <= Cardinality(S)
    <2> SUFFICES ASSUME NEW S, IsFiniteSet(S), x \in S
                 PROVE  /\ IsFiniteSet(S \ {x}) /\ Cardinality(S) \in Nat
                        /\ Cardinality(S \ {x}) \in Nat
                        /\ Cardinality(S \ {x}) + 1 <= Cardinality(S)
        OBVIOUS
    <2>1. /\ IsFiniteSet(S \ {x}) /\ Cardinality(S) \in Nat /\ Cardinality(S \ {x}) \in Nat
          /\ Cardinality(S \ {x}) = Cardinality(S) - 1
        BY FS_RemoveElement, FS_CardinalityType
    <2> QED  BY <2>1, SMT, Z3
<1>1. CASE x \in Lost /\ Lost' \subseteq Lost \ {x} /\ Unknown' \subseteq Unknown /\ extra' \in {extra, extra + 1}
    <2>1. /\ IsFiniteSet(Lost') /\ Cardinality(Lost') \in Nat /\ Cardinality(Lost') <= Cardinality(Lost \ {x})
          /\ Cardinality(Lost \ {x}) + 1 <= Cardinality(Lost) /\ Cardinality(Lost) \in Nat /\ Cardinality(Lost \ {x}) \in Nat
          /\ IsFiniteSet(Unknown') /\ Cardinality(Unknown') \in Nat /\ Cardinality(Unknown') <= Cardinality(Unknown)
          /\ Cardinality(Unknown) \in Nat
        BY <1>0, <1>1, FS_Subset, FS_CardinalityType DEF Paid
    <2> QED  BY <1>1, <2>1, TreasuryAssumption, SMTT(40), Z3T(40) DEF Paid
<1>2. CASE x \in Unknown /\ Unknown' \subseteq Unknown \ {x} /\ Lost' \subseteq Lost /\ extra' \in {extra, extra + 1}
    <2>1. /\ IsFiniteSet(Unknown') /\ Cardinality(Unknown') \in Nat /\ Cardinality(Unknown') <= Cardinality(Unknown \ {x})
          /\ Cardinality(Unknown \ {x}) + 1 <= Cardinality(Unknown) /\ Cardinality(Unknown) \in Nat /\ Cardinality(Unknown \ {x}) \in Nat
          /\ IsFiniteSet(Lost') /\ Cardinality(Lost') \in Nat /\ Cardinality(Lost') <= Cardinality(Lost)
          /\ Cardinality(Lost) \in Nat
        BY <1>0, <1>2, FS_Subset, FS_CardinalityType DEF Paid
    <2> QED  BY <1>2, <2>1, TreasuryAssumption, SMTT(40), Z3T(40) DEF Paid
<1>3. ASSUME NEW s, x \in Lost, Lost' \subseteq Lost \ {x}, Unknown' \subseteq Unknown \union {s}, extra' = extra
      PROVE  Paid'
    <2>1. /\ IsFiniteSet(Lost') /\ Cardinality(Lost') \in Nat /\ Cardinality(Lost') <= Cardinality(Lost \ {x})
          /\ Cardinality(Lost \ {x}) + 1 <= Cardinality(Lost) /\ Cardinality(Lost) \in Nat /\ Cardinality(Lost \ {x}) \in Nat
        BY <1>0, <1>3, FS_Subset, FS_CardinalityType DEF Paid
    <2>2. /\ IsFiniteSet(Unknown \union {s}) /\ Cardinality(Unknown) \in Nat
          /\ Cardinality(Unknown \union {s}) = IF s \in Unknown THEN Cardinality(Unknown) ELSE Cardinality(Unknown) + 1
        BY FS_AddElement, FS_CardinalityType DEF Paid
    <2>3. /\ IsFiniteSet(Unknown') /\ Cardinality(Unknown') \in Nat /\ Cardinality(Unknown') <= Cardinality(Unknown \union {s})
        BY <1>3, <2>2, FS_Subset, FS_CardinalityType
    <2> QED  BY <1>3, <2>1, <2>2, <2>3, TreasuryAssumption, SMTT(40), Z3T(40) DEF Paid
<1> QED  BY <1>1, <1>2, <1>3

\* No top-up has been made initially.
LEMMA SpacedInvInit == Init => SpacedInv
<1> SUFFICES ASSUME Init PROVE SpacedInv
    OBVIOUS
<1>1. /\ wire = {} /\ greply = "none" /\ gpos = "idle" /\ extra = 0 /\ faults = 0
      /\ recent = [s \in Signers |-> 0] /\ last = [s \in Signers |-> TopupWindow]
      /\ spos = [k \in Sweeps |-> "start"]
    BY DEF Init, ChainInit
<1>2. Lost = {} /\ Unknown = {}
    BY <1>1, TreasuryAssumption, SMT, Z3 DEF Lost, Unknown
<1>3. Paid
    BY <1>1, <1>2, FS_EmptySet, TreasuryAssumption, SMTT(40), Z3T(40) DEF Paid
<1>4. Awaiting
    BY <1>1 DEF Awaiting
<1> QED  BY <1>3, <1>4, TypeInvInit DEF SpacedInv

\* Away from a top-up nothing is lost or learnt.
LEMMA NothingLost ==
    ASSUME gpos # "await", gpos' # "await", UNCHANGED <<wire, recent, last>>
    PROVE  Lost' = Lost /\ Unknown' = Unknown
BY DEF Lost, Unknown

\* The end of a top-up: the worker stops waiting for it.  It was on the wire and
\* is lost, or it was answered; and if the answer was an ok, the signer is
\* unknown unless it is recorded.
LEMMA StopsWaiting ==
    ASSUME TypeInv, Awaiting, gpos = "await", gpos' # "await", UNCHANGED <<wire, last>>
    PROVE  /\ greply # "none" => Lost' \subseteq Lost
           /\ Lost' \subseteq Lost \union {Topup}
           /\ greply # "ok" /\ UNCHANGED recent => Unknown' \subseteq Unknown
           /\ UNCHANGED recent => Unknown' \subseteq Unknown \union {Head(todo)}
           /\ recent' = [recent EXCEPT ![Head(todo)] = TopupWindow] => Unknown' \subseteq Unknown
<1>1. Lost' = {t \in wire : t.body \in Signers}
    BY DEF Lost
<1>2. Unknown' = {s \in Signers : recent'[s] + last[s] < TopupWindow}
    BY DEF Unknown
<1>3. greply # "none" => Lost' \subseteq Lost
    BY <1>1 DEF Lost, Awaiting
<1>4. Lost' \subseteq Lost \union {Topup}
    BY <1>1 DEF Lost
<1>5. UNCHANGED recent => Unknown' \subseteq Unknown \union {Head(todo)}
    BY <1>2 DEF Unknown
<1>6. greply # "ok" /\ UNCHANGED recent => Unknown' \subseteq Unknown
    BY <1>2 DEF Unknown
<1>7. ASSUME recent' = [recent EXCEPT ![Head(todo)] = TopupWindow], NEW s \in Unknown' PROVE s \in Unknown
    <2>1. s \in Signers /\ recent'[s] + last[s] < TopupWindow /\ recent[s] \in 0..TopupWindow /\ last[s] \in 0..TopupWindow
        BY <1>2 DEF TypeInv, TypeOK
    <2>2. CASE s = Head(todo)
        <3>1. recent'[s] = TopupWindow
            BY <1>7, <2>1, <2>2 DEF TypeInv, TypeOK
        <3> QED  BY <2>1, <3>1, TreasuryAssumption, SMT, Z3
    <2>3. CASE s # Head(todo)
        <3>1. recent'[s] = recent[s]
            BY <1>7, <2>1, <2>3 DEF TypeInv, TypeOK
        <3> QED  BY <2>1, <2>3, <3>1 DEF Unknown
    <2> QED  BY <2>2, <2>3
<1> QED  BY <1>3, <1>4, <1>5, <1>6, <1>7

\* The worker's steps.
LEMMA SpacedInvWorker ==
    ASSUME SpacedInv, Worker
    PROVE  SpacedInv'
<1>0. TypeInv /\ TypeInv' /\ Awaiting /\ Paid
    BY TypeInvWorker DEF SpacedInv
<1>1. UNCHANGED <<last, extra, spos, stx>>
    BY ZenonT(60) DEF Worker, Tick, EndApp, EndTick, CheckRecent, CheckBalance, Refill, RefillFails, RefillSucceeds,
           BeginApp, sweepVars, historyVars
<1>2. CASE Tick \/ EndApp \/ EndTick \/ (\E p \in apps : BeginApp(p)) \/ CheckRecent
    <2>1. /\ gpos \in {"idle", "app", "loop"} /\ UNCHANGED <<wire, recent, greply>>
          /\ gpos' \in {"idle", "app", "loop"} \/ (gpos' = "balance" /\ recent[Head(todo)] = 0 /\ UNCHANGED todo)
          /\ faults' = faults \/ Strike
        BY <1>2, ZenonT(60) DEF Tick, EndApp, EndTick, CheckRecent, BeginApp, chainVars, troubleVars
    <2>2. greply = "none" /\ greply' = "none"
        BY <1>0, <2>1, SMT, Z3 DEF Awaiting
    <2>3. Lost' = Lost /\ Unknown' = Unknown
        <3>1. gpos # "await" /\ gpos' # "await"
            BY <2>1
        <3> QED  BY <1>1, <2>1, <3>1, NothingLost
    <2>4. Paid'
        <3>1. CASE faults' = faults
            BY <1>0, <1>1, <2>3, <3>1, PaidStays
        <3>2. CASE Strike
            BY <1>0, <1>1, <2>3, <3>2, PaidByFault DEF Strike
        <3> QED  BY <2>1, <3>1, <3>2
    <2>5. Awaiting'
        BY <1>0, <1>1, <2>1, <2>2, SMT, Z3 DEF Awaiting
    <2> QED  BY <1>0, <2>4, <2>5 DEF SpacedInv
<1>3. CASE CheckBalance
    <2>1. /\ gpos = "balance" /\ UNCHANGED <<wire, recent, greply>>
          /\ (gpos' = "send" /\ UNCHANGED todo) \/ gpos' = "loop"
          /\ faults' = faults \/ Strike
        BY <1>3 DEF CheckBalance, chainVars, troubleVars
    <2>2. greply = "none" /\ greply' = "none"
        BY <1>0, <2>1 DEF Awaiting
    <2>3. Lost' = Lost /\ Unknown' = Unknown
        BY <1>1, <2>1, NothingLost
    <2>4. Paid'
        <3>1. CASE faults' = faults
            BY <1>0, <1>1, <2>3, <3>1, PaidStays
        <3>2. CASE Strike
            BY <1>0, <1>1, <2>3, <3>2, PaidByFault DEF Strike
        <3> QED  BY <2>1, <3>1, <3>2
    <2>5. Awaiting'
        BY <1>0, <1>1, <2>1, <2>2, SMT, Z3 DEF Awaiting
    <2> QED  BY <1>0, <2>4, <2>5 DEF SpacedInv
<1>6. CASE Refill
    <2>1. /\ gpos = "send" /\ gpos' = "await" /\ wire' = wire \union {Topup}
          /\ UNCHANGED <<recent, greply, app, gnonce, gprice, todo, faults>>
        BY <1>6 DEF Refill, troubleVars
    <2>2. greply = "none" /\ greply' = "none"
        BY <1>0, <2>1 DEF Awaiting
    <2>3. Topup' = Topup
        BY <2>1 DEF Topup
    <2>4. Lost' \subseteq Lost
        BY <2>1, <2>3 DEF Lost
    <2>5. Unknown' \subseteq Unknown
        BY <1>1, <2>1, <2>2 DEF Unknown
    <2>6. Paid'
        BY <1>0, <1>1, <2>1, <2>4, <2>5, PaidStays
    <2>7. Awaiting'
        BY <1>0, <1>1, <2>1, <2>2 DEF Awaiting
    <2> QED  BY <1>0, <2>6, <2>7 DEF SpacedInv
<1>4. CASE RefillFails
    <2>1. /\ gpos = "await" /\ gpos' = "loop" /\ UNCHANGED <<wire, recent>> /\ greply' = "none"
          /\ (greply = "err" /\ UNCHANGED faults) \/ Strike
        BY <1>4 DEF RefillFails, chainVars, troubleVars
    <2>2. /\ greply # "none" => Lost' \subseteq Lost
          /\ Lost' \subseteq Lost \union {Topup}
          /\ greply # "ok" => Unknown' \subseteq Unknown
          /\ Unknown' \subseteq Unknown \union {Head(todo)}
        BY <1>0, <1>1, <2>1, StopsWaiting
    <2>3. Paid'
        <3>1. CASE greply = "err" /\ UNCHANGED faults
            BY <1>0, <1>1, <2>2, <3>1, PaidStays
        <3>2. CASE Strike /\ greply = "ok"
            BY <1>0, <1>1, <2>2, <3>2, PaidByFault DEF Strike
        <3>3. CASE Strike /\ greply # "ok"
            BY <1>0, <1>1, <2>2, <3>3, PaidByFault DEF Strike
        <3> QED  BY <2>1, <3>1, <3>2, <3>3
    <2>4. Awaiting'
        BY <1>0, <1>1, <2>1 DEF Awaiting
    <2> QED  BY <1>0, <2>3, <2>4 DEF SpacedInv
<1>5. CASE RefillSucceeds
    <2>1. /\ gpos = "await" /\ greply = "ok" /\ gpos' = "loop" /\ UNCHANGED wire /\ greply' = "none"
          /\ \/ recent' = [recent EXCEPT ![Head(todo)] = TopupWindow] /\ UNCHANGED faults
             \/ Strike /\ UNCHANGED recent
        BY <1>5 DEF RefillSucceeds, chainVars, troubleVars
    <2>2. /\ Lost' \subseteq Lost
          /\ UNCHANGED recent => Unknown' \subseteq Unknown \union {Head(todo)}
          /\ recent' = [recent EXCEPT ![Head(todo)] = TopupWindow] => Unknown' \subseteq Unknown
        BY <1>0, <1>1, <2>1, StopsWaiting
    <2>3. Paid'
        <3>1. CASE recent' = [recent EXCEPT ![Head(todo)] = TopupWindow] /\ UNCHANGED faults
            BY <1>0, <1>1, <2>2, <3>1, PaidStays
        <3>2. CASE Strike /\ UNCHANGED recent
            BY <1>0, <1>1, <2>2, <3>2, PaidByFault DEF Strike
        <3> QED  BY <2>1, <3>1, <3>2
    <2>4. Awaiting'
        BY <1>0, <1>1, <2>1 DEF Awaiting
    <2> QED  BY <1>0, <2>3, <2>4 DEF SpacedInv
<1> QED  BY <1>2, <1>3, <1>4, <1>5, <1>6 DEF Worker

\* The node takes a transaction from the wire.  A lost top-up that it accepts
\* makes its signer unknown, or comes early.  The one the worker waits for comes
\* early only if its signer was unknown, and the worker then has its answer.
LEMMA SpacedInvReceive ==
    ASSUME SpacedInv, NEW t \in wire, NEW accepts \in BOOLEAN, NodeReceive(t, accepts)
    PROVE  SpacedInv'
<1>0. TypeInv /\ Awaiting /\ Paid /\ TypeInv'
    <2>1. Next
        BY DEF Next
    <2>2. ~ Worker => TypeInv'
        BY <2>1, TypeInvOthers DEF SpacedInv
    <2>3. Worker => TypeInv'
        BY TypeInvWorker DEF SpacedInv
    <2> QED  BY <2>2, <2>3 DEF SpacedInv
<1>1. /\ UNCHANGED <<recent, gpos, app, todo, gnonce, gprice, spos, stx, faults>>
      /\ wire' = wire \ {t}
      /\ greply' = IF gpos = "await" /\ t = Topup THEN IF accepts THEN "ok" ELSE "err" ELSE greply
    BY DEF NodeReceive, NodeTakes, troubleVars
<1>2. Topup' = Topup
    BY <1>1 DEF Topup
<1>3. Awaiting'
    BY <1>0, <1>1, <1>2 DEF Awaiting
<1>4. Lost' = Lost \ {t}
    BY <1>1, <1>2 DEF Lost
<1>5. PICK topsUp \in BOOLEAN :
        /\ topsUp => accepts /\ t.body \in Signers
        /\ last' = [s \in Signers |-> IF topsUp /\ s = t.body /\ last[s] = TopupWindow THEN 0 ELSE last[s]]
        /\ extra' = IF topsUp /\ last[t.body] < TopupWindow THEN extra + 1 ELSE extra
    BY DEF NodeReceive
<1>6. last \in [Signers -> 0..TopupWindow] /\ recent \in [Signers -> 0..TopupWindow]
    BY <1>0 DEF TypeInv, TypeOK
<1>7. CASE ~ (gpos = "await" /\ t = Topup)
    <2>1. greply' = greply
        BY <1>1, <1>7
    <2>2. CASE ~ topsUp
        <3>1. extra' = extra
            BY <1>5, <2>2
        <3>2. \A s \in Signers : last'[s] = last[s]
            BY <1>5, <2>2
        <3>3. Unknown' \subseteq Unknown
            BY <1>1, <2>1, <3>2 DEF Unknown
        <3> QED  BY <1>0, <1>1, <1>3, <1>4, <3>1, <3>3, PaidStays DEF SpacedInv
    <2>3. CASE topsUp
        <3>1. t \in Lost
            BY <1>5, <1>7, <2>3 DEF Lost
        <3>2. CASE last[t.body] < TopupWindow
            <4>1. last[t.body] # TopupWindow
                BY <1>5, <1>6, <2>3, <3>2, TreasuryAssumption, SMT, Z3
            <4>2. \A s \in Signers : last'[s] = last[s]
                BY <1>5, <4>1
            <4>3. Unknown' \subseteq Unknown
                BY <1>1, <2>1, <4>2 DEF Unknown
            <4>4. extra' \in {extra, extra + 1}
                BY <1>5
            <4> QED  BY <1>0, <1>1, <1>3, <1>4, <3>1, <4>3, <4>4, PaidByTaking DEF SpacedInv
        <3>3. CASE ~ (last[t.body] < TopupWindow)
            <4>1. extra' = extra
                BY <1>5, <3>3
            <4>2. \A s \in Signers \ {t.body} : last'[s] = last[s]
                BY <1>5
            <4>3. Unknown' \subseteq Unknown \union {t.body}
                BY <1>1, <2>1, <4>2 DEF Unknown
            <4> QED  BY <1>0, <1>1, <1>3, <1>4, <3>1, <4>1, <4>3, PaidByTaking DEF SpacedInv
        <3> QED  BY <3>2, <3>3
    <2> QED  BY <2>2, <2>3
<1>8. CASE gpos = "await" /\ t = Topup
    <2>1. t.body = Head(todo) /\ Head(todo) \in Signers /\ recent[Head(todo)] = 0 /\ greply = "none"
        BY <1>0, <1>8, TopupIsTx DEF Awaiting
    <2>2. Lost' \subseteq Lost
        BY <1>4
    <2>3. CASE ~ topsUp
        <3>1. extra' = extra
            BY <1>5, <2>3
        <3>2. \A s \in Signers : last'[s] = last[s]
            BY <1>5, <2>3
        <3>3. Unknown' \subseteq Unknown
            BY <1>1, <2>1, <3>2 DEF Unknown
        <3> QED  BY <1>0, <1>1, <1>3, <2>2, <3>1, <3>3, PaidStays DEF SpacedInv
    <2>4. CASE topsUp
        <3>1. greply' = "ok"
            BY <1>1, <1>5, <1>8, <2>4
        <3>2. \A s \in Signers \ {Head(todo)} : last'[s] = last[s]
            BY <1>5, <2>1
        <3>3. Unknown' \subseteq Unknown \ {Head(todo)}
            BY <1>1, <1>8, <2>1, <3>1, <3>2 DEF Unknown
        <3>4. CASE last[t.body] < TopupWindow
            <4>1. recent[Head(todo)] + last[Head(todo)] < TopupWindow
                BY <1>6, <2>1, <3>4, TreasuryAssumption, SMT, Z3
            <4>2. Head(todo) \in Unknown
                BY <2>1, <4>1 DEF Unknown
            <4>3. extra' \in {extra, extra + 1}
                BY <1>5
            <4> QED  BY <1>0, <1>1, <1>3, <2>2, <3>3, <4>2, <4>3, PaidByTaking DEF SpacedInv
        <3>5. CASE ~ (last[t.body] < TopupWindow)
            <4>1. extra' = extra
                BY <1>5, <3>5
            <4> QED  BY <1>0, <1>1, <1>3, <2>2, <3>3, <4>1, PaidStays DEF SpacedInv
        <3> QED  BY <3>4, <3>5
    <2> QED  BY <2>3, <2>4
<1> QED  BY <1>7, <1>8

\* The other steps.  As time passes a row ceases to be recent no earlier than
\* the window of its top-up ends.
LEMMA SpacedInvOthers ==
    ASSUME SpacedInv, [Next]_vars, ~ Worker, ~ \E t \in wire, accepts \in BOOLEAN : NodeReceive(t, accepts)
    PROVE  SpacedInv'
<1>0. TypeInv /\ Awaiting /\ Paid /\ TypeInv'
    BY TypeInvOthers DEF SpacedInv
<1>1. ASSUME NEW k \in Sweeps, Sweep(k) PROVE SpacedInv'
    <2>1. UNCHANGED <<recent, gpos, app, todo, gnonce, gprice, greply, last, extra>>
        BY <1>1, ZenonT(60) DEF Sweep, SweepSign, SweepSend, SweepReturns, workerVars, historyVars
    <2>2. Topup' = Topup /\ Unknown' = Unknown
        BY <2>1 DEF Topup, Unknown
    <2>3. /\ faults' = faults \/ Strike
          /\ UNCHANGED wire \/ (spos[k] = "send" /\ wire' = wire \union {stx[k]})
        BY <1>1 DEF Sweep, SweepSign, SweepSend, SweepReturns, chainVars, troubleVars
    <2>4. spos[k] = "send" => stx[k].body = k
        BY <1>0 DEF Awaiting
    <2>5. k \notin Signers
        BY TreasuryAssumption
    <2>6. Lost' \subseteq Lost /\ (greply # "none" => Topup \notin wire')
        <3>1. gpos = "await" /\ spos[k] = "send" => stx[k] # Topup
            BY <1>0, <2>4, <2>5, TopupIsTx
        <3> QED  BY <1>0, <2>1, <2>2, <2>3, <2>4, <2>5, <3>1 DEF Lost, Awaiting
    <2>7. Paid'
        <3>1. CASE faults' = faults
            BY <1>0, <2>1, <2>2, <2>6, <3>1, PaidStays
        <3>2. CASE Strike
            BY <1>0, <2>1, <2>2, <2>6, <3>2, PaidByFault DEF Strike
        <3> QED  BY <2>3, <3>1, <3>2
    <2>8. ASSUME NEW j \in Sweeps, spos'[j] = "send" PROVE stx'[j].body = j
        <3>1. spos \in [Sweeps -> SweepPositions] /\ DOMAIN stx = Sweeps
            BY <1>0 DEF TypeInv, GapInv
        <3>2. CASE j # k
            <4>1. spos'[j] = spos[j] /\ stx'[j] = stx[j]
                BY <1>1, <3>1, <3>2 DEF Sweep, SweepSign, SweepSend, SweepReturns
            <4> QED  BY <1>0, <2>8, <4>1 DEF Awaiting
        <3>3. CASE j = k /\ SweepSign(k)
            <4> DEFINE a == TreasuryOf[SweptApp[k]]
            <4>1. stx' = [stx EXCEPT ![k] = [from |-> a, nonce |-> PendingNonceAt(a), body |-> k, price |-> price]]
                BY <3>3 DEF SweepSign
            <4>2. stx'[k] = [from |-> a, nonce |-> PendingNonceAt(a), body |-> k, price |-> price]
                BY <3>1, <4>1
            <4>3. stx'[k].body = k
                BY <4>2, SMT, Z3
            <4> QED  BY <3>3, <4>3
        <3>4. CASE j = k /\ ~ SweepSign(k)
            <4>1. spos'[k] # "send"
                BY <1>1, <3>1, <3>4 DEF Sweep, SweepSend, SweepReturns
            <4> QED  BY <2>8, <3>4, <4>1
        <3> QED  BY <3>2, <3>3, <3>4
    <2>9. Awaiting'
        BY <1>0, <2>1, <2>2, <2>6, <2>8 DEF Awaiting
    <2> QED  BY <1>0, <2>7, <2>9 DEF SpacedInv
<1>2. ASSUME \/ \E t \in mempool : NodeMines(t) \/ NodeEvicts(t)
             \/ \E s \in Signers : Drain(s)
             \/ PriceMoves \/ UNCHANGED vars
      PROVE  SpacedInv'
    <2>1. /\ UNCHANGED <<wire, recent, gpos, app, todo, gnonce, gprice, greply, spos, stx, last, extra>>
          /\ UNCHANGED faults \/ Strike
        BY <1>2, ZenonT(60) DEF NodeMines, Mine, NodeEvicts, Evict, Drain, PriceMoves,
               vars, chainVars, workerVars, sweepVars, troubleVars, historyVars
    <2>2. Topup' = Topup
        BY <2>1 DEF Topup
    <2>3. Lost' = Lost /\ Unknown' = Unknown
        BY <2>1, <2>2 DEF Lost, Unknown
    <2>4. Awaiting'
        BY <1>0, <2>1, <2>2 DEF Awaiting
    <2>5. Paid'
        <3>1. CASE UNCHANGED faults
            BY <1>0, <2>1, <2>3, <3>1, PaidStays
        <3>2. CASE Strike
            BY <1>0, <2>1, <2>3, <3>2, PaidByFault DEF Strike
        <3> QED  BY <2>1, <3>1, <3>2
    <2> QED  BY <1>0, <2>4, <2>5 DEF SpacedInv
<1>3. CASE Tock
    <2>1. /\ UNCHANGED <<wire, gpos, app, todo, gnonce, gprice, greply, spos, stx, faults, extra>>
          /\ recent' = [s \in Signers |-> IF recent[s] > 0 THEN recent[s] - 1 ELSE 0]
          /\ last' = [s \in Signers |-> IF last[s] < TopupWindow THEN last[s] + 1 ELSE last[s]]
        BY <1>3 DEF Tock, chainVars, workerVars, sweepVars, troubleVars
    <2>2. last \in [Signers -> 0..TopupWindow] /\ recent \in [Signers -> 0..TopupWindow]
        BY <1>0 DEF TypeInv, TypeOK
    <2>3. \A s \in Signers : recent'[s] + last'[s] < TopupWindow => recent[s] + last[s] < TopupWindow
        BY <2>1, <2>2, TreasuryAssumption, SMT, Z3
    <2>4. \A s \in Signers : recent[s] = 0 => recent'[s] = 0
        BY <2>1, <2>2, SMT, Z3
    <2>5. Topup' = Topup
        BY <2>1 DEF Topup
    <2>6. Lost' \subseteq Lost /\ Unknown' \subseteq Unknown
        BY <2>1, <2>3, <2>5 DEF Lost, Unknown
    <2>7. Awaiting'
        <3>1. gpos \in {"balance", "send", "await"} => Head(todo) \in Signers
            BY <1>0, TopupIsTx
        <3> QED  BY <1>0, <2>1, <2>4, <2>5, <3>1 DEF Awaiting
    <2> QED  BY <1>0, <2>1, <2>6, <2>7, PaidStays DEF SpacedInv
<1>4. CASE Crash
    <2>1. /\ UNCHANGED <<wire, recent, last, extra>> /\ gpos' = "idle" /\ greply' = "none" /\ Strike
          /\ spos' = [k \in Sweeps |-> IF spos[k] \in {"send", "await"} THEN "dead" ELSE spos[k]]
        BY <1>4 DEF Crash, chainVars, historyVars
    <2>2. Awaiting'
        BY <1>0, <2>1 DEF Awaiting
    <2>3. CASE gpos # "await"
        <3>1. Lost' = Lost /\ Unknown' = Unknown
            BY <2>1, <2>3, NothingLost
        <3> QED  BY <1>0, <2>1, <2>2, <3>1, PaidByFault DEF SpacedInv, Strike
    <2>4. CASE gpos = "await"
        <3>1. /\ greply # "none" => Lost' \subseteq Lost
              /\ Lost' \subseteq Lost \union {Topup}
              /\ greply # "ok" => Unknown' \subseteq Unknown
              /\ Unknown' \subseteq Unknown \union {Head(todo)}
            BY <1>0, <2>1, <2>4, StopsWaiting
        <3>2. CASE greply = "ok"
            BY <1>0, <2>1, <2>2, <3>1, <3>2, PaidByFault DEF SpacedInv, Strike
        <3>3. CASE greply # "ok"
            BY <1>0, <2>1, <2>2, <3>1, <3>3, PaidByFault DEF SpacedInv, Strike
        <3> QED  BY <3>2, <3>3
    <2> QED  BY <2>3, <2>4
<1> QED  BY <1>1, <1>2, <1>3, <1>4 DEF Next

\* A signer gets a second top-up within recentTopupWindow only as often as a
\* crash, a lost answer or a failed insert hid the first from hasRecentTopup.
THEOREM TreasuryTopupsSpaced == Spec => []TopupsSpaced
<1>1. SpacedInv /\ [Next]_vars => SpacedInv'
    BY SpacedInvWorker, SpacedInvReceive, SpacedInvOthers
<1>2. SpacedInv => TopupsSpaced
    <2> SUFFICES ASSUME SpacedInv PROVE TopupsSpaced
        OBVIOUS
    <2>1. Cardinality(Lost) \in Nat /\ Cardinality(Unknown) \in Nat
        BY FS_CardinalityType DEF SpacedInv, Paid
    <2> QED  BY <2>1, TreasuryAssumption, SMT, Z3 DEF SpacedInv, Paid, TopupsSpaced
<1> QED  BY <1>1, <1>2, SpacedInvInit, PTL DEF Spec

=============================================================================
