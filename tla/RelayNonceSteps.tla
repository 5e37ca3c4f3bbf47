-------------------------- MODULE RelayNonceSteps ---------------------------
(***************************************************************************)
(* The inductive invariant of the relay's nonces, and that every step      *)
(* keeps it.  RelayProofs draws the conclusions.                           *)
(***************************************************************************)
EXTENDS Relay, ChainProofs

USE Zenon

-----------------------------------------------------------------------------
(* Filled nonces *)

\* Gone[a]: the nonces of a above one whose transaction the node has evicted.
Gone == [a \in Accounts |-> {n \in Nat : \E t \in dropped : t.from = a /\ t.nonce < n}]

\* Filled[a]: the n such that the nonces of a below n are mined or pending,
\* but for those that were evicted.
Filled == [a \in Accounts |-> {n \in Nat : NoGap(a, n)}]

\* What no step takes back.
Keeps == \A a \in Accounts : Filled[a] \subseteq Filled'[a] /\ Gone[a] \subseteq Gone'[a]

\* A step that evicts nothing and frees no nonce keeps what is filled ...
LEMMA GrowsKeeps ==
    ASSUME ChainOK, ChainOK', Grows, UNCHANGED dropped
    PROVE  Keeps
<1>1. Gone' = Gone
    BY DEF Gone
<1>2. \A a \in Accounts, n \in Nat : NoGap(a, n) => NoGap(a, n)'
    BY NoGapStays
<1> QED  BY <1>1, <1>2 DEF Keeps, Filled

\* ... a step that does nothing to the node does ...
LEMMA QuietKeeps ==
    ASSUME UNCHANGED <<accountNonce, mempool, dropped>>
    PROVE  (ChainOK => ChainOK') /\ Keeps
<1>1. Gone' = Gone
    BY DEF Gone
<1> QED  BY <1>1, BelowUnchanged, NoGapUnchanged DEF Keeps, Filled

\* ... and so does an eviction.
LEMMA EvictKeeps ==
    ASSUME ChainOK, NEW t, Evict(t)
    PROVE  ChainOK' /\ Keeps
<1>1. \A a \in Accounts : Gone[a] \subseteq Gone'[a]
    BY DEF Gone, Evict
<1> QED  BY <1>1, NoGapAfterEvict DEF Keeps, Filled

\* What is filled has everything below it, or is above an evicted nonce.
LEMMA FilledOrGone ==
    ASSUME ChainOK, NEW a \in Accounts, NEW n \in Nat, n \in Filled[a]
    PROVE  Below(a, n) \/ n \in Gone[a]
<1>1. NoGap(a, n)
    BY DEF Filled
<1>2. ASSUME NEW m \in accountNonce[a]..(n - 1), Evicted(a, m) PROVE n \in Gone[a]
    <2>1. m < n
        BY SMT, Z3 DEF ChainOK
    <2> QED  BY <1>2, <2>1 DEF Evicted, Gone
<1> QED  BY <1>1, <1>2 DEF NoGap, Below

\* The nonces below n come before the first free one.
LEMMA BelowMeansNotFree ==
    ASSUME ChainOK, NEW a \in Accounts, NEW n \in Nat, Below(a, n)
    PROVE  n <= PendingNonceAt(a)
<1>1. /\ PendingNonceAt(a) \in Nat /\ PendingNonceAt(a) >= accountNonce[a] /\ accountNonce[a] \in Nat
      /\ PendingNonceAt(a) \notin PendingNonces(a)
    BY PendingNonceIsFirstFree DEF ChainOK
<1>2. ASSUME PendingNonceAt(a) < n PROVE FALSE
    <2>1. PendingNonceAt(a) \in accountNonce[a]..(n - 1)
        BY <1>1, <1>2, SMT, Z3
    <2> QED  BY <1>1, <2>1 DEF Below
<1> QED  BY <1>1, <1>2, SMT, Z3

-----------------------------------------------------------------------------
(* The inductive invariant *)

\* The positions before insertAttempt.
Unsigned == {"start", "pool", "reject", "quote", "attempt"}

\* What is known of the pool, the rows and the node without their nonces.
Steady ==
    /\ PoolTypeOK /\ LoadedBeforeCheckout /\ Exclusive
    /\ accountNonce \in [Accounts -> Nat]
    /\ mempool \subseteq Tx /\ wire \subseteq Tx /\ dropped \subseteq Tx
    /\ request \in [Callers -> RequestStatus]
    /\ tx \in [Callers -> Tx \union {NoTx}]
    /\ at \in [Callers -> SubmitPositions]
    /\ result \in [Callers -> {"none", "202", "400", "502"}]
    /\ \A t \in wire : \E c \in Callers : tx[c] = t /\ tx[c] # NoTx
    /\ \A c \in Callers :
         /\ Holding(c) => holds[c] \in SignersOf(AppOf[c])
         /\ at[c] \in Unsigned => tx[c] = NoTx /\ request[c] # "submitted"
         /\ at[c] = "attempt" => pc[c] = "held"
         /\ at[c] \in {"send", "await"} =>
              pc[c] = "reserved" /\ tx[c] # NoTx /\ result[c] # "202" /\ request[c] # "submitted"

\* The requests whose nonce is reserved and whose outcome is open.
InFlight == {c \in Callers : at[c] \in {"send", "await"}}

\* The requests that are acknowledged, or about to be, or marked as submitted.
Secured == {c \in Callers : at[c] = "mark" \/ result[c] = "202" \/ request[c] = "submitted"}

\* What was signed was the first free nonce, and more so what was accepted.
TxFilled ==
    \A c \in Callers :
        /\ tx[c] # NoTx => tx[c].nonce \in Filled[tx[c].from]
        /\ reply[c] = "ok" \/ c \in Secured => tx[c] # NoTx /\ tx[c].nonce + 1 \in Filled[tx[c].from]
        /\ at[c] \in Unsigned => reply[c] = "none" /\ result[c] # "202"

\* The counter of a signer is one ahead of the transaction in flight ...
CounterAhead ==
    \A c \in InFlight : holds[c] = tx[c].from /\ nonce[holds[c]] = tx[c].nonce + 1

\* ... and without one it is filled.
CounterFilled ==
    \A a \in LiveOf : nonce[a] \in Filled[a] \/ \E c \in InFlight : holds[c] = a

\* n is beyond the acknowledged nonces of a.
Beyond(a, n) ==
    \A c \in Secured : tx[c].from = a => n > tx[c].nonce \/ tx[c].nonce + 1 \in Gone[a]

CounterBeyond == \A a \in LiveOf : Beyond(a, nonce[a])

\* What a Load has read is filled, and beyond what is acknowledged unless the
\* app is loaded by now, when it will be dropped.
DraftsFilled ==
    \A c \in Callers : \A i \in 1..Len(draft[c]) :
        /\ draft[c][i] \in Filled[ListSigners[AppOf[c]][i]]
        /\ AppOf[c] \notin loaded => Beyond(ListSigners[AppOf[c]][i], draft[c][i])

\* No slot is acknowledged twice, or in flight again.
SlotsOnce ==
    \A c \in Secured, d \in Secured \union InFlight :
        c # d /\ SameSlot(tx[c], tx[d]) => tx[c].nonce + 1 \in Gone[tx[c].from]

NonceInv ==
    /\ IsFiniteSet(mempool)
    /\ TxFilled
    /\ CounterAhead
    /\ CounterFilled
    /\ CounterBeyond
    /\ DraftsFilled
    /\ SlotsOnce

\* The invariant holds at the start.
LEMMA NonceInitInv == Init => NonceInv
<1> SUFFICES ASSUME Init PROVE NonceInv
    OBVIOUS
<1>1. IsFiniteSet(mempool)
    BY FS_EmptySet DEF Init, ChainInit
<1>2. InFlight = {} /\ Secured = {} /\ LiveOf = {}
    BY DEF Init, PoolInit, InFlight, Secured, LiveOf
<1>3. TxFilled
    BY <1>2 DEF Init, TxFilled
<1>4. DraftsFilled
    BY SMT, Z3 DEF Init, PoolInit, DraftsFilled
<1> QED  BY <1>1, <1>2, <1>3, <1>4 DEF NonceInv, CounterAhead, CounterFilled, CounterBeyond, SlotsOnce

-----------------------------------------------------------------------------
(* The steps of the node, and what every step keeps *)

\* The mempool is as ChainProofs wants it.
LEMMA RelayChainOK == Steady /\ IsFiniteSet(mempool) => ChainOK
BY ChainAssumption DEF Steady, ChainOK, Numbered, Tx

\* No step takes a filled nonce back.
LEMMA EveryStepKeeps ==
    ASSUME Steady, IsFiniteSet(mempool), [Next]_vars
    PROVE  ChainOK' /\ Keeps
<1>0. ChainOK
    BY RelayChainOK
<1>1. ASSUME NEW t \in wire, NodeReceive(t) PROVE ChainOK' /\ Keeps
    <2>1. PICK accepts \in BOOLEAN : NodeTakes(t, accepts)
        BY <1>1 DEF NodeReceive
    <2>2. Numbered(t)
        BY ChainAssumption DEF Steady, Numbered, Tx
    <2> QED  BY <1>0, <2>1, <2>2, TakesGrows, GrowsKeeps DEF NodeTakes
<1>2. ASSUME NEW t \in mempool, NodeMines(t) PROVE ChainOK' /\ Keeps
    BY <1>0, <1>2, MineGrows, GrowsKeeps DEF NodeMines, Mine
<1>3. ASSUME NEW t \in mempool, NodeEvicts(t) PROVE ChainOK' /\ Keeps
    BY <1>0, <1>3, EvictKeeps DEF NodeEvicts
<1>4. CASE UNCHANGED <<accountNonce, mempool, dropped>>
    BY <1>0, <1>4, QuietKeeps
<1>5. ASSUME NEW c \in Callers, Submit(c) \/ ClientGone(c)
      PROVE  UNCHANGED <<accountNonce, mempool, dropped>>
    BY <1>5 DEF Submit, Refuse, InsertRequest, Load, LoadError, GetSigner, CheckoutError, Quote, Reject,
         InsertAttempt, Send, SendOk, SendError, MarkFailed, MarkSubmitted, Snapshot, Enqueue, Finish,
         ClientGone, chainVars
<1>6. Watcher \/ Crash \/ UNCHANGED vars => UNCHANGED <<accountNonce, mempool, dropped>>
    BY DEF Watcher, Tick, WatchSkip, WatchResolve, WatchSnapshot, WatchEnqueue, Crash, vars, chainVars
<1> QED  BY <1>1, <1>2, <1>3, <1>4, <1>5, <1>6 DEF Next

-----------------------------------------------------------------------------
(* Step by step *)

\* A step that gives out no nonce, takes none back and acknowledges nothing.
QuietStep ==
    /\ UNCHANGED <<tx, loaded, nonce>>
    /\ \A c \in Callers :
         /\ draft'[c] = draft[c] \/ draft'[c] = << >>
         /\ c \in InFlight => holds'[c] = holds[c]
         /\ reply'[c] = "ok" => reply[c] = "ok" \/ (tx[c] # NoTx /\ tx[c].nonce + 1 \in Filled'[tx[c].from])
         /\ at'[c] \in Unsigned => reply'[c] = "none" /\ result'[c] # "202"
    /\ InFlight' = InFlight
    /\ Secured' \subseteq Secured

\* The signers of an app are addresses, and an address has one app.
LEMMA AddressHasOneApp ==
    /\ \A p \in Apps : SignersOf(p) \subseteq Addresses
    /\ \A p, q \in Apps : \A a : a \in SignersOf(p) /\ a \in SignersOf(q) => p = q
BY PoolAssumption, AddressIsKey, SMT, Z3 DEF SignersOf

\* The signer at a place of a list is an account.
LEMMA ListedIsAccount ==
    ASSUME Steady, NEW c \in Callers, NEW i \in 1..Len(draft[c])
    PROVE  /\ ListSigners[AppOf[c]][i] \in Accounts /\ ListSigners[AppOf[c]][i] \in Addresses
           /\ i \in 1..Size(AppOf[c]) /\ draft[c][i] \in Nat
<1>1. draft[c] \in Seq(0..MaxNonce) /\ Len(draft[c]) <= Size(AppOf[c])
    BY DEF Steady, PoolTypeOK
<1>2. ListSigners[AppOf[c]] \in Seq(Addresses)
    BY PoolAssumption
<1>3. i \in 1..Size(AppOf[c])
    BY <1>1, <1>2, SMT, Z3 DEF Size
<1>4. draft[c][i] \in 0..MaxNonce
    BY <1>1, PoolAssumption, SMT, Z3
<1> QED  BY <1>2, <1>3, <1>4, RelayAssumption, PoolAssumption, SMT, Z3 DEF Size

\* What is known of the transactions and signers in play.
LEMMA Typed ==
    ASSUME Steady, NonceInv
    PROVE  /\ \A c \in Callers : tx[c] # NoTx => tx[c].from \in Accounts /\ tx[c].nonce \in Nat
           /\ \A c \in Secured : c \in Callers /\ tx[c] # NoTx
           /\ \A c \in InFlight : c \in Callers /\ tx[c] # NoTx /\ Holding(c) /\ result[c] # "202" /\ c \notin Secured
           /\ \A c \in Callers : Holding(c) => holds[c] \in LiveOf
           /\ LiveOf \subseteq Addresses /\ LiveOf \subseteq Accounts
           /\ nonce \in [Addresses -> Nat]
<1>1. \A c \in Callers : tx[c] # NoTx => tx[c].from \in Accounts /\ tx[c].nonce \in Nat
    BY ZenonT(40) DEF Steady, Tx
<1>2. \A c \in Secured : c \in Callers /\ tx[c] # NoTx
    BY DEF NonceInv, TxFilled, Secured
<1>3. \A c \in InFlight : c \in Callers /\ tx[c] # NoTx /\ Holding(c) /\ result[c] # "202" /\ c \notin Secured
    BY DEF Steady, InFlight, Secured, Holding
<1>4. \A c \in Callers : Holding(c) => holds[c] \in LiveOf
    BY AddressHasOneApp, PoolAssumption DEF Steady, LoadedBeforeCheckout, LiveOf
<1>5. nonce \in [Addresses -> Nat]
    BY PoolAssumption, SMT, Z3 DEF Steady, PoolTypeOK
<1> QED  BY <1>1, <1>2, <1>3, <1>4, <1>5, RelayAssumption DEF LiveOf

\* Slots stay used once when nothing is newly acknowledged or in flight.
LEMMA SlotsStay ==
    ASSUME Steady, NonceInv, Keeps, UNCHANGED tx, Secured' \subseteq Secured, InFlight' \subseteq InFlight
    PROVE  SlotsOnce'
<1> SUFFICES ASSUME NEW c \in Secured, NEW d \in Secured \union InFlight, c # d, SameSlot(tx[c], tx[d])
             PROVE  tx[c].nonce + 1 \in Gone'[tx[c].from]
    BY DEF SlotsOnce, SameSlot
<1>1. tx[c].from \in Accounts
    BY Typed
<1>2. tx[c].nonce + 1 \in Gone[tx[c].from]
    BY DEF NonceInv, SlotsOnce
<1> QED  BY <1>1, <1>2 DEF Keeps

\* Such a step keeps the invariant.
LEMMA QuietStepInv ==
    ASSUME Steady, NonceInv, ChainOK', Keeps, QuietStep
    PROVE  NonceInv'
<1>0. /\ \A c \in Callers : tx[c] # NoTx => tx[c].from \in Accounts /\ tx[c].nonce \in Nat
      /\ \A c \in Secured : c \in Callers /\ tx[c] # NoTx
      /\ \A c \in InFlight : c \in Callers /\ tx[c] # NoTx
      /\ LiveOf \subseteq Accounts
    BY Typed
<1>1. TxFilled'
    BY <1>0 DEF NonceInv, TxFilled, QuietStep, Keeps
<1>2. CounterAhead'
    BY <1>0 DEF NonceInv, CounterAhead, QuietStep
<1>3. LiveOf' = LiveOf
    BY DEF QuietStep, LiveOf
<1>4. CounterFilled'
    <2> SUFFICES ASSUME NEW a \in LiveOf
                 PROVE  nonce'[a] \in Filled'[a] \/ \E c \in InFlight' : holds'[c] = a
        BY <1>3 DEF CounterFilled
    <2>1. nonce[a] \in Filled[a] \/ \E c \in InFlight : holds[c] = a
        BY DEF NonceInv, CounterFilled
    <2>2. CASE nonce[a] \in Filled[a]
        BY <1>0, <2>2 DEF QuietStep, Keeps
    <2>3. CASE \E c \in InFlight : holds[c] = a
        BY <1>0, <2>3 DEF QuietStep
    <2> QED  BY <2>1, <2>2, <2>3
<1>5. CounterBeyond'
    BY <1>0, <1>3 DEF NonceInv, CounterBeyond, Beyond, QuietStep, Keeps
<1>6. DraftsFilled'
    <2> SUFFICES ASSUME NEW c \in Callers, NEW i \in 1..Len(draft'[c])
                 PROVE  /\ draft'[c][i] \in Filled'[ListSigners[AppOf[c]][i]]
                        /\ AppOf[c] \notin loaded' => Beyond(ListSigners[AppOf[c]][i], draft[c][i])'
        BY DEF DraftsFilled
    <2>1. draft'[c] = draft[c]
        BY SMT, Z3 DEF QuietStep
    <2>2. i \in 1..Len(draft[c]) /\ ListSigners[AppOf[c]][i] \in Accounts
        BY <2>1, ListedIsAccount
    <2> QED  BY <1>0, <2>1, <2>2 DEF NonceInv, DraftsFilled, Beyond, QuietStep, Keeps
<1>7. SlotsOnce'
    BY <1>0 DEF NonceInv, SlotsOnce, SameSlot, QuietStep, Keeps
<1> QED  BY <1>1, <1>2, <1>4, <1>5, <1>6, <1>7 DEF NonceInv, ChainOK

\* The node takes a transaction: an acceptance fills its nonce.
LEMMA ReceiveStep ==
    ASSUME Steady, NonceInv, ChainOK', Keeps, NEW t \in wire, NodeReceive(t)
    PROVE  NonceInv'
<1>1. PICK accepts \in BOOLEAN :
         /\ NodeTakes(t, accepts)
         /\ reply' = [c \in Callers |-> IF at[c] = "await" /\ tx[c] = t
                                        THEN IF accepts THEN "ok" ELSE "err"
                                        ELSE reply[c]]
    BY DEF NodeReceive
<1>2. UNCHANGED <<poolVars, dbVars, at, result>>
    BY DEF NodeReceive
<1>3. InFlight' = InFlight /\ Secured' = Secured
    BY <1>2 DEF InFlight, Secured, dbVars
<1>4. ASSUME accepts PROVE t.nonce + 1 \in Filled'[t.from]
    <2>1. t \in Tx /\ t.from \in Accounts /\ t.nonce \in Nat
        BY DEF Steady, Tx
    <2>2. PICK c \in Callers : tx[c] = t /\ tx[c] # NoTx
        BY DEF Steady
    <2>3. t.nonce \in Filled'[t.from]
        BY <2>1, <2>2 DEF NonceInv, TxFilled, Keeps
    <2>4. t.nonce \in PendingNonces(t.from)'
        BY <1>1, <1>4 DEF NodeTakes, PendingNonces
    <2>5. NoGap(t.from, t.nonce + 1)'
        BY <2>1, <2>3, <2>4, NoGapAfterPendingNext DEF Filled, GapsEndBelow
    <2>6. t.nonce + 1 \in Nat
        BY <2>1, SMT, Z3
    <2> QED  BY <2>1, <2>5, <2>6 DEF Filled
<1>5. \A c \in InFlight : tx[c] # NoTx
    BY Typed
<1>6. QuietStep
    BY <1>1, <1>2, <1>3, <1>4, <1>5 DEF QuietStep, poolVars, dbVars, NonceInv, TxFilled, InFlight, Unsigned
<1> QED  BY <1>6, QuietStepInv

\* The quiet steps of Submit.
LEMMA QuietSteps ==
    ASSUME Steady, NonceInv, NEW c \in Callers,
           \/ Refuse(c) \/ InsertRequest(c) \/ LoadError(c) \/ GetSigner(c) \/ CheckoutError(c)
           \/ Quote(c) \/ Reject(c) \/ Send(c) \/ MarkFailed(c) \/ MarkSubmitted(c)
           \/ Snapshot(c) \/ Enqueue(c) \/ Finish(c)
    PROVE  QuietStep
<1> USE DEF Move, Answer, Unsigned
<1>0. /\ at \in [Callers -> SubmitPositions] /\ result \in [Callers -> {"none", "202", "400", "502"}]
      /\ request \in [Callers -> RequestStatus]
      /\ draft \in [Callers -> Seq(0..MaxNonce)] /\ holds \in [Callers -> Addresses \union {NoSigner}]
      /\ \A d \in Callers : at[d] \in Unsigned => reply[d] = "none" /\ result[d] # "202"
    BY DEF Steady, PoolTypeOK, NonceInv, TxFilled
<1>1. UNCHANGED <<tx, reply>>
    BY DEF Refuse, InsertRequest, LoadError, GetSigner, CheckoutError, Quote, Reject, Send, MarkFailed,
           MarkSubmitted, Snapshot, Enqueue, Finish, dbVars
<1>2. /\ at[c] \notin {"send"} => at'[c] \notin {"send", "await", "mark"} /\ at[c] # "await"
      /\ at[c] = "send" => at'[c] = "await"
      /\ at'[c] \in Unsigned => at[c] \in Unsigned /\ result'[c] # "202"
      /\ result'[c] = "202" => at[c] = "mark" \/ result[c] = "202"
      /\ \A d \in Callers \ {c} : at'[d] = at[d] /\ result'[d] = result[d]
    BY <1>0 DEF Refuse, InsertRequest, LoadError, GetSigner, CheckoutError, Quote, Reject, Send, MarkFailed,
                MarkSubmitted, Snapshot, Enqueue, Finish
<1>a. /\ request'[c] = "submitted" => at[c] = "mark" \/ request[c] = "submitted"
      /\ \A d \in Callers \ {c} : request'[d] = request[d]
    <2>1. CASE InsertRequest(c)
        BY <1>0, <2>1 DEF InsertRequest, SetIf
    <2>2. CASE Reject(c)
        BY <1>0, <2>2 DEF Reject, SetIf
    <2>3. CASE MarkSubmitted(c)
        BY <1>0, <2>3 DEF MarkSubmitted, SetIf
    <2>4. ASSUME UNCHANGED request
          PROVE  /\ request'[c] = "submitted" => at[c] = "mark" \/ request[c] = "submitted"
                 /\ \A d \in Callers \ {c} : request'[d] = request[d]
        BY <2>4
    <2>5. CASE ~ (InsertRequest(c) \/ Reject(c) \/ MarkSubmitted(c))
        <3>1. UNCHANGED request
            BY <2>5 DEF Refuse, LoadError, GetSigner, CheckoutError, Quote, Send, MarkFailed, Snapshot, Enqueue,
               Finish, dbVars
        <3> QED  BY <2>4, <3>1
    <2> QED  BY <2>1, <2>2, <2>3, <2>5
<1>b. InFlight' = InFlight
    BY <1>2 DEF InFlight
<1>c. ASSUME NEW d \in Callers, d \in Secured' PROVE d \in Secured
    <2>1. CASE d = c
        BY <1>2, <1>a, <1>c, <2>1 DEF Secured
    <2>2. CASE d # c
        BY <1>2, <1>a, <1>c, <2>2 DEF Secured
    <2> QED  BY <2>1, <2>2
<1>3. InFlight' = InFlight /\ Secured' \subseteq Secured
    BY <1>b, <1>c DEF Secured
<1>4. /\ UNCHANGED <<loaded, nonce>>
      /\ \A d \in Callers : /\ draft'[d] = draft[d] \/ draft'[d] = << >>
                            /\ d \in InFlight => holds'[d] = holds[d]
    <2>1. CASE LoadError(c) \/ CheckoutError(c) \/ GetSigner(c)
        BY <1>0, <2>1 DEF LoadError, LoadFail, CheckoutError, CheckoutCancel, GetSigner, Checkout, Goto, InFlight
    <2>2. CASE Finish(c)
        BY <1>0, <2>2 DEF Finish, Release, poolVars, InFlight
    <2>3. CASE ~ (LoadError(c) \/ CheckoutError(c) \/ GetSigner(c) \/ Finish(c))
        BY <2>3 DEF Refuse, InsertRequest, Quote, Reject, Send, MarkFailed, MarkSubmitted, Snapshot, Enqueue, poolVars
    <2> QED  BY <2>1, <2>2, <2>3
<1> QED  BY <1>0, <1>1, <1>2, <1>3, <1>4 DEF QuietStep

\* The node answers that it has the transaction: the nonce is secured.
LEMMA SendOkStep ==
    ASSUME Steady, NonceInv, ChainOK', Keeps, NEW c \in Callers, SendOk(c)
    PROVE  NonceInv'
<1>0. /\ \A d \in Callers : tx[d] # NoTx => tx[d].from \in Accounts /\ tx[d].nonce \in Nat
      /\ \A d \in Secured : d \in Callers /\ tx[d] # NoTx
      /\ \A d \in InFlight : d \in Callers /\ tx[d] # NoTx /\ Holding(d) /\ d \notin Secured
      /\ \A d \in Callers : Holding(d) => holds[d] \in LiveOf
      /\ LiveOf \subseteq Accounts
      /\ nonce \in [Addresses -> Nat]
    BY Typed
<1>1. /\ reply[c] = "ok" /\ at[c] = "await" /\ at' = [at EXCEPT ![c] = "mark"]
      /\ UNCHANGED <<request, tx, loaded, nonce, draft, holds, reply, result>>
    BY DEF SendOk, Move, poolVars, dbVars
<1>2. c \in InFlight /\ InFlight' = InFlight \ {c} /\ Secured' = Secured \union {c} /\ LiveOf' = LiveOf
    BY <1>1, SMT, Z3 DEF Steady, InFlight, Secured, LiveOf
<1>3. /\ holds[c] = tx[c].from /\ nonce[tx[c].from] = tx[c].nonce + 1
      /\ tx[c].nonce + 1 \in Filled[tx[c].from] /\ tx[c] # NoTx
    BY <1>1, <1>2 DEF NonceInv, CounterAhead, TxFilled
<1>4. TxFilled'
    BY <1>0, <1>1, <1>2, <1>3, ZenonT(40) DEF Steady, NonceInv, TxFilled, Keeps, Unsigned
<1>5. CounterAhead'
    BY <1>1, <1>2 DEF NonceInv, CounterAhead
<1>6. CounterFilled'
    <2> SUFFICES ASSUME NEW a \in LiveOf
                 PROVE  nonce[a] \in Filled'[a] \/ \E d \in InFlight \ {c} : holds[d] = a
        BY <1>1, <1>2 DEF CounterFilled
    <2>1. nonce[a] \in Filled[a] \/ \E d \in InFlight : holds[d] = a
        BY DEF NonceInv, CounterFilled
    <2>2. holds[c] = a => nonce[a] \in Filled[a]
        BY <1>3
    <2> QED  BY <1>0, <2>1, <2>2 DEF Keeps
<1>7. CounterBeyond'
    <2> SUFFICES ASSUME NEW a \in LiveOf, NEW d \in Secured \union {c}, tx[d].from = a
                 PROVE  nonce[a] > tx[d].nonce \/ tx[d].nonce + 1 \in Gone'[a]
        BY <1>1, <1>2 DEF CounterBeyond, Beyond
    <2>1. CASE d = c
        <3>1. tx[c].nonce \in Nat /\ nonce[a] = tx[c].nonce + 1
            BY <1>0, <1>3, <2>1
        <3> QED  BY <2>1, <3>1, SMT, Z3
    <2>2. CASE d \in Secured
        <3>1. nonce[a] > tx[d].nonce \/ tx[d].nonce + 1 \in Gone[a]
            BY <2>2 DEF NonceInv, CounterBeyond, Beyond
        <3> QED  BY <1>0, <3>1 DEF Keeps
    <2> QED  BY <2>1, <2>2
<1>8. DraftsFilled'
    <2> SUFFICES ASSUME NEW e \in Callers, NEW i \in 1..Len(draft[e])
                 PROVE  /\ draft[e][i] \in Filled'[ListSigners[AppOf[e]][i]]
                        /\ AppOf[e] \notin loaded => Beyond(ListSigners[AppOf[e]][i], draft[e][i])'
        BY <1>1 DEF DraftsFilled
    <2>1. ListSigners[AppOf[e]][i] \in Accounts /\ ListSigners[AppOf[e]][i] \in SignersOf(AppOf[e])
        BY ListedIsAccount DEF SignersOf, Size
    <2>2. AppOf[e] \notin loaded => tx[c].from # ListSigners[AppOf[e]][i]
        <3>1. tx[c].from \in SignersOf(AppOf[c]) /\ AppOf[c] \in loaded
            BY <1>0, <1>2, <1>3 DEF Steady, LoadedBeforeCheckout
        <3> QED  BY <2>1, <3>1, AddressHasOneApp, PoolAssumption
    <2> QED  BY <1>0, <1>1, <1>2, <2>1, <2>2 DEF NonceInv, DraftsFilled, Beyond, Keeps
<1>9. SlotsOnce'
    <2> SUFFICES ASSUME NEW d \in Secured', NEW e \in Secured' \union InFlight', d # e, SameSlot(tx[d], tx[e])
                 PROVE  tx[d].nonce + 1 \in Gone'[tx[d].from]
        BY <1>1 DEF SlotsOnce, SameSlot
    <2>1. CASE d # c
        BY <1>0, <1>2, <2>1 DEF NonceInv, SlotsOnce, Keeps
    <2>2. CASE d = c /\ e \in Secured
        BY <1>0, <1>2, <2>2 DEF NonceInv, SlotsOnce, SameSlot, Keeps
    <2>3. CASE d = c /\ e \in InFlight
        BY <1>0, <1>2, <1>3, <2>3, SMTT(30), Z3T(30) DEF Steady, NonceInv, CounterAhead, SameSlot, Exclusive
    <2> QED  BY <1>2, <2>1, <2>2, <2>3
<1> QED  BY <1>4, <1>5, <1>6, <1>7, <1>8, <1>9 DEF NonceInv, ChainOK

\* The transaction was not taken, or nobody knows: the nonce goes back.
LEMMA SendErrorStep ==
    ASSUME Steady, NonceInv, ChainOK', Keeps, NEW c \in Callers, SendError(c)
    PROVE  NonceInv'
<1>0. /\ \A d \in Callers : tx[d] # NoTx => tx[d].from \in Accounts /\ tx[d].nonce \in Nat
      /\ \A d \in Secured : d \in Callers /\ tx[d] # NoTx
      /\ \A d \in InFlight : d \in Callers /\ tx[d] # NoTx /\ Holding(d) /\ d \notin Secured
      /\ \A d \in Callers : Holding(d) => holds[d] \in LiveOf
      /\ LiveOf \subseteq Accounts /\ LiveOf \subseteq Addresses
      /\ nonce \in [Addresses -> Nat]
    BY Typed
<1>1. /\ at[c] \in {"send", "await"} /\ at' = [at EXCEPT ![c] = "fail"]
      /\ result' = [result EXCEPT ![c] = "502"]
      /\ nonce' = [nonce EXCEPT ![holds[c]] = Dec(@)]
      /\ UNCHANGED <<request, tx, loaded, draft, holds, reply>>
    BY DEF SendError, RewindNonce, Answer, dbVars
<1>2. c \in InFlight /\ InFlight' = InFlight \ {c} /\ Secured' = Secured /\ LiveOf' = LiveOf
    <2>1. c \in InFlight /\ c \notin Secured /\ at[c] # "mark" /\ result[c] # "202"
        BY <1>0, <1>1 DEF InFlight, Secured
    <2> QED  BY <1>1, <2>1 DEF Steady, InFlight, Secured, LiveOf
<1>3. /\ holds[c] = tx[c].from /\ nonce[tx[c].from] = tx[c].nonce + 1
      /\ tx[c] # NoTx /\ tx[c].nonce \in Filled[tx[c].from]
    BY <1>0, <1>2 DEF NonceInv, CounterAhead, TxFilled
<1>4. nonce'[tx[c].from] = tx[c].nonce /\ \A a \in Addresses : a # tx[c].from => nonce'[a] = nonce[a]
    <2>1. tx[c].from \in Addresses /\ tx[c].nonce \in Nat
        BY <1>0, <1>2, <1>3
    <2> QED  BY <1>0, <1>1, <1>3, <2>1, SMT, Z3 DEF Dec
<1>5. TxFilled'
    <2> SUFFICES ASSUME NEW d \in Callers
                 PROVE  /\ tx[d] # NoTx => tx[d].nonce \in Filled'[tx[d].from]
                        /\ reply[d] = "ok" \/ d \in Secured => tx[d] # NoTx /\ tx[d].nonce + 1 \in Filled'[tx[d].from]
                        /\ at'[d] \in Unsigned => reply[d] = "none" /\ result'[d] # "202"
        BY <1>1, <1>2 DEF TxFilled
    <2>1. at'[d] \in Unsigned => at[d] \in Unsigned /\ d # c
        BY <1>1 DEF Steady, Unsigned
    <2>2. d # c => result'[d] = result[d]
        BY <1>1 DEF Steady
    <2> QED  BY <1>0, <2>1, <2>2 DEF NonceInv, TxFilled, Keeps
<1>6. CounterAhead'
    <2> SUFFICES ASSUME NEW d \in InFlight, d # c
                 PROVE  holds[d] = tx[d].from /\ nonce'[holds[d]] = tx[d].nonce + 1
        BY <1>1, <1>2 DEF CounterAhead
    <2>1. holds[d] # holds[c]
        BY <1>0, <1>2 DEF Steady, Exclusive
    <2> QED  BY <1>0, <1>3, <1>4, <2>1 DEF NonceInv, CounterAhead
<1>7. CounterFilled'
    <2> SUFFICES ASSUME NEW a \in LiveOf
                 PROVE  nonce'[a] \in Filled'[a] \/ \E d \in InFlight \ {c} : holds[d] = a
        BY <1>1, <1>2 DEF CounterFilled
    <2>1. nonce[a] \in Filled[a] \/ \E d \in InFlight : holds[d] = a
        BY DEF NonceInv, CounterFilled
    <2>2. a = tx[c].from => nonce'[a] \in Filled[a]
        BY <1>3, <1>4
    <2>3. a # tx[c].from => nonce'[a] = nonce[a] /\ holds[c] # a
        BY <1>0, <1>3, <1>4
    <2> QED  BY <1>0, <2>1, <2>2, <2>3 DEF Keeps
<1>8. CounterBeyond'
    <2> SUFFICES ASSUME NEW a \in LiveOf, NEW d \in Secured, tx[d].from = a
                 PROVE  nonce'[a] > tx[d].nonce \/ tx[d].nonce + 1 \in Gone'[a]
        BY <1>1, <1>2 DEF CounterBeyond, Beyond
    <2>1. nonce[a] > tx[d].nonce \/ tx[d].nonce + 1 \in Gone[a]
        BY DEF NonceInv, CounterBeyond, Beyond
    <2>2. CASE a # tx[c].from
        BY <1>0, <1>4, <2>1, <2>2 DEF Keeps
    <2>3. CASE a = tx[c].from /\ tx[d].nonce = tx[c].nonce
        <3>1. d # c /\ SameSlot(tx[d], tx[c])
            BY <1>0, <1>2, <2>3 DEF SameSlot
        <3>2. tx[d].nonce + 1 \in Gone[tx[d].from]
            BY <1>2, <3>1 DEF NonceInv, SlotsOnce
        <3> QED  BY <1>0, <3>2 DEF Keeps
    <2>4. CASE a = tx[c].from /\ tx[d].nonce # tx[c].nonce
        BY <1>0, <1>2, <1>3, <1>4, <2>1, <2>4, SMTT(30), Z3T(30) DEF Keeps
    <2> QED  BY <2>2, <2>3, <2>4
<1>9. DraftsFilled'
    <2> SUFFICES ASSUME NEW e \in Callers, NEW i \in 1..Len(draft[e])
                 PROVE  /\ draft[e][i] \in Filled'[ListSigners[AppOf[e]][i]]
                        /\ AppOf[e] \notin loaded => Beyond(ListSigners[AppOf[e]][i], draft[e][i])'
        BY <1>1 DEF DraftsFilled
    <2>1. ListSigners[AppOf[e]][i] \in Accounts
        BY ListedIsAccount
    <2> QED  BY <1>0, <1>1, <1>2, <2>1 DEF NonceInv, DraftsFilled, Beyond, Keeps
<1>10. SlotsOnce'
    BY <1>0, <1>1, <1>2, SlotsStay
<1> QED  BY <1>5, <1>6, <1>7, <1>8, <1>9, <1>10 DEF NonceInv, ChainOK

\* The nonce c is about to sign with is filled, and no other request has it.
LEMMA HeldIsFilled ==
    ASSUME Steady, NonceInv, NEW c \in Callers, at[c] = "attempt"
    PROVE  /\ holds[c] \in LiveOf /\ nonce[holds[c]] \in Filled[holds[c]]
           /\ \A d \in InFlight : holds[d] # holds[c]
<1>1. Holding(c) /\ c \notin InFlight
    BY DEF Steady, Holding, InFlight
<1>2. \A d \in InFlight : d \in Callers /\ Holding(d)
    BY Typed
<1>3. \A d \in InFlight : holds[d] # holds[c]
    BY <1>1, <1>2 DEF Steady, Exclusive
<1> QED  BY <1>1, <1>3, Typed DEF NonceInv, CounterFilled

\* insertAttempt: the row has a filled nonce, and the counter moves on if the
\* insert succeeded.
LEMMA InsertStep ==
    ASSUME Steady, NonceInv, ChainOK', Keeps, NEW c \in Callers, NEW p \in Prices, InsertAttempt(c, p)
    PROVE  NonceInv'
<1>0. /\ \A d \in Callers : tx[d] # NoTx => tx[d].from \in Accounts /\ tx[d].nonce \in Nat
      /\ \A d \in Secured : d \in Callers /\ tx[d] # NoTx
      /\ \A d \in InFlight : d \in Callers /\ tx[d] # NoTx /\ Holding(d) /\ d \notin Secured
      /\ LiveOf \subseteq Accounts /\ LiveOf \subseteq Addresses
      /\ nonce \in [Addresses -> Nat]
    BY Typed
<1>1. PICK a, n, t : a = holds[c] /\ n = nonce[holds[c]] /\ t = Signed(c, p)
    OBVIOUS
<1>2. at[c] = "attempt"
    BY DEF InsertAttempt
<1>3. /\ a \in LiveOf /\ a \in Accounts /\ a \in Addresses /\ n \in Nat /\ n \in Filled[a]
      /\ nonce[a] = n /\ \A d \in InFlight : holds[d] # a
    BY <1>0, <1>1, <1>2, HeldIsFilled
<1>4. t.from = a /\ t.nonce = n
    BY <1>1 DEF Signed
<1>5. /\ at' = [at EXCEPT ![c] = at'[c]] /\ at'[c] \in {"send", "release"}
      /\ result'[c] # "202" /\ \A d \in Callers : d # c => result'[d] = result[d]
      /\ tx' = tx \/ tx' = [tx EXCEPT ![c] = t]
      /\ at'[c] = "send" => tx' = [tx EXCEPT ![c] = t]
      /\ UNCHANGED <<request, loaded, draft, holds, reply>>
      /\ at'[c] = "send" => nonce' = [nonce EXCEPT ![a] = Inc(@)] /\ n < MaxNonce
      /\ at'[c] # "send" => nonce' = nonce
    <2>1. result[c] # "202" /\ at \in [Callers -> SubmitPositions] /\ result \in [Callers -> {"none", "202", "400", "502"}]
        BY <1>2 DEF Steady, NonceInv, TxFilled, Unsigned
    <2> QED  BY <1>1, <1>2, <2>1 DEF InsertAttempt, UseNonce, Move, Answer, NewAttempt, poolVars
<1>6. /\ c \notin InFlight /\ c \notin Secured /\ Secured' = Secured /\ LiveOf' = LiveOf
      /\ at'[c] = "send" => InFlight' = InFlight \union {c}
      /\ at'[c] # "send" => InFlight' = InFlight
    <2>1. result[c] # "202" /\ request[c] # "submitted" /\ at \in [Callers -> SubmitPositions]
        BY <1>2 DEF Steady, NonceInv, TxFilled, Unsigned
    <2> QED  BY <1>2, <1>5, <2>1 DEF InFlight, Secured, LiveOf
<1>7. /\ \A d \in Callers : d # c => tx'[d] = tx[d]
      /\ tx'[c] = tx[c] \/ tx'[c] = t
      /\ at'[c] = "send" => tx'[c] = t
    <2>1. tx \in [Callers -> Tx \union {NoTx}]
        BY DEF Steady
    <2> QED  BY <1>5, <2>1
<1>8. /\ at'[c] = "send" => nonce'[a] = n + 1
      /\ \A b \in Addresses : b # a => nonce'[b] = nonce[b]
      /\ nonce'[a] \in {n, n + 1}
    <2>1. n < MaxNonce => Inc(n) = n + 1
        BY <1>3, PoolAssumption, SMT, Z3 DEF Inc
    <2> QED  BY <1>0, <1>3, <1>5, <2>1
<1>9. TxFilled'
    <2> SUFFICES ASSUME NEW d \in Callers
                 PROVE  /\ tx'[d] # NoTx => tx'[d].nonce \in Filled'[tx'[d].from]
                        /\ reply'[d] = "ok" \/ d \in Secured' => tx'[d] # NoTx /\ tx'[d].nonce + 1 \in Filled'[tx'[d].from]
                        /\ at'[d] \in Unsigned => reply'[d] = "none" /\ result'[d] # "202"
        BY DEF TxFilled
    <2>1. CASE d # c
        <3>1. at'[d] = at[d] /\ reply'[d] = reply[d] /\ tx'[d] = tx[d] /\ result'[d] = result[d]
            BY <1>5, <1>7, <2>1 DEF Steady
        <3> QED  BY <1>0, <1>6, <3>1 DEF NonceInv, TxFilled, Keeps
    <2>2. CASE d = c
        <3>1. reply[c] = "none" /\ tx[c] = NoTx /\ at'[c] \notin Unsigned
            BY <1>2, <1>5 DEF Steady, NonceInv, TxFilled, Unsigned
        <3> QED  BY <1>3, <1>4, <1>5, <1>6, <1>7, <2>2, <3>1, SMTT(30), Z3T(30) DEF Keeps
    <2> QED  BY <2>1, <2>2
<1>10. CounterAhead'
    <2> SUFFICES ASSUME NEW d \in InFlight'
                 PROVE  holds[d] = tx'[d].from /\ nonce'[holds[d]] = tx'[d].nonce + 1
        BY <1>5 DEF CounterAhead
    <2>1. CASE d = c
        BY <1>1, <1>3, <1>4, <1>6, <1>7, <1>8, <2>1
    <2>2. CASE d # c
        <3>1. d \in InFlight /\ tx'[d] = tx[d] /\ holds[d] # a
            BY <1>0, <1>3, <1>6, <1>7, <2>2
        <3>2. holds[d] \in Addresses
            BY <1>0, <3>1, Typed
        <3> QED  BY <1>8, <3>1, <3>2 DEF NonceInv, CounterAhead
    <2> QED  BY <2>1, <2>2
<1>11. CounterFilled'
    BY <1>0, <1>1, <1>3, <1>5, <1>6, <1>8, ZenonT(40) DEF NonceInv, CounterFilled, Keeps
<1>12. CounterBeyond'
    <2> SUFFICES ASSUME NEW b \in LiveOf, NEW d \in Secured, tx[d].from = b
                 PROVE  nonce'[b] > tx[d].nonce \/ tx[d].nonce + 1 \in Gone'[b]
        BY <1>6, <1>7, <1>0 DEF CounterBeyond, Beyond
    <2>1. nonce[b] > tx[d].nonce \/ tx[d].nonce + 1 \in Gone[b]
        BY DEF NonceInv, CounterBeyond, Beyond
    <2>2. nonce'[b] >= nonce[b] /\ nonce[b] \in Nat /\ nonce'[b] \in Nat /\ tx[d].nonce \in Nat
        BY <1>0, <1>3, <1>8, SMTT(30), Z3T(30)
    <2>3. CASE nonce[b] > tx[d].nonce
        BY <2>2, <2>3, SMT, Z3
    <2>4. CASE tx[d].nonce + 1 \in Gone[b]
        BY <1>0, <2>4, ZenonT(40) DEF Keeps
    <2> QED  BY <2>1, <2>3, <2>4
<1>13. DraftsFilled'
    <2> SUFFICES ASSUME NEW e \in Callers, NEW i \in 1..Len(draft[e])
                 PROVE  /\ draft[e][i] \in Filled'[ListSigners[AppOf[e]][i]]
                        /\ AppOf[e] \notin loaded => Beyond(ListSigners[AppOf[e]][i], draft[e][i])'
        BY <1>5 DEF DraftsFilled
    <2>1. ListSigners[AppOf[e]][i] \in Accounts
        BY ListedIsAccount
    <2>2. \A d \in Secured' : tx'[d] = tx[d] /\ d \in Secured
        BY <1>0, <1>6, <1>7
    <2>3. draft[e][i] \in Filled[ListSigners[AppOf[e]][i]]
        BY DEF NonceInv, DraftsFilled
    <2>4. ASSUME AppOf[e] \notin loaded
          PROVE  \A d \in Secured : tx[d].from = ListSigners[AppOf[e]][i]
                    => draft[e][i] > tx[d].nonce \/ tx[d].nonce + 1 \in Gone[ListSigners[AppOf[e]][i]]
        BY <2>4 DEF NonceInv, DraftsFilled, Beyond
    <2>5. ASSUME AppOf[e] \notin loaded PROVE Beyond(ListSigners[AppOf[e]][i], draft[e][i])'
        <3>1. UNCHANGED draft
            BY <1>5
        <3> QED  BY <2>1, <2>2, <2>4, <2>5, <3>1 DEF Beyond, Keeps
    <2> QED  BY <2>1, <2>3, <2>5 DEF Keeps
<1>14. SlotsOnce'
    <2> SUFFICES ASSUME NEW d \in Secured, NEW e \in Secured \union InFlight', d # e, SameSlot(tx'[d], tx'[e])
                 PROVE  tx'[d].nonce + 1 \in Gone'[tx'[d].from]
        BY <1>6 DEF SlotsOnce, SameSlot
    <2>1. tx'[d] = tx[d] /\ d \in Callers /\ tx[d].from \in Accounts /\ tx[d].nonce \in Nat
        BY <1>0, <1>6, <1>7
    <2>2. CASE e # c
        <3>1. e \in Secured \union InFlight /\ tx'[e] = tx[e]
            BY <1>0, <1>6, <1>7, <2>2
        <3> QED  BY <2>1, <3>1 DEF NonceInv, SlotsOnce, SameSlot, Keeps
    <2>3. CASE e = c
        <3>1. tx'[e] = t /\ tx[d].from = a /\ tx[d].nonce = n
            BY <1>4, <1>6, <1>7, <2>1, <2>3 DEF SameSlot
        <3>2. tx[d].nonce + 1 \in Gone[a]
            BY <1>3, <2>1, <3>1, SMT, Z3 DEF NonceInv, CounterBeyond, Beyond
        <3> QED  BY <1>3, <2>1, <3>1, <3>2 DEF Keeps
    <2> QED  BY <2>2, <2>3
<1> QED  BY <1>9, <1>10, <1>11, <1>12, <1>13, <1>14 DEF NonceInv, ChainOK

\* Load reads a nonce: it is the first free one.
LEMMA FetchStep ==
    ASSUME Steady, NonceInv, ChainOK', Keeps, NEW c \in Callers,
           Len(draft[c]) < Size(AppOf[c]),
           LoadSigner(c, PendingNonceAt(ListSigners[AppOf[c]][Len(draft[c]) + 1])),
           UNCHANGED <<request, tx, at, result, reply>>
    PROVE  NonceInv'
<1>0. /\ \A d \in Callers : tx[d] # NoTx => tx[d].from \in Accounts /\ tx[d].nonce \in Nat
      /\ \A d \in Secured : d \in Callers /\ tx[d] # NoTx
      /\ \A d \in InFlight : d \in Callers /\ tx[d] # NoTx
      /\ LiveOf \subseteq Accounts
    BY Typed
<1>1. /\ draft[c] \in Seq(0..MaxNonce) /\ draft \in [Callers -> Seq(0..MaxNonce)]
      /\ ListSigners[AppOf[c]] \in Seq(Addresses) /\ AppOf[c] \in Apps
    BY PoolAssumption DEF Steady, PoolTypeOK
<1>2. PICK k, a, n : k = Len(draft[c]) + 1 /\ a = ListSigners[AppOf[c]][k] /\ n = PendingNonceAt(a)
    OBVIOUS
<1>3. k \in Nat /\ k >= 1 /\ k \in 1..Size(AppOf[c]) /\ Len(draft[c]) \in Nat
    BY <1>1, <1>2, SMTT(30), Z3T(30) DEF Size
<1>4. a \in Accounts
    BY <1>1, <1>2, <1>3, RelayAssumption, SMT, Z3 DEF Size
<1>5. ChainOK
    BY RelayChainOK DEF NonceInv
<1>6. n \in Nat /\ Below(a, n)
    BY <1>2, <1>4, <1>5, PendingNonceIsFirstFree
<1>7. n \in Filled[a]
    BY <1>4, <1>6, BelowHasNoGap, ZenonT(40) DEF Filled
<1>8. Beyond(a, n)
    <2> SUFFICES ASSUME NEW d \in Secured, tx[d].from = a
                 PROVE  n > tx[d].nonce \/ tx[d].nonce + 1 \in Gone[a]
        BY DEF Beyond
    <2>1. tx[d].nonce \in Nat /\ tx[d].nonce + 1 \in Nat /\ tx[d].nonce + 1 \in Filled[a]
        BY <1>0, SMT, Z3 DEF NonceInv, TxFilled
    <2>2. Below(a, tx[d].nonce + 1) \/ tx[d].nonce + 1 \in Gone[a]
        BY <1>4, <1>5, <2>1, FilledOrGone
    <2>3. Below(a, tx[d].nonce + 1) => tx[d].nonce + 1 <= PendingNonceAt(a)
        BY <1>4, <1>5, <2>1, BelowMeansNotFree
    <2> QED  BY <1>2, <1>6, <2>1, <2>2, <2>3, SMTT(30), Z3T(30)
<1>9. UNCHANGED <<loaded, nonce, holds>> /\ draft' = [draft EXCEPT ![c] = Append(draft[c], n)]
    BY <1>2 DEF LoadSigner
<1>10. InFlight' = InFlight /\ Secured' = Secured /\ LiveOf' = LiveOf
    BY <1>9 DEF InFlight, Secured, LiveOf
<1>11. TxFilled'
    BY <1>0, <1>10 DEF NonceInv, TxFilled, Keeps
<1>12. CounterAhead' /\ CounterFilled'
    BY <1>0, <1>9, <1>10 DEF NonceInv, CounterAhead, CounterFilled, Keeps
<1>13. CounterBeyond'
    BY <1>0, <1>9, <1>10 DEF NonceInv, CounterBeyond, Beyond, Keeps
<1>14. DraftsFilled'
    <2> SUFFICES ASSUME NEW e \in Callers, NEW i \in 1..Len(draft'[e])
                 PROVE  /\ draft'[e][i] \in Filled'[ListSigners[AppOf[e]][i]]
                        /\ AppOf[e] \notin loaded => Beyond(ListSigners[AppOf[e]][i], draft[e][i])'
        BY <1>9, ZenonT(40) DEF DraftsFilled
    <2>1. CASE e = c /\ i = k
        <3>1. draft'[e][i] = n
            BY <1>1, <1>2, <1>3, <1>6, <1>9, <2>1, SMTT(30), Z3T(30)
        <3>2. \A d \in Secured : tx[d].from = a => n > tx[d].nonce \/ tx[d].nonce + 1 \in Gone[a]
            BY <1>8 DEF Beyond
        <3>3. ListSigners[AppOf[e]][i] = a
            BY <1>2, <2>1
        <3>4. Beyond(ListSigners[AppOf[e]][i], draft[e][i])'
            BY <1>0, <1>4, <1>10, <3>1, <3>2, <3>3 DEF Beyond, Keeps
        <3> QED  BY <1>4, <1>7, <3>1, <3>3, <3>4 DEF Keeps
    <2>2. CASE e # c \/ i # k
        <3>1. i \in 1..Len(draft[e]) /\ draft'[e][i] = draft[e][i]
            <4>1. CASE e # c
                BY <1>1, <1>9, <4>1
            <4>2. CASE e = c
                <5>1. draft'[c] = Append(draft[c], n)
                    BY <1>1, <1>9
                <5> QED  BY <1>1, <1>2, <1>3, <2>2, <4>2, <5>1, SMTT(30), Z3T(30)
            <4> QED  BY <4>1, <4>2
        <3>2. ListSigners[AppOf[e]][i] \in Accounts
            BY <3>1, ListedIsAccount
        <3> QED  BY <1>0, <1>10, <3>1, <3>2 DEF NonceInv, DraftsFilled, Beyond, Keeps
    <2> QED  BY <2>1, <2>2
<1>15. SlotsOnce'
    BY <1>0, <1>10, SlotsStay
<1> QED  BY <1>11, <1>12, <1>13, <1>14, <1>15 DEF NonceInv, ChainOK

\* The first loader installs its pool: its nonces are filled, and nobody has
\* used the signers since it read them.
LEMMA InstallsStep ==
    ASSUME Steady, NonceInv, ChainOK', Keeps, NEW c \in Callers,
           LoadInstall(c), AppOf[c] \notin loaded, UNCHANGED <<request, tx, at, result, reply>>
    PROVE  NonceInv'
<1>0. /\ \A d \in Callers : tx[d] # NoTx => tx[d].from \in Accounts /\ tx[d].nonce \in Nat
      /\ \A d \in Secured : d \in Callers /\ tx[d] # NoTx
      /\ \A d \in InFlight : d \in Callers /\ tx[d] # NoTx /\ Holding(d)
      /\ \A d \in Callers : Holding(d) => holds[d] \in LiveOf
      /\ LiveOf \subseteq Accounts /\ LiveOf \subseteq Addresses
    BY Typed
<1>1. PICK p : p = AppOf[c]
    OBVIOUS
<1>2. p \in Apps /\ p \notin loaded /\ loaded \subseteq Apps /\ ListSigners[p] \in Seq(Addresses)
    BY <1>1, PoolAssumption DEF Steady, PoolTypeOK
<1>3. /\ Len(draft[c]) = Size(p) /\ draft' = [draft EXCEPT ![c] = << >>] /\ holds' = holds
      /\ loaded' = loaded \union {p}
      /\ nonce' = [a \in Addresses |-> IF a \in SignersOf(p)
                                       THEN draft[c][CHOOSE i \in 1..Size(p) : ListSigners[p][i] = a]
                                       ELSE nonce[a]]
    BY <1>1, <1>2, ZenonT(40) DEF LoadInstall, Install
<1>4. InFlight' = InFlight /\ Secured' = Secured /\ LiveOf' = LiveOf \union SignersOf(p)
    BY <1>2, <1>3, AddressHasOneApp DEF InFlight, Secured, LiveOf
<1>5. ASSUME NEW a \in LiveOf PROVE a \notin SignersOf(p) /\ nonce'[a] = nonce[a]
    BY <1>0, <1>2, <1>3, <1>5, AddressHasOneApp DEF LiveOf
<1>6. ASSUME NEW a \in SignersOf(p) PROVE nonce'[a] \in Filled[a] /\ Beyond(a, nonce'[a])
    <2>1. a \in Addresses /\ a \in Accounts
        BY <1>2, AddressHasOneApp, RelayAssumption
    <2>2. PICK i \in 1..Size(p) : i = CHOOSE j \in 1..Size(p) : ListSigners[p][j] = a
        BY DEF SignersOf, Size
    <2>3. ListSigners[p][i] = a
        BY <2>2 DEF SignersOf, Size
    <2>4. nonce'[a] = draft[c][i] /\ i \in 1..Len(draft[c])
        BY <1>3, <2>1, <2>2
    <2>5. draft[c][i] \in Filled[a] /\ Beyond(a, draft[c][i])
        BY <1>1, <1>2, <2>3, <2>4 DEF NonceInv, DraftsFilled
    <2> QED  BY <2>4, <2>5
<1>7. TxFilled'
    BY <1>0, <1>4 DEF NonceInv, TxFilled, Keeps
<1>8. CounterAhead'
    BY <1>0, <1>3, <1>4, <1>5 DEF NonceInv, CounterAhead
<1>9. SignersOf(p) \subseteq Accounts
    BY <1>2, AddressHasOneApp, RelayAssumption
<1>10. CounterFilled'
    <2> SUFFICES ASSUME NEW a \in LiveOf \union SignersOf(p)
                 PROVE  nonce'[a] \in Filled'[a] \/ \E d \in InFlight : holds[d] = a
        BY <1>3, <1>4 DEF CounterFilled
    <2>1. CASE a \in SignersOf(p)
        BY <1>6, <1>9, <2>1 DEF Keeps
    <2>2. CASE a \in LiveOf
        BY <1>0, <1>5, <2>2 DEF NonceInv, CounterFilled, Keeps
    <2> QED  BY <2>1, <2>2
<1>11. CounterBeyond'
    <2> SUFFICES ASSUME NEW a \in LiveOf \union SignersOf(p), NEW d \in Secured, tx[d].from = a
                 PROVE  nonce'[a] > tx[d].nonce \/ tx[d].nonce + 1 \in Gone'[a]
        BY <1>4 DEF CounterBeyond, Beyond
    <2>1. CASE a \in SignersOf(p)
        BY <1>6, <1>9, <2>1 DEF Keeps, Beyond
    <2>2. CASE a \in LiveOf
        BY <1>0, <1>5, <2>2 DEF NonceInv, CounterBeyond, Beyond, Keeps
    <2> QED  BY <2>1, <2>2
<1>12. DraftsFilled'
    <2> SUFFICES ASSUME NEW e \in Callers, NEW i \in 1..Len(draft'[e])
                 PROVE  /\ draft'[e][i] \in Filled'[ListSigners[AppOf[e]][i]]
                        /\ AppOf[e] \notin loaded' => Beyond(ListSigners[AppOf[e]][i], draft[e][i])'
        BY DEF DraftsFilled
    <2>1. draft'[e] = draft[e]
        BY <1>3, SMT, Z3 DEF Steady, PoolTypeOK
    <2>2. i \in 1..Len(draft[e]) /\ ListSigners[AppOf[e]][i] \in Accounts
        BY <2>1, ListedIsAccount
    <2> QED  BY <1>0, <1>3, <1>4, <2>1, <2>2 DEF NonceInv, DraftsFilled, Beyond, Keeps
<1>13. SlotsOnce'
    BY <1>0, <1>4, ZenonT(40) DEF NonceInv, SlotsOnce, SameSlot, Keeps
<1> QED  BY <1>7, <1>8, <1>10, <1>11, <1>12, <1>13 DEF NonceInv, ChainOK

\* The steps of Load that succeed.
LEMMA LoadSteps ==
    ASSUME Steady, NonceInv, ChainOK', Keeps, NEW c \in Callers, Load(c)
    PROVE  NonceInv'
<1>0. UNCHANGED <<request, tx, at, result, reply>>
    BY DEF Load, dbVars, submitVars
<1>1. CASE LoadBegin(c) \/ LoadList(c) \/ (LoadInstall(c) /\ AppOf[c] \in loaded)
    <2>1. UNCHANGED <<loaded, nonce, holds>>
        BY <1>1 DEF LoadBegin, LoadList, LoadInstall
    <2>2. \A d \in Callers : draft'[d] = draft[d] \/ draft'[d] = << >>
        BY <1>1 DEF Steady, LoadBegin, LoadList, LoadInstall, PoolTypeOK
    <2>3. InFlight' = InFlight /\ Secured' = Secured
        BY <1>0 DEF InFlight, Secured
    <2>4. QuietStep
        BY <1>0, <2>1, <2>2, <2>3 DEF QuietStep, NonceInv, TxFilled
    <2> QED  BY <2>4, QuietStepInv
<1>2. CASE /\ Len(draft[c]) < Size(AppOf[c])
           /\ \E n \in 0..MaxNonce : n = PendingNonceAt(ListSigners[AppOf[c]][Len(draft[c]) + 1]) /\ LoadSigner(c, n)
    BY <1>0, <1>2, FetchStep
<1>3. CASE LoadInstall(c) /\ AppOf[c] \notin loaded
    BY <1>0, <1>3, InstallsStep
<1> QED  BY <1>1, <1>2, <1>3 DEF Load

\* After a restart no counter is left, and what is acknowledged was so before.
LEMMA CrashNonceStep ==
    ASSUME Steady, NonceInv, ChainOK', Keeps, Crash
    PROVE  NonceInv'
<1>0. /\ \A d \in Callers : tx[d] # NoTx => tx[d].from \in Accounts /\ tx[d].nonce \in Nat
      /\ \A d \in Secured : d \in Callers /\ tx[d] # NoTx
    BY Typed
<1>1. /\ \A c \in Callers : at'[c] = IF at[c] \in {"start", "done"} THEN at[c] ELSE "dead"
      /\ \A c \in Callers : reply'[c] = "none"
      /\ loaded' = {} /\ \A c \in Callers : draft'[c] = << >>
      /\ UNCHANGED <<request, tx, result>>
    BY DEF Crash, PoolRestart, dbVars
<1>2. InFlight' = {} /\ Secured' \subseteq Secured /\ LiveOf' = {}
    BY <1>1 DEF InFlight, Secured, LiveOf
<1>3. TxFilled'
    BY <1>0, <1>1, <1>2 DEF NonceInv, TxFilled, Keeps, Unsigned
<1>4. CounterAhead' /\ CounterFilled' /\ CounterBeyond'
    BY <1>2 DEF CounterAhead, CounterFilled, CounterBeyond
<1>5. DraftsFilled'
    BY <1>1, SMTT(30), Z3T(30) DEF DraftsFilled
<1>6. SlotsOnce'
    BY <1>0, <1>1, <1>2, SlotsStay
<1> QED  BY <1>3, <1>4, <1>5, <1>6 DEF NonceInv, ChainOK

\* Every step keeps the invariant.
LEMMA NonceNextInv == Steady /\ NonceInv /\ [Next]_vars => NonceInv'
<1> SUFFICES ASSUME Steady, NonceInv, [Next]_vars PROVE NonceInv'
    OBVIOUS
<1>0. ChainOK' /\ Keeps
    BY EveryStepKeeps DEF NonceInv
<1>1. ASSUME NEW c \in Callers, Submit(c) PROVE NonceInv'
    <2>1. CASE \/ Refuse(c) \/ InsertRequest(c) \/ LoadError(c) \/ GetSigner(c) \/ CheckoutError(c)
               \/ Quote(c) \/ Reject(c) \/ Send(c) \/ MarkFailed(c) \/ MarkSubmitted(c)
               \/ Snapshot(c) \/ Enqueue(c) \/ Finish(c)
        BY <1>0, <2>1, QuietSteps, QuietStepInv
    <2>2. CASE Load(c)
        BY <1>0, <2>2, LoadSteps
    <2>3. CASE \E p \in Prices : InsertAttempt(c, p)
        BY <1>0, <2>3, InsertStep
    <2>4. CASE SendOk(c)
        BY <1>0, <2>4, SendOkStep
    <2>5. CASE SendError(c)
        BY <1>0, <2>5, SendErrorStep
    <2> QED  BY <1>1, <2>1, <2>2, <2>3, <2>4, <2>5 DEF Submit
<1>2. CASE /\ UNCHANGED <<tx, loaded, nonce, draft, holds, reply, at, result>>
           /\ \A c \in Callers : request'[c] = "submitted" => request[c] = "submitted"
    <2>1. InFlight' = InFlight /\ Secured' \subseteq Secured
        BY <1>2 DEF InFlight, Secured
    <2>2. QuietStep
        BY <1>2, <2>1 DEF QuietStep, NonceInv, TxFilled
    <2> QED  BY <1>0, <2>2, QuietStepInv
<1>3. \/ \E c \in Callers : ClientGone(c)
      \/ Watcher
      \/ \E t \in mempool : NodeMines(t) \/ NodeEvicts(t)
      \/ UNCHANGED vars
      => /\ UNCHANGED <<tx, loaded, nonce, draft, holds, reply, at, result>>
         /\ \A c \in Callers : request'[c] = "submitted" => request[c] = "submitted"
    <2>1. ASSUME WatchResolve, NEW c \in Callers, request'[c] = "submitted" PROVE request[c] = "submitted"
        <3>1. PICK s \in {"confirmed", "reverted"} : request' = [request EXCEPT ![Head(batch)] = s]
            BY <2>1 DEF WatchResolve
        <3> QED  BY <2>1, <3>1 DEF Steady
    <2> QED  BY <2>1 DEF ClientGone, Watcher, Tick, WatchSkip, WatchResolve, WatchSnapshot, WatchEnqueue,
           NodeMines, NodeEvicts, vars, poolVars, dbVars, submitVars
<1>4. ASSUME NEW t \in wire, NodeReceive(t) PROVE NonceInv'
    BY <1>0, <1>4, ReceiveStep
<1>5. CASE Crash
    BY <1>0, <1>5, CrashNonceStep
<1> QED  BY <1>1, <1>2, <1>3, <1>4, <1>5 DEF Next

=============================================================================
