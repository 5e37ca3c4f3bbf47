---------------------------- MODULE RelayProofs -----------------------------
(***************************************************************************)
(* Theorems about Relay, for any number of apps, requests, signers and     *)
(* prices and any number of faults.                                        *)
(***************************************************************************)
EXTENDS Relay, SignerPoolProofs, RelayNonceSteps

USE Zenon

-----------------------------------------------------------------------------
(* Submit as a user of the signer pool *)

\* Every step of Relay is a step of the pool or leaves the pool alone.
LEMMA PoolStepOrStutter == [Next]_vars => [PoolNext]_poolVars
  <1> SUFFICES ASSUME [Next]_vars PROVE PoolNext \/ UNCHANGED poolVars
    OBVIOUS
  <1>1. ASSUME NEW c \in Callers, Submit(c)
        PROVE  PoolStep(c) \/ UNCHANGED poolVars
    <2>1. CASE Refuse(c) \/ InsertRequest(c) \/ Quote(c) \/ Reject(c) BY <2>1 DEF Refuse, InsertRequest, Quote, Reject
    <2>2. CASE Load(c) BY <2>2 DEF Load, PoolStep
    <2>3. CASE LoadError(c) \/ GetSigner(c) \/ CheckoutError(c)
      BY <2>3 DEF LoadError, GetSigner, CheckoutError, PoolStep
    <2>4. CASE \E p \in Prices : InsertAttempt(c, p) BY <2>4 DEF InsertAttempt, PoolStep
    <2>5. CASE Send(c) \/ SendOk(c) \/ MarkFailed(c) \/ MarkSubmitted(c) \/ Snapshot(c) \/ Enqueue(c)
      BY <2>5 DEF Send, SendOk, MarkFailed, MarkSubmitted, Snapshot, Enqueue
    <2>6. CASE SendError(c) BY <2>6 DEF SendError, PoolStep
    <2>7. CASE Finish(c) BY <2>7 DEF Finish, PoolStep
    <2> QED BY <1>1, <2>1, <2>2, <2>3, <2>4, <2>5, <2>6, <2>7 DEF Submit
  <1>2. CASE \E c \in Callers : ClientGone(c) BY <1>2 DEF ClientGone
  <1>3. CASE Watcher BY <1>3 DEF Watcher, Tick, WatchSkip, WatchResolve, WatchSnapshot, WatchEnqueue
  <1>4. CASE \E t \in wire : NodeReceive(t) BY <1>4 DEF NodeReceive
  <1>5. CASE \E t \in mempool : NodeMines(t) \/ NodeEvicts(t) BY <1>5 DEF NodeMines, NodeEvicts
  <1>6. CASE Crash BY <1>6 DEF Crash, PoolNext
  <1>7. CASE UNCHANGED vars BY <1>7 DEF vars
  <1> QED BY <1>1, <1>2, <1>3, <1>4, <1>5, <1>6, <1>7 DEF Next, PoolNext

\* Submit uses the pool as SignerPool says, crashes and errors included.
LEMMA RelayUsesPool == Spec => PoolSpec
  <1>1. Init => PoolInit BY DEF Init
  <1> QED BY <1>1, PoolStepOrStutter, PTL DEF Spec, PoolSpec

\* So no two Submits ever work with the same signer.
THEOREM RelayExclusive == Spec => []Exclusive
  BY RelayUsesPool, PoolExclusive, PTL

-----------------------------------------------------------------------------
(* The chain *)

\* The node's state: what it holds is well formed, a slot of the mempool has
\* one transaction whose nonce is still to be mined, a receipt's is mined, and
\* a transaction has one receipt.
ChainInv ==
    /\ accountNonce \in [Accounts -> Nat]
    /\ mempool \subseteq Tx /\ wire \subseteq Tx /\ dropped \subseteq Tx
    /\ receipts \subseteq [tx : Tx, ok : BOOLEAN]
    /\ \A t \in mempool : t.nonce >= accountNonce[t.from]
    /\ \A t, u \in mempool : SameSlot(t, u) => t = u
    /\ \A r \in receipts : r.tx.nonce < accountNonce[r.tx.from]
    /\ \A r, q \in receipts : r.tx = q.tx => r = q

\* The node keeps it.
LEMMA ChainSteps ==
    ASSUME ChainInv,
           \/ \E t \in wire, accepts \in BOOLEAN : NodeTakes(t, accepts)
           \/ \E t \in mempool, ok \in BOOLEAN : Mine(t, ok)
           \/ \E t \in mempool : Evict(t)
           \/ \E t \in Tx : wire' = wire \union {t} /\ UNCHANGED <<accountNonce, mempool, receipts, dropped>>
    PROVE  ChainInv'
  <1>1. ASSUME NEW t \in wire, NEW accepts \in BOOLEAN, NodeTakes(t, accepts) PROVE ChainInv'
    BY <1>1 DEF ChainInv, NodeTakes, Acceptable, SameSlot, Tx
  <1>2. ASSUME NEW t \in mempool, NEW ok \in BOOLEAN, Mine(t, ok) PROVE ChainInv'
    <2>1. /\ t \in Tx /\ t.from \in Accounts /\ t.nonce \in Nat
          /\ t.nonce = accountNonce[t.from]
          /\ mempool' = mempool \ {t} /\ receipts' = receipts \union {[tx |-> t, ok |-> ok]}
          /\ wire' = wire /\ dropped' = dropped
      BY <1>2 DEF ChainInv, Mine, Tx
    <2>2. /\ accountNonce' \in [Accounts -> Nat]
          /\ accountNonce'[t.from] = accountNonce[t.from] + 1
          /\ \A a \in Accounts : a # t.from => accountNonce'[a] = accountNonce[a]
      BY <1>2, <2>1, SMT, Z3 DEF ChainInv, Mine
    <2>3. \A u \in mempool' : u.nonce >= accountNonce'[u.from]
      BY <2>1, <2>2, SMT, Z3 DEF ChainInv, SameSlot, Tx
    <2>4. \A r \in receipts' : r.tx.nonce < accountNonce'[r.tx.from]
      BY <2>1, <2>2, SMT, Z3 DEF ChainInv, Tx
    <2>5. \A r \in receipts : r.tx # t BY <2>1, SMT, Z3 DEF ChainInv
    <2>6. \A r, q \in receipts' : r.tx = q.tx => r = q BY <2>1, <2>5, SMT, Z3 DEF ChainInv
    <2>7. receipts' \subseteq [tx : Tx, ok : BOOLEAN] BY <2>1, SMT, Z3 DEF ChainInv
    <2> QED BY <2>1, <2>2, <2>3, <2>4, <2>6, <2>7 DEF ChainInv
  <1>3. ASSUME NEW t \in mempool, Evict(t) PROVE ChainInv'
    BY <1>3 DEF ChainInv, Evict, SameSlot
  <1>4. ASSUME NEW t \in Tx, wire' = wire \union {t}, UNCHANGED <<accountNonce, mempool, receipts, dropped>>
        PROVE  ChainInv'
    BY <1>4 DEF ChainInv, SameSlot
  <1> QED BY <1>1, <1>2, <1>3, <1>4

-----------------------------------------------------------------------------
(* The inductive invariant *)

\* The positions before insertAttempt.
Early == {"start", "pool", "reject", "quote", "attempt"}

\* The rows and the positions have the expected shape.
RowsTyped ==
    /\ request \in [Callers -> RequestStatus]
    /\ attempt \in [Callers -> AttemptStatus]
    /\ tx \in [Callers -> Tx \union {NoTx}]
    /\ at \in [Callers -> SubmitPositions]
    /\ result \in [Callers -> {"none", "202", "400", "502"}]

\* Where Submit stands tells what it has of the pool ...
PoolPosition ==
    \A c \in Callers :
        /\ at[c] \in {"quote", "attempt"} => pc[c] = "held"
        /\ at[c] \in {"send", "await"} => pc[c] = "reserved"

\* ... and what there is in the database.
RowPosition ==
    \A c \in Callers :
        /\ at[c] \in Early => request[c] \in {"none", "pending"} /\ attempt[c] = "none" /\ tx[c] = NoTx
        /\ at[c] \in {"send", "await"} => tx[c] # NoTx /\ request[c] # "submitted"

ChainTxs == wire \union mempool \union dropped \union {r.tx : r \in receipts}

\* WriteAhead, and the row is there to stay: its Submit is past insertAttempt.
Recorded ==
    \A t \in ChainTxs : \E c \in Callers : tx[c] = t /\ tx[c] # NoTx /\ at[c] \notin Early

\* AcceptedIsTracked, and its Submit is past markSubmitted.
Tracked ==
    \A c \in Callers :
        result[c] = "202" => /\ at[c] \in {"snap", "enqueue", "release", "done", "dead"}
                             /\ request[c] \in {"submitted", "confirmed", "reverted"}
                             /\ attempt[c] = request[c]

\* A final status has the receipt to show for it.
FinalIsTrue ==
    \A c \in Callers :
        /\ request[c] = "confirmed" => [tx |-> tx[c], ok |-> TRUE] \in receipts
        /\ request[c] = "reverted"  => [tx |-> tx[c], ok |-> FALSE] \in receipts
        /\ request[c] = "rejected"  => tx[c] = NoTx

RelayInv ==
    /\ ChainInv
    /\ RowsTyped
    /\ PoolPosition
    /\ RowPosition
    /\ Recorded
    /\ Tracked
    /\ FinalIsTrue

-----------------------------------------------------------------------------
(* Initially, and step by step *)

\* The invariant holds of an empty database.
LEMMA RelayInitInv == Init => RelayInv
  <1> SUFFICES ASSUME Init PROVE RelayInv OBVIOUS
  <1>1. ChainInv BY DEF Init, ChainInit, ChainInv
  <1>2. RowsTyped BY DEF Init, RowsTyped, RequestStatus, AttemptStatus, SubmitPositions
  <1>3. PoolPosition /\ RowPosition BY DEF Init, PoolPosition, RowPosition, Early
  <1>4. Recorded BY DEF Init, ChainInit, Recorded, ChainTxs
  <1>5. Tracked /\ FinalIsTrue BY DEF Init, Tracked, FinalIsTrue
  <1> QED BY <1>1, <1>2, <1>3, <1>4, <1>5 DEF RelayInv

\* A step of one Submit that leaves the chain and tx_attempts.tx_hash alone:
\* what it may do to the position, the answer and the rows of its request.
LocalStep(c) ==
    /\ UNCHANGED <<chainVars, tx>>
    /\ RowsTyped'
    /\ \A d \in Callers : d # c => /\ at'[d] = at[d] /\ result'[d] = result[d] /\ pc'[d] = pc[d]
                                   /\ request'[d] = request[d] /\ attempt'[d] = attempt[d]
    /\ at'[c] \in {"quote", "attempt"} => pc'[c] = "held"
    /\ at'[c] \in {"send", "await"} => pc'[c] = "reserved" /\ tx[c] # NoTx /\ request'[c] # "submitted"
    /\ at'[c] \in Early => at[c] \in Early /\ request'[c] \in {"none", "pending"} /\ attempt'[c] = "none"
    /\ result'[c] = "202" => /\ at'[c] \in {"snap", "enqueue", "release", "done", "dead"}
                             /\ request'[c] \in {"submitted", "confirmed", "reverted"}
                             /\ attempt'[c] = request'[c]
    /\ request'[c] \in {"confirmed", "reverted"} => request'[c] = request[c]
    /\ request'[c] = "rejected" => tx[c] = NoTx

\* Such a step keeps the invariant.
LEMMA LocalStepInv ==
    ASSUME RelayInv, NEW c \in Callers, LocalStep(c)
    PROVE  RelayInv'
  <1> USE DEF LocalStep
  <1>1. ChainInv' BY DEF RelayInv, ChainInv, chainVars, SameSlot
  <1>2. PoolPosition' BY DEF RelayInv, PoolPosition
  <1>3. RowPosition' BY DEF RelayInv, RowPosition
  <1>4. Recorded'
    <2>1. ChainTxs' = ChainTxs BY DEF chainVars, ChainTxs
    <2>2. \A d \in Callers : at[d] \notin Early => at'[d] \notin Early OBVIOUS
    <2> QED BY <2>1, <2>2 DEF RelayInv, Recorded
  <1>5. Tracked' BY DEF RelayInv, Tracked
  <1>6. FinalIsTrue' BY DEF RelayInv, FinalIsTrue, chainVars
  <1> QED BY <1>1, <1>2, <1>3, <1>4, <1>5, <1>6 DEF RelayInv

\* A step of one goroutine leaves the others' places in the pool alone.
LEMMA OthersStay ==
    ASSUME PoolInv, NEW c \in Callers, PoolStep(c) \/ UNCHANGED poolVars
    PROVE  \A d \in Callers : d # c => pc'[d] = pc[d]
  BY DEF PoolInv, PoolTypeOK, PoolStep, poolVars, Goto, LoadBegin, LoadList, LoadSigner, LoadFail,
         LoadInstall, Checkout, CheckoutCancel, UseNonce, RewindNonce, Release

\* The steps of Submit before insertAttempt.
LEMMA EarlySteps ==
    ASSUME PoolInv, RelayInv, NEW c \in Callers,
           \/ Refuse(c) \/ InsertRequest(c) \/ Load(c) \/ LoadError(c)
           \/ GetSigner(c) \/ CheckoutError(c) \/ Quote(c) \/ Reject(c)
    PROVE  RelayInv'
  <1> USE DEF Move, Answer, SetIf, Early, RequestStatus, SubmitPositions
  <1>0. RowsTyped /\ PoolPosition /\ RowPosition /\ Tracked /\ FinalIsTrue BY DEF RelayInv
  <1>1. pc \in [Callers -> Positions] BY DEF PoolInv, PoolTypeOK
  <1>2. CASE Refuse(c)
    BY <1>0, <1>2, LocalStepInv, SMTT(30), Z3T(30) DEF Refuse, LocalStep, RowsTyped, PoolPosition, RowPosition, Tracked, FinalIsTrue, poolVars, dbVars
  <1>3. CASE InsertRequest(c)
    BY <1>0, <1>3, LocalStepInv, SMT, Z3 DEF InsertRequest, LocalStep, RowsTyped, PoolPosition, RowPosition, Tracked, FinalIsTrue, poolVars
  <1>4. CASE Load(c)
    <2>1. \A d \in Callers : d # c => pc'[d] = pc[d] BY <1>4, OthersStay DEF Load, PoolStep
    <2> QED BY <1>0, <1>4, <2>1, LocalStepInv, ZenonT(40) DEF Load, LocalStep, RowsTyped, PoolPosition, RowPosition, Tracked, FinalIsTrue, dbVars, submitVars
  <1>5. CASE LoadError(c) \/ CheckoutError(c)
    <2>1. \A d \in Callers : d # c => pc'[d] = pc[d] BY <1>5, OthersStay DEF LoadError, CheckoutError, PoolStep
    <2> QED BY <1>0, <1>5, <2>1, LocalStepInv, SMTT(30), Z3T(30) DEF LoadError, CheckoutError, LocalStep, RowsTyped, RowPosition, Tracked, FinalIsTrue, dbVars
  <1>6. CASE GetSigner(c)
    <2>1. \A d \in Callers : d # c => pc'[d] = pc[d] BY <1>6, OthersStay DEF GetSigner, PoolStep
    <2>2. pc'[c] = "held" BY <1>1, <1>6 DEF GetSigner, Checkout, Goto
    <2> QED BY <1>0, <1>6, <2>1, <2>2, LocalStepInv, ZenonT(40) DEF GetSigner, LocalStep, RowsTyped, RowPosition, Tracked, FinalIsTrue, dbVars
  <1>7. CASE Quote(c)
    BY <1>0, <1>7, LocalStepInv, SMTT(30), Z3T(30) DEF Quote, LocalStep, RowsTyped, PoolPosition, RowPosition, Tracked, FinalIsTrue, poolVars, dbVars
  <1>8. CASE Reject(c)
    BY <1>0, <1>8, LocalStepInv, SMTT(30), Z3T(30) DEF Reject, LocalStep, RowsTyped, PoolPosition, RowPosition, Tracked, FinalIsTrue, poolVars
  <1> QED BY <1>2, <1>3, <1>4, <1>5, <1>6, <1>7, <1>8

\* What Submit signs is a transaction.
LEMMA SignedIsTx ==
    ASSUME PoolInv, RelayInv, NEW c \in Callers, NEW p \in Prices, at[c] = "attempt"
    PROVE  Signed(c, p) \in Tx
  <1>1. Holding(c) BY DEF RelayInv, PoolPosition, Holding
  <1>2. holds[c] \in Addresses BY <1>1, SignersAreAddresses, PoolAssumption DEF PoolInv, HoldsOwn
  <1>3. nonce[holds[c]] \in Nat BY <1>2, PoolAssumption, SMT, Z3 DEF PoolInv, PoolTypeOK
  <1> QED BY <1>2, <1>3, RelayAssumption DEF Signed, Tx

\* insertAttempt: the new row is one nobody has sent yet.
LEMMA InsertAttemptStep ==
    ASSUME PoolInv, RelayInv, NEW c \in Callers, NEW p \in Prices, InsertAttempt(c, p)
    PROVE  RelayInv'
  <1> USE DEF Move, Answer, Early
  <1>0. /\ RowsTyped /\ PoolPosition /\ RowPosition /\ Tracked /\ FinalIsTrue /\ Recorded /\ ChainInv
        /\ at[c] = "attempt"
    BY DEF RelayInv, InsertAttempt
  <1>1. Signed(c, p) \in Tx BY <1>0, SignedIsTx
  <1>2. Signed(c, p) # NoTx BY <1>1, RelayAssumption
  <1>3. pc \in [Callers -> Positions] BY DEF PoolInv, PoolTypeOK
  <1>4. \A d \in Callers : d # c => pc'[d] = pc[d] BY <1>0, OthersStay DEF InsertAttempt, PoolStep
  <1>5. ChainInv' BY <1>0 DEF InsertAttempt, chainVars, ChainInv, SameSlot
  <1>6. RowsTyped' BY <1>0, <1>1, SMT, Z3 DEF InsertAttempt, NewAttempt, RowsTyped, AttemptStatus, SubmitPositions
  <1>7. at'[c] \in {"send", "release"} /\ \A d \in Callers : d # c => at'[d] = at[d] /\ tx'[d] = tx[d]
    BY <1>0 DEF InsertAttempt, NewAttempt, RowsTyped
  <1>8. PoolPosition'
    <2>1. at'[c] = "send" => pc'[c] = "reserved" BY <1>0, <1>3 DEF InsertAttempt, UseNonce, Goto, RowsTyped
    <2> QED BY <1>0, <1>4, <1>7, <2>1 DEF PoolPosition
  <1>9. RowPosition'
    <2>1. at'[c] = "send" => tx'[c] # NoTx BY <1>0, <1>2 DEF InsertAttempt, NewAttempt, RowsTyped
    <2>2. \A d \in Callers : d # c => attempt'[d] = attempt[d] /\ request'[d] = request[d]
      BY <1>0, SMT, Z3 DEF InsertAttempt, NewAttempt, RowsTyped
    <2>3. request'[c] # "submitted" BY <1>0 DEF RowPosition, InsertAttempt
    <2> QED BY <1>0, <1>7, <2>1, <2>2, <2>3 DEF RowPosition
  <1>10. Recorded'
    <2>1. ChainTxs' = ChainTxs BY DEF InsertAttempt, chainVars, ChainTxs
    <2> QED BY <1>0, <1>7, <2>1, SMT, Z3 DEF Recorded
  <1>11. Tracked'
    <2>1. result'[c] # "202" BY <1>0 DEF InsertAttempt, RowsTyped, Tracked
    <2>2. \A d \in Callers : d # c => attempt'[d] = attempt[d] /\ request'[d] = request[d] /\ result'[d] = result[d]
      BY <1>0, SMT, Z3 DEF InsertAttempt, NewAttempt, RowsTyped
    <2> QED BY <1>0, <1>7, <2>1, <2>2 DEF Tracked
  <1>12. FinalIsTrue'
    <2>1. request' = request /\ receipts' = receipts BY DEF InsertAttempt, chainVars
    <2>2. request[c] \in {"none", "pending"} BY <1>0 DEF RowPosition
    <2> QED BY <1>0, <1>7, <2>1, <2>2 DEF FinalIsTrue
  <1> QED BY <1>5, <1>6, <1>8, <1>9, <1>10, <1>11, <1>12 DEF RelayInv

\* SendTransaction: what goes out has its row.
LEMMA SendStep ==
    ASSUME PoolInv, RelayInv, NEW c \in Callers, Send(c)
    PROVE  RelayInv'
  <1> USE DEF Move, Early
  <1>0. /\ RowsTyped /\ PoolPosition /\ RowPosition /\ Tracked /\ FinalIsTrue /\ Recorded /\ ChainInv
        /\ at[c] = "send" /\ at' = [at EXCEPT ![c] = "await"] /\ wire' = wire \union {tx[c]}
        /\ UNCHANGED <<pc, accountNonce, mempool, receipts, dropped, request, attempt, tx, result>>
    BY DEF RelayInv, Send, poolVars, dbVars
  <1>1. tx[c] \in Tx /\ tx[c] # NoTx BY <1>0 DEF RowsTyped, RowPosition
  <1>2. ChainInv' BY <1>0, <1>1, ChainSteps
  <1>3. RowsTyped' BY <1>0 DEF RowsTyped, SubmitPositions
  <1>4. PoolPosition' /\ RowPosition' BY <1>0 DEF PoolPosition, RowPosition, RowsTyped
  <1>5. Recorded'
    <2>1. ChainTxs' \subseteq ChainTxs \union {tx[c]} BY <1>0 DEF ChainTxs
    <2>2. at'[c] \notin Early /\ \A d \in Callers : at[d] \notin Early => at'[d] \notin Early BY <1>0 DEF RowsTyped
    <2> QED BY <1>0, <1>1, <2>1, <2>2 DEF Recorded
  <1>6. Tracked' /\ FinalIsTrue' BY <1>0 DEF Tracked, FinalIsTrue, RowsTyped
  <1> QED BY <1>2, <1>3, <1>4, <1>5, <1>6 DEF RelayInv

\* The steps of Submit after SendTransaction.
LEMMA LateSteps ==
    ASSUME PoolInv, RelayInv, NEW c \in Callers,
           \/ SendOk(c) \/ SendError(c) \/ MarkFailed(c) \/ MarkSubmitted(c)
           \/ Snapshot(c) \/ Enqueue(c) \/ Finish(c)
    PROVE  RelayInv'
  <1> USE DEF Move, Answer, SetIf, Early
  <1>0. RowsTyped /\ PoolPosition /\ RowPosition /\ Tracked /\ FinalIsTrue BY DEF RelayInv
  <1>1. /\ pc \in [Callers -> Positions] /\ at \in [Callers -> SubmitPositions]
        /\ request \in [Callers -> RequestStatus] /\ attempt \in [Callers -> AttemptStatus]
        /\ result \in [Callers -> {"none", "202", "400", "502"}]
    BY <1>0 DEF PoolInv, PoolTypeOK, RowsTyped
  <1>2. CASE SendOk(c) \/ Snapshot(c)
    <2>1. /\ \/ at[c] = "await" /\ at' = [at EXCEPT ![c] = "mark"]
             \/ at[c] = "snap" /\ at' = [at EXCEPT ![c] = "enqueue"]
             \/ at[c] = "snap" /\ at' = [at EXCEPT ![c] = "release"]
          /\ UNCHANGED <<chainVars, pc, request, attempt, tx, result>>
      BY <1>2 DEF SendOk, Snapshot, poolVars, dbVars
    <2>2. RowsTyped' BY <1>0, <2>1 DEF RowsTyped, RequestStatus, AttemptStatus, SubmitPositions
    <2>9. LocalStep(c) BY <1>0, <1>1, <2>1, <2>2 DEF LocalStep, Tracked, FinalIsTrue
    <2> QED BY <2>9, LocalStepInv
  <1>3. CASE SendError(c)
    <2>1. \A d \in Callers : d # c => pc'[d] = pc[d] BY <1>3, OthersStay DEF SendError, PoolStep
    <2>2. /\ at[c] \in {"send", "await"} /\ at' = [at EXCEPT ![c] = "fail"] /\ result' = [result EXCEPT ![c] = "502"]
          /\ UNCHANGED <<chainVars, request, attempt, tx>>
      BY <1>3 DEF SendError, dbVars
    <2>3. RowsTyped' BY <1>0, <2>2 DEF RowsTyped, RequestStatus, AttemptStatus, SubmitPositions
    <2>9. LocalStep(c) BY <1>0, <1>1, <2>1, <2>2, <2>3 DEF LocalStep, Tracked, FinalIsTrue
    <2> QED BY <2>9, LocalStepInv
  <1>4. CASE MarkFailed(c)
    <2>1. /\ at[c] = "fail" /\ at' = [at EXCEPT ![c] = "release"]
          /\ attempt' = attempt \/ attempt' = [attempt EXCEPT ![c] = "failed"]
          /\ UNCHANGED <<chainVars, pc, request, tx, result>>
      BY <1>4 DEF MarkFailed, poolVars
    <2>2. RowsTyped' BY <1>0, <2>1 DEF RowsTyped, RequestStatus, AttemptStatus, SubmitPositions
    <2>3. result[c] # "202" BY <1>0, <2>1 DEF Tracked
    <2>9. LocalStep(c) BY <1>0, <1>1, <2>1, <2>2, <2>3 DEF LocalStep, FinalIsTrue
    <2> QED BY <2>9, LocalStepInv
  <1>5. CASE MarkSubmitted(c)
    <2>1. /\ at[c] = "mark" /\ at' = [at EXCEPT ![c] = IF result'[c] = "202" THEN "snap" ELSE "release"]
          /\ \/ attempt' = attempt /\ request' = request /\ result'[c] # "202"
             \/ attempt' = [attempt EXCEPT ![c] = "submitted"] /\ request' = [request EXCEPT ![c] = "submitted"]
          /\ result' \in {[result EXCEPT ![c] = "202"], [result EXCEPT ![c] = "502"]}
          /\ UNCHANGED <<chainVars, pc, tx>>
      BY <1>0, <1>5 DEF MarkSubmitted, poolVars, RowsTyped
    <2>2. RowsTyped' BY <1>0, <2>1 DEF RowsTyped, RequestStatus, AttemptStatus, SubmitPositions
    <2>3. \A d \in Callers : d # c => /\ at'[d] = at[d] /\ result'[d] = result[d] /\ pc'[d] = pc[d]
                                     /\ request'[d] = request[d] /\ attempt'[d] = attempt[d]
      BY <1>0, <2>1 DEF RowsTyped
    <2>4. /\ at'[c] \in {"snap", "release"} /\ result'[c] = "202" => at'[c] = "snap"
          /\ at'[c] \notin {"quote", "attempt", "send", "await"} /\ at'[c] \notin Early
      BY <1>0, <2>1 DEF RowsTyped, Early
    <2>5. \/ request'[c] = request[c] /\ result'[c] # "202"
          \/ request'[c] = "submitted" /\ attempt'[c] = "submitted"
      BY <1>0, <2>1 DEF RowsTyped
    <2>9. LocalStep(c) BY <1>0, <1>1, <2>1, <2>2, <2>3, <2>4, <2>5 DEF LocalStep, FinalIsTrue
    <2> QED BY <2>9, LocalStepInv
  <1>6. CASE Enqueue(c)
    <2>1. /\ at[c] = "enqueue" /\ at' = [at EXCEPT ![c] = "release"]
          /\ UNCHANGED <<chainVars, pc, request, attempt, tx, result>>
      BY <1>6 DEF Enqueue, poolVars
    <2>2. RowsTyped' BY <1>0, <2>1 DEF RowsTyped, RequestStatus, AttemptStatus, SubmitPositions
    <2>9. LocalStep(c) BY <1>0, <1>1, <2>1, <2>2 DEF LocalStep, Tracked, FinalIsTrue
    <2> QED BY <2>9, LocalStepInv
  <1>7. CASE Finish(c)
    <2>1. \A d \in Callers : d # c => pc'[d] = pc[d] BY <1>7, OthersStay DEF Finish, PoolStep
    <2>9. LocalStep(c) BY <1>0, <1>7, <2>1 DEF Finish, LocalStep, RowsTyped, SubmitPositions, RowPosition, Tracked, FinalIsTrue, dbVars
    <2> QED BY <2>9, LocalStepInv
  <1> QED BY <1>2, <1>3, <1>4, <1>5, <1>6, <1>7

\* The invariant does not mention what these steps change.
LEMMA UnseenSteps ==
    ASSUME RelayInv, UNCHANGED <<chainVars, pc, request, attempt, tx, at, result>>
    PROVE  RelayInv'
  BY DEF RelayInv, ChainInv, SameSlot, RowsTyped, PoolPosition, RowPosition, Recorded, ChainTxs, Tracked, FinalIsTrue, chainVars

\* The watcher's update: two rows get the outcome of a receipt.
LEMMA WatchResolveStep ==
    ASSUME RelayInv, WatchResolve
    PROVE  RelayInv'
  <1>0. RowsTyped /\ PoolPosition /\ RowPosition /\ Tracked /\ FinalIsTrue /\ Recorded /\ ChainInv
    BY DEF RelayInv
  <1>a. PICK c : c = Head(batch) OBVIOUS
  <1>1. PICK r \in receipts, s \in {"confirmed", "reverted"} :
           /\ r.tx = tx[c] /\ s = IF r.ok THEN "confirmed" ELSE "reverted"
           /\ attempt' = [attempt EXCEPT ![c] = s] /\ request' = [request EXCEPT ![c] = s]
    BY <1>a DEF WatchResolve
  <1>2. UNCHANGED <<chainVars, pc, tx, at, result>> BY DEF WatchResolve, poolVars, submitVars
  <1>3. CASE c \notin Callers
    <2>1. attempt' = attempt /\ request' = request BY <1>0, <1>1, <1>3 DEF RowsTyped
    <2> QED BY <1>2, <2>1, UnseenSteps
  <1>4. CASE c \in Callers
    <2>1. r \in [tx : Tx, ok : BOOLEAN] /\ tx[c] # NoTx BY <1>0, <1>1, RelayAssumption DEF ChainInv
    <2>2. at[c] \notin Early BY <1>0, <1>4, <2>1 DEF RowPosition
    <2>3. /\ attempt'[c] = s /\ request'[c] = s
          /\ \A d \in Callers : d # c => attempt'[d] = attempt[d] /\ request'[d] = request[d]
      BY <1>0, <1>1, <1>4 DEF RowsTyped
    <2>4. RowsTyped' BY <1>0, <1>1, <1>2, <1>4 DEF RowsTyped, RequestStatus, AttemptStatus
    <2>5. ChainInv' /\ PoolPosition' /\ Recorded'
      BY <1>0, <1>2 DEF ChainInv, SameSlot, chainVars, PoolPosition, Recorded, ChainTxs
    <2>6. RowPosition' BY <1>0, <1>2, <2>2, <2>3 DEF RowPosition
    <2>7. Tracked' BY <1>0, <1>1, <1>2, <2>3, ZenonT(40) DEF Tracked
    <2>8. FinalIsTrue'
      <3>1. r = [tx |-> tx[c], ok |-> r.ok] /\ r.ok \in BOOLEAN BY <1>1, <2>1
      <3>2. \/ s = "confirmed" /\ [tx |-> tx[c], ok |-> TRUE] \in receipts
            \/ s = "reverted" /\ [tx |-> tx[c], ok |-> FALSE] \in receipts
        BY <1>1, <3>1
      <3> QED BY <1>0, <1>2, <2>3, <3>2 DEF FinalIsTrue, chainVars
    <2> QED BY <2>4, <2>5, <2>6, <2>7, <2>8 DEF RelayInv
  <1> QED BY <1>3, <1>4

\* The node's steps: no transaction is new to it, and a receipt stays.
LEMMA NodeSteps ==
    ASSUME RelayInv,
           \/ \E t \in wire : NodeReceive(t)
           \/ \E t \in mempool : NodeMines(t) \/ NodeEvicts(t)
    PROVE  RelayInv'
  <1>0. RowsTyped /\ PoolPosition /\ RowPosition /\ Tracked /\ FinalIsTrue /\ Recorded /\ ChainInv
    BY DEF RelayInv
  <1>1. UNCHANGED <<pc, request, attempt, tx, at, result>>
    BY DEF NodeReceive, NodeMines, NodeEvicts, poolVars, dbVars, submitVars
  <1>2. ChainInv' BY <1>0, ChainSteps DEF NodeReceive, NodeMines, NodeEvicts
  <1>3. ChainTxs' \subseteq ChainTxs /\ receipts \subseteq receipts'
    <2>1. ASSUME NEW t \in wire, NEW accepts \in BOOLEAN, NodeTakes(t, accepts)
          PROVE  ChainTxs' \subseteq ChainTxs /\ receipts \subseteq receipts'
      BY <2>1 DEF NodeTakes, ChainTxs
    <2>2. ASSUME NEW t \in mempool, NEW ok \in BOOLEAN, Mine(t, ok)
          PROVE  ChainTxs' \subseteq ChainTxs /\ receipts \subseteq receipts'
      BY <2>2, SMT, Z3 DEF Mine, ChainTxs
    <2>3. ASSUME NEW t \in mempool, Evict(t)
          PROVE  ChainTxs' \subseteq ChainTxs /\ receipts \subseteq receipts'
      BY <2>3 DEF Evict, ChainTxs
    <2> QED BY <2>1, <2>2, <2>3 DEF NodeReceive, NodeMines, NodeEvicts
  <1>4. RowsTyped' /\ PoolPosition' /\ RowPosition' /\ Tracked'
    BY <1>0, <1>1 DEF RowsTyped, PoolPosition, RowPosition, Tracked
  <1>5. Recorded' BY <1>0, <1>1, <1>3 DEF Recorded
  <1>6. FinalIsTrue' BY <1>0, <1>1, <1>3 DEF FinalIsTrue
  <1> QED BY <1>2, <1>4, <1>5, <1>6 DEF RelayInv

\* A restart: nobody is left between two steps of Submit.
LEMMA CrashStep ==
    ASSUME RelayInv, Crash
    PROVE  RelayInv'
  <1>0. RowsTyped /\ PoolPosition /\ RowPosition /\ Tracked /\ FinalIsTrue /\ Recorded /\ ChainInv
    BY DEF RelayInv
  <1>1. /\ \A c \in Callers : at'[c] = IF at[c] \in {"start", "done"} THEN at[c] ELSE "dead"
        /\ at' = [c \in Callers |-> IF at[c] \in {"start", "done"} THEN at[c] ELSE "dead"]
        /\ UNCHANGED <<chainVars, request, attempt, tx, result>>
    BY DEF Crash, dbVars
  <1>2. RowsTyped' BY <1>0, <1>1 DEF RowsTyped, SubmitPositions
  <1>3. ChainInv' BY <1>0, <1>1 DEF ChainInv, SameSlot, chainVars
  <1>4. PoolPosition' /\ RowPosition' BY <1>0, <1>1 DEF PoolPosition, RowPosition, Early
  <1>5. Recorded' BY <1>0, <1>1, SMT, Z3 DEF Recorded, ChainTxs, chainVars, Early
  <1>6. Tracked' /\ FinalIsTrue' BY <1>0, <1>1 DEF Tracked, FinalIsTrue, chainVars
  <1> QED BY <1>2, <1>3, <1>4, <1>5, <1>6 DEF RelayInv

-----------------------------------------------------------------------------
(* The theorems *)

\* Every step of Relay keeps the invariant.
LEMMA RelayNextInv == PoolInv /\ RelayInv /\ [Next]_vars => RelayInv'
  <1> SUFFICES ASSUME PoolInv, RelayInv, [Next]_vars PROVE RelayInv' OBVIOUS
  <1>1. ASSUME NEW c \in Callers, Submit(c) PROVE RelayInv'
    BY <1>1, EarlySteps, InsertAttemptStep, SendStep, LateSteps DEF Submit
  <1>2. ASSUME NEW c \in Callers, ClientGone(c) PROVE RelayInv'
    BY <1>2, UnseenSteps DEF ClientGone, poolVars, dbVars
  <1>3. CASE Tick \/ WatchSkip \/ WatchSnapshot \/ WatchEnqueue
    BY <1>3, UnseenSteps DEF Tick, WatchSkip, WatchSnapshot, WatchEnqueue, poolVars, dbVars, submitVars
  <1>4. CASE UNCHANGED vars
    BY <1>4, UnseenSteps DEF vars, poolVars, dbVars, submitVars
  <1> QED BY <1>1, <1>2, <1>3, <1>4, WatchResolveStep, NodeSteps, CrashStep DEF Next, Watcher

\* The inductive invariant holds throughout.
THEOREM RelayInvariant == Spec => []RelayInv
  <1>1. Spec => []PoolInv BY RelayUsesPool, PoolInvariant, PTL
  <1> QED BY <1>1, RelayInitInv, RelayNextInv, PTL DEF Spec

\* No transaction is with the node, or was ever, that has no row in
\* tx_attempts: whatever crashes or fails, insertAttempt came first.
THEOREM RelayWriteAhead == Spec => []WriteAhead
  <1>1. RelayInv => WriteAhead BY DEF RelayInv, Recorded, ChainTxs, WriteAhead
  <1> QED BY <1>1, RelayInvariant, PTL

\* A request whose caller was answered 202 is submitted or resolved, and its
\* two rows agree, although Submit and the watcher write them concurrently.
THEOREM RelayAcceptedIsTracked == Spec => []AcceptedIsTracked
  <1>1. RelayInv => AcceptedIsTracked BY DEF RelayInv, Tracked, AcceptedIsTracked
  <1> QED BY <1>1, RelayInvariant, PTL

\* Once Submit is over no step of the watcher, of another Submit or of a
\* restart replaces the final status of its request.
THEOREM RelayFinalAfterReturn == Spec => FinalAfterReturn
  <1> DEFINE Kept == \A c \in Callers :
                        at[c] \in {"done", "dead"} /\ request[c] \in Final => request'[c] = request[c]
  <1>1. ASSUME RelayInv, [Next]_vars PROVE Kept
    <2> SUFFICES ASSUME NEW c \in Callers, at[c] \in {"done", "dead"}, request[c] \in Final
                 PROVE  request'[c] = request[c]
      OBVIOUS
    <2>0. RowsTyped /\ FinalIsTrue /\ ChainInv BY <1>1 DEF RelayInv
    <2>1. ASSUME NEW d \in Callers, Submit(d) PROVE request'[c] = request[c]
      <3>1. CASE InsertRequest(d) \/ Reject(d) \/ MarkSubmitted(d)
        BY <2>0, <3>1 DEF InsertRequest, Reject, MarkSubmitted, Move, SetIf, RowsTyped
      <3>2. CASE ~ (InsertRequest(d) \/ Reject(d) \/ MarkSubmitted(d))
        BY <2>1, <3>2 DEF Submit, Refuse, Load, LoadError, GetSigner, CheckoutError, Quote, InsertAttempt,
             Send, SendOk, SendError, MarkFailed, Snapshot, Enqueue, Finish, dbVars
      <3> QED BY <3>1, <3>2
    <2>2. CASE WatchResolve
      <3>1. PICK e : e = Head(batch) OBVIOUS
      <3>2. PICK r \in receipts : /\ r.tx = tx[e]
                                  /\ request' = [request EXCEPT ![e] = IF r.ok THEN "confirmed" ELSE "reverted"]
        BY <2>2, <3>1 DEF WatchResolve
      <3>3. CASE e # c BY <2>0, <3>2, <3>3 DEF RowsTyped
      <3>4. CASE e = c
        <4>1. tx[c] # NoTx BY <2>0, <3>2, <3>4, RelayAssumption DEF ChainInv
        <4>2. CASE request[c] = "confirmed" BY <2>0, <3>2, <3>4, <4>2 DEF FinalIsTrue, ChainInv, RowsTyped
        <4>3. CASE request[c] = "reverted" BY <2>0, <3>2, <3>4, <4>3 DEF FinalIsTrue, ChainInv, RowsTyped
        <4> QED BY <2>0, <4>1, <4>2, <4>3 DEF FinalIsTrue, Final
      <3> QED BY <3>3, <3>4
    <2>3. CASE ~ WatchResolve /\ ~ \E d \in Callers : Submit(d)
      BY <1>1, <2>3 DEF Next, Watcher, Tick, WatchSkip, WatchSnapshot, WatchEnqueue, ClientGone, NodeReceive,
           NodeMines, NodeEvicts, Crash, vars, dbVars
    <2> QED BY <2>1, <2>2, <2>3
  <1>2. RelayInv /\ [Next]_vars => [Kept]_vars BY <1>1
  <1> HIDE DEF Kept
  <1>3. Spec => [][Kept]_vars BY <1>2, RelayInvariant, PTL DEF Spec
  <1> QED BY <1>3 DEF Kept, FinalAfterReturn

-----------------------------------------------------------------------------
(* The nonces: none is skipped, and none is given out again after its       *)
(* transaction was acknowledged                                             *)

\* The invariants of the pool and of the rows give what the steps rest on.
LEMMA InvariantsAreSteady == PoolInv /\ RelayInv => Steady
<1> SUFFICES ASSUME PoolInv, RelayInv PROVE Steady
    OBVIOUS
<1>1. PoolTypeOK /\ LoadedBeforeCheckout /\ Exclusive /\ \A c \in Callers : Holding(c) => holds[c] \in SignersOf(AppOf[c])
    BY DEF PoolInv, HoldsOwn
<1>2. /\ accountNonce \in [Accounts -> Nat]
      /\ mempool \subseteq Tx /\ wire \subseteq Tx /\ dropped \subseteq Tx
      /\ request \in [Callers -> RequestStatus]
      /\ tx \in [Callers -> Tx \union {NoTx}]
      /\ at \in [Callers -> SubmitPositions]
      /\ result \in [Callers -> {"none", "202", "400", "502"}]
    BY DEF RelayInv, ChainInv, RowsTyped
<1>3. \A t \in wire : \E c \in Callers : tx[c] = t /\ tx[c] # NoTx
    BY DEF RelayInv, Recorded, ChainTxs
<1>4. ASSUME NEW c \in Callers
      PROVE  /\ at[c] \in Unsigned => tx[c] = NoTx /\ request[c] # "submitted"
             /\ at[c] = "attempt" => pc[c] = "held"
             /\ at[c] \in {"send", "await"} =>
                  pc[c] = "reserved" /\ tx[c] # NoTx /\ result[c] # "202" /\ request[c] # "submitted"
    BY DEF RelayInv, PoolPosition, RowPosition, Tracked, Unsigned, Early
<1> QED  BY <1>1, <1>2, <1>3, <1>4 DEF Steady

\* The invariant of the nonces holds throughout, with any faults.
THEOREM RelayNonceInvariant == Spec => [](PoolInv /\ RelayInv /\ NonceInv)
<1>1. Spec => []PoolInv
    BY RelayUsesPool, PoolInvariant, PTL
<1> QED  BY <1>1, RelayInvariant, InvariantsAreSteady, NonceInitInv, NonceNextInv, PTL DEF Spec

\* No nonce is given out again after its transaction was acknowledged, across
\* crashes, lost answers and concurrent Loads, unless the node has evicted a
\* transaction of the signer with this nonce or a lower one.
THEOREM RelayAcknowledgedOnce == Spec => []AcknowledgedOnce
<1>1. ASSUME PoolInv, RelayInv, NonceInv PROVE AcknowledgedOnce
    <2> SUFFICES ASSUME NEW c \in Callers, NEW d \in Callers, c # d, result[c] = "202", result[d] = "202",
                        SameSlot(tx[c], tx[d])
                 PROVE  \E t \in dropped : t.from = tx[c].from /\ t.nonce <= tx[c].nonce
        BY DEF AcknowledgedOnce, EvictedUpTo
    <2>1. c \in Secured /\ d \in Secured
        BY DEF Secured
    <2>2. tx[c].from \in Accounts /\ tx[c].nonce \in Nat
        BY <1>1, <2>1, Typed, InvariantsAreSteady
    <2>3. tx[c].nonce + 1 \in Gone[tx[c].from]
        BY <1>1, <2>1 DEF NonceInv, SlotsOnce
    <2>4. PICK t \in dropped : t.from = tx[c].from /\ t.nonce < tx[c].nonce + 1
        BY <2>2, <2>3 DEF Gone
    <2>5. t.nonce \in Nat
        BY <1>1 DEF RelayInv, ChainInv, Tx
    <2> QED  BY <2>2, <2>4, <2>5, SMTT(30), Z3T(30)
<1> QED  BY <1>1, RelayNonceInvariant, PTL

\* Until the node evicts a transaction, what is pending comes before the nonce
\* it reports, and so does what is filled.
LEMMA PendingComeBefore ==
    ASSUME PoolInv, RelayInv, NonceInv, dropped = {}
    PROVE  /\ \A a \in Accounts, n \in Nat : n \in Filled[a] => n <= PendingNonceAt(a)
           /\ \A t \in mempool : t.nonce < PendingNonceAt(t.from)
<1>0. ChainOK
    BY RelayChainOK, InvariantsAreSteady DEF NonceInv
<1>1. ASSUME NEW a \in Accounts, NEW n \in Nat, n \in Filled[a] PROVE n <= PendingNonceAt(a)
    <2>1. Below(a, n)
        BY <1>0, <1>1, FilledOrGone DEF Gone
    <2> QED  BY <1>0, <2>1, BelowMeansNotFree
<1>2. ASSUME NEW t \in mempool PROVE t.nonce < PendingNonceAt(t.from)
    <2>1. PICK c \in Callers : tx[c] = t /\ tx[c] # NoTx
        BY DEF RelayInv, Recorded, ChainTxs
    <2>2. t.from \in Accounts /\ t.nonce \in Nat /\ t.nonce \in Filled[t.from]
        BY <2>1 DEF NonceInv, TxFilled, RelayInv, ChainInv, Tx
    <2>3. /\ PendingNonceAt(t.from) \in Nat /\ PendingNonceAt(t.from) \notin PendingNonces(t.from)
          /\ t.nonce \in PendingNonces(t.from)
        BY <1>0, <2>2, PendingNonceIsFirstFree DEF PendingNonces
    <2> QED  BY <1>1, <2>2, <2>3, SMTT(30), Z3T(30)
<1> QED  BY <1>1, <1>2

\* An idle signer is one of a loaded app, and nobody holds it.
LEMMA IdleIsLive ==
    ASSUME PoolInv, NEW a \in Addresses, IsIdle(a)
    PROVE  a \in LiveOf /\ ~ \E c \in Callers : Holding(c) /\ holds[c] = a
<1>1. PICK q \in Apps : \E i \in 1..Len(idle[q]) : idle[q][i] = a
    BY DEF IsIdle
<1>2. q \in loaded /\ a \in SignersOf(q)
    BY <1>1, SMT, Z3 DEF PoolInv, IdleOwn
<1> QED  BY <1>1, <1>2 DEF PoolInv, Conserved, LiveOf

\* No signer skips a nonce, whatever fails between UseNonce and the node's
\* answer: every transaction in the mempool can be mined once the ones before it
\* are, and no idle signer's counter is ahead of the chain, but for the nonces of
\* transactions that the node has evicted.
THEOREM RelayHasNoNonceGap == Spec => []NoNonceGap
<1>1. ASSUME PoolInv, RelayInv, NonceInv PROVE NoNonceGap
    <2>1. ASSUME NEW a \in Addresses, IsIdle(a) PROVE NoGap(a, nonce[a])
        <3>1. a \in LiveOf /\ ~ \E c \in Callers : Holding(c) /\ holds[c] = a
            BY <1>1, <2>1, IdleIsLive
        <3>2. a \in Accounts /\ nonce[a] \in Nat /\ nonce[a] \in Filled[a]
            BY <1>1, <3>1, Typed, InvariantsAreSteady DEF NonceInv, CounterFilled
        <3> QED  BY <3>2 DEF Filled
    <2>2. ASSUME NEW t \in mempool PROVE NoGap(t.from, t.nonce)
        <3>1. PICK c \in Callers : tx[c] = t /\ tx[c] # NoTx
            BY <1>1 DEF RelayInv, Recorded, ChainTxs
        <3>2. t.from \in Accounts /\ t.nonce \in Filled[t.from]
            BY <1>1, <3>1 DEF NonceInv, TxFilled, RelayInv, ChainInv, Tx
        <3> QED  BY <3>2 DEF Filled
    <2> QED  BY <2>1, <2>2 DEF NoNonceGap
<1> QED  BY <1>1, RelayNonceInvariant, PTL

-----------------------------------------------------------------------------
(* The shape of the variables *)

\* Of the places in S there is one that comes as the k-th.
LEMMA RankExists ==
    ASSUME NEW n \in Nat, NEW S \in SUBSET (1..n), NEW k \in 1..Cardinality(S)
    PROVE  \E i \in S : Cardinality({j \in S : j <= i}) = k
<1> DEFINE Upto(m) == {j \in S : j <= m}
           T == {m \in Nat : Cardinality(Upto(m)) >= k}
<1>1. IsFiniteSet(S) /\ Cardinality(S) \in Nat /\ k \in Nat /\ k > 0
    <2>0. 1 \in Int /\ n \in Int
        BY SMT, Z3
    <2>1. IsFiniteSet(1..n)
        BY <2>0, FS_Interval
    <2>2. IsFiniteSet(S)
        BY <2>1, FS_Subset
    <2>3. Cardinality(S) \in Nat
        BY <2>2, FS_CardinalityType
    <2> QED  BY <2>2, <2>3, SMT, Z3
<1>2. \A m : IsFiniteSet(Upto(m)) /\ Cardinality(Upto(m)) \in Nat
    <2> SUFFICES ASSUME NEW m PROVE IsFiniteSet(Upto(m)) /\ Cardinality(Upto(m)) \in Nat
        OBVIOUS
    <2>1. Upto(m) \subseteq S
        OBVIOUS
    <2> QED  BY <1>1, <2>1, FS_Subset, FS_CardinalityType
<1>3. Upto(n) = S /\ Upto(0) = {}
    <2>1. \A j \in S : j <= n /\ ~ (j <= 0)
        BY SMT, Z3
    <2> QED  BY <2>1
<1>4. Cardinality(Upto(0)) = 0
    BY <1>3, FS_EmptySet
<1>5. n \in T
    BY <1>1, <1>3, SMT, Z3
<1> HIDE DEF Upto
<1>6. PICK m \in T : \A x \in T : m <= x
    BY <1>5, LeastElement
<1>7. m \in Nat /\ m # 0 /\ m - 1 \in Nat /\ m - 1 \notin T
    BY <1>1, <1>4, <1>6, SMTT(30), Z3T(30)
<1>8. Cardinality(Upto(m)) >= k /\ Cardinality(Upto(m - 1)) < k
    BY <1>1, <1>2, <1>6, <1>7, SMT, Z3
<1>9. m \in S /\ Upto(m) = Upto(m - 1) \union {m} /\ m \notin Upto(m - 1)
    <2>1. CASE m \notin S
        <3>0. \A j \in S : j <= m <=> j <= m - 1
            BY <1>7, <2>1, SMT, Z3
        <3>1. Upto(m) = Upto(m - 1)
            BY <3>0 DEF Upto
        <3> QED  BY <1>1, <1>2, <1>8, <3>1, SMT, Z3
    <2>2. CASE m \in S
        <3>0. m <= m /\ ~ (m <= m - 1) /\ \A j \in S : j <= m <=> j <= m - 1 \/ j = m
            BY <1>7, <2>2, SMT, Z3
        <3> QED  BY <2>2, <3>0 DEF Upto
    <2> QED  BY <2>1, <2>2
<1>10. Cardinality(Upto(m)) = Cardinality(Upto(m - 1)) + 1
    BY <1>2, <1>9, FS_AddElement
<1>11. Cardinality(Upto(m)) = k
    BY <1>1, <1>2, <1>8, <1>10, SMTT(30), Z3T(30)
<1> QED  BY <1>9, <1>11 DEF Upto

\* The watcher's query returns attempts.
LEMMA OldestAreAttempts ==
    ASSUME order \in Seq(Callers), NEW S \in SUBSET (1..Len(order))
    PROVE  Oldest(S) \in Seq(Callers)
<1> DEFINE size == IF Cardinality(S) < BatchSize THEN Cardinality(S) ELSE BatchSize
           Rank(i) == Cardinality({j \in S : j <= i})
<1>1. Len(order) \in Nat /\ \A i \in 1..Len(order) : order[i] \in Callers
    BY SMT, Z3
<1>2. Cardinality(S) \in Nat
    <2>1. 1 \in Int /\ Len(order) \in Int
        BY <1>1, SMT, Z3
    <2>2. IsFiniteSet(1..Len(order))
        BY <2>1, FS_Interval
    <2> QED  BY <2>2, FS_Subset, FS_CardinalityType
<1>3. size \in Nat /\ \A k \in 1..size : k \in 1..Cardinality(S)
    BY <1>2, RelayAssumption, SMT, Z3
<1>4. ASSUME NEW k \in 1..size PROVE order[CHOOSE i \in S : Rank(i) = k] \in Callers
    <2>1. \E i \in S : Rank(i) = k
        BY <1>1, <1>3, RankExists
    <2> QED  BY <1>1, <2>1
<1>5. Oldest(S) = [k \in 1..size |-> order[CHOOSE i \in S : Rank(i) = k]]
    BY DEF Oldest
<1> HIDE DEF size, Rank
<1>6. Oldest(S) \in [1..size -> Callers]
    BY <1>4, <1>5
<1> QED  BY <1>3, <1>6, SMT, Z3

\* The attempt rows: a transaction, a status and a place in the order come
\* together, and Submit marks an attempt only when it has one.
RowsLinked ==
    /\ order \in Seq(Callers)
    /\ \A c \in Callers :
         /\ attempt[c] = "none" <=> tx[c] = NoTx
         /\ attempt[c] # "none" <=> \E i \in 1..Len(order) : order[i] = c
         /\ at[c] \in {"fail", "mark"} => tx[c] # NoTx

\* The watcher is past the scan only with an attempt in its hands.
WatcherShape ==
    /\ batch \in Seq(Callers)
    /\ wpos \in {"scan", "snap", "enqueue"}
    /\ wpos # "scan" => batch # << >>

\* The statuses that were read, and those that were announced.
Announcements ==
    /\ outbox \in [Callers -> Seq(RequestStatus)]
    /\ snap \in [Callers -> RequestStatus]
    /\ wsnap \in RequestStatus

OutsideShape ==
    /\ ctxDone \subseteq Callers
    /\ reply \in [Callers -> {"none", "ok", "err"}]
    /\ faults \in [FaultKinds -> Nat]

\* RelayTypeOK, but for what RelayInv says, and made inductive.
ShapeInv == RowsLinked /\ WatcherShape /\ Announcements /\ OutsideShape

\* The variables have their shape at the start.
LEMMA ShapeInitInv == Init => ShapeInv
<1> SUFFICES ASSUME Init PROVE ShapeInv
    OBVIOUS
<1>1. RowsLinked
    BY SMT, Z3 DEF Init, RowsLinked
<1>2. << >> \in Seq(Callers) /\ << >> \in Seq(RequestStatus)
    BY SMT, Z3
<1>3. WatcherShape /\ Announcements
    BY <1>2 DEF Init, WatcherShape, Announcements, RequestStatus
<1>4. OutsideShape
    BY RelayAssumption DEF Init, OutsideShape
<1> QED  BY <1>1, <1>3, <1>4 DEF ShapeInv

\* A step that adds no attempt, and marks only where there is one.
LEMMA LinksStay ==
    ASSUME RowsLinked, UNCHANGED <<tx, order>>,
           \A c \in Callers : /\ attempt'[c] = "none" <=> attempt[c] = "none"
                              /\ at'[c] \in {"fail", "mark"} => at[c] \in {"fail", "mark"} \/ tx[c] # NoTx
    PROVE  RowsLinked'
BY DEF RowsLinked

\* insertAttempt adds the row and its place.
LEMMA InsertLinks ==
    ASSUME PoolInv, RelayInv, RowsLinked, NEW c \in Callers, NEW p \in Prices, InsertAttempt(c, p)
    PROVE  RowsLinked'
<1>0. /\ attempt \in [Callers -> AttemptStatus] /\ tx \in [Callers -> Tx \union {NoTx}]
      /\ at \in [Callers -> SubmitPositions] /\ at[c] = "attempt"
    BY DEF RelayInv, RowsTyped, InsertAttempt
<1>1. /\ at'[c] \notin {"fail", "mark"} /\ \A d \in Callers : d # c => at'[d] = at[d]
    BY <1>0 DEF InsertAttempt, Move
<1>2. CASE UNCHANGED <<attempt, tx, order>>
    BY <1>1, <1>2, LinksStay
<1>3. CASE NewAttempt(c, Signed(c, p))
    <2>1. order \in Seq(Callers) /\ order' = Append(order, c)
        BY <1>3 DEF RowsLinked, NewAttempt
    <2>2. /\ order' \in Seq(Callers) /\ Len(order') = Len(order) + 1 /\ Len(order) \in Nat
          /\ order'[Len(order) + 1] = c
          /\ \A i \in 1..Len(order) : order'[i] = order[i]
        BY <2>1, SMT, Z3
    <2>3. 1..Len(order') = 1..Len(order) \union {Len(order) + 1}
        BY <2>2, SMT, Z3
    <2>4. /\ attempt'[c] = "submitting" /\ tx'[c] = Signed(c, p)
          /\ \A d \in Callers : d # c => attempt'[d] = attempt[d] /\ tx'[d] = tx[d]
        BY <1>0, <1>3 DEF NewAttempt
    <2>5. tx'[c] # NoTx
        BY <1>0, <2>4, SignedIsTx, RelayAssumption
    <2>6. ASSUME NEW d \in Callers
          PROVE  /\ attempt'[d] = "none" <=> tx'[d] = NoTx
                 /\ attempt'[d] # "none" <=> \E i \in 1..Len(order') : order'[i] = d
                 /\ at'[d] \in {"fail", "mark"} => tx'[d] # NoTx
        <3>1. CASE d = c
            BY <1>1, <2>2, <2>3, <2>4, <2>5, <3>1
        <3>2. CASE d # c
            <4>1. (\E i \in 1..Len(order') : order'[i] = d) <=> \E i \in 1..Len(order) : order[i] = d
                BY <2>2, <2>3, <3>2
            <4> QED  BY <1>1, <2>4, <3>2, <4>1, ZenonT(40) DEF RowsLinked
        <3> QED  BY <3>1, <3>2
    <2> QED  BY <2>2, <2>6 DEF RowsLinked
<1> QED  BY <1>2, <1>3 DEF InsertAttempt

\* Every step keeps the attempt rows together.
LEMMA RowsLinkedNext ==
    ASSUME PoolInv, RelayInv, RowsLinked, [Next]_vars
    PROVE  RowsLinked'
<1>0. /\ attempt \in [Callers -> AttemptStatus] /\ tx \in [Callers -> Tx \union {NoTx}]
      /\ at \in [Callers -> SubmitPositions]
      /\ \A c \in Callers : at[c] \in {"send", "await"} => tx[c] # NoTx
    BY DEF RelayInv, RowsTyped, RowPosition
<1>1. ASSUME NEW c \in Callers, Submit(c) PROVE RowsLinked'
    <2>1. CASE \/ Refuse(c) \/ InsertRequest(c) \/ Load(c) \/ LoadError(c) \/ GetSigner(c) \/ CheckoutError(c)
               \/ Quote(c) \/ Reject(c) \/ Send(c) \/ SendOk(c) \/ SendError(c)
               \/ Snapshot(c) \/ Enqueue(c) \/ Finish(c)
        <3>1. UNCHANGED <<attempt, tx, order>>
            BY <2>1 DEF Refuse, InsertRequest, Load, LoadError, GetSigner, CheckoutError, Quote, Reject,
               Send, SendOk, SendError, Snapshot, Enqueue, Finish, dbVars
        <3>2. /\ \A d \in Callers : d # c => at'[d] = at[d]
              /\ at'[c] \in {"fail", "mark"} => at[c] \in {"send", "await", "fail", "mark"}
            BY <1>0, <2>1 DEF Refuse, InsertRequest, Load, LoadError, GetSigner, CheckoutError, Quote, Reject,
               Send, SendOk, SendError, Snapshot, Enqueue, Finish, Move, submitVars
        <3> QED  BY <1>0, <3>1, <3>2, LinksStay
    <2>2. CASE \E p \in Prices : InsertAttempt(c, p)
        BY <2>2, InsertLinks
    <2>3. CASE MarkFailed(c) \/ MarkSubmitted(c)
        <3>1. /\ UNCHANGED <<tx, order>> /\ at[c] \in {"fail", "mark"}
              /\ \A d \in Callers : d # c => at'[d] = at[d] /\ attempt'[d] = attempt[d]
              /\ attempt'[c] \in {attempt[c], "failed", "submitted"}
              /\ at'[c] \notin {"fail", "mark"}
            BY <1>0, <2>3 DEF MarkFailed, MarkSubmitted, Move, SetIf
        <3>2. attempt[c] # "none"
            BY <3>1 DEF RowsLinked
        <3> QED  BY <3>1, <3>2, LinksStay
    <2> QED  BY <1>1, <2>1, <2>2, <2>3 DEF Submit
<1>2. CASE UNCHANGED <<attempt, tx, order, at>>
    BY <1>2, LinksStay
<1>3. \/ \E c \in Callers : ClientGone(c)
      \/ Tick \/ WatchSkip \/ WatchSnapshot \/ WatchEnqueue
      \/ \E t \in wire : NodeReceive(t)
      \/ \E t \in mempool : NodeMines(t) \/ NodeEvicts(t)
      \/ UNCHANGED vars
      => UNCHANGED <<attempt, tx, order, at>>
    BY DEF ClientGone, Tick, WatchSkip, WatchSnapshot, WatchEnqueue, NodeReceive, NodeMines, NodeEvicts, vars,
           dbVars, submitVars
<1>4. CASE WatchResolve
    <2>1. PICK c : c = Head(batch)
        OBVIOUS
    <2>2. PICK r \in receipts, s \in {"confirmed", "reverted"} :
             r.tx = tx[c] /\ attempt' = [attempt EXCEPT ![c] = s]
        BY <1>4, <2>1 DEF WatchResolve
    <2>3. UNCHANGED <<tx, order, at>>
        BY <1>4 DEF WatchResolve, submitVars
    <2>4. ASSUME c \in Callers PROVE attempt[c] # "none"
        <3>1. tx[c] # NoTx
            BY <2>2, RelayAssumption DEF RelayInv, ChainInv
        <3> QED  BY <2>4, <3>1 DEF RowsLinked
    <2>5. ASSUME NEW d \in Callers PROVE attempt'[d] = "none" <=> attempt[d] = "none"
        BY <1>0, <2>2, <2>4
    <2> QED  BY <2>3, <2>5, LinksStay
<1>5. CASE Crash
    <2>1. /\ UNCHANGED <<attempt, tx, order>>
          /\ \A c \in Callers : at'[c] \notin {"fail", "mark"}
        BY <1>5 DEF Crash, dbVars
    <2> QED  BY <2>1, LinksStay
<1> QED  BY <1>1, <1>2, <1>3, <1>4, <1>5 DEF Next, Watcher

\* The watcher has attempts in its hands, and one where it needs one.
LEMMA WatcherShapeNext ==
    ASSUME RowsLinked, WatcherShape, [Next]_vars
    PROVE  WatcherShape'
<1>1. batch # << >> => Tail(batch) \in Seq(Callers)
    BY SMT, Z3 DEF WatcherShape
<1>2. CASE Tick
    <2>1. batch' = OpenAttempts /\ UNCHANGED wpos /\ wpos = "scan"
        BY <1>2 DEF Tick
    <2>2. OpenAttempts \in Seq(Callers)
        BY OldestAreAttempts DEF OpenAttempts, RowsLinked
    <2> QED  BY <2>1, <2>2 DEF WatcherShape
<1>3. CASE WatchSkip \/ WatchResolve \/ WatchSnapshot \/ WatchEnqueue
    BY <1>1, <1>3 DEF WatchSkip, WatchResolve, WatchSnapshot, WatchEnqueue, WatcherShape
<1>4. CASE UNCHANGED watcherVars
    BY <1>4 DEF watcherVars, WatcherShape
<1>5. CASE Crash
    <2>1. << >> \in Seq(Callers)
        BY SMT, Z3
    <2> QED  BY <1>5, <2>1 DEF Crash, WatcherShape
<1>6. ASSUME NEW c \in Callers, Submit(c) \/ ClientGone(c) PROVE UNCHANGED watcherVars
    BY <1>6 DEF Submit, Refuse, InsertRequest, Load, LoadError, GetSigner, CheckoutError, Quote, Reject,
         InsertAttempt, Send, SendOk, SendError, MarkFailed, MarkSubmitted, Snapshot, Enqueue, Finish, ClientGone
<1>7. \/ \E t \in wire : NodeReceive(t)
      \/ \E t \in mempool : NodeMines(t) \/ NodeEvicts(t)
      \/ UNCHANGED vars
      => UNCHANGED watcherVars
    BY DEF NodeReceive, NodeMines, NodeEvicts, vars
<1> QED  BY <1>2, <1>3, <1>4, <1>5, <1>6, <1>7 DEF Next, Watcher

\* What is read and announced is a status of a request.
LEMMA AnnouncementsNext ==
    ASSUME RelayInv, WatcherShape, Announcements, [Next]_vars
    PROVE  Announcements'
<1>0. /\ request \in [Callers -> RequestStatus] /\ "none" \in RequestStatus
      /\ batch # << >> => Head(batch) \in Callers
    <2>1. batch # << >> => Head(batch) \in Callers
        BY SMT, Z3 DEF WatcherShape
    <2> QED  BY <2>1 DEF RelayInv, RowsTyped, RequestStatus
<1>1. ASSUME NEW c \in Callers, NEW s \in RequestStatus
      PROVE  [outbox EXCEPT ![c] = Append(@, s)] \in [Callers -> Seq(RequestStatus)]
    <2>1. outbox[c] \in Seq(RequestStatus)
        BY DEF Announcements
    <2>2. Append(outbox[c], s) \in Seq(RequestStatus)
        BY <2>1, SMT, Z3
    <2> QED  BY <2>2 DEF Announcements
<1>2. ASSUME NEW c \in Callers, Snapshot(c) PROVE Announcements'
    BY <1>0, <1>2 DEF Snapshot, Announcements, dbVars, watcherVars
<1>3. ASSUME NEW c \in Callers, Enqueue(c) PROVE Announcements'
    <2>1. outbox' \in {outbox, [outbox EXCEPT ![c] = Append(@, snap[c])]}
        BY <1>3 DEF Enqueue, SetIf
    <2>2. outbox' \in [Callers -> Seq(RequestStatus)]
        <3>1. snap[c] \in RequestStatus /\ outbox \in [Callers -> Seq(RequestStatus)]
            BY DEF Announcements
        <3>2. [outbox EXCEPT ![c] = Append(@, snap[c])] \in [Callers -> Seq(RequestStatus)]
            BY <1>1, <3>1
        <3> QED  BY <2>1, <3>1, <3>2
    <2>3. snap' = [snap EXCEPT ![c] = "none"] /\ UNCHANGED wsnap
        BY <1>3 DEF Enqueue, watcherVars
    <2> QED  BY <1>0, <2>2, <2>3 DEF Announcements
<1>4. CASE WatchSnapshot
    <2>1. wsnap' = wsnap \/ (wpos # "scan" /\ wsnap' = request[Head(batch)])
        BY <1>4 DEF WatchSnapshot
    <2>2. wsnap' \in RequestStatus
        BY <1>0, <2>1 DEF WatcherShape, Announcements
    <2> QED  BY <1>4, <2>2 DEF WatchSnapshot, Announcements, dbVars, submitVars
<1>5. CASE WatchEnqueue
    <2>1. outbox' \in {outbox, [outbox EXCEPT ![Head(batch)] = Append(@, wsnap)]} /\ wpos # "scan"
        BY <1>5 DEF WatchEnqueue
    <2>2. outbox' \in [Callers -> Seq(RequestStatus)]
        <3>1. Head(batch) \in Callers /\ wsnap \in RequestStatus /\ outbox \in [Callers -> Seq(RequestStatus)]
            BY <1>0, <2>1 DEF WatcherShape, Announcements
        <3>2. [outbox EXCEPT ![Head(batch)] = Append(@, wsnap)] \in [Callers -> Seq(RequestStatus)]
            BY <1>1, <3>1
        <3> QED  BY <2>1, <3>1, <3>2
    <2> QED  BY <1>0, <1>5, <2>2 DEF WatchEnqueue, Announcements, submitVars
<1>6. CASE Crash
    BY <1>0, <1>6 DEF Crash, Announcements, dbVars
<1>7. CASE UNCHANGED <<outbox, snap, wsnap>>
    BY <1>7 DEF Announcements
<1>8. ASSUME NEW c \in Callers, Submit(c) \/ ClientGone(c), ~ Snapshot(c), ~ Enqueue(c)
      PROVE  UNCHANGED <<outbox, snap, wsnap>>
    BY <1>8 DEF Submit, Refuse, InsertRequest, Load, LoadError, GetSigner, CheckoutError, Quote, Reject,
         InsertAttempt, Send, SendOk, SendError, MarkFailed, MarkSubmitted, Finish, ClientGone,
         dbVars, submitVars, watcherVars
<1>9. \/ Tick \/ WatchSkip \/ WatchResolve
      \/ \E t \in wire : NodeReceive(t)
      \/ \E t \in mempool : NodeMines(t) \/ NodeEvicts(t)
      \/ UNCHANGED vars
      => UNCHANGED <<outbox, snap, wsnap>>
    BY DEF Tick, WatchSkip, WatchResolve, NodeReceive, NodeMines, NodeEvicts, vars, dbVars, submitVars, watcherVars
<1> QED  BY <1>2, <1>3, <1>4, <1>5, <1>6, <1>7, <1>8, <1>9 DEF Next, Watcher

\* A step strikes with one fault, or with none.
LEMMA OneFaultAtMost ==
    ASSUME [Next]_vars
    PROVE  UNCHANGED faults \/ \E k \in FaultKinds : Spend(k)
<1>1. \A k \in {"crash", "db", "rpc", "cancel", "evict"} : k \in FaultKinds
    BY DEF FaultKinds
<1>2. ASSUME NEW c \in Callers, Submit(c) \/ ClientGone(c)
      PROVE  UNCHANGED faults \/ \E k \in {"crash", "db", "rpc", "cancel", "evict"} : Spend(k)
    BY <1>2 DEF Submit, Refuse, InsertRequest, Load, LoadError, GetSigner, CheckoutError, Quote, Reject,
         InsertAttempt, Send, SendOk, SendError, MarkFailed, MarkSubmitted, Snapshot, Enqueue, Finish,
         ClientGone, DbOk, DbErr
<1>3. \/ Watcher \/ Crash
      \/ \E t \in wire : NodeReceive(t)
      \/ \E t \in mempool : NodeMines(t) \/ NodeEvicts(t)
      \/ UNCHANGED vars
      => UNCHANGED faults \/ \E k \in {"crash", "db", "rpc", "cancel", "evict"} : Spend(k)
    BY DEF Watcher, Tick, WatchSkip, WatchResolve, WatchSnapshot, WatchEnqueue, NodeReceive, NodeMines, NodeEvicts,
           Crash, vars
<1> QED  BY <1>1, <1>2, <1>3 DEF Next

\* The context, the node's answers and the faults that are left.
LEMMA OutsideShapeNext ==
    ASSUME OutsideShape, [Next]_vars
    PROVE  OutsideShape'
<1>1. faults' \in [FaultKinds -> Nat]
    <2>1. ASSUME NEW k \in FaultKinds, Spend(k) PROVE faults' \in [FaultKinds -> Nat]
        BY <2>1, SMT, Z3 DEF Spend, OutsideShape
    <2> QED  BY <2>1, OneFaultAtMost DEF OutsideShape
<1>2. ctxDone' \subseteq Callers /\ reply' \in [Callers -> {"none", "ok", "err"}]
    <2>1. ASSUME NEW c \in Callers, ClientGone(c) PROVE ctxDone' \subseteq Callers /\ UNCHANGED reply
        BY <2>1 DEF ClientGone, OutsideShape
    <2>2. ASSUME NEW t \in wire, NodeReceive(t)
          PROVE  reply' \in [Callers -> {"none", "ok", "err"}] /\ UNCHANGED ctxDone
        BY <2>2 DEF NodeReceive, OutsideShape
    <2>3. CASE Crash
        BY <2>3 DEF Crash
    <2>4. ASSUME NEW c \in Callers, Submit(c) PROVE UNCHANGED <<ctxDone, reply>>
        BY <2>4 DEF Submit, Refuse, InsertRequest, Load, LoadError, GetSigner, CheckoutError, Quote, Reject,
             InsertAttempt, Send, SendOk, SendError, MarkFailed, MarkSubmitted, Snapshot, Enqueue, Finish, submitVars
    <2>5. Watcher \/ (\E t \in mempool : NodeMines(t) \/ NodeEvicts(t)) \/ UNCHANGED vars
          => UNCHANGED <<ctxDone, reply>>
        BY DEF Watcher, Tick, WatchSkip, WatchResolve, WatchSnapshot, WatchEnqueue, NodeMines, NodeEvicts, vars, submitVars
    <2> QED  BY <2>1, <2>2, <2>3, <2>4, <2>5 DEF Next, OutsideShape
<1> QED  BY <1>1, <1>2 DEF OutsideShape

\* The variables keep their shape ...
THEOREM RelayShape == Spec => [](PoolInv /\ RelayInv /\ ShapeInv)
<1>1. Spec => []PoolInv
    BY RelayUsesPool, PoolInvariant, PTL
<1>2. PoolInv /\ RelayInv /\ ShapeInv /\ [Next]_vars => ShapeInv'
    BY RowsLinkedNext, WatcherShapeNext, AnnouncementsNext, OutsideShapeNext DEF ShapeInv
<1> QED  BY <1>1, <1>2, RelayInvariant, ShapeInitInv, PTL DEF Spec

\* ... so the relay's type invariant holds: in particular an attempt row has a
\* status, a transaction and a place in the submitted_at order, or none of them.
THEOREM RelayTypes == Spec => []RelayTypeOK
<1>1. RelayInv /\ ShapeInv => RelayTypeOK
    BY DEF RelayInv, RowsTyped, ShapeInv, RowsLinked, WatcherShape, Announcements, OutsideShape, RelayTypeOK
<1> QED  BY <1>1, RelayShape, PTL

-----------------------------------------------------------------------------
(* The statuses of requests, and the statuses webhooks announce *)

Accepted == {"submitted", "confirmed", "reverted"}

\* What the status s says of request c and no later step takes back.
Told(c, s) ==
    /\ s = "confirmed" => [tx |-> tx[c], ok |-> TRUE] \in receipts
    /\ s = "reverted"  => [tx |-> tx[c], ok |-> FALSE] \in receipts
    /\ s = "submitted" => request[c] \in Accepted
    /\ s = "rejected"  => request[c] = "rejected"

\* It holds of what the deliveries say, of what Submit's Enqueue has read and
\* of what the watcher's has.
BoxTold == \A c \in Callers : \A i \in 1..Len(outbox[c]) : Told(c, outbox[c][i])
SnapTold == \A c \in Callers : at[c] = "enqueue" => Told(c, snap[c])
WatchTold == wpos = "enqueue" => Told(Head(batch), wsnap)

\* What GetRaw reads is so at that time.
LEMMA ReadIsTold ==
    ASSUME RelayInv, NEW c \in Callers
    PROVE  Told(c, request[c])
BY DEF RelayInv, FinalIsTrue, Told, Accepted

\* A receipt stays.
LEMMA ReceiptsStay ==
    ASSUME [Next]_vars
    PROVE  receipts \subseteq receipts'
<1>1. ASSUME NEW t, NodeMines(t) PROVE receipts \subseteq receipts'
    BY <1>1 DEF NodeMines, Mine
<1>2. ASSUME NEW c \in Callers, Submit(c) \/ ClientGone(c) PROVE UNCHANGED receipts
    BY <1>2 DEF Submit, Refuse, InsertRequest, Load, LoadError, GetSigner, CheckoutError, Quote, Reject,
         InsertAttempt, Send, SendOk, SendError, MarkFailed, MarkSubmitted, Snapshot, Enqueue, Finish,
         ClientGone, chainVars
<1>3. Watcher \/ Crash \/ UNCHANGED vars => UNCHANGED receipts
    BY DEF Watcher, Tick, WatchSkip, WatchResolve, WatchSnapshot, WatchEnqueue, Crash, vars, chainVars
<1>4. (\E t \in wire : NodeReceive(t)) \/ (\E t \in mempool : NodeEvicts(t)) => UNCHANGED receipts
    BY DEF NodeReceive, NodeTakes, NodeEvicts, Evict
<1> QED  BY <1>1, <1>2, <1>3, <1>4 DEF Next

\* A transaction hash is written once.
LEMMA HashStays ==
    ASSUME RelayInv, [Next]_vars, NEW c \in Callers, tx[c] # NoTx
    PROVE  tx'[c] = tx[c]
<1>1. ASSUME NEW d \in Callers, NEW p \in Prices, InsertAttempt(d, p) PROVE tx'[c] = tx[c]
    <2>1. d # c
        BY <1>1 DEF RelayInv, RowPosition, Early, InsertAttempt
    <2> QED  BY <1>1, <2>1 DEF InsertAttempt, NewAttempt, RelayInv, RowsTyped
<1>2. ASSUME NEW d \in Callers, Submit(d) \/ ClientGone(d), ~ \E p \in Prices : InsertAttempt(d, p) PROVE UNCHANGED tx
    BY <1>2 DEF Submit, Refuse, InsertRequest, Load, LoadError, GetSigner, CheckoutError, Quote, Reject,
         Send, SendOk, SendError, MarkFailed, MarkSubmitted, Snapshot, Enqueue, Finish, ClientGone, dbVars
<1>3. Watcher \/ Crash \/ UNCHANGED vars => UNCHANGED tx
    BY DEF Watcher, Tick, WatchSkip, WatchResolve, WatchSnapshot, WatchEnqueue, Crash, vars, dbVars
<1>4. (\E t \in wire : NodeReceive(t)) \/ (\E t \in mempool : NodeMines(t) \/ NodeEvicts(t)) => UNCHANGED tx
    BY DEF NodeReceive, NodeMines, NodeEvicts, dbVars
<1> QED  BY <1>1, <1>2, <1>3, <1>4 DEF Next

\* An accepted request stays accepted, and a rejected one rejected.
LEMMA VerdictStays ==
    ASSUME RelayInv, RowsLinked, [Next]_vars, NEW c \in Callers
    PROVE  /\ request[c] \in Accepted => request'[c] \in Accepted
           /\ request[c] = "rejected" => request'[c] = "rejected"
<1>0. /\ request \in [Callers -> RequestStatus]
      /\ request[c] = "rejected" => tx[c] = NoTx
      /\ at[c] \in Early => request[c] \in {"none", "pending"}
      /\ at[c] = "mark" => tx[c] # NoTx
    BY DEF RelayInv, RowsTyped, FinalIsTrue, RowPosition, RowsLinked
<1>1. ASSUME NEW d \in Callers, Submit(d)
      PROVE  request'[c] = request[c] \/ (at[c] \in Early) \/ (at[c] = "mark" /\ request'[c] = "submitted")
    <2>1. CASE InsertRequest(d) \/ Reject(d)
        BY <1>0, <2>1 DEF InsertRequest, Reject, Move, SetIf, Early
    <2>2. CASE MarkSubmitted(d)
        BY <1>0, <2>2 DEF MarkSubmitted, Move, SetIf
    <2>3. CASE ~ (InsertRequest(d) \/ Reject(d) \/ MarkSubmitted(d))
        BY <1>1, <2>3 DEF Submit, Refuse, Load, LoadError, GetSigner, CheckoutError, Quote, InsertAttempt,
             Send, SendOk, SendError, MarkFailed, Snapshot, Enqueue, Finish, dbVars
    <2> QED  BY <2>1, <2>2, <2>3
<1>2. CASE WatchResolve
    <2>0. PICK e : e = Head(batch)
        OBVIOUS
    <2>1. PICK r \in receipts, s \in {"confirmed", "reverted"} :
             r.tx = tx[e] /\ request' = [request EXCEPT ![e] = s]
        BY <1>2, <2>0 DEF WatchResolve
    <2>2. tx[e] # NoTx
        BY <2>1, RelayAssumption DEF RelayInv, ChainInv
    <2> QED  BY <1>0, <2>1, <2>2 DEF Accepted
<1>3. CASE UNCHANGED request
    BY <1>3
<1>4. \/ \E d \in Callers : ClientGone(d)
      \/ Tick \/ WatchSkip \/ WatchSnapshot \/ WatchEnqueue \/ Crash
      \/ \E t \in wire : NodeReceive(t)
      \/ \E t \in mempool : NodeMines(t) \/ NodeEvicts(t)
      \/ UNCHANGED vars
      => UNCHANGED request
    BY DEF ClientGone, Tick, WatchSkip, WatchSnapshot, WatchEnqueue, NodeReceive, NodeMines, NodeEvicts, Crash, vars, dbVars
<1> QED  BY <1>0, <1>1, <1>2, <1>3, <1>4 DEF Next, Watcher, Accepted

\* So what a status says stays said.
LEMMA ToldStays ==
    ASSUME RelayInv, RowsLinked, [Next]_vars
    PROVE  \A c \in Callers : \A s : Told(c, s) => Told(c, s)'
<1> SUFFICES ASSUME NEW c \in Callers, NEW s, Told(c, s) PROVE Told(c, s)'
    OBVIOUS
<1>1. ASSUME NEW ok \in BOOLEAN, [tx |-> tx[c], ok |-> ok] \in receipts
      PROVE  [tx |-> tx'[c], ok |-> ok] \in receipts'
    <2>1. tx[c] # NoTx
        <3>1. PICK r \in receipts : r = [tx |-> tx[c], ok |-> ok]
            BY <1>1
        <3>2. r.tx = tx[c] /\ r.tx \in Tx
            BY <3>1, SMTT(30), Z3T(30) DEF RelayInv, ChainInv
        <3> QED  BY <3>2, RelayAssumption
    <2> QED  BY <1>1, <2>1, HashStays, ReceiptsStay
<1> QED  BY <1>1, VerdictStays DEF Told

\* A delivery that is added has what Submit's Enqueue or the watcher's has read.
LEMMA OutboxSteps ==
    ASSUME Announcements, [Next]_vars, NEW c \in Callers
    PROVE  \/ outbox'[c] = outbox[c]
           \/ at[c] = "enqueue" /\ outbox'[c] = Append(outbox[c], snap[c])
           \/ wpos = "enqueue" /\ Head(batch) = c /\ outbox'[c] = Append(outbox[c], wsnap)
<1>0. outbox \in [Callers -> Seq(RequestStatus)]
    BY DEF Announcements
<1>1. ASSUME NEW d \in Callers, Enqueue(d)
      PROVE  outbox'[c] = outbox[c] \/ (at[c] = "enqueue" /\ outbox'[c] = Append(outbox[c], snap[c]))
    <2>1. at[d] = "enqueue" /\ outbox' \in {outbox, [outbox EXCEPT ![d] = Append(@, snap[d])]}
        BY <1>1 DEF Enqueue, Move, SetIf
    <2> QED  BY <1>0, <2>1
<1>2. ASSUME WatchEnqueue
      PROVE  \/ outbox'[c] = outbox[c]
             \/ wpos = "enqueue" /\ Head(batch) = c /\ outbox'[c] = Append(outbox[c], wsnap)
    <2>1. PICK d : d = Head(batch)
        OBVIOUS
    <2>2. wpos = "enqueue" /\ outbox' \in {outbox, [outbox EXCEPT ![d] = Append(@, wsnap)]}
        BY <1>2, <2>1 DEF WatchEnqueue
    <2> QED  BY <1>0, <2>1, <2>2
<1>3. ASSUME NEW d \in Callers, Submit(d) \/ ClientGone(d), ~ Enqueue(d) PROVE UNCHANGED outbox
    BY <1>3 DEF Submit, Refuse, InsertRequest, Load, LoadError, GetSigner, CheckoutError, Quote, Reject,
         InsertAttempt, Send, SendOk, SendError, MarkFailed, MarkSubmitted, Snapshot, Finish, ClientGone, dbVars
<1>4. \/ Tick \/ WatchSkip \/ WatchResolve \/ WatchSnapshot \/ Crash
      \/ \E t \in wire : NodeReceive(t)
      \/ \E t \in mempool : NodeMines(t) \/ NodeEvicts(t)
      \/ UNCHANGED vars
      => UNCHANGED outbox
    BY DEF Tick, WatchSkip, WatchResolve, WatchSnapshot, NodeReceive, NodeMines, NodeEvicts, Crash, vars, dbVars
<1> QED  BY <1>1, <1>2, <1>3, <1>4 DEF Next, Watcher

\* The deliveries go on telling the truth: a new one says what was read.
LEMMA BoxToldNext ==
    ASSUME RelayInv, RowsLinked, WatcherShape, Announcements, BoxTold, SnapTold, WatchTold, [Next]_vars
    PROVE  BoxTold'
<1>0. outbox \in [Callers -> Seq(RequestStatus)]
    BY DEF Announcements
<1>1. ASSUME NEW c \in Callers
      PROVE  outbox'[c] = outbox[c] \/ \E s : Told(c, s) /\ outbox'[c] = Append(outbox[c], s)
    BY <1>1, OutboxSteps DEF SnapTold, WatchTold
<1> SUFFICES ASSUME NEW c \in Callers, NEW i \in 1..Len(outbox'[c]) PROVE Told(c, outbox[c][i])'
    BY DEF BoxTold
<1>2. outbox[c] \in Seq(RequestStatus)
    BY <1>0
<1>3. PICK s : s = outbox'[c][i] /\ Told(c, s)
    <2>1. CASE outbox'[c] = outbox[c]
        BY <2>1 DEF BoxTold
    <2>2. ASSUME NEW v, Told(c, v), outbox'[c] = Append(outbox[c], v)
          PROVE  \E s : s = outbox'[c][i] /\ Told(c, s)
        <3>1. i \in 1..Len(outbox[c]) \/ outbox'[c][i] = v
            BY <1>2, <2>2, SMTT(30), Z3T(30)
        <3>2. i \in 1..Len(outbox[c]) => outbox'[c][i] = outbox[c][i]
            BY <1>2, <2>2, SMTT(30), Z3T(30)
        <3> QED  BY <2>2, <3>1, <3>2 DEF BoxTold
    <2> QED  BY <1>1, <2>1, <2>2
<1>4. Told(c, s)'
    BY <1>3, ToldStays
<1> QED  BY <1>3, <1>4 DEF Told

\* What Enqueue has read goes on being true until it is written.
LEMMA SnapToldNext ==
    ASSUME RelayInv, RowsLinked, WatcherShape, Announcements, SnapTold, WatchTold, [Next]_vars
    PROVE  SnapTold' /\ WatchTold'
<1>0. /\ at \in [Callers -> SubmitPositions] /\ snap \in [Callers -> RequestStatus]
      /\ batch # << >> => Head(batch) \in Callers
    <2>1. batch # << >> => Head(batch) \in Callers
        BY SMT, Z3 DEF WatcherShape
    <2> QED  BY <2>1 DEF RelayInv, RowsTyped, Announcements
<1>1. ASSUME NEW c \in Callers, at'[c] = "enqueue" PROVE Told(c, snap[c])'
    <2>1. \/ at[c] = "enqueue" /\ snap'[c] = snap[c]
          \/ snap'[c] = request[c]
        <3>1. ASSUME NEW d \in Callers, Snapshot(d)
              PROVE  (at[c] = "enqueue" /\ snap'[c] = snap[c]) \/ snap'[c] = request[c]
            BY <1>0, <1>1, <3>1 DEF Snapshot, Move
        <3>2. ASSUME NEW d \in Callers, Enqueue(d) PROVE at[c] = "enqueue" /\ snap'[c] = snap[c]
            BY <1>0, <1>1, <3>2 DEF Enqueue, Move
        <3>3. ASSUME NEW d \in Callers, Submit(d), ~ Snapshot(d), ~ Enqueue(d)
              PROVE  at[c] = "enqueue" /\ snap'[c] = snap[c]
            BY <1>0, <1>1, <3>3 DEF Submit, Refuse, InsertRequest, Load, LoadError, GetSigner, CheckoutError, Quote,
                 Reject, InsertAttempt, Send, SendOk, SendError, MarkFailed, MarkSubmitted, Finish, Move, submitVars
        <3>4. ~ Crash
            BY <1>1 DEF Crash
        <3>5. \/ \E d \in Callers : ClientGone(d)
              \/ Watcher
              \/ \E t \in wire : NodeReceive(t)
              \/ \E t \in mempool : NodeMines(t) \/ NodeEvicts(t)
              \/ UNCHANGED vars
              => UNCHANGED <<at, snap>>
            BY DEF ClientGone, Watcher, Tick, WatchSkip, WatchResolve, WatchSnapshot, WatchEnqueue, NodeReceive,
                 NodeMines, NodeEvicts, vars, submitVars
        <3> QED  BY <1>1, <3>1, <3>2, <3>3, <3>4, <3>5 DEF Next
    <2>2. PICK s : s = snap'[c] /\ Told(c, s)
        BY <2>1, ReadIsTold DEF SnapTold
    <2>3. Told(c, s)'
        BY <2>2, ToldStays
    <2> QED  BY <2>2, <2>3 DEF Told
<1>2. ASSUME wpos' = "enqueue" PROVE Told(Head(batch), wsnap)'
    <2>1. \/ UNCHANGED watcherVars
          \/ wpos = "snap" /\ batch' = batch /\ wsnap' = request[Head(batch)]
        <3>1. CASE Watcher
            BY <1>2, <3>1 DEF Watcher, Tick, WatchSkip, WatchResolve, WatchSnapshot, WatchEnqueue
        <3>2. ASSUME NEW d \in Callers, Submit(d) \/ ClientGone(d) PROVE UNCHANGED watcherVars
            BY <3>2 DEF Submit, Refuse, InsertRequest, Load, LoadError, GetSigner, CheckoutError, Quote, Reject,
                 InsertAttempt, Send, SendOk, SendError, MarkFailed, MarkSubmitted, Snapshot, Enqueue, Finish, ClientGone
        <3>3. \/ \E t \in wire : NodeReceive(t)
              \/ \E t \in mempool : NodeMines(t) \/ NodeEvicts(t)
              \/ UNCHANGED vars
              => UNCHANGED watcherVars
            BY DEF NodeReceive, NodeMines, NodeEvicts, vars
        <3>4. ~ Crash
            BY <1>2 DEF Crash
        <3> QED  BY <3>1, <3>2, <3>3, <3>4 DEF Next
    <2>2. batch' = batch /\ wpos # "scan" /\ Head(batch) \in Callers
        BY <1>0, <1>2, <2>1 DEF WatcherShape, watcherVars
    <2>3. PICK c : c = Head(batch)
        OBVIOUS
    <2>4. PICK s : s = wsnap' /\ Told(c, s)
        BY <1>2, <2>1, <2>2, <2>3, ReadIsTold DEF WatchTold, watcherVars
    <2>5. Told(c, s)'
        BY <2>2, <2>3, <2>4, ToldStays
    <2> QED  BY <2>2, <2>3, <2>4, <2>5 DEF Told
<1> QED  BY <1>1, <1>2 DEF SnapTold, WatchTold

\* A transaction was placed in the slot of c's that pays more.
Outbid(c) == \E d \in Callers : tx[d] # NoTx /\ SameSlot(tx[c], tx[d]) /\ tx[c].price < tx[d].price

\* Where the transaction of c can be, once the node has accepted it.
Kept(c) == tx[c] \in mempool \union dropped \/ Mined(tx[c]) \/ Outbid(c)

AcceptedKept == \A c \in Callers : reply[c] = "ok" \/ c \in Secured => Kept(c)

\* An eviction is not forgotten.
LEMMA DroppedStays ==
    ASSUME [Next]_vars
    PROVE  dropped \subseteq dropped'
<1>1. ASSUME NEW c \in Callers, Submit(c) \/ ClientGone(c) PROVE UNCHANGED dropped
    BY <1>1 DEF Submit, Refuse, InsertRequest, Load, LoadError, GetSigner, CheckoutError, Quote, Reject,
         InsertAttempt, Send, SendOk, SendError, MarkFailed, MarkSubmitted, Snapshot, Enqueue, Finish,
         ClientGone, chainVars
<1>2. Watcher \/ Crash \/ UNCHANGED vars => UNCHANGED dropped
    BY DEF Watcher, Tick, WatchSkip, WatchResolve, WatchSnapshot, WatchEnqueue, Crash, vars, chainVars
<1>3. (\E t \in wire : NodeReceive(t)) \/ (\E t \in mempool : NodeMines(t)) => UNCHANGED dropped
    BY DEF NodeReceive, NodeTakes, NodeMines, Mine
<1>4. ASSUME NEW t, NodeEvicts(t) PROVE dropped \subseteq dropped'
    BY <1>4 DEF NodeEvicts, Evict
<1> QED  BY <1>1, <1>2, <1>3, <1>4 DEF Next

\* What was accepted leaves the mempool for a block or a higher bid, unless it is
\* evicted.
LEMMA KeptStays ==
    ASSUME RelayInv, [Next]_vars, NEW c \in Callers, tx[c] # NoTx, Kept(c)
    PROVE  Kept(c)'
<1>1. tx'[c] = tx[c] /\ receipts \subseteq receipts' /\ dropped \subseteq dropped'
    BY HashStays, ReceiptsStay, DroppedStays
<1>2. CASE Mined(tx[c]) \/ tx[c] \in dropped
    BY <1>1, <1>2 DEF Mined, Kept
<1>3. CASE Outbid(c)
    <2>1. PICK d \in Callers : tx[d] # NoTx /\ SameSlot(tx[c], tx[d]) /\ tx[c].price < tx[d].price
        BY <1>3 DEF Outbid
    <2>2. tx'[d] = tx[d]
        BY <2>1, HashStays
    <2>3. Outbid(c)'
        BY <1>1, <2>1, <2>2 DEF Outbid, SameSlot
    <2> QED  BY <2>3 DEF Kept
<1>4. CASE tx[c] \in mempool
    <2>1. ASSUME NEW t \in wire, NodeReceive(t) PROVE tx[c] \in mempool' \/ Outbid(c)'
        <3>1. PICK accepts \in BOOLEAN : NodeTakes(t, accepts)
            BY <2>1 DEF NodeReceive
        <3>2. CASE accepts /\ SameSlot(t, tx[c])
            <4>1. tx[c].price < t.price
                BY <1>4, <3>1, <3>2 DEF NodeTakes, Acceptable
            <4>2. PICK d \in Callers : tx[d] = t /\ tx[d] # NoTx
                BY DEF RelayInv, Recorded, ChainTxs
            <4>3. tx'[d] = t
                BY <4>2, HashStays
            <4> QED  BY <1>1, <3>2, <4>1, <4>2, <4>3 DEF Outbid, SameSlot
        <3>3. CASE ~ (accepts /\ SameSlot(t, tx[c]))
            BY <1>4, <3>1, <3>3 DEF NodeTakes
        <3> QED  BY <3>2, <3>3
    <2>2. ASSUME NEW t \in mempool, NodeMines(t) PROVE tx[c] \in mempool' \/ Mined(tx[c])'
        <3>1. PICK ok \in BOOLEAN : mempool' = mempool \ {t} /\ receipts' = receipts \union {[tx |-> t, ok |-> ok]}
            BY <2>2 DEF NodeMines, Mine
        <3>2. CASE t = tx[c]
            <4>1. PICK r : r = [tx |-> t, ok |-> ok]
                OBVIOUS
            <4>2. r.tx = t
                BY <4>1
            <4> QED  BY <1>1, <3>1, <3>2, <4>1, <4>2 DEF Mined
        <3> QED  BY <1>4, <3>1, <3>2
    <2>3. ASSUME NEW t \in mempool, NodeEvicts(t) PROVE tx[c] \in mempool' \union dropped'
        BY <1>4, <2>3 DEF NodeEvicts, Evict
    <2>4. ASSUME NEW d \in Callers, Submit(d) \/ ClientGone(d) PROVE UNCHANGED mempool
        BY <2>4 DEF Submit, Refuse, InsertRequest, Load, LoadError, GetSigner, CheckoutError, Quote, Reject,
             InsertAttempt, Send, SendOk, SendError, MarkFailed, MarkSubmitted, Snapshot, Enqueue, Finish,
             ClientGone, chainVars
    <2>5. Watcher \/ Crash \/ UNCHANGED vars => UNCHANGED mempool
        BY DEF Watcher, Tick, WatchSkip, WatchResolve, WatchSnapshot, WatchEnqueue, Crash, vars, chainVars
    <2>6. tx[c] \in mempool' \union dropped' \/ Mined(tx[c])' \/ Outbid(c)'
        BY <1>4, <2>1, <2>2, <2>3, <2>4, <2>5 DEF Next
    <2> QED  BY <1>1, <2>6 DEF Kept
<1> QED  BY <1>2, <1>3, <1>4 DEF Kept

\* The node's yes comes before the acknowledgement.
LEMMA SecuredAfterOk ==
    ASSUME RelayInv, [Next]_vars, NEW c \in Callers, c \in Secured'
    PROVE  c \in Secured \/ reply[c] = "ok"
<1>0. /\ at \in [Callers -> SubmitPositions] /\ request \in [Callers -> RequestStatus]
      /\ result \in [Callers -> {"none", "202", "400", "502"}]
    BY DEF RelayInv, RowsTyped
<1>1. ASSUME NEW d \in Callers, Submit(d)
      PROVE  \/ UNCHANGED <<at, result, request>> \/ reply[c] = "ok" \/ at[c] = "mark"
             \/ /\ at'[c] # "mark" \/ at'[c] = at[c]
                /\ result'[c] # "202" \/ result'[c] = result[c]
                /\ request'[c] # "submitted" \/ request'[c] = request[c]
    <2>1. CASE Refuse(d) \/ InsertRequest(d) \/ LoadError(d) \/ GetSigner(d) \/ CheckoutError(d)
        BY <1>0, <2>1 DEF Refuse, InsertRequest, LoadError, GetSigner, CheckoutError, Move, Answer, SetIf, dbVars
    <2>2. CASE Quote(d) \/ Reject(d) \/ Send(d) \/ SendOk(d) \/ SendError(d)
        BY <1>0, <2>2 DEF Quote, Reject, Send, SendOk, SendError, Move, Answer, SetIf, dbVars
    <2>3. CASE \E p \in Prices : InsertAttempt(d, p)
        BY <1>0, <2>3 DEF InsertAttempt, Move, Answer
    <2>4. CASE MarkFailed(d) \/ Snapshot(d) \/ Enqueue(d) \/ Finish(d)
        BY <1>0, <2>4 DEF MarkFailed, Snapshot, Enqueue, Finish, Move, dbVars
    <2>5. CASE MarkSubmitted(d)
        BY <1>0, <2>5 DEF MarkSubmitted, Move, Answer, SetIf
    <2>6. CASE Load(d)
        BY <2>6 DEF Load, dbVars, submitVars
    <2> QED  BY <1>1, <2>1, <2>2, <2>3, <2>4, <2>5, <2>6 DEF Submit
<1>2. CASE WatchResolve
    <2>1. PICK e : e = Head(batch)
        OBVIOUS
    <2>2. PICK s \in {"confirmed", "reverted"} : request' = [request EXCEPT ![e] = s]
        BY <1>2, <2>1 DEF WatchResolve
    <2>3. UNCHANGED <<at, result>>
        BY <1>2 DEF WatchResolve, submitVars
    <2> QED  BY <1>0, <2>2, <2>3 DEF Secured
<1>3. CASE UNCHANGED <<at, result, request>>
    BY <1>3 DEF Secured
<1>4. \/ \E d \in Callers : ClientGone(d)
      \/ Tick \/ WatchSkip \/ WatchSnapshot \/ WatchEnqueue
      \/ \E t \in wire : NodeReceive(t)
      \/ \E t \in mempool : NodeMines(t) \/ NodeEvicts(t)
      \/ UNCHANGED vars
      => UNCHANGED <<at, result, request>>
    BY DEF ClientGone, Tick, WatchSkip, WatchSnapshot, WatchEnqueue, NodeReceive, NodeMines, NodeEvicts, vars, dbVars, submitVars
<1>5. CASE Crash
    BY <1>5 DEF Crash, dbVars, Secured
<1>6. ASSUME NEW d \in Callers, Submit(d) PROVE c \in Secured \/ reply[c] = "ok"
    BY <1>1, <1>6 DEF Secured
<1> QED  BY <1>2, <1>3, <1>4, <1>5, <1>6 DEF Next, Watcher

\* What is acknowledged is kept: it was accepted first.
LEMMA AcceptedKeptNext ==
    ASSUME RelayInv, NonceInv, AcceptedKept, [Next]_vars
    PROVE  AcceptedKept'
<1> SUFFICES ASSUME NEW c \in Callers, reply'[c] = "ok" \/ c \in Secured' PROVE Kept(c)'
    BY DEF AcceptedKept
<1>2. CASE reply[c] = "ok" \/ c \in Secured
    <2>1. Kept(c) /\ tx[c] # NoTx
        BY <1>2 DEF AcceptedKept, NonceInv, TxFilled
    <2> QED  BY <2>1, KeptStays
<1>3. CASE reply[c] # "ok" /\ c \notin Secured
    <2>1. reply'[c] = "ok"
        BY <1>3, SecuredAfterOk
    <2>2. PICK t \in wire : NodeReceive(t)
        <3>1. ASSUME NEW d \in Callers, Submit(d) \/ ClientGone(d) PROVE UNCHANGED reply
            BY <3>1 DEF Submit, Refuse, InsertRequest, Load, LoadError, GetSigner, CheckoutError, Quote, Reject,
                 InsertAttempt, Send, SendOk, SendError, MarkFailed, MarkSubmitted, Snapshot, Enqueue, Finish,
                 ClientGone, submitVars
        <3>2. Watcher \/ (\E t \in mempool : NodeMines(t) \/ NodeEvicts(t)) \/ UNCHANGED vars => UNCHANGED reply
            BY DEF Watcher, Tick, WatchSkip, WatchResolve, WatchSnapshot, WatchEnqueue, NodeMines, NodeEvicts, vars, submitVars
        <3>3. ~ Crash
            BY <2>1 DEF Crash
        <3> QED  BY <1>3, <2>1, <3>1, <3>2, <3>3 DEF Next
    <2>3. tx[c] = t /\ t \in mempool' /\ UNCHANGED tx
        BY <1>3, <2>1, <2>2 DEF NodeReceive, NodeTakes, dbVars
    <2> QED  BY <2>3 DEF Kept
<1> QED  BY <1>2, <1>3

\* The invariant of the statuses: what is told, and what is kept.
StatusInv == BoxTold /\ SnapTold /\ WatchTold /\ AcceptedKept

\* Every status of a request and every status a webhook announces is true,
\* whatever crashes, fails, arrives late or is evicted: a final one matches the
\* receipt, a rejected request has no transaction, and a submitted one has a
\* transaction the node accepted, displaced at most by one whose own Submit had
\* given it up, or after an eviction at its nonce or below.
THEOREM RelayStatusIsTrue == Spec => []StatusIsTrue
<1>1. ASSUME Init PROVE StatusInv
    <2>1. BoxTold
        BY <1>1, SMTT(30), Z3T(30) DEF Init, BoxTold
    <2>2. SnapTold /\ WatchTold /\ AcceptedKept
        BY <1>1 DEF Init, SnapTold, WatchTold, AcceptedKept, Secured
    <2> QED  BY <2>1, <2>2 DEF StatusInv
<1>2. PoolInv /\ RelayInv /\ ShapeInv /\ NonceInv /\ StatusInv /\ [Next]_vars => StatusInv'
    BY BoxToldNext, SnapToldNext, AcceptedKeptNext DEF StatusInv, ShapeInv
<1>3. ASSUME PoolInv, RelayInv, ShapeInv, NonceInv, StatusInv PROVE StatusIsTrue
    <2>1. ASSUME NEW c \in Callers, request[c] \in Accepted
          PROVE  tx[c] \in mempool \union dropped \/ Mined(tx[c]) \/ Displaced(c)
        <3>1. CASE request[c] # "submitted"
            <4>1. PICK ok \in BOOLEAN : [tx |-> tx[c], ok |-> ok] \in receipts
                BY <1>3, <2>1, <3>1 DEF RelayInv, FinalIsTrue, Accepted
            <4>2. PICK r : r = [tx |-> tx[c], ok |-> ok]
                OBVIOUS
            <4>3. r.tx = tx[c]
                BY <4>2
            <4> QED  BY <4>1, <4>2, <4>3 DEF Mined
        <3>2. CASE request[c] = "submitted"
            <4>1. c \in Secured /\ Kept(c)
                BY <1>3, <3>2 DEF Secured, StatusInv, AcceptedKept
            <4>2. ASSUME NEW d \in Callers, tx[d] # NoTx, SameSlot(tx[c], tx[d]), tx[c].price < tx[d].price
                  PROVE  result[d] # "202" \/ EvictedUpTo(tx[c])
                <5>1. tx[c] \in Tx /\ tx[c].price \in Nat /\ tx[c].nonce \in Nat /\ tx[c].from \in Accounts
                    BY <1>3, <4>1, ChainAssumption DEF NonceInv, TxFilled, RelayInv, RowsTyped, Tx
                <5>2. c # d
                    BY <4>2, <5>1, SMTT(30), Z3T(30)
                <5>3. ASSUME tx[c].nonce + 1 \in Gone[tx[c].from] PROVE EvictedUpTo(tx[c])
                    <6>1. PICK t \in dropped : t.from = tx[c].from /\ t.nonce < tx[c].nonce + 1
                        BY <5>1, <5>3 DEF Gone
                    <6>2. t.nonce \in Nat
                        BY <1>3 DEF RelayInv, ChainInv, Tx
                    <6>3. t.nonce <= tx[c].nonce
                        BY <5>1, <6>1, <6>2, SMTT(30), Z3T(30)
                    <6> QED  BY <6>1, <6>3 DEF EvictedUpTo
                <5> QED  BY <1>3, <4>1, <4>2, <5>2, <5>3 DEF Secured, NonceInv, SlotsOnce
            <4> QED  BY <4>1, <4>2 DEF Kept, Outbid, Displaced
        <3> QED  BY <3>1, <3>2
    <2>2. ASSUME NEW c \in Callers, NEW s, Told(c, s) PROVE Truthful(c, s)
        BY <1>3, <2>1, <2>2 DEF Told, Truthful, RelayInv, FinalIsTrue
    <2>3. ASSUME NEW c \in Callers PROVE Truthful(c, request[c])
        BY <1>3, <2>2, ReadIsTold
    <2>4. ASSUME NEW c \in Callers, NEW i \in 1..Len(outbox[c]) PROVE Truthful(c, outbox[c][i])
        BY <1>3, <2>2 DEF StatusInv, BoxTold
    <2> QED  BY <2>3, <2>4 DEF StatusIsTrue
<1> QED  BY <1>1, <1>2, <1>3, RelayShape, RelayNonceInvariant, PTL DEF Spec

-----------------------------------------------------------------------------
(* The counters and the node, while nothing is lost between them *)

\* No process, client, answer or pending transaction was lost so far.
Undisturbed == \A k \in {"crash", "rpc", "cancel", "evict"} : Spared(k)

FaultsBounded == \A k \in FaultKinds : faults[k] <= MaxFaults[k]

\* Somebody still waits for the answer to what is on the wire ...
WireAwaited == \A t \in wire : \E c \in Callers : at[c] = "await" /\ tx[c] = t /\ reply[c] = "none"

\* ... the counter of a signer is the nonce the node expects ...
CounterInSync ==
    \A a \in LiveOf : (\E c \in InFlight : holds[c] = a) \/ nonce[a] = PendingNonceAt(a)

\* ... but for a transaction in flight, which has that nonce until the node
\* accepts it ...
FlightInSync ==
    \A c \in InFlight :
        /\ at[c] = "send" => reply[c] = "none"
        /\ reply[c] = "ok" => nonce[holds[c]] = PendingNonceAt(holds[c])
        /\ reply[c] # "ok" => tx[c].nonce = PendingNonceAt(holds[c])

\* ... and what a Load has read is still so while its app is not loaded.
DraftInSync ==
    \A c \in Callers : \A i \in 1..Len(draft[c]) :
        AppOf[c] \notin loaded => draft[c][i] = PendingNonceAt(ListSigners[AppOf[c]][i])

InSync ==
    /\ ctxDone = {} /\ dropped = {}
    /\ WireAwaited
    /\ CounterInSync
    /\ FlightInSync
    /\ DraftInSync

SyncInv == FaultsBounded /\ (Undisturbed => InSync)

\* A fault is spent for good.
LEMMA SparedBefore ==
    ASSUME OutsideShape, FaultsBounded, [Next]_vars
    PROVE  FaultsBounded' /\ \A k \in FaultKinds : Spared(k)' => Spared(k) /\ ~ Spend(k)
<1>0. faults \in [FaultKinds -> Nat] /\ MaxFaults \in [FaultKinds -> Nat]
    BY RelayAssumption DEF OutsideShape
<1>1. ASSUME NEW k \in FaultKinds, Spend(k)
      PROVE  /\ faults'[k] < faults[k] /\ faults'[k] <= MaxFaults[k] /\ faults'[k] # MaxFaults[k]
             /\ \A j \in FaultKinds : j # k => faults'[j] = faults[j]
    <2>1. faults[k] \in Nat /\ MaxFaults[k] \in Nat /\ faults[k] <= MaxFaults[k]
        BY <1>0 DEF FaultsBounded
    <2>2. faults[k] > 0 /\ faults'[k] = faults[k] - 1
        BY <1>0, <1>1 DEF Spend
    <2>3. \A j \in FaultKinds : j # k => faults'[j] = faults[j]
        BY <1>0, <1>1 DEF Spend
    <2>4. faults'[k] < faults[k] /\ faults'[k] <= MaxFaults[k] /\ faults'[k] # MaxFaults[k]
        BY <2>1, <2>2, SMTT(30), Z3T(30)
    <2> QED  BY <2>3, <2>4
<1>2. FaultsBounded'
    BY <1>1, OneFaultAtMost DEF FaultsBounded
<1>3. ASSUME NEW k \in FaultKinds, Spared(k)' PROVE Spared(k) /\ ~ Spend(k)
    <2>1. ~ Spend(k)
        BY <1>1, <1>3 DEF Spared
    <2>2. faults'[k] = faults[k]
        BY <1>1, <2>1, OneFaultAtMost
    <2> QED  BY <1>3, <2>1, <2>2 DEF Spared
<1> QED  BY <1>2, <1>3

LEMMA UndisturbedBefore ==
    ASSUME OutsideShape, FaultsBounded, [Next]_vars
    PROVE  /\ FaultsBounded'
           /\ Undisturbed' => Undisturbed /\ \A k \in {"crash", "rpc", "cancel", "evict"} : ~ Spend(k)
BY SparedBefore DEF Undisturbed, FaultKinds

\* A step that moves no counter and no transaction, and leaves alone what the
\* node reports.
SyncQuiet ==
    /\ UNCHANGED <<wire, dropped, ctxDone, reply>>
    /\ \A a \in Accounts : PendingNonceAt(a)' = PendingNonceAt(a)
    /\ \A c \in Callers : (at[c] = "await" => at'[c] = "await") /\ (at'[c] = "send" => at[c] = "send")

\* Such a step keeps the counters in sync.
LEMMA SyncQuietInv ==
    ASSUME Steady, NonceInv, InSync, QuietStep, SyncQuiet
    PROVE  InSync'
<1>0. /\ \A c \in InFlight : c \in Callers /\ tx[c] # NoTx /\ holds[c] \in Accounts
      /\ LiveOf \subseteq Accounts
    <2>1. \A c \in InFlight : c \in Callers /\ tx[c] # NoTx /\ Holding(c)
        BY Typed
    <2>2. (\A c \in Callers : Holding(c) => holds[c] \in LiveOf) /\ LiveOf \subseteq Accounts
        BY Typed
    <2> QED  BY <2>1, <2>2
<1>1. LiveOf' = LiveOf /\ InFlight' = InFlight /\ \A c \in InFlight : holds'[c] = holds[c]
    BY <1>0 DEF QuietStep, LiveOf
<1>2. ctxDone' = {} /\ dropped' = {}
    BY DEF SyncQuiet, InSync
<1>3. WireAwaited'
    <2> SUFFICES ASSUME NEW t \in wire
                 PROVE  \E c \in Callers : at'[c] = "await" /\ tx'[c] = t /\ reply'[c] = "none"
        BY DEF WireAwaited, SyncQuiet
    <2>1. PICK c \in Callers : at[c] = "await" /\ tx[c] = t /\ reply[c] = "none"
        BY DEF InSync, WireAwaited
    <2>2. c \in InFlight
        BY <2>1 DEF InFlight
    <2>3. at'[c] = "await" /\ reply'[c] = "none" /\ tx'[c] = tx[c]
        BY <1>0, <2>1, <2>2 DEF SyncQuiet, QuietStep
    <2> QED  BY <2>1, <2>3
<1>4. CounterInSync'
    <2> SUFFICES ASSUME NEW a \in LiveOf
                 PROVE  (\E c \in InFlight : holds'[c] = a) \/ nonce'[a] = PendingNonceAt(a)'
        BY <1>1 DEF CounterInSync
    <2>1. (\E c \in InFlight : holds[c] = a) \/ nonce[a] = PendingNonceAt(a)
        BY DEF InSync, CounterInSync
    <2>2. nonce' = nonce /\ PendingNonceAt(a)' = PendingNonceAt(a)
        BY <1>0 DEF SyncQuiet, QuietStep
    <2> QED  BY <1>1, <2>1, <2>2
<1>5. FlightInSync'
    <2> SUFFICES ASSUME NEW c \in InFlight
                 PROVE  /\ at'[c] = "send" => reply'[c] = "none"
                        /\ reply'[c] = "ok" => nonce'[holds'[c]] = PendingNonceAt(holds[c])'
                        /\ reply'[c] # "ok" => tx'[c].nonce = PendingNonceAt(holds[c])'
        BY <1>1 DEF FlightInSync
    <2>1. PICK a : a = holds[c] /\ a = holds'[c]
        BY <1>1
    <2>2. PendingNonceAt(a)' = PendingNonceAt(a)
        BY <1>0, <2>1 DEF SyncQuiet
    <2>3. PendingNonceAt(holds[c])' = PendingNonceAt(a)'
        BY <2>1 DEF PendingNonceAt, PendingNonces
    <2>4. reply' = reply /\ nonce' = nonce /\ tx' = tx
        BY DEF SyncQuiet, QuietStep
    <2>5. at'[c] = "send" => at[c] = "send"
        BY <1>0 DEF SyncQuiet
    <2>6. /\ at[c] = "send" => reply[c] = "none"
          /\ reply[c] = "ok" => nonce[a] = PendingNonceAt(a)
          /\ reply[c] # "ok" => tx[c].nonce = PendingNonceAt(a)
        BY <2>1 DEF InSync, FlightInSync
    <2> QED  BY <2>1, <2>2, <2>3, <2>4, <2>5, <2>6
<1>6. DraftInSync'
    <2> SUFFICES ASSUME NEW c \in Callers, NEW i \in 1..Len(draft'[c]), AppOf[c] \notin loaded'
                 PROVE  draft'[c][i] = PendingNonceAt(ListSigners[AppOf[c]][i])'
        BY DEF DraftInSync
    <2>1. draft'[c] = draft[c]
        BY SMT, Z3 DEF QuietStep
    <2>2. i \in 1..Len(draft[c]) /\ ListSigners[AppOf[c]][i] \in Accounts
        BY <2>1, ListedIsAccount
    <2>3. PendingNonceAt(ListSigners[AppOf[c]][i])' = PendingNonceAt(ListSigners[AppOf[c]][i])
        BY <2>2 DEF SyncQuiet
    <2> QED  BY <2>1, <2>2, <2>3 DEF InSync, DraftInSync, QuietStep
<1> QED  BY <1>2, <1>3, <1>4, <1>5, <1>6 DEF InSync

\* What the node reports depends on the node only.
LEMMA PendingUnchanged ==
    ASSUME UNCHANGED <<accountNonce, mempool>>
    PROVE  \A a : PendingNonceAt(a)' = PendingNonceAt(a)
BY DEF PendingNonceAt, PendingNonces

\* The transaction goes out: its Submit waits for the answer.
LEMMA SyncSend ==
    ASSUME Steady, NonceInv, InSync, NEW c \in Callers, Send(c)
    PROVE  InSync'
<1>1. /\ at[c] = "send" /\ at' = [at EXCEPT ![c] = "await"] /\ wire' = wire \union {tx[c]}
      /\ UNCHANGED <<accountNonce, mempool, dropped, ctxDone, reply, tx, loaded, nonce, draft, holds>>
    BY DEF Send, Move, poolVars, dbVars
<1>2. at \in [Callers -> SubmitPositions]
    BY DEF Steady
<1>3. at'[c] = "await" /\ \A d \in Callers : d # c => at'[d] = at[d]
    BY <1>1, <1>2
<1>4. InFlight' = InFlight /\ c \in InFlight /\ LiveOf' = LiveOf
    BY <1>1, <1>3 DEF InFlight, LiveOf
<1>5. \A a : PendingNonceAt(a)' = PendingNonceAt(a)
    BY <1>1, PendingUnchanged
<1>6. reply[c] = "none"
    BY <1>1, <1>4 DEF InSync, FlightInSync
<1>7. WireAwaited'
    <2> SUFFICES ASSUME NEW t \in wire \union {tx[c]}
                 PROVE  \E d \in Callers : at'[d] = "await" /\ tx[d] = t /\ reply[d] = "none"
        BY <1>1, ZenonT(40) DEF WireAwaited
    <2>1. CASE t = tx[c]
        BY <1>3, <1>6, <2>1
    <2>2. CASE t \in wire
        <3>1. PICK d \in Callers : at[d] = "await" /\ tx[d] = t /\ reply[d] = "none"
            BY <2>2 DEF InSync, WireAwaited
        <3> QED  BY <1>3, <3>1
    <2> QED  BY <2>1, <2>2
<1>8. CounterInSync' /\ DraftInSync'
    BY <1>1, <1>4, <1>5 DEF InSync, CounterInSync, DraftInSync
<1>9. FlightInSync'
    <2> SUFFICES ASSUME NEW d \in InFlight
                 PROVE  /\ at'[d] = "send" => reply[d] = "none"
                        /\ reply[d] = "ok" => nonce[holds[d]] = PendingNonceAt(holds[d])
                        /\ reply[d] # "ok" => tx[d].nonce = PendingNonceAt(holds[d])
        BY <1>1, <1>4, <1>5 DEF FlightInSync
    <2>1. d \in Callers
        BY DEF InFlight
    <2> QED  BY <1>3, <2>1 DEF InSync, FlightInSync
<1> QED  BY <1>1, <1>7, <1>8, <1>9 DEF InSync

\* The answer has come: the counter says what the node expects, whether it
\* stays (the node has the transaction) or is rewound (it does not).
LEMMA SyncAnswer ==
    ASSUME Steady, NonceInv, InSync, NEW c \in Callers, SendOk(c) \/ SendError(c), ~ Spend("rpc")
    PROVE  InSync'
<1>0. /\ at \in [Callers -> SubmitPositions] /\ nonce \in [Addresses -> Nat]
      /\ \A d \in InFlight : d \in Callers /\ Holding(d) /\ holds[d] \in LiveOf
      /\ LiveOf \subseteq Addresses
    <2>1. \A d \in InFlight : d \in Callers /\ Holding(d)
        BY Typed
    <2>2. nonce \in [Addresses -> Nat] /\ LiveOf \subseteq Addresses /\ \A d \in Callers : Holding(d) => holds[d] \in LiveOf
        BY Typed
    <2> QED  BY <2>1, <2>2 DEF Steady
<1>1. /\ at[c] = "await" /\ reply[c] # "none"
      /\ UNCHANGED <<accountNonce, mempool, wire, dropped, ctxDone, reply, tx, loaded, draft, holds>>
    <2>1. c \notin ctxDone
        BY DEF InSync
    <2> QED  BY <2>1 DEF SendOk, SendError, RewindNonce, Move, poolVars, chainVars, dbVars
<1>2. at'[c] \in {"mark", "fail"} /\ \A d \in Callers : d # c => at'[d] = at[d]
    BY <1>0 DEF SendOk, SendError, Move
<1>3. InFlight' = InFlight \ {c} /\ c \in InFlight /\ LiveOf' = LiveOf
    BY <1>1, <1>2 DEF InFlight, LiveOf
<1>4. \A a : PendingNonceAt(a)' = PendingNonceAt(a)
    BY <1>1, PendingUnchanged
<1>5. PICK a : a = holds[c]
    OBVIOUS
<1>6. nonce'[a] = PendingNonceAt(a) /\ \A b \in Addresses : b # a => nonce'[b] = nonce[b]
    <2>1. CASE SendOk(c)
        BY <1>3, <1>5, <2>1 DEF SendOk, poolVars, InSync, FlightInSync
    <2>2. CASE SendError(c)
        <3>1. reply[c] = "err" /\ nonce' = [nonce EXCEPT ![a] = Dec(@)]
            BY <1>1, <1>5, <2>2 DEF SendError, RewindNonce, InSync
        <3>2. a \in Addresses /\ tx[c] # NoTx /\ tx[c].nonce \in Nat
            BY <1>0, <1>3, <1>5, Typed
        <3>3. tx[c].nonce = PendingNonceAt(a) /\ nonce[a] = tx[c].nonce + 1
            BY <1>3, <1>5, <3>1 DEF InSync, FlightInSync, NonceInv, CounterAhead
        <3>4. Dec(nonce[a]) = tx[c].nonce
            BY <3>2, <3>3, SMTT(30), Z3T(30) DEF Dec
        <3> QED  BY <1>0, <3>1, <3>2, <3>3, <3>4
    <2> QED  BY <2>1, <2>2
<1>7. WireAwaited'
    <2> SUFFICES ASSUME NEW t \in wire
                 PROVE  \E d \in Callers : at'[d] = "await" /\ tx[d] = t /\ reply[d] = "none"
        BY <1>1 DEF WireAwaited
    <2>1. PICK d \in Callers : at[d] = "await" /\ tx[d] = t /\ reply[d] = "none"
        BY DEF InSync, WireAwaited
    <2> QED  BY <1>1, <1>2, <2>1
<1>8. CounterInSync'
    <2> SUFFICES ASSUME NEW b \in LiveOf
                 PROVE  (\E d \in InFlight \ {c} : holds[d] = b) \/ nonce'[b] = PendingNonceAt(b)
        BY <1>1, <1>3, <1>4 DEF CounterInSync
    <2>1. CASE b = a
        BY <1>6, <2>1
    <2>2. CASE b # a
        BY <1>0, <1>5, <1>6, <2>2 DEF InSync, CounterInSync
    <2> QED  BY <2>1, <2>2
<1>9. FlightInSync'
    <2> SUFFICES ASSUME NEW d \in InFlight, d # c
                 PROVE  /\ at'[d] = "send" => reply[d] = "none"
                        /\ reply[d] = "ok" => nonce'[holds[d]] = PendingNonceAt(holds[d])
                        /\ reply[d] # "ok" => tx[d].nonce = PendingNonceAt(holds[d])
        BY <1>1, <1>3, <1>4 DEF FlightInSync
    <2>1. holds[d] # a /\ holds[d] \in Addresses /\ d \in Callers
        BY <1>0, <1>3, <1>5 DEF Steady, Exclusive
    <2> QED  BY <1>2, <1>6, <2>1 DEF InSync, FlightInSync
<1>10. DraftInSync'
    BY <1>1, <1>4 DEF InSync, DraftInSync
<1> QED  BY <1>1, <1>7, <1>8, <1>9, <1>10 DEF InSync

\* The nonce c signs with is the one the node expects.
LEMMA SyncInsert ==
    ASSUME Steady, NonceInv, InSync, NEW c \in Callers, NEW p \in Prices, InsertAttempt(c, p)
    PROVE  InSync'
<1>0. /\ at \in [Callers -> SubmitPositions] /\ nonce \in [Addresses -> Nat]
      /\ tx \in [Callers -> Tx \union {NoTx}]
      /\ \A d \in InFlight : d \in Callers /\ Holding(d) /\ holds[d] \in LiveOf
      /\ LiveOf \subseteq Addresses
    <2>1. \A d \in InFlight : d \in Callers /\ Holding(d)
        BY Typed
    <2>2. nonce \in [Addresses -> Nat] /\ LiveOf \subseteq Addresses /\ \A d \in Callers : Holding(d) => holds[d] \in LiveOf
        BY Typed
    <2> QED  BY <2>1, <2>2 DEF Steady
<1>1. PICK a, t : a = holds[c] /\ t = Signed(c, p)
    OBVIOUS
<1>2. /\ at[c] = "attempt" /\ reply[c] = "none" /\ c \notin InFlight
      /\ UNCHANGED <<accountNonce, mempool, wire, dropped, ctxDone, reply, loaded, draft, holds>>
    BY DEF InsertAttempt, UseNonce, chainVars, poolVars, NonceInv, TxFilled, Unsigned, InFlight
<1>3. a \in LiveOf /\ \A d \in InFlight : holds[d] # a
    BY <1>1, <1>2, HeldIsFilled
<1>4. t.nonce = PendingNonceAt(a) /\ nonce[a] = PendingNonceAt(a)
    BY <1>1, <1>3 DEF Signed, InSync, CounterInSync
<1>5. /\ at'[c] \in {"send", "release"}
      /\ \A d \in Callers : d # c => at'[d] = at[d] /\ tx'[d] = tx[d]
      /\ at'[c] = "send" => tx'[c] = t
      /\ at'[c] # "send" => nonce' = nonce
      /\ \A b \in Addresses : b # a => nonce'[b] = nonce[b]
    BY <1>0, <1>1 DEF InsertAttempt, UseNonce, Move, NewAttempt, poolVars
<1>6. LiveOf' = LiveOf /\ \A b : PendingNonceAt(b)' = PendingNonceAt(b)
    BY <1>2, PendingUnchanged DEF LiveOf
<1>7. /\ at'[c] = "send" => InFlight' = InFlight \union {c}
      /\ at'[c] # "send" => InFlight' = InFlight
    BY <1>2, <1>5 DEF InFlight
<1>8. WireAwaited'
    <2> SUFFICES ASSUME NEW u \in wire
                 PROVE  \E d \in Callers : at'[d] = "await" /\ tx'[d] = u /\ reply[d] = "none"
        BY <1>2 DEF WireAwaited
    <2>1. PICK d \in Callers : at[d] = "await" /\ tx[d] = u /\ reply[d] = "none"
        BY DEF InSync, WireAwaited
    <2> QED  BY <1>2, <1>5, <2>1
<1>9. CounterInSync'
    <2> SUFFICES ASSUME NEW b \in LiveOf
                 PROVE  (\E d \in InFlight' : holds[d] = b) \/ nonce'[b] = PendingNonceAt(b)
        BY <1>2, <1>6 DEF CounterInSync
    <2>1. (\E d \in InFlight : holds[d] = b) \/ nonce[b] = PendingNonceAt(b)
        BY DEF InSync, CounterInSync
    <2>2. b \in Addresses
        BY <1>0
    <2> QED  BY <1>1, <1>5, <1>7, <2>1, <2>2
<1>10. FlightInSync'
    <2> SUFFICES ASSUME NEW d \in InFlight'
                 PROVE  /\ at'[d] = "send" => reply[d] = "none"
                        /\ reply[d] = "ok" => nonce'[holds[d]] = PendingNonceAt(holds[d])
                        /\ reply[d] # "ok" => tx'[d].nonce = PendingNonceAt(holds[d])
        BY <1>2, <1>6 DEF FlightInSync
    <2>1. CASE d = c
        <3>1. at'[c] = "send"
            BY <1>2, <1>7, <2>1
        <3> QED  BY <1>1, <1>2, <1>4, <1>5, <2>1, <3>1
    <2>2. CASE d # c
        <3>1. d \in InFlight /\ d \in Callers /\ holds[d] # a /\ holds[d] \in Addresses
            BY <1>0, <1>3, <1>7, <2>2
        <3>2. at'[d] = at[d] /\ tx'[d] = tx[d] /\ nonce'[holds[d]] = nonce[holds[d]]
            BY <1>5, <2>2, <3>1
        <3> QED  BY <3>1, <3>2 DEF InSync, FlightInSync
    <2> QED  BY <2>1, <2>2
<1>11. DraftInSync'
    BY <1>2, <1>6 DEF InSync, DraftInSync
<1> QED  BY <1>2, <1>8, <1>9, <1>10, <1>11 DEF InSync

\* Load reads what the node reports ...
LEMMA SyncFetch ==
    ASSUME Steady, InSync, NEW c \in Callers,
           LoadSigner(c, PendingNonceAt(ListSigners[AppOf[c]][Len(draft[c]) + 1])),
           UNCHANGED <<accountNonce, mempool, wire, dropped, ctxDone, reply, tx, at>>
    PROVE  InSync'
<1>1. draft[c] \in Seq(0..MaxNonce) /\ draft \in [Callers -> Seq(0..MaxNonce)]
    BY DEF Steady, PoolTypeOK
<1>2. PICK k, n : k = Len(draft[c]) + 1 /\ n = PendingNonceAt(ListSigners[AppOf[c]][k])
    OBVIOUS
<1>3. UNCHANGED <<loaded, nonce, holds>> /\ draft' = [draft EXCEPT ![c] = Append(draft[c], n)]
    BY <1>2 DEF LoadSigner
<1>4. InFlight' = InFlight /\ LiveOf' = LiveOf /\ \A b : PendingNonceAt(b)' = PendingNonceAt(b)
    BY <1>3, PendingUnchanged DEF InFlight, LiveOf
<1>5. WireAwaited' /\ CounterInSync'
    BY <1>3, <1>4 DEF InSync, WireAwaited, CounterInSync
<1>6. FlightInSync'
    BY <1>3, <1>4 DEF InSync, FlightInSync
<1>7. DraftInSync'
    <2> SUFFICES ASSUME NEW e \in Callers, NEW i \in 1..Len(draft'[e]), AppOf[e] \notin loaded
                 PROVE  draft'[e][i] = PendingNonceAt(ListSigners[AppOf[e]][i])
        BY <1>3, <1>4 DEF DraftInSync
    <2>1. CASE e = c /\ i = k
        <3>1. draft'[c] = Append(draft[c], n)
            BY <1>1, <1>3
        <3>2. draft'[c][k] = n
            BY <1>1, <1>2, <3>1, SMTT(30), Z3T(30)
        <3> QED  BY <1>2, <2>1, <3>2
    <2>2. CASE e # c \/ i # k
        <3>1. i \in 1..Len(draft[e]) /\ draft'[e][i] = draft[e][i]
            <4>1. CASE e # c
                BY <1>1, <1>3, <4>1, ZenonT(40)
            <4>2. CASE e = c
                <5>1. draft'[c] = Append(draft[c], n)
                    BY <1>1, <1>3
                <5> QED  BY <1>1, <1>2, <2>2, <4>2, <5>1, SMTT(30), Z3T(30)
            <4> QED  BY <4>1, <4>2
        <3> QED  BY <3>1 DEF InSync, DraftInSync
    <2> QED  BY <2>1, <2>2
<1> QED  BY <1>5, <1>6, <1>7 DEF InSync

\* ... and installs it.
LEMMA SyncInstall ==
    ASSUME Steady, NonceInv, InSync, NEW c \in Callers, LoadInstall(c), AppOf[c] \notin loaded,
           UNCHANGED <<accountNonce, mempool, wire, dropped, ctxDone, reply, tx, at>>
    PROVE  InSync'
<1>0. /\ \A d \in InFlight : d \in Callers /\ Holding(d) /\ holds[d] \in LiveOf
      /\ LiveOf \subseteq Addresses
    <2>1. \A d \in InFlight : d \in Callers /\ Holding(d)
        BY Typed
    <2>2. LiveOf \subseteq Addresses /\ \A d \in Callers : Holding(d) => holds[d] \in LiveOf
        BY Typed
    <2> QED  BY <2>1, <2>2
<1>1. PICK p : p = AppOf[c]
    OBVIOUS
<1>2. p \in Apps /\ p \notin loaded /\ loaded \subseteq Apps
    BY <1>1, PoolAssumption DEF Steady, PoolTypeOK
<1>3. /\ Len(draft[c]) = Size(p) /\ draft' = [draft EXCEPT ![c] = << >>] /\ holds' = holds
      /\ loaded' = loaded \union {p}
      /\ nonce' = [a \in Addresses |-> IF a \in SignersOf(p)
                                       THEN draft[c][CHOOSE i \in 1..Size(p) : ListSigners[p][i] = a]
                                       ELSE nonce[a]]
    BY <1>1, <1>2, ZenonT(40) DEF LoadInstall, Install
<1>4. InFlight' = InFlight /\ LiveOf' = LiveOf \union SignersOf(p) /\ \A b : PendingNonceAt(b)' = PendingNonceAt(b)
    BY <1>2, <1>3, AddressHasOneApp, PendingUnchanged DEF InFlight, LiveOf
<1>5. ASSUME NEW a \in LiveOf PROVE nonce'[a] = nonce[a]
    BY <1>0, <1>2, <1>3, <1>5, AddressHasOneApp DEF LiveOf
<1>6. ASSUME NEW a \in SignersOf(p) PROVE nonce'[a] = PendingNonceAt(a)
    <2>1. a \in Addresses
        BY <1>2, AddressHasOneApp
    <2>2. PICK i \in 1..Size(p) : i = CHOOSE j \in 1..Size(p) : ListSigners[p][j] = a
        BY DEF SignersOf, Size
    <2>3. ListSigners[p][i] = a
        BY <2>2 DEF SignersOf, Size
    <2>4. nonce'[a] = draft[c][i] /\ i \in 1..Len(draft[c])
        BY <1>3, <2>1, <2>2
    <2> QED  BY <1>1, <1>2, <2>3, <2>4 DEF InSync, DraftInSync
<1>7. WireAwaited'
    BY DEF InSync, WireAwaited
<1>8. CounterInSync'
    <2> SUFFICES ASSUME NEW a \in LiveOf \union SignersOf(p)
                 PROVE  (\E d \in InFlight : holds[d] = a) \/ nonce'[a] = PendingNonceAt(a)
        BY <1>3, <1>4 DEF CounterInSync
    <2> QED  BY <1>5, <1>6 DEF InSync, CounterInSync
<1>9. FlightInSync'
    <2> SUFFICES ASSUME NEW d \in InFlight
                 PROVE  /\ at[d] = "send" => reply[d] = "none"
                        /\ reply[d] = "ok" => nonce'[holds[d]] = PendingNonceAt(holds[d])
                        /\ reply[d] # "ok" => tx[d].nonce = PendingNonceAt(holds[d])
        BY <1>3, <1>4 DEF FlightInSync
    <2> QED  BY <1>0, <1>5 DEF InSync, FlightInSync
<1>10. DraftInSync'
    <2> SUFFICES ASSUME NEW e \in Callers, NEW i \in 1..Len(draft'[e]), AppOf[e] \notin loaded
                 PROVE  draft'[e][i] = PendingNonceAt(ListSigners[AppOf[e]][i])
        BY <1>3, <1>4 DEF DraftInSync
    <2>1. draft'[e] = draft[e]
        BY <1>3, SMTT(30), Z3T(30) DEF Steady, PoolTypeOK
    <2> QED  BY <2>1 DEF InSync, DraftInSync
<1> QED  BY <1>7, <1>8, <1>9, <1>10 DEF InSync

\* The node accepts the transaction it expects, or refuses it: its Submit knows
\* which, and no other signer is concerned.
LEMMA SyncReceive ==
    ASSUME PoolInv, RelayInv, NonceInv, InSync, NEW t \in wire, NodeReceive(t)
    PROVE  InSync'
<1>0. Steady /\ ChainOK
    BY InvariantsAreSteady, RelayChainOK DEF NonceInv
<1>1. PICK accepts \in BOOLEAN :
         /\ NodeTakes(t, accepts)
         /\ reply' = [c \in Callers |-> IF at[c] = "await" /\ tx[c] = t
                                        THEN IF accepts THEN "ok" ELSE "err"
                                        ELSE reply[c]]
    BY DEF NodeReceive
<1>2. UNCHANGED <<tx, at, ctxDone, dropped, loaded, nonce, draft, holds>> /\ wire' = wire \ {t}
    BY <1>1 DEF NodeReceive, NodeTakes, poolVars, dbVars
<1>3. InFlight' = InFlight /\ LiveOf' = LiveOf
    BY <1>2 DEF InFlight, LiveOf
<1>4. /\ \A d \in InFlight : d \in Callers /\ Holding(d) /\ holds[d] \in LiveOf
      /\ LiveOf \subseteq Accounts
    <2>1. \A d \in InFlight : d \in Callers /\ Holding(d)
        BY <1>0, Typed
    <2>2. LiveOf \subseteq Accounts /\ \A d \in Callers : Holding(d) => holds[d] \in LiveOf
        BY <1>0, Typed
    <2> QED  BY <2>1, <2>2
<1>5. PICK c \in Callers : at[c] = "await" /\ tx[c] = t /\ reply[c] = "none"
    BY DEF InSync, WireAwaited
<1>6. PICK a : a = t.from
    OBVIOUS
<1>7. c \in InFlight /\ holds[c] = a /\ nonce[a] = t.nonce + 1 /\ t.nonce = PendingNonceAt(a) /\ a \in LiveOf
    <2>1. c \in InFlight
        BY <1>5 DEF InFlight
    <2>2. holds[c] = a /\ nonce[a] = t.nonce + 1
        BY <1>5, <1>6, <2>1 DEF NonceInv, CounterAhead
    <2>3. reply[c] # "ok"
        BY <1>5
    <2>4. tx[c].nonce = PendingNonceAt(holds[c])
        BY <2>1, <2>3 DEF InSync, FlightInSync
    <2> QED  BY <1>4, <1>5, <2>1, <2>2, <2>4
<1>8. Numbered(t)
    BY <1>0, ChainAssumption DEF Steady, Numbered, Tx
<1>9. \A b \in Accounts : b # a => PendingNonceAt(b)' = PendingNonceAt(b)
    BY <1>0, <1>1, <1>6, <1>8, PendingOfOthers
<1>10. ~ accepts => PendingNonceAt(a)' = PendingNonceAt(a)
    BY <1>0, <1>1, <1>4, <1>7, <1>8, PendingOfOthers
<1>11. ASSUME accepts PROVE PendingNonceAt(a)' = t.nonce + 1
    <2>1. \A m \in PendingNonces(t.from) : m < t.nonce
        BY <1>6, <1>7, PendingComeBefore DEF InSync, PendingNonces
    <2>2. NodeTakes(t, TRUE)
        BY <1>1, <1>11 DEF NodeTakes
    <2> QED  BY <1>0, <1>6, <1>7, <1>8, <2>1, <2>2, PendingAfterAccept
<1>12. ASSUME NEW d \in InFlight, d # c PROVE holds[d] # a /\ reply'[d] = reply[d]
    <2>1. holds[d] # a
        BY <1>0, <1>4, <1>7, <1>12 DEF Steady, Exclusive
    <2>2. tx[d].from = holds[d]
        BY DEF NonceInv, CounterAhead
    <2>3. tx[d] # t
        BY <1>6, <2>1, <2>2
    <2> QED  BY <1>1, <1>4, <2>1, <2>3
<1>13. WireAwaited'
    <2> SUFFICES ASSUME NEW u \in wire, u # t
                 PROVE  \E d \in Callers : at[d] = "await" /\ tx[d] = u /\ reply'[d] = "none"
        BY <1>2 DEF WireAwaited
    <2>1. PICK d \in Callers : at[d] = "await" /\ tx[d] = u /\ reply[d] = "none"
        BY DEF InSync, WireAwaited
    <2> QED  BY <1>1, <2>1
<1>14. CounterInSync'
    <2> SUFFICES ASSUME NEW b \in LiveOf
                 PROVE  (\E d \in InFlight : holds[d] = b) \/ nonce[b] = PendingNonceAt(b)'
        BY <1>2, <1>3 DEF CounterInSync
    <2>1. CASE b = a
        BY <1>7, <2>1
    <2>2. CASE b # a
        BY <1>4, <1>9, <2>2 DEF InSync, CounterInSync
    <2> QED  BY <2>1, <2>2
<1>15. FlightInSync'
    <2> SUFFICES ASSUME NEW d \in InFlight
                 PROVE  /\ at[d] = "send" => reply'[d] = "none"
                        /\ reply'[d] = "ok" => nonce[holds[d]] = PendingNonceAt(holds[d])'
                        /\ reply'[d] # "ok" => tx[d].nonce = PendingNonceAt(holds[d])'
        BY <1>2, <1>3 DEF FlightInSync
    <2>1. CASE d = c
        <3>1. at[d] = "await" /\ reply'[d] = IF accepts THEN "ok" ELSE "err"
            BY <1>1, <1>5, <2>1
        <3>2. holds'[d] = a /\ holds[d] = a /\ tx[d] = t
            BY <1>2, <1>5, <1>7, <2>1
        <3>3. CASE accepts
            BY <1>7, <1>11, <3>1, <3>2, <3>3
        <3>4. CASE ~ accepts
            BY <1>7, <1>10, <3>1, <3>2, <3>4
        <3> QED  BY <3>3, <3>4
    <2>2. CASE d # c
        <3>1. PICK b : b = holds[d]
            OBVIOUS
        <3>2. b # a /\ b \in Accounts /\ reply'[d] = reply[d] /\ b = holds'[d]
            BY <1>2, <1>4, <1>12, <2>2, <3>1
        <3>3. PendingNonceAt(b)' = PendingNonceAt(b)
            BY <1>9, <3>2
        <3>4. /\ at[d] = "send" => reply[d] = "none"
              /\ reply[d] = "ok" => nonce[b] = PendingNonceAt(b)
              /\ reply[d] # "ok" => tx[d].nonce = PendingNonceAt(b)
            BY <3>1 DEF InSync, FlightInSync
        <3> QED  BY <3>1, <3>2, <3>3, <3>4
    <2> QED  BY <2>1, <2>2
<1>16. DraftInSync'
    <2> SUFFICES ASSUME NEW e \in Callers, NEW i \in 1..Len(draft[e]), AppOf[e] \notin loaded
                 PROVE  draft[e][i] = PendingNonceAt(ListSigners[AppOf[e]][i])'
        BY <1>2 DEF DraftInSync
    <2>1. PICK b : b = ListSigners[AppOf[e]][i]
        OBVIOUS
    <2>2. b \in Accounts /\ b \in SignersOf(AppOf[e]) /\ AppOf[e] \in Apps
        BY <1>0, <2>1, ListedIsAccount, PoolAssumption DEF SignersOf, Size
    <2>3. PICK q \in loaded : a \in SignersOf(q)
        BY <1>7 DEF LiveOf
    <2>4. q \in Apps
        BY <1>0, <2>3 DEF Steady, PoolTypeOK
    <2>5. b # a
        BY <2>2, <2>3, <2>4, AddressHasOneApp
    <2>6. draft[e][i] = PendingNonceAt(b)
        BY <2>1 DEF InSync, DraftInSync
    <2> QED  BY <1>9, <2>1, <2>2, <2>5, <2>6
<1> QED  BY <1>2, <1>13, <1>14, <1>15, <1>16 DEF InSync

\* The steps of Submit keep the counters in sync when no answer is lost.
LEMMA SyncSubmit ==
    ASSUME Steady, NonceInv, InSync, NEW c \in Callers, Submit(c), ~ Spend("rpc")
    PROVE  InSync'
<1>0. at \in [Callers -> SubmitPositions] /\ draft \in [Callers -> Seq(0..MaxNonce)]
    BY DEF Steady, PoolTypeOK
<1>1. CASE \/ Refuse(c) \/ InsertRequest(c) \/ LoadError(c) \/ GetSigner(c) \/ CheckoutError(c)
           \/ Quote(c) \/ Reject(c) \/ MarkFailed(c) \/ MarkSubmitted(c)
           \/ Snapshot(c) \/ Enqueue(c) \/ Finish(c)
    <2>1. QuietStep
        BY <1>1, QuietSteps
    <2>2. UNCHANGED <<accountNonce, mempool, wire, dropped, ctxDone, reply>>
        BY <1>1 DEF Refuse, InsertRequest, LoadError, GetSigner, CheckoutError, Quote, Reject, MarkFailed,
             MarkSubmitted, Snapshot, Enqueue, Finish, chainVars
    <2>3. at[c] # "await" /\ at'[c] # "send" /\ \A d \in Callers : d # c => at'[d] = at[d]
        BY <1>0, <1>1 DEF Refuse, InsertRequest, LoadError, GetSigner, CheckoutError, Quote, Reject, MarkFailed,
             MarkSubmitted, Snapshot, Enqueue, Finish, Move
    <2>4. SyncQuiet
        BY <2>2, <2>3, PendingUnchanged DEF SyncQuiet
    <2> QED  BY <2>1, <2>4, SyncQuietInv
<1>2. CASE Load(c)
    <2>1. UNCHANGED <<accountNonce, mempool, wire, dropped, ctxDone, reply, tx, at, result, request>>
        BY <1>2 DEF Load, chainVars, dbVars, submitVars
    <2>2. CASE LoadBegin(c) \/ LoadList(c) \/ (LoadInstall(c) /\ AppOf[c] \in loaded)
        <3>1. UNCHANGED <<loaded, nonce, holds>>
            BY <2>2 DEF LoadBegin, LoadList, LoadInstall
        <3>2. \A d \in Callers : draft'[d] = draft[d] \/ draft'[d] = << >>
            BY <1>0, <2>2 DEF LoadBegin, LoadList, LoadInstall
        <3>3. InFlight' = InFlight /\ Secured' = Secured
            BY <2>1 DEF InFlight, Secured
        <3>4. QuietStep
            BY <2>1, <3>1, <3>2, <3>3 DEF QuietStep, NonceInv, TxFilled
        <3>5. SyncQuiet
            BY <2>1, PendingUnchanged DEF SyncQuiet
        <3> QED  BY <3>4, <3>5, SyncQuietInv
    <2>3. CASE \E n \in 0..MaxNonce : n = PendingNonceAt(ListSigners[AppOf[c]][Len(draft[c]) + 1]) /\ LoadSigner(c, n)
        BY <2>1, <2>3, SyncFetch
    <2>4. CASE LoadInstall(c) /\ AppOf[c] \notin loaded
        BY <2>1, <2>4, SyncInstall
    <2> QED  BY <1>2, <2>2, <2>3, <2>4 DEF Load
<1>3. CASE \E p \in Prices : InsertAttempt(c, p)
    BY <1>3, SyncInsert
<1>4. CASE Send(c)
    BY <1>4, SyncSend
<1>5. CASE SendOk(c) \/ SendError(c)
    BY <1>5, SyncAnswer
<1> QED  BY <1>1, <1>2, <1>3, <1>4, <1>5 DEF Submit

\* Every step keeps them so, but for a crash, a lost answer, a client that is
\* gone and an eviction.
LEMMA SyncNextInv ==
    ASSUME PoolInv, RelayInv, NonceInv, OutsideShape, SyncInv, [Next]_vars
    PROVE  SyncInv'
<1>0. Steady /\ ChainOK
    BY InvariantsAreSteady, RelayChainOK DEF NonceInv
<1>1. FaultsBounded'
    BY UndisturbedBefore DEF SyncInv
<1> SUFFICES ASSUME Undisturbed' PROVE InSync'
    BY <1>1 DEF SyncInv
<1>2. InSync /\ \A k \in {"crash", "rpc", "cancel", "evict"} : ~ Spend(k)
    BY UndisturbedBefore DEF SyncInv
<1>3. ASSUME NEW c \in Callers, Submit(c) PROVE InSync'
    BY <1>0, <1>2, <1>3, SyncSubmit
<1>4. ASSUME Watcher \/ UNCHANGED vars \/ \E t \in mempool : NodeMines(t) PROVE InSync'
    <2>1. /\ UNCHANGED <<tx, loaded, nonce, draft, holds, reply, at, result, wire, dropped, ctxDone>>
          /\ \A c \in Callers : request'[c] = "submitted" => request[c] = "submitted"
        <3>1. ASSUME WatchResolve, NEW c \in Callers, request'[c] = "submitted" PROVE request[c] = "submitted"
            <4>1. PICK s \in {"confirmed", "reverted"} : request' = [request EXCEPT ![Head(batch)] = s]
                BY <3>1 DEF WatchResolve
            <4> QED  BY <1>0, <3>1, <4>1 DEF Steady
        <3> QED  BY <1>4, <3>1 DEF Watcher, Tick, WatchSkip, WatchResolve, WatchSnapshot, WatchEnqueue,
               NodeMines, Mine, vars, poolVars, chainVars, dbVars, submitVars
    <2>2. InFlight' = InFlight /\ Secured' \subseteq Secured
        BY <2>1 DEF InFlight, Secured
    <2>3. QuietStep
        BY <2>1, <2>2 DEF QuietStep, NonceInv, TxFilled
    <2>4. \A a \in Accounts : PendingNonceAt(a)' = PendingNonceAt(a)
        <3>1. CASE \E t \in mempool : NodeMines(t)
            BY <1>0, <3>1, PendingAfterMine DEF NodeMines
        <3>2. CASE Watcher \/ UNCHANGED vars
            <4>1. UNCHANGED <<accountNonce, mempool>>
                BY <3>2 DEF Watcher, Tick, WatchSkip, WatchResolve, WatchSnapshot, WatchEnqueue, vars, chainVars
            <4> QED  BY <4>1, PendingUnchanged
        <3> QED  BY <1>4, <3>1, <3>2
    <2>5. SyncQuiet
        BY <2>1, <2>4 DEF SyncQuiet
    <2> QED  BY <1>0, <1>2, <2>3, <2>5, SyncQuietInv
<1>5. ASSUME NEW t \in wire, NodeReceive(t) PROVE InSync'
    BY <1>2, <1>5, SyncReceive
<1>6. ~ Crash /\ (\A c \in Callers : ~ ClientGone(c)) /\ (\A t \in mempool : ~ NodeEvicts(t))
    BY <1>2 DEF Crash, ClientGone, NodeEvicts
<1> QED  BY <1>3, <1>4, <1>5, <1>6 DEF Next

\* They are in sync at the start.
LEMMA SyncInitInv == Init => SyncInv
<1> SUFFICES ASSUME Init PROVE SyncInv
    OBVIOUS
<1>1. FaultsBounded
    BY RelayAssumption, SMTT(30), Z3T(30) DEF Init, FaultsBounded
<1>2. InFlight = {} /\ LiveOf = {} /\ wire = {} /\ ctxDone = {} /\ dropped = {}
    BY DEF Init, PoolInit, ChainInit, InFlight, LiveOf
<1>3. DraftInSync
    BY SMT, Z3 DEF Init, PoolInit, DraftInSync
<1> QED  BY <1>1, <1>2, <1>3 DEF SyncInv, InSync, WireAwaited, CounterInSync, FlightInSync

\* Until a crash, a lost answer, a cancelled request or an eviction, the counter
\* of every idle signer is the nonce the node expects next, whatever the
\* database and the node answer and however the Submits interleave.
THEOREM RelayNonceInSync == Spec => []NonceInSync
<1>1. ASSUME PoolInv, RelayInv, NonceInv, SyncInv PROVE NonceInSync
    <2> SUFFICES ASSUME Undisturbed, NEW a \in Addresses, IsIdle(a) PROVE nonce[a] = PendingNonceAt(a)
        BY DEF NonceInSync, Undisturbed
    <2>1. a \in LiveOf /\ ~ \E c \in Callers : Holding(c) /\ holds[c] = a
        BY <1>1, IdleIsLive
    <2>2. \A c \in InFlight : c \in Callers /\ Holding(c)
        BY <1>1, Typed, InvariantsAreSteady
    <2> QED  BY <1>1, <2>1, <2>2 DEF SyncInv, InSync, CounterInSync
<1>2. ShapeInv => OutsideShape
    BY DEF ShapeInv
<1>3. Spec => []SyncInv
    BY <1>2, SyncInitInv, SyncNextInv, RelayNonceInvariant, RelayShape, PTL DEF Spec
<1> QED  BY <1>1, <1>3, RelayNonceInvariant, PTL

-----------------------------------------------------------------------------
(* The announcement of final statuses *)

\* No process, client or database connection was lost so far.
Unlost == \A k \in {"crash", "db", "cancel"} : Spared(k)

Announced(c) == Announcing(c) \/ \E i \in 1..Len(outbox[c]) : outbox[c][i] = request[c]

AnnounceInv ==
    /\ FaultsBounded
    /\ Unlost => ctxDone = {} /\ \A c \in Hooked : request[c] \in Final => Announced(c)

\* The step takes away no process, client or connection.
Lossless == ctxDone = {} /\ \A k \in {"crash", "db", "cancel"} : ~ Spend(k)

\* An announcement is not withdrawn.
LEMMA AnnouncementStays ==
    ASSUME Announcements, [Next]_vars, NEW c \in Callers, NEW i \in 1..Len(outbox[c])
    PROVE  i \in 1..Len(outbox'[c]) /\ outbox'[c][i] = outbox[c][i]
<1>1. outbox[c] \in Seq(RequestStatus) /\ snap[c] \in RequestStatus /\ wsnap \in RequestStatus
    BY DEF Announcements
<1>2. ASSUME NEW s \in RequestStatus, outbox'[c] = Append(outbox[c], s)
      PROVE  i \in 1..Len(outbox'[c]) /\ outbox'[c][i] = outbox[c][i]
    BY <1>1, <1>2, SMTT(30), Z3T(30)
<1> QED  BY <1>1, <1>2, OutboxSteps

\* What is added is there.
LEMMA AddedIsThere ==
    ASSUME Announcements, NEW c \in Callers, NEW s \in RequestStatus, outbox'[c] = Append(outbox[c], s)
    PROVE  \E i \in 1..Len(outbox'[c]) : outbox'[c][i] = s
<1>1. outbox[c] \in Seq(RequestStatus)
    BY DEF Announcements
<1>2. /\ Len(outbox[c]) + 1 \in 1..Len(outbox'[c])
      /\ outbox'[c][Len(outbox[c]) + 1] = s
    BY <1>1, SMTT(30), Z3T(30)
<1> QED  BY <1>2

\* Submit goes from the update to the snapshot, and from there to the insert,
\* unless something is lost.
LEMMA SubmitAnnounces ==
    ASSUME RelayInv, Announcements, Lossless, [Next]_vars, NEW c \in Hooked
    PROVE  /\ at[c] = "snap" => \/ at'[c] = "snap"
                                \/ at'[c] = "enqueue" /\ snap'[c] = request[c] /\ UNCHANGED request
           /\ at[c] = "enqueue" => \/ at'[c] = "enqueue" /\ snap'[c] = snap[c]
                                   \/ outbox'[c] = Append(outbox[c], snap[c]) /\ UNCHANGED request
<1>0. /\ at \in [Callers -> SubmitPositions] /\ snap \in [Callers -> RequestStatus]
      /\ outbox \in [Callers -> Seq(RequestStatus)] /\ c \in Callers
    BY RelayAssumption DEF RelayInv, RowsTyped, Announcements
<1>1. ASSUME NEW d \in Callers, Submit(d)
      PROVE  \/ at'[c] = at[c] /\ snap'[c] = snap[c]
             \/ at[c] \notin {"snap", "enqueue"}
             \/ Snapshot(c) \/ Enqueue(c)
    <2>1. CASE Refuse(d) \/ InsertRequest(d) \/ LoadError(d) \/ GetSigner(d) \/ CheckoutError(d)
        BY <1>0, <2>1 DEF Refuse, InsertRequest, LoadError, GetSigner, CheckoutError, Move
    <2>2. CASE Quote(d) \/ Reject(d) \/ Send(d) \/ SendOk(d) \/ SendError(d)
        BY <1>0, <2>2 DEF Quote, Reject, Send, SendOk, SendError, Move
    <2>3. CASE \E p \in Prices : InsertAttempt(d, p)
        BY <1>0, <2>3 DEF InsertAttempt, Move
    <2>4. CASE MarkFailed(d) \/ MarkSubmitted(d) \/ Finish(d)
        BY <1>0, <2>4 DEF MarkFailed, MarkSubmitted, Finish, Move
    <2>5. CASE Snapshot(d) \/ Enqueue(d)
        BY <1>0, <2>5 DEF Snapshot, Enqueue, Move
    <2>6. CASE Load(d)
        BY <2>6 DEF Load, submitVars
    <2> QED  BY <1>1, <2>1, <2>2, <2>3, <2>4, <2>5, <2>6 DEF Submit
<1>2. ASSUME Snapshot(c)
      PROVE  at[c] = "snap" /\ at'[c] = "enqueue" /\ snap'[c] = request[c] /\ UNCHANGED request
    BY <1>0, <1>2 DEF Snapshot, Move, DbErr, Lossless, dbVars
<1>3. ASSUME Enqueue(c)
      PROVE  at[c] = "enqueue" /\ outbox'[c] = Append(outbox[c], snap[c]) /\ UNCHANGED request
    <2>1. at[c] = "enqueue" /\ outbox' = [outbox EXCEPT ![c] = Append(@, snap[c])] /\ UNCHANGED request
        BY <1>3 DEF Enqueue, Move, DbErr, Lossless
    <2> QED  BY <1>0, <2>1
<1>4. \/ \E d \in Callers : ClientGone(d)
      \/ Watcher
      \/ \E t \in wire : NodeReceive(t)
      \/ \E t \in mempool : NodeMines(t) \/ NodeEvicts(t)
      \/ UNCHANGED vars
      => UNCHANGED <<at, snap>>
    BY DEF ClientGone, Watcher, Tick, WatchSkip, WatchResolve, WatchSnapshot, WatchEnqueue, NodeReceive,
         NodeMines, NodeEvicts, vars, submitVars
<1>5. ~ Crash
    BY DEF Crash, Lossless
<1> QED  BY <1>1, <1>2, <1>3, <1>4, <1>5 DEF Next

\* So does the watcher.
LEMMA WatcherAnnounces ==
    ASSUME WatcherShape, Announcements, Lossless, [Next]_vars, NEW c \in Hooked, wpos # "scan", Head(batch) = c
    PROVE  /\ wpos = "snap" => \/ UNCHANGED <<wpos, batch>>
                               \/ wpos' = "enqueue" /\ wsnap' = request[c] /\ UNCHANGED <<batch, request>>
           /\ wpos = "enqueue" => \/ UNCHANGED <<wpos, batch, wsnap>>
                                  \/ outbox'[c] = Append(outbox[c], wsnap) /\ UNCHANGED request
<1>0. c \in Callers /\ outbox \in [Callers -> Seq(RequestStatus)]
    BY RelayAssumption DEF Announcements
<1>1. CASE WatchSnapshot
    BY <1>1 DEF WatchSnapshot, Lossless, dbVars
<1>2. CASE WatchEnqueue
    <2>1. wpos = "enqueue" /\ outbox' = [outbox EXCEPT ![c] = Append(@, wsnap)] /\ UNCHANGED request
        BY <1>2 DEF WatchEnqueue, Lossless
    <2> QED  BY <1>0, <2>1
<1>3. ~ Tick /\ ~ WatchSkip /\ ~ WatchResolve /\ ~ Crash
    BY DEF Tick, WatchSkip, WatchResolve, Crash, Lossless
<1>4. ASSUME NEW d \in Callers, Submit(d) \/ ClientGone(d) PROVE UNCHANGED watcherVars
    BY <1>4 DEF Submit, Refuse, InsertRequest, Load, LoadError, GetSigner, CheckoutError, Quote, Reject,
         InsertAttempt, Send, SendOk, SendError, MarkFailed, MarkSubmitted, Snapshot, Enqueue, Finish, ClientGone
<1>5. \/ \E t \in wire : NodeReceive(t)
      \/ \E t \in mempool : NodeMines(t) \/ NodeEvicts(t)
      \/ UNCHANGED vars
      => UNCHANGED watcherVars
    BY DEF NodeReceive, NodeMines, NodeEvicts, vars
<1> QED  BY <1>1, <1>2, <1>3, <1>4, <1>5 DEF Next, Watcher, watcherVars

\* A status that is announced stays so, as long as it is the status.
LEMMA AnnouncedStays ==
    ASSUME RelayInv, WatcherShape, Announcements, Lossless, [Next]_vars,
           NEW c \in Hooked, request'[c] = request[c], Announced(c)
    PROVE  Announced(c)'
<1>0. c \in Callers /\ snap[c] \in RequestStatus /\ wsnap \in RequestStatus
    BY RelayAssumption DEF Announcements
<1>1. CASE \E i \in 1..Len(outbox[c]) : outbox[c][i] = request[c]
    BY <1>0, <1>1, AnnouncementStays DEF Announced
<1>2. CASE at[c] = "snap"
    BY <1>2, SubmitAnnounces DEF Announced, Announcing
<1>3. CASE at[c] = "enqueue" /\ snap[c] = request[c]
    <2>1. CASE at'[c] = "enqueue" /\ snap'[c] = snap[c]
        BY <1>3, <2>1 DEF Announced, Announcing
    <2>2. CASE outbox'[c] = Append(outbox[c], snap[c])
        <3>1. \E i \in 1..Len(outbox'[c]) : outbox'[c][i] = snap[c]
            BY <1>0, <2>2, AddedIsThere
        <3> QED  BY <1>3, <3>1 DEF Announced
    <2> QED  BY <1>3, <2>1, <2>2, SubmitAnnounces
<1>4. CASE wpos = "snap" /\ Head(batch) = c
    BY <1>4, WatcherAnnounces DEF Announced, Announcing
<1>5. CASE wpos = "enqueue" /\ Head(batch) = c /\ wsnap = request[c]
    <2>1. CASE UNCHANGED <<wpos, batch, wsnap>>
        BY <1>5, <2>1 DEF Announced, Announcing
    <2>2. CASE outbox'[c] = Append(outbox[c], wsnap)
        <3>1. \E i \in 1..Len(outbox'[c]) : outbox'[c][i] = wsnap
            BY <1>0, <2>2, AddedIsThere
        <3> QED  BY <1>5, <3>1 DEF Announced
    <2> QED  BY <1>5, <2>1, <2>2, WatcherAnnounces
<1> QED  BY <1>1, <1>2, <1>3, <1>4, <1>5 DEF Announced, Announcing

\* Whoever makes a status final goes on to announce it.
LEMMA NewlyFinal ==
    ASSUME RelayInv, Lossless, [Next]_vars, NEW c \in Hooked, request'[c] # request[c], request'[c] \in Final
    PROVE  Announced(c)'
<1>0. request \in [Callers -> RequestStatus] /\ at \in [Callers -> SubmitPositions] /\ c \in Callers
    BY RelayAssumption DEF RelayInv, RowsTyped
<1>1. ASSUME NEW d \in Callers, Submit(d) PROVE at'[c] = "snap"
    <2>1. CASE InsertRequest(d) \/ MarkSubmitted(d)
        BY <1>0, <2>1 DEF InsertRequest, MarkSubmitted, SetIf, Final
    <2>2. CASE Reject(d)
        BY <1>0, <2>2 DEF Reject, Move, DbErr, Lossless
    <2>3. CASE ~ (InsertRequest(d) \/ Reject(d) \/ MarkSubmitted(d))
        BY <1>1, <2>3 DEF Submit, Refuse, Load, LoadError, GetSigner, CheckoutError, Quote, InsertAttempt,
             Send, SendOk, SendError, MarkFailed, Snapshot, Enqueue, Finish, dbVars
    <2> QED  BY <2>1, <2>2, <2>3
<1>2. ASSUME WatchResolve PROVE wpos' = "snap" /\ Head(batch') = c
    <2>1. PICK e : e = Head(batch)
        OBVIOUS
    <2>2. PICK s : request' = [request EXCEPT ![e] = s] /\ wpos' = "snap" /\ UNCHANGED batch
        BY <1>2, <2>1 DEF WatchResolve, Lossless
    <2> QED  BY <1>0, <2>1, <2>2
<1>3. \/ \E d \in Callers : ClientGone(d)
      \/ Tick \/ WatchSkip \/ WatchSnapshot \/ WatchEnqueue \/ Crash
      \/ \E t \in wire : NodeReceive(t)
      \/ \E t \in mempool : NodeMines(t) \/ NodeEvicts(t)
      \/ UNCHANGED vars
      => UNCHANGED request
    BY DEF ClientGone, Tick, WatchSkip, WatchSnapshot, WatchEnqueue, NodeReceive, NodeMines, NodeEvicts, Crash, vars, dbVars
<1>4. Announcing(c)'
    BY <1>1, <1>2, <1>3 DEF Next, Watcher, Announcing
<1> QED  BY <1>4 DEF Announced

\* Every step keeps final statuses announced.
LEMMA AnnounceNextInv ==
    ASSUME RelayInv, ShapeInv, AnnounceInv, [Next]_vars
    PROVE  AnnounceInv'
<1>1. FaultsBounded'
    BY SparedBefore DEF ShapeInv, AnnounceInv
<1> SUFFICES ASSUME Unlost' PROVE ctxDone' = {} /\ \A c \in Hooked : request'[c] \in Final => Announced(c)'
    BY <1>1 DEF AnnounceInv
<1>2. Unlost /\ Lossless
    BY SparedBefore DEF ShapeInv, AnnounceInv, Unlost, Lossless, FaultKinds
<1>3. ctxDone' = {}
    <2>1. ~ Crash /\ \A c \in Callers : ~ ClientGone(c)
        BY <1>2 DEF Crash, ClientGone, Lossless
    <2>2. ASSUME NEW c \in Callers, Submit(c) PROVE UNCHANGED ctxDone
        BY <2>2 DEF Submit, Refuse, InsertRequest, Load, LoadError, GetSigner, CheckoutError, Quote, Reject,
             InsertAttempt, Send, SendOk, SendError, MarkFailed, MarkSubmitted, Snapshot, Enqueue, Finish, submitVars
    <2>3. \/ Watcher
          \/ \E t \in wire : NodeReceive(t)
          \/ \E t \in mempool : NodeMines(t) \/ NodeEvicts(t)
          \/ UNCHANGED vars
          => UNCHANGED ctxDone
        BY DEF Watcher, Tick, WatchSkip, WatchResolve, WatchSnapshot, WatchEnqueue, NodeReceive, NodeMines,
             NodeEvicts, vars, submitVars
    <2> QED  BY <1>2, <2>1, <2>2, <2>3 DEF Next, Lossless
<1>4. ASSUME NEW c \in Hooked, request'[c] \in Final PROVE Announced(c)'
    <2>1. CASE request'[c] = request[c]
        BY <1>2, <1>4, <2>1, AnnouncedStays DEF ShapeInv, AnnounceInv
    <2>2. CASE request'[c] # request[c]
        BY <1>2, <1>4, <2>2, NewlyFinal
    <2> QED  BY <2>1, <2>2
<1> QED  BY <1>3, <1>4

\* As long as no process, client or database connection was lost, the final
\* status of a request with a callback is in a payload, or Submit or the watcher
\* is about to put it into one, however the two interleave and whatever the node
\* answers, delays or evicts.
THEOREM RelayFinalIsAnnounced == Spec => []FinalIsAnnounced
<1>1. ASSUME Init PROVE AnnounceInv
    <2>1. FaultsBounded
        BY <1>1, SyncInitInv DEF SyncInv
    <2>2. ctxDone = {} /\ \A c \in Hooked : request[c] \notin Final
        BY <1>1, RelayAssumption DEF Init, Final
    <2> QED  BY <2>1, <2>2 DEF AnnounceInv
<1>2. AnnounceInv => FinalIsAnnounced
    BY DEF AnnounceInv, FinalIsAnnounced, Unlost, Announced
<1> QED  BY <1>1, <1>2, AnnounceNextInv, RelayShape, PTL DEF Spec

=============================================================================
