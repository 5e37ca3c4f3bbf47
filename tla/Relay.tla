------------------------------- MODULE Relay --------------------------------
(***************************************************************************)
(* The life of relay requests: relay.Service.Submit (internal/relay/       *)
(* service.go) running in several goroutines, the receipt watcher          *)
(* (internal/relay/watcher.go), the webhook rows both of them enqueue      *)
(* (webhook.Service.Enqueue), the rows of the database, and a process that *)
(* can die and start again at any point.                                   *)
(*                                                                         *)
(* A caller c of the signer pool is one POST /v1/relay: its request, the   *)
(* single attempt Submit makes for it, and the goroutine that serves it.   *)
(* Every database call and every RPC is a step of its own, so everything   *)
(* else can happen between two of them.                                    *)
(***************************************************************************)
EXTENDS SignerPool, Chain

CONSTANTS
    Body,       \* Body[c]: the call that c asks to relay; a retry has an equal one
    Hooked,     \* the requests with a callback URL and a callback secret
    NoTx,       \* "no attempt row"
    BatchSize,  \* the LIMIT of the watcher's query
    Unstorable, \* the calls whose revert, replayed, gives a reason that Postgres refuses (a NUL byte)
    MaxFaults,  \* bound: how often each kind of fault may strike
    MaxKinds    \* bound: how many kinds of fault may strike

FaultKinds == {"crash", "db", "rpc", "cancel", "evict"}

ASSUME RelayAssumption ==
    /\ Addresses \subseteq Accounts
    /\ Body \in [Callers -> Bodies]
    /\ Hooked \subseteq Callers
    /\ NoTx \notin Tx
    /\ BatchSize \in Nat \ {0}
    /\ Unstorable \subseteq Bodies
    /\ MaxFaults \in [FaultKinds -> Nat]
    /\ MaxKinds \in Nat

VARIABLES
    \* the database
    request,   \* request[c]: relay_requests.status, or "none"
    attempt,   \* attempt[c]: tx_attempts.status, or "none"
    tx,        \* tx[c]: tx_attempts.tx_hash, that is the signed transaction, or NoTx
    order,     \* the attempts by submitted_at
    outbox,    \* outbox[c]: the statuses in the payloads of c's webhook_deliveries
    \* Submit, one goroutine per request
    at,        \* at[c]: where Submit stands
    result,    \* result[c]: the HTTP status c is answered, "none" until it is known
    ctxDone,   \* the requests whose HTTP context has been cancelled
    reply,     \* reply[c]: the node's answer to SendTransaction, once it is there
    snap,      \* snap[c]: the status Enqueue has read
    \* the watcher
    batch,     \* what is left of the rows tick has selected
    wpos,      \* where it stands with the head of batch
    wsnap,     \* the status its Enqueue has read
    \* the faults that may still strike
    faults

dbVars      == <<request, attempt, tx, order, outbox>>
submitVars  == <<at, result, ctxDone, reply, snap>>
watcherVars == <<batch, wpos, wsnap>>
vars == <<poolVars, chainVars, dbVars, submitVars, watcherVars, faults>>

RequestStatus == {"none", "pending", "rejected", "submitted", "confirmed", "reverted"}
AttemptStatus == {"none", "submitting", "submitted", "failed", "confirmed", "reverted"}
Final == {"rejected", "confirmed", "reverted"}
Open  == {"submitting", "submitted"}

SubmitPositions == {"start", "pool", "reject", "quote", "attempt", "send", "await", "fail",
                    "mark", "snap", "enqueue", "release", "done", "dead"}

Init ==
    /\ PoolInit
    /\ ChainInit
    /\ request = [c \in Callers |-> "none"]
    /\ attempt = [c \in Callers |-> "none"]
    /\ tx = [c \in Callers |-> NoTx]
    /\ order = << >>
    /\ outbox = [c \in Callers |-> << >>]
    /\ at = [c \in Callers |-> "start"]
    /\ result = [c \in Callers |-> "none"]
    /\ ctxDone = {}
    /\ reply = [c \in Callers |-> "none"]
    /\ snap = [c \in Callers |-> "none"]
    /\ batch = << >>
    /\ wpos = "scan"
    /\ wsnap = "none"
    /\ faults = MaxFaults

-----------------------------------------------------------------------------
(* Helpers *)

Spared(kind) == faults[kind] = MaxFaults[kind]

Spend(kind) ==
    /\ faults[kind] > 0
    /\ Cardinality({k \in FaultKinds : k = kind \/ ~ Spared(k)}) <= MaxKinds
    /\ faults' = [faults EXCEPT ![kind] = @ - 1]

\* A database call of Submit succeeds ...
DbOk(c) == c \notin ctxDone /\ UNCHANGED faults

\* ... or returns an error: at once when the request's context is done, else
\* because the connection broke, before or after the statement took effect.
DbErr(c, applied) ==
    \/ c \in ctxDone /\ ~ applied /\ UNCHANGED faults
    \/ c \notin ctxDone /\ Spend("db")

Move(c, from, to) == at[c] = from /\ at' = [at EXCEPT ![c] = to]
Answer(c, status) == result' = [result EXCEPT ![c] = status]
SetIf(f, c, cond, v) == IF cond THEN [f EXCEPT ![c] = v] ELSE f

\* The transaction c signs when the suggested price is p.
Signed(c, p) == [from |-> holds[c], nonce |-> nonce[holds[c]], body |-> Body[c], price |-> p]

-----------------------------------------------------------------------------
(* Submit: the request row, a signer, gas estimate and price *)

\* Wrong chain id or a deadline in the past: nothing is stored.
Refuse(c) ==
    /\ Move(c, "start", "done")
    /\ Answer(c, "400")
    /\ UNCHANGED <<poolVars, chainVars, dbVars, ctxDone, reply, snap, watcherVars, faults>>

InsertRequest(c) ==
    /\ \/ /\ DbOk(c)
          /\ Move(c, "start", "pool")
          /\ request' = [request EXCEPT ![c] = "pending"]
          /\ UNCHANGED result
       \/ \E applied \in BOOLEAN :
          /\ DbErr(c, applied)
          /\ Move(c, "start", "done")
          /\ request' = SetIf(request, c, applied, "pending")
          /\ Answer(c, "502")
    /\ UNCHANGED <<poolVars, chainVars, attempt, tx, order, outbox, ctxDone, reply, snap, watcherVars>>

\* The steps of pools.Load that succeed.  The signer list and the nonces are
\* read under the request's context.
Load(c) ==
    /\ at[c] = "pool"
    /\ \/ LoadBegin(c)
       \/ c \notin ctxDone /\ LoadList(c)
       \/ /\ c \notin ctxDone
          /\ Len(draft[c]) < Size(AppOf[c])
          /\ \E n \in 0..MaxNonce :
               n = PendingNonceAt(ListSigners[AppOf[c]][Len(draft[c]) + 1]) /\ LoadSigner(c, n)
       \/ LoadInstall(c)
    /\ UNCHANGED <<chainVars, dbVars, submitVars, watcherVars, faults>>

LoadError(c) ==
    /\ Move(c, "pool", "reject")
    /\ LoadFail(c)
    /\ Answer(c, "502")
    /\ UNCHANGED <<chainVars, dbVars, ctxDone, reply, snap, watcherVars, faults>>

GetSigner(c) ==
    /\ Move(c, "pool", "quote")
    /\ Checkout(c)
    /\ UNCHANGED <<chainVars, dbVars, result, ctxDone, reply, snap, watcherVars, faults>>

CheckoutError(c) ==
    /\ c \in ctxDone
    /\ Move(c, "pool", "reject")
    /\ CheckoutCancel(c)
    /\ Answer(c, "502")
    /\ UNCHANGED <<chainVars, dbVars, ctxDone, reply, snap, watcherVars, faults>>

\* Mutant: the transaction is sent before its row is written.
QuoteAndSend(c) ==
    /\ Move(c, "quote", "attempt")
    /\ \E p \in Prices : wire' = wire \union {Signed(c, p)}
    /\ UNCHANGED <<poolVars, accountNonce, mempool, receipts, dropped, dbVars, result, ctxDone, reply, snap, watcherVars, faults>>

\* EstimateGas (unless the request names a gas limit) and SuggestGasPrice.
Quote(c) ==
    /\ \/ c \notin ctxDone /\ Move(c, "quote", "attempt") /\ UNCHANGED result
       \/ Move(c, "quote", "reject") /\ Answer(c, "502")
    /\ UNCHANGED <<poolVars, chainVars, dbVars, ctxDone, reply, snap, watcherVars, faults>>

\* markRequestStatus(ctx, id, "rejected"): the webhook is fired only when the
\* update succeeded.
Reject(c) ==
    /\ \/ /\ DbOk(c)
          /\ Move(c, "reject", "snap")
          /\ request' = [request EXCEPT ![c] = "rejected"]
       \/ \E applied \in BOOLEAN :
          /\ DbErr(c, applied)
          /\ Move(c, "reject", "release")
          /\ request' = SetIf(request, c, applied, "rejected")
    /\ UNCHANGED <<poolVars, chainVars, attempt, tx, order, outbox, result, ctxDone, reply, snap, watcherVars>>

-----------------------------------------------------------------------------
(* Submit: the transaction *)

\* Mutant: the row gets no submitted_at.
NewAttemptUndated(c, t) ==
    /\ attempt' = [attempt EXCEPT ![c] = "submitting"]
    /\ tx' = [tx EXCEPT ![c] = t]
    /\ UNCHANGED order

\* The row insertAttempt writes.
NewAttempt(c, t) ==
    /\ attempt' = [attempt EXCEPT ![c] = "submitting"]
    /\ tx' = [tx EXCEPT ![c] = t]
    /\ order' = Append(order, c)

\* Mutant: a failed insert keeps the nonce it reserved.
InsertAttemptNoRewind(c, p) ==
    /\ at[c] = "attempt"
    /\ \/ /\ DbOk(c)
          /\ Move(c, "attempt", "send")
          /\ NewAttempt(c, Signed(c, p))
          /\ UNCHANGED result
       \/ /\ DbErr(c, FALSE)
          /\ Move(c, "attempt", "release")
          /\ Answer(c, "502")
          /\ UNCHANGED <<attempt, tx, order>>
    /\ UseNonce(c)
    /\ UNCHANGED <<chainVars, request, outbox, ctxDone, reply, snap, watcherVars>>

\* UseNonce, SignTx and insertAttempt.  The insert fails when the hash is in
\* the table already.  After an error (one of SignTx looks the same) the nonce
\* is rewound, and the request keeps its status.
InsertAttempt(c, p) ==
    LET t == Signed(c, p)
        duplicate == \E d \in Callers : tx[d] = t
    IN
    /\ at[c] = "attempt"
    /\ nonce[holds[c]] < MaxNonce
    /\ \/ /\ DbOk(c) /\ ~ duplicate
          /\ UseNonce(c)
          /\ Move(c, "attempt", "send")
          /\ NewAttempt(c, t)
          /\ UNCHANGED result
       \/ \E applied \in BOOLEAN :
          /\ \/ DbErr(c, applied) /\ ~ (applied /\ duplicate)
             \/ duplicate /\ ~ applied /\ UNCHANGED faults
          /\ Move(c, "attempt", "release")
          /\ Answer(c, "502")
          /\ IF applied THEN NewAttempt(c, t) ELSE UNCHANGED <<attempt, tx, order>>
          /\ UNCHANGED poolVars
    /\ UNCHANGED <<chainVars, request, outbox, ctxDone, reply, snap, watcherVars>>

\* SendTransaction: the transaction leaves the process ...
Send(c) ==
    /\ c \notin ctxDone
    /\ Move(c, "send", "await")
    /\ wire' = wire \union {tx[c]}
    /\ UNCHANGED <<poolVars, accountNonce, mempool, receipts, dropped, dbVars, result, ctxDone, reply, snap, watcherVars, faults>>

\* ... and the node says that it has it ...
SendOk(c) ==
    /\ reply[c] = "ok"
    /\ Move(c, "await", "mark")
    /\ UNCHANGED <<poolVars, chainVars, dbVars, result, ctxDone, reply, snap, watcherVars, faults>>

\* Mutant: a refused transaction keeps its nonce.
SendErrorNoRewind(c) ==
    /\ reply[c] = "err"
    /\ Move(c, "await", "fail")
    /\ Answer(c, "502")
    /\ UNCHANGED <<poolVars, chainVars, dbVars, ctxDone, reply, snap, watcherVars, faults>>

\* ... or that it refuses it, or no answer comes in time (the client has gone,
\* the connection broke), or the context was done beforehand.
SendError(c) ==
    /\ \/ at[c] = "send" /\ c \in ctxDone /\ UNCHANGED faults
       \/ at[c] = "await" /\ (reply[c] = "err" \/ c \in ctxDone) /\ UNCHANGED faults
       \/ at[c] = "await" /\ Spend("rpc")
    /\ at' = [at EXCEPT ![c] = "fail"]
    /\ RewindNonce(c)
    /\ Answer(c, "502")
    /\ UNCHANGED <<chainVars, dbVars, ctxDone, reply, snap, watcherVars>>

\* markAttemptStatus(ctx, id, "failed").
MarkFailed(c) ==
    /\ Move(c, "fail", "release")
    /\ \/ DbOk(c) /\ attempt' = [attempt EXCEPT ![c] = "failed"]
       \/ \E applied \in BOOLEAN : DbErr(c, applied) /\ attempt' = SetIf(attempt, c, applied, "failed")
    /\ UNCHANGED <<poolVars, chainVars, request, tx, order, outbox, result, ctxDone, reply, snap, watcherVars>>

\* Mutant: only the attempt is updated.
MarkSubmittedHalf(c) ==
    /\ DbOk(c)
    /\ Move(c, "mark", "snap")
    /\ attempt' = [attempt EXCEPT ![c] = "submitted"]
    /\ Answer(c, "202")
    /\ UNCHANGED <<poolVars, chainVars, request, tx, order, outbox, ctxDone, reply, snap, watcherVars>>

\* markSubmitted: both rows, in one transaction, whatever their status is.
MarkSubmitted(c) ==
    /\ \/ /\ DbOk(c)
          /\ Move(c, "mark", "snap")
          /\ attempt' = [attempt EXCEPT ![c] = "submitted"]
          /\ request' = [request EXCEPT ![c] = "submitted"]
          /\ Answer(c, "202")
       \/ \E applied \in BOOLEAN :
          /\ DbErr(c, applied)
          /\ Move(c, "mark", "release")
          /\ attempt' = SetIf(attempt, c, applied, "submitted")
          /\ request' = SetIf(request, c, applied, "submitted")
          /\ Answer(c, "502")
    /\ UNCHANGED <<poolVars, chainVars, tx, order, outbox, ctxDone, reply, snap, watcherVars>>

\* fireWebhook: Enqueue reads the request (GetRaw) and does nothing more when
\* no callback is configured; an error is dropped.
Snapshot(c) ==
    /\ \/ /\ c \in Hooked /\ DbOk(c)
          /\ Move(c, "snap", "enqueue")
          /\ snap' = [snap EXCEPT ![c] = request[c]]
       \/ /\ (c \notin Hooked /\ UNCHANGED faults) \/ DbErr(c, FALSE)
          /\ Move(c, "snap", "release")
          /\ UNCHANGED snap
    /\ UNCHANGED <<poolVars, chainVars, dbVars, result, ctxDone, reply, watcherVars>>

\* Enqueue inserts the delivery.
Enqueue(c) ==
    /\ Move(c, "enqueue", "release")
    /\ \/ DbOk(c) /\ outbox' = [outbox EXCEPT ![c] = Append(@, snap[c])]
       \/ \E applied \in BOOLEAN :
            DbErr(c, applied) /\ outbox' = SetIf(outbox, c, applied, Append(outbox[c], snap[c]))
    /\ snap' = [snap EXCEPT ![c] = "none"]
    /\ UNCHANGED <<poolVars, chainVars, request, attempt, tx, order, result, ctxDone, reply, watcherVars>>

\* Mutant: the signer is released only after a success.
FinishNoRelease(c) ==
    /\ Move(c, "release", "done")
    /\ IF Holding(c) /\ result[c] = "202" THEN Release(c) ELSE UNCHANGED poolVars
    /\ UNCHANGED <<chainVars, dbVars, result, ctxDone, reply, snap, watcherVars, faults>>

\* Submit returns; the deferred Release runs if there was a Checkout.
Finish(c) ==
    /\ Move(c, "release", "done")
    /\ IF Holding(c) THEN Release(c) ELSE UNCHANGED poolVars
    /\ UNCHANGED <<chainVars, dbVars, result, ctxDone, reply, snap, watcherVars, faults>>

-----------------------------------------------------------------------------
(* The receipt watcher *)

\* ORDER BY submitted_at LIMIT BatchSize, for the attempts at the places S of order.
Oldest(S) ==
    LET rank(i) == Cardinality({j \in S : j <= i})
    IN  [k \in 1..(IF Cardinality(S) < BatchSize THEN Cardinality(S) ELSE BatchSize) |->
            order[CHOOSE i \in S : rank(i) = k]]

\* Mutant: the query selects submitted attempts only.
SubmittedAttempts == Oldest({i \in 1..Len(order) : attempt[order[i]] = "submitted"})

\* The watcher's query: the oldest BatchSize open attempts.
OpenAttempts == Oldest({i \in 1..Len(order) : attempt[order[i]] \in Open})

Tick ==
    /\ wpos = "scan" /\ batch = << >>
    /\ OpenAttempts # << >>
    /\ batch' = OpenAttempts
    /\ UNCHANGED <<poolVars, chainVars, dbVars, submitVars, wpos, wsnap, faults>>

\* The reason of a revert, which goes into tx_attempts.revert_reason, cannot be stored.
Refused(r) == ~ r.ok /\ r.tx.body \in Unstorable

\* process, for an attempt without a receipt, or whose receipt or rows could
\* not be read or written: the next one's turn.
WatchSkip ==
    /\ wpos = "scan" /\ batch # << >>
    /\ \/ (\A r \in receipts : r.tx = tx[Head(batch)] => Refused(r)) /\ UNCHANGED faults
       \/ Spend("rpc")
       \/ Spend("db")
    /\ batch' = Tail(batch)
    /\ UNCHANGED <<poolVars, chainVars, dbVars, submitVars, wpos, wsnap>>

\* Mutant: the receipt's status is not looked at.
WatchResolveBlind ==
    LET c == Head(batch) IN
    /\ wpos = "scan" /\ batch # << >>
    /\ Mined(tx[c])
    /\ attempt' = [attempt EXCEPT ![c] = "confirmed"]
    /\ request' = [request EXCEPT ![c] = "confirmed"]
    /\ wpos' = "snap"
    /\ UNCHANGED <<poolVars, chainVars, tx, order, outbox, submitVars, batch, wsnap, faults>>

\* Mutant: the payload is built before the outcome is committed.
WatchResolveEarly ==
    LET c == Head(batch) IN
    /\ wpos = "scan" /\ batch # << >>
    /\ \E r \in receipts :
         /\ r.tx = tx[c]
         /\ LET outcome == IF r.ok THEN "confirmed" ELSE "reverted" IN
            /\ attempt' = [attempt EXCEPT ![c] = outcome]
            /\ request' = [request EXCEPT ![c] = outcome]
    /\ wpos' = "enqueue" /\ wsnap' = request[c]
    /\ UNCHANGED <<poolVars, chainVars, tx, order, outbox, submitVars, batch, faults>>

\* process, for an attempt with a receipt: attempt and request get the outcome
\* in one transaction, whatever their status is by now.  When the call that asks
\* for a reason fails otherwise, its error becomes the reason, and is stored.
WatchResolve ==
    LET c == Head(batch) IN
    /\ wpos = "scan" /\ batch # << >>
    /\ \E r \in receipts :
         /\ r.tx = tx[c]
         /\ LET outcome == IF r.ok THEN "confirmed" ELSE "reverted" IN
            /\ attempt' = [attempt EXCEPT ![c] = outcome]
            /\ request' = [request EXCEPT ![c] = outcome]
         /\ \/ ~ Refused(r) /\ UNCHANGED faults /\ wpos' = "snap" /\ UNCHANGED batch
            \/ ~ Refused(r) /\ Spend("db") /\ batch' = Tail(batch) /\ UNCHANGED wpos
            \/ Refused(r) /\ Spend("rpc") /\ wpos' = "snap" /\ UNCHANGED batch
    /\ UNCHANGED <<poolVars, chainVars, tx, order, outbox, submitVars, wsnap>>

\* The two halves of the watcher's own Enqueue.
WatchSnapshot ==
    LET c == Head(batch) IN
    /\ wpos = "snap"
    /\ \/ /\ c \in Hooked /\ UNCHANGED faults
          /\ wpos' = "enqueue" /\ wsnap' = request[c] /\ UNCHANGED batch
       \/ /\ (c \notin Hooked /\ UNCHANGED faults) \/ Spend("db")
          /\ wpos' = "scan" /\ batch' = Tail(batch) /\ UNCHANGED wsnap
    /\ UNCHANGED <<poolVars, chainVars, dbVars, submitVars>>

WatchEnqueue ==
    LET c == Head(batch) IN
    /\ wpos = "enqueue"
    /\ \/ UNCHANGED faults /\ outbox' = [outbox EXCEPT ![c] = Append(@, wsnap)]
       \/ Spend("db") /\ outbox' \in {outbox, [outbox EXCEPT ![c] = Append(@, wsnap)]}
    /\ wpos' = "scan" /\ wsnap' = "none" /\ batch' = Tail(batch)
    /\ UNCHANGED <<poolVars, chainVars, request, attempt, tx, order, submitVars>>

-----------------------------------------------------------------------------
(* The environment: the node, the client, the process *)

NodeReceive(t) ==
    /\ \E accepts \in BOOLEAN :
         /\ NodeTakes(t, accepts)
         /\ reply' = [c \in Callers |->
                        IF at[c] = "await" /\ tx[c] = t
                        THEN IF accepts THEN "ok" ELSE "err"
                        ELSE reply[c]]
    /\ UNCHANGED <<poolVars, dbVars, at, result, ctxDone, snap, watcherVars, faults>>

NodeMines(t) ==
    /\ \E ok \in BOOLEAN : Mine(t, ok)
    /\ UNCHANGED <<poolVars, dbVars, submitVars, watcherVars, faults>>

NodeEvicts(t) ==
    /\ Spend("evict")
    /\ Evict(t)
    /\ UNCHANGED <<poolVars, dbVars, submitVars, watcherVars>>

\* The client hangs up: net/http cancels the request's context.
ClientGone(c) ==
    /\ at[c] \notin {"start", "done", "dead"} /\ c \notin ctxDone
    /\ Spend("cancel")
    /\ ctxDone' = ctxDone \union {c}
    /\ UNCHANGED <<poolVars, chainVars, dbVars, at, result, reply, snap, watcherVars>>

\* Mutant: start-up puts every request that has an attempt back to submitted.
CrashResubmits ==
    /\ Spend("crash")
    /\ PoolRestart
    /\ at' = [c \in Callers |-> IF at[c] \in {"start", "done"} THEN at[c] ELSE "dead"]
    /\ request' = [c \in Callers |-> IF attempt[c] # "none" THEN "submitted" ELSE request[c]]
    /\ ctxDone' = {}
    /\ batch' = << >> /\ wpos' = "scan" /\ wsnap' = "none"
    /\ UNCHANGED <<chainVars, attempt, tx, order, outbox, result, reply, snap>>

\* The process dies and main starts it again.  Recover only reads.
Crash ==
    /\ Spend("crash")
    /\ PoolRestart
    /\ at' = [c \in Callers |-> IF at[c] \in {"start", "done"} THEN at[c] ELSE "dead"]
    /\ ctxDone' = {}
    /\ reply' = [c \in Callers |-> "none"]
    /\ snap' = [c \in Callers |-> "none"]
    /\ batch' = << >> /\ wpos' = "scan" /\ wsnap' = "none"
    /\ UNCHANGED <<chainVars, dbVars, result>>

-----------------------------------------------------------------------------

Submit(c) ==
    \/ Refuse(c)
    \/ InsertRequest(c)
    \/ Load(c)
    \/ LoadError(c)
    \/ GetSigner(c)
    \/ CheckoutError(c)
    \/ Quote(c)
    \/ Reject(c)
    \/ \E p \in Prices : InsertAttempt(c, p)
    \/ Send(c)
    \/ SendOk(c)
    \/ SendError(c)
    \/ MarkFailed(c)
    \/ MarkSubmitted(c)
    \/ Snapshot(c)
    \/ Enqueue(c)
    \/ Finish(c)

Watcher == Tick \/ WatchSkip \/ WatchResolve \/ WatchSnapshot \/ WatchEnqueue

Next ==
    \/ \E c \in Callers : Submit(c) \/ ClientGone(c)
    \/ Watcher
    \/ \E t \in wire : NodeReceive(t)
    \/ \E t \in mempool : NodeMines(t) \/ NodeEvicts(t)
    \/ Crash

Spec == Init /\ [][Next]_vars

\* The goroutines run (a signer channel serves its waiters in turn), the
\* watcher's ticker fires, and the node answers and mines.  Nothing is assumed
\* of clients and of faults.
Fairness ==
    /\ \A c \in Callers : SF_vars(GetSigner(c)) /\ WF_vars(Submit(c) /\ at[c] # "start")
    /\ WF_vars(Watcher)
    /\ WF_vars(\E t \in wire : NodeReceive(t))
    /\ \A a \in Accounts : WF_vars(\E t \in mempool : t.from = a /\ NodeMines(t))

FairSpec == Spec /\ Fairness

-----------------------------------------------------------------------------
(* Properties *)

\* The variables hold values of the expected shape; an attempt row has a
\* status, a transaction and a place in the submitted_at order, or none of them.
RelayTypeOK ==
    /\ request \in [Callers -> RequestStatus]
    /\ attempt \in [Callers -> AttemptStatus]
    /\ tx \in [Callers -> Tx \union {NoTx}]
    /\ order \in Seq(Callers)
    /\ outbox \in [Callers -> Seq(RequestStatus)]
    /\ at \in [Callers -> SubmitPositions]
    /\ result \in [Callers -> {"none", "202", "400", "502"}]
    /\ ctxDone \subseteq Callers
    /\ reply \in [Callers -> {"none", "ok", "err"}]
    /\ snap \in [Callers -> RequestStatus]
    /\ batch \in Seq(Callers)
    /\ wpos \in {"scan", "snap", "enqueue"}
    /\ wsnap \in RequestStatus
    /\ faults \in [FaultKinds -> Nat]
    /\ \A c \in Callers : (attempt[c] = "none" <=> tx[c] = NoTx)
    /\ \A c \in Callers : (attempt[c] # "none" <=> \E i \in 1..Len(order) : order[i] = c)

\* Every transaction that has left the process has a row in tx_attempts, so
\* that the watcher of a later process can find it: insertAttempt comes before
\* SendTransaction.
WriteAhead ==
    \A t \in wire \union mempool \union dropped \union {r.tx : r \in receipts} :
        \E c \in Callers : tx[c] = t

\* The node has evicted a transaction with the signer and the nonce of t, or a
\* lower one: a restart begins again below it.
EvictedUpTo(t) == \E u \in dropped : u.from = t.from /\ u.nonce <= t.nonce

\* Another transaction took the slot of c's: one whose own Submit was not answered
\* 202, which had been given up and reached the node late, or one that was given
\* the nonce again after an eviction.
Displaced(c) ==
    \E d \in Callers :
        /\ tx[d] # NoTx /\ SameSlot(tx[c], tx[d]) /\ tx[c].price < tx[d].price
        /\ result[d] # "202" \/ EvictedUpTo(tx[c])

\* What the status s says of request c is what happened on the chain.
Truthful(c, s) ==
    /\ s = "confirmed" => [tx |-> tx[c], ok |-> TRUE] \in receipts
    /\ s = "reverted"  => [tx |-> tx[c], ok |-> FALSE] \in receipts
    /\ s = "submitted" => tx[c] \in mempool \union dropped \/ Mined(tx[c]) \/ Displaced(c)
    /\ s = "rejected"  => tx[c] = NoTx

\* The status of a request, and every status a webhook announces, is true: a
\* final status matches the receipt, a rejected request has no transaction, a
\* submitted one has a transaction the node accepted, and which only a late
\* arrival or a restart after an eviction can have displaced.
StatusIsTrue ==
    \A c \in Callers :
        /\ Truthful(c, request[c])
        /\ \A i \in 1..Len(outbox[c]) : Truthful(c, outbox[c][i])

\* A signer never skips a nonce: whatever fails between UseNonce and the
\* node's answer, every transaction in the mempool can be mined once the ones
\* before it are, and no idle signer's counter is ahead of the chain, but for
\* the nonces of transactions that the node has evicted.
NoNonceGap ==
    /\ \A t \in mempool : NoGap(t.from, t.nonce)
    /\ \A a \in Addresses : IsIdle(a) => NoGap(a, nonce[a])

\* No nonce is given out again after its transaction was acknowledged: of two
\* transactions in one slot at most one was answered 202, unless the node has
\* evicted one of the same signer with this nonce or a lower one, below which a
\* restart begins again.
AcknowledgedOnce ==
    \A c, d \in Callers :
        c # d /\ result[c] = "202" /\ result[d] = "202" /\ SameSlot(tx[c], tx[d])
            => EvictedUpTo(tx[c])

\* A caller that was answered 202 finds its request submitted or resolved, and
\* the two rows, which Submit and the watcher write concurrently, agree.
AcceptedIsTracked ==
    \A c \in Callers :
        result[c] = "202" => /\ request[c] \in {"submitted", "confirmed", "reverted"}
                             /\ attempt[c] = request[c]

\* As long as no process, client or answer of the node was lost, the counter of
\* an idle signer is the nonce the node expects next, after refusals and database
\* errors too, so that the next Submit is not refused for its nonce.
NonceInSync ==
    (\A k \in {"crash", "rpc", "cancel", "evict"} : Spared(k))
        => \A a \in Addresses : IsIdle(a) => nonce[a] = PendingNonceAt(a)

\* Once Submit has returned, or died with its process, a final status stays.
FinalAfterReturn ==
    [][\A c \in Callers :
          at[c] \in {"done", "dead"} /\ request[c] \in Final => request'[c] = request[c]]_vars

\* Submit or the watcher is about to announce the status of c.
Announcing(c) ==
    \/ at[c] = "snap"
    \/ at[c] = "enqueue" /\ snap[c] = request[c]
    \/ wpos = "snap" /\ Head(batch) = c
    \/ wpos = "enqueue" /\ Head(batch) = c /\ wsnap = request[c]

\* A final status is announced: although Submit and the watcher write the status
\* of a request and read it again for its webhooks at any time, the final one is
\* in a payload or on its way into one, as long as no process, client or database
\* connection was lost.
FinalIsAnnounced ==
    (\A k \in {"crash", "db", "cancel"} : Spared(k))
        => \A c \in Hooked :
              request[c] \in Final => Announcing(c) \/ \E i \in 1..Len(outbox[c]) : outbox[c][i] = request[c]

\* Every call of Submit returns, or dies with its process: the callers that
\* share the signers of an app do not wait for each other for ever.
SubmitReturns == \A c \in Callers : at[c] # "start" ~> at[c] \in {"done", "dead"}

\* A transaction that is mined is accounted for, across a restart and whatever
\* became of its competitors: unless its attempt is marked failed, or the reason
\* of its revert cannot be stored, the watcher brings the request to a final
\* status, which Submit does not take back.
AcceptedResolves ==
    \A c \in Callers :
        Mined(tx[c]) ~> \/ attempt[c] = "failed"
                        \/ \E r \in receipts : r.tx = tx[c] /\ Refused(r)
                        \/ request[c] \in Final /\ at[c] \in {"done", "dead"}

-----------------------------------------------------------------------------
(* What documents and comments say of the code, and the code does not do *)

\* README.md, of transactions in flight: "Nothing orphaned".  A transaction
\* that was mined is never left with an attempt marked failed, which the
\* watcher does not look at again.
NothingOrphaned ==
    \A c \in Callers :
        Mined(tx[c]) /\ at[c] \in {"done", "dead"} => attempt[c] # "failed"

\* docs/integration.md: the watcher "flips submitted to confirmed/reverted"
\* once there is a receipt.
WatcherFlips ==
    \A c \in Callers :
        (Mined(tx[c]) /\ attempt[c] = "submitted") ~> attempt[c] \in {"confirmed", "reverted"}

=============================================================================
