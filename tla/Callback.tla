------------------------------ MODULE Callback ------------------------------
(***************************************************************************)
(* What the receiver of callbacks learns of one request: the two writers   *)
(* of its row, Submit (markSubmitted) and the watcher (process), each with *)
(* a transaction and an Enqueue after it, the trigger that dates the row   *)
(* (migrations/00005), the delivery queue of Webhook, and a receiver that  *)
(* follows docs/integration.md: of two payloads the one with the older     *)
(* updated_at is obsolete.                                                 *)
(*                                                                         *)
(* It begins when the node has accepted the request's transaction.  The    *)
(* rows of the request and of its attempt change together, so one status   *)
(* stands for both.  A transaction is two steps: BEGIN, whose time NOW()   *)
(* is, and the updates with the commit, which the row locks make one step. *)
(***************************************************************************)
EXTENDS Webhook

CONSTANT MaxErrors  \* bound: database errors of the writers

ASSUME CallbackAssumption == MaxErrors \in Nat

Writers == {"submit", "watcher"}

VARIABLES
    row,      \* relay_requests: status and updated_at
    clock,    \* the time, as far as it dates transactions
    mined,    \* the transaction has a receipt
    pos,      \* pos[w]: where writer w stands
    began,    \* began[w]: the time of its BEGIN
    snap,     \* snap[w]: the payload its Enqueue has read
    payload,  \* payload[d]: webhook_deliveries.payload, as status and updated_at
    seen,     \* the newest payload the receiver has
    errors,   \* the database errors that may still strike the writers
    \* history
    overlap,  \* the two transactions were open at the same time
    silent    \* a status was committed and its announcement lost

writerVars == <<row, clock, mined, pos, began, snap, errors>>
callbackVars == <<vars, writerVars, payload, seen, overlap, silent>>

Nothing == [status |-> "none", at |-> 0]

CallbackInit ==
    /\ Init
    /\ row = [status |-> "pending", at |-> 1] /\ clock = 1
    /\ mined = FALSE
    /\ pos = [w \in Writers |-> "ready"]
    /\ began = [w \in Writers |-> 0]
    /\ snap = [w \in Writers |-> Nothing]
    /\ payload = [d \in Deliveries |-> Nothing]
    /\ seen = Nothing
    /\ errors = MaxErrors
    /\ overlap = FALSE /\ silent = FALSE

-----------------------------------------------------------------------------
(* The writers *)

\* The watcher's turn comes again with every tick, Submit's does not.
Ended(w) == IF w = "watcher" THEN "ready" ELSE "done"

Go(w, from, to) == pos[w] = from /\ pos' = [pos EXCEPT ![w] = to]

DbError == errors > 0 /\ errors' = errors - 1

\* markSubmitted begins, or process, for an open attempt that has a receipt.
BeginTx(w) ==
    /\ w = "watcher" => mined /\ row.status \in {"pending", "submitted"}
    /\ Go(w, "ready", "begun")
    /\ clock' = clock + 1
    /\ began' = [began EXCEPT ![w] = clock + 1]
    /\ overlap' = (overlap \/ \E v \in Writers : pos[v] = "begun")
    /\ UNCHANGED <<vars, row, mined, snap, errors, payload, seen, silent>>

\* Mutant: the trigger keeps the time of the row's insert.
UpdatedUndated(w) ==
    [row EXCEPT !.status = IF w = "watcher" THEN "confirmed" ELSE "submitted"]

\* The row after the update, with the trigger's updated_at.
Updated(w) ==
    [status |-> IF w = "watcher" THEN "confirmed" ELSE "submitted", at |-> began[w]]

CommitTx(w) ==
    /\ \/ Go(w, "begun", "committed") /\ row' = Updated(w) /\ UNCHANGED <<errors, silent>>
       \/ /\ Go(w, "begun", Ended(w)) /\ DbError
          /\ \/ UNCHANGED <<row, silent>>
             \/ row' = Updated(w) /\ silent' = TRUE
    /\ UNCHANGED <<vars, clock, mined, began, snap, payload, seen, overlap>>

\* What Get and GetRaw return.
Get == row

\* Mutant: a request that was announced once is not announced again.
ReadRowOnce(w) ==
    /\ \/ Go(w, "committed", "snapped") /\ (\A d \in Deliveries : status[d] = "none") /\ snap' = [snap EXCEPT ![w] = Get]
       \/ Go(w, "committed", Ended(w)) /\ (\E d \in Deliveries : status[d] # "none") /\ UNCHANGED snap
    /\ UNCHANGED <<vars, row, clock, mined, began, errors, payload, seen, overlap, silent>>

\* Enqueue's two halves.
ReadRow(w) ==
    /\ \/ Go(w, "committed", "snapped") /\ snap' = [snap EXCEPT ![w] = Get] /\ UNCHANGED <<errors, silent>>
       \/ Go(w, "committed", Ended(w)) /\ DbError /\ silent' = TRUE /\ UNCHANGED snap
    /\ UNCHANGED <<vars, row, clock, mined, began, payload, seen, overlap>>

NewRow == CHOOSE d \in Deliveries : status[d] = "none"

Announce(w) ==
    /\ \E d \in Deliveries : status[d] = "none"
    /\ Go(w, "snapped", Ended(w))
    /\ \/ /\ Enqueue(NewRow)
          /\ payload' = [payload EXCEPT ![NewRow] = snap[w]]
          /\ UNCHANGED <<errors, silent>>
       \/ DbError /\ silent' = TRUE /\ UNCHANGED <<vars, payload>>
    /\ snap' = [snap EXCEPT ![w] = Nothing]
    /\ UNCHANGED <<row, clock, mined, began, seen, overlap>>

NodeMines ==
    /\ ~ mined /\ mined' = TRUE
    /\ UNCHANGED <<vars, row, clock, pos, began, snap, errors, payload, seen, overlap, silent>>

-----------------------------------------------------------------------------
(* The queue and the receiver *)

Newer(p, q) == IF q.at > p.at THEN q ELSE p

\* A POST that counts as failed may have reached the receiver too.
Receive ==
    /\ Post
    /\ \/ seen' = Newer(seen, payload[Current.id])
       \/ answer' = "failed" /\ UNCHANGED seen
    /\ UNCHANGED <<writerVars, payload, overlap, silent>>

Deliver ==
    /\ Tick \/ RecordSuccess \/ RecordFailure \/ RecordError \/ Tock
    /\ UNCHANGED <<writerVars, payload, seen, overlap, silent>>

\* The process dies, with the writers in it.
Die ==
    /\ Crash
    /\ pos' = [submit |-> "done", watcher |-> "ready"]
    /\ snap' = [w \in Writers |-> Nothing]
    /\ silent' = (silent \/ \E w \in Writers : pos[w] \in {"committed", "snapped"})
    /\ UNCHANGED <<row, clock, mined, began, errors, payload, seen, overlap>>

Write(w) == BeginTx(w) \/ CommitTx(w) \/ ReadRow(w) \/ Announce(w)

CallbackNext == (\E w \in Writers : Write(w)) \/ NodeMines \/ Receive \/ Deliver \/ Die

CallbackSpec == CallbackInit /\ [][CallbackNext]_callbackVars

\* The goroutines run, the tickers fire, time passes and the node mines.
CallbackFairSpec ==
    /\ CallbackSpec
    /\ \A w \in Writers : WF_callbackVars(Write(w))
    /\ WF_callbackVars(NodeMines)
    /\ WF_callbackVars(Receive \/ (Deliver /\ Worker))
    /\ WF_callbackVars(Deliver /\ Tock)

-----------------------------------------------------------------------------
(* Properties *)

\* Nothing is in progress any more: the request has its final status, and every
\* delivery was received.
Settled ==
    /\ row.status = "confirmed" /\ pos = [submit |-> "done", watcher |-> "ready"]
    /\ \A d \in Deliveries : status[d] \in {"none", "delivered"}

\* A receiver that follows the rule ends with what Get returns, in whatever order
\* the deliveries arrive, unless the two writers' transactions overlapped or a
\* fault kept an announcement from the queue.
NewestIsLast == Settled /\ ~ overlap /\ ~ silent => seen = Get

\* The final status is brought to the receiver, or the very delivery that carries
\* it is given up, or an announcement is lost in a fault: it does not get stuck
\* between the writers and the queue.
FinalIsDelivered ==
    row.status = "confirmed" ~>
        (silent \/ \E d \in Deliveries : status[d] \in {"delivered", "dead"} /\ payload[d].status = "confirmed")

-----------------------------------------------------------------------------
(* What documents and comments say of the code, and the code does not do *)

\* docs/integration.md: "The body's updated_at is the source of truth for
\* freshness."
NewestIsTruth == Settled /\ ~ silent => seen = Get

=============================================================================
