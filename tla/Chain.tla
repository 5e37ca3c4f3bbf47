------------------------------- MODULE Chain --------------------------------
(***************************************************************************)
(* The EVM node behind internal/chain/client.go, as the relayer sees it:   *)
(* an account has a nonce, a transaction waits in the mempool under its    *)
(* (sender, nonce) slot until it is mined in nonce order, and a mined      *)
(* transaction has a receipt for ever (the chain has instant finality: no  *)
(* reorganisations).  A transaction that was sent is first on the wire: the *)
(* node may see it after the sender has given up waiting for the answer.   *)
(*                                                                         *)
(* A transaction is a record and stands for its own hash: two transactions *)
(* with the same sender, nonce, call and price have the same hash.         *)
(***************************************************************************)
EXTENDS Naturals, FiniteSets

CONSTANTS
    Accounts,  \* the addresses that send transactions
    Bodies,    \* what a transaction does: target, value, data and gas limit
    Prices     \* gas prices, far enough apart for the node to accept a replacement

ASSUME ChainAssumption == Prices \subseteq Nat

VARIABLES
    accountNonce,  \* accountNonce[a]: the number of mined transactions of a
    mempool,       \* the transactions the node holds and has not mined
    receipts,      \* the receipts: a transaction and whether it succeeded
    wire,          \* the transactions that are on their way to the node
    dropped        \* the transactions the node has evicted from its mempool

chainVars == <<accountNonce, mempool, receipts, wire, dropped>>

Tx == [from : Accounts, nonce : Nat, body : Bodies, price : Prices]

ChainInit ==
    /\ accountNonce = [a \in Accounts |-> 0]
    /\ mempool = {}
    /\ receipts = {}
    /\ wire = {}
    /\ dropped = {}

Mined(t) == \E r \in receipts : r.tx = t

SameSlot(t, u) == t.from = u.from /\ t.nonce = u.nonce

PendingNonces(a) == {t.nonce : t \in {u \in mempool : u.from = a}}

\* The first nonce of a that neither a mined nor a pending transaction has.
PendingNonceAt(a) ==
    CHOOSE n \in accountNonce[a]..(accountNonce[a] + Cardinality(mempool)) :
        /\ n \notin PendingNonces(a)
        /\ \A m \in accountNonce[a]..(n - 1) : m \in PendingNonces(a)

\* The node has evicted a transaction of a with nonce n.
Evicted(a, n) == \E t \in dropped : t.from = a /\ t.nonce = n

\* The nonces of a below n are mined or pending, but for those the node has
\* evicted.
NoGap(a, n) == \A m \in accountNonce[a]..(n - 1) : m \in PendingNonces(a) \/ Evicted(a, m)

\* The node refuses a nonce that is already mined, and a transaction for an
\* occupied slot unless it pays more.
Acceptable(t) ==
    /\ t.nonce >= accountNonce[t.from]
    /\ \A u \in mempool : SameSlot(t, u) => u.price < t.price

\* The node takes t from the wire and accepts or refuses it; it may refuse any
\* transaction (no funds, gas limit, overload).
NodeTakes(t, accepts) ==
    /\ t \in wire
    /\ wire' = wire \ {t}
    /\ accepts => Acceptable(t)
    /\ mempool' = IF accepts THEN {u \in mempool : ~ SameSlot(t, u)} \union {t} ELSE mempool
    /\ UNCHANGED <<accountNonce, receipts, dropped>>

\* The next transaction of an account is mined; it succeeds or reverts.
Mine(t, ok) ==
    /\ t \in mempool
    /\ t.nonce = accountNonce[t.from]
    /\ accountNonce' = [accountNonce EXCEPT ![t.from] = @ + 1]
    /\ mempool' = mempool \ {t}
    /\ receipts' = receipts \union {[tx |-> t, ok |-> ok]}
    /\ UNCHANGED <<wire, dropped>>

Evict(t) ==
    /\ t \in mempool
    /\ mempool' = mempool \ {t}
    /\ dropped' = dropped \union {t}
    /\ UNCHANGED <<accountNonce, receipts, wire>>

=============================================================================
