----------------------------- MODULE SignerPool -----------------------------
(***************************************************************************)
(* The in-memory pool of signing accounts: internal/signer/pool.go and     *)
(* internal/signer/signer.go.                                              *)
(*                                                                         *)
(* A caller is one goroutine of the process (an HTTP handler that runs     *)
(* relay.Service.Submit).  It loads its app's pool if nobody has done so,  *)
(* checks out one signer, reserves a nonce on it, gives the nonce back     *)
(* when its transaction could not be sent, and releases the signer.        *)
(*                                                                         *)
(* The code's counter belongs to a Signer object, the model's to its       *)
(* address.  The two are one because a process installs the pool of an app *)
(* once (LoadInstall), and a Signer built in vain is never checked out.    *)
(*                                                                         *)
(* The names carry the prefix Pool where module Relay, which EXTENDS this  *)
(* one, has its own.                                                       *)
(***************************************************************************)
EXTENDS Naturals, Sequences

CONSTANTS
    Apps,         \* the apps of the database
    Callers,      \* the goroutines that use the pool
    Addresses,    \* signer addresses
    NoSigner,     \* "holds no signer"
    NoCaller,     \* "held by nobody", in the refinement mapping
    AppOf,        \* AppOf[c]: the app on whose behalf caller c runs
    ListSigners,  \* ListSigners[p]: the rows of table signers for app p, in order
    NonceSpace,   \* the number of values of the nonce counter (2^64 in the code)
    MaxNonce      \* bound: nonces at which a run stops

ASSUME PoolAssumption ==
    /\ NoSigner \notin Addresses
    /\ NoCaller \notin Callers
    /\ AppOf \in [Callers -> Apps]
    /\ ListSigners \in [Apps -> Seq(Addresses)]
    /\ NonceSpace \in Nat /\ MaxNonce \in Nat /\ MaxNonce < NonceSpace

\* signers.address is the table's primary key: an address belongs to one app
\* and is listed once.
ASSUME AddressIsKey ==
    \A p, q \in Apps :
        \A i \in 1..Len(ListSigners[p]), j \in 1..Len(ListSigners[q]) :
            ListSigners[p][i] = ListSigners[q][j] => p = q /\ i = j

VARIABLES
    loaded,  \* the keys of Pool.apps
    idle,    \* idle[p]: the buffered channel appPool.idle, oldest first
    nonce,   \* nonce[a]: the atomic counter of the installed Signer of address a
    pc,      \* pc[c]: where caller c stands in Load and Checkout
    draft,   \* draft[c]: the nonces c has read so far in Load's loop
    holds    \* holds[c]: the signer c has checked out

poolVars == <<loaded, idle, nonce, pc, draft, holds>>

Positions == {"out", "list", "fetch", "checkout", "held", "reserved"}

SignersOf(p) == {ListSigners[p][i] : i \in 1..Len(ListSigners[p])}

\* Pool.Size: the capacity of the app's idle channel.
Size(p) == Len(ListSigners[p])

Holding(c) == pc[c] \in {"held", "reserved"}

Goto(c, from, to) == pc[c] = from /\ pc' = [pc EXCEPT ![c] = to]

\* atomic.Uint64 arithmetic: the counter wraps.
Inc(n) == IF n = NonceSpace - 1 THEN 0 ELSE n + 1
Dec(n) == IF n = 0 THEN NonceSpace - 1 ELSE n - 1

PoolInit ==
    /\ loaded = {}
    /\ idle = [p \in Apps |-> << >>]
    /\ nonce = [a \in Addresses |-> 0]
    /\ pc = [c \in Callers |-> "out"]
    /\ draft = [c \in Callers |-> << >>]
    /\ holds = [c \in Callers |-> NoSigner]

-----------------------------------------------------------------------------
(* Load *)

\* The first critical section: an app that is already in the map is not
\* loaded again.
LoadBegin(c) ==
    /\ Goto(c, "out", IF AppOf[c] \in loaded THEN "checkout" ELSE "list")
    /\ UNCHANGED <<loaded, idle, nonce, draft, holds>>

\* The signer rows are read; Load refuses an app that has none.
LoadList(c) ==
    /\ ListSigners[AppOf[c]] # << >>
    /\ Goto(c, "list", "fetch")
    /\ UNCHANGED <<loaded, idle, nonce, draft, holds>>

\* Mutant: the loop does not stop at the end of the list.
LoadSignerEndless(c, n) ==
    /\ pc[c] = "fetch"
    /\ Len(draft[c]) <= Size(AppOf[c])
    /\ draft' = [draft EXCEPT ![c] = Append(@, n)]
    /\ UNCHANGED <<loaded, idle, nonce, pc, holds>>

\* One turn of the loop: the next address's key is decrypted and n is the
\* nonce the node reports for it.  The Signer built from it is private to c
\* until LoadInstall.
LoadSigner(c, n) ==
    /\ pc[c] = "fetch"
    /\ Len(draft[c]) < Size(AppOf[c])
    /\ draft' = [draft EXCEPT ![c] = Append(@, n)]
    /\ UNCHANGED <<loaded, idle, nonce, pc, holds>>

\* A query, a key or a nonce could not be read (or there is no signer): the
\* signers built so far are dropped.
LoadFail(c) ==
    /\ pc[c] \in {"list", "fetch"}
    /\ pc' = [pc EXCEPT ![c] = "out"]
    /\ draft' = [draft EXCEPT ![c] = << >>]
    /\ UNCHANGED <<loaded, idle, nonce, holds>>

\* The pool c built in Load's loop becomes the app's pool.
Install(c, p) ==
    /\ loaded' = loaded \union {p}
    /\ idle' = [idle EXCEPT ![p] = ListSigners[p]]
    /\ nonce' = [a \in Addresses |->
                   IF a \in SignersOf(p)
                   THEN draft[c][CHOOSE i \in 1..Size(p) : ListSigners[p][i] = a]
                   ELSE nonce[a]]

\* Mutant: Load does not look at the map a second time.  The counters are those
\* of the pool installed last.
LoadInstallUnchecked(c) ==
    /\ Len(draft[c]) = Size(AppOf[c])
    /\ Goto(c, "fetch", "checkout")
    /\ draft' = [draft EXCEPT ![c] = << >>]
    /\ Install(c, AppOf[c])
    /\ UNCHANGED holds

\* The second critical section: the first loader to get here installs its
\* pool, a later one drops what it built.
LoadInstall(c) ==
    LET p == AppOf[c] IN
    /\ Len(draft[c]) = Size(p)
    /\ Goto(c, "fetch", "checkout")
    /\ draft' = [draft EXCEPT ![c] = << >>]
    /\ \/ p \in loaded /\ UNCHANGED <<loaded, idle, nonce>>
       \/ p \notin loaded /\ Install(c, p)
    /\ UNCHANGED holds

-----------------------------------------------------------------------------
(* Checkout and Release *)

\* A receive from the idle channel.  Blocked (disabled) while it is empty.
Checkout(c) ==
    LET p == AppOf[c] IN
    /\ idle[p] # << >>
    /\ Goto(c, "checkout", "held")
    /\ holds' = [holds EXCEPT ![c] = Head(idle[p])]
    /\ idle' = [idle EXCEPT ![p] = Tail(@)]
    /\ UNCHANGED <<loaded, nonce, draft>>

\* Mutant: a signer received as the context ends is dropped.
CheckoutCancelLeak(c) ==
    LET p == AppOf[c] IN
    /\ Goto(c, "checkout", "out")
    /\ idle' = [idle EXCEPT ![p] = IF @ = << >> THEN @ ELSE Tail(@)]
    /\ UNCHANGED <<loaded, nonce, draft, holds>>

\* The other branch of the select: the caller's context is done.
CheckoutCancel(c) ==
    /\ Goto(c, "checkout", "out")
    /\ UNCHANGED <<loaded, idle, nonce, draft, holds>>

\* A send on the idle channel.  Blocked while the channel is full.
Release(c) ==
    LET p == AppOf[c] IN
    /\ Holding(c)
    /\ Len(idle[p]) < Size(p)
    /\ pc' = [pc EXCEPT ![c] = "out"]
    /\ holds' = [holds EXCEPT ![c] = NoSigner]
    /\ idle' = [idle EXCEPT ![p] = Append(@, holds[c])]
    /\ UNCHANGED <<loaded, nonce, draft>>

-----------------------------------------------------------------------------
(* The nonce counter of a checked-out signer *)

UseNonce(c) ==
    /\ pc[c] = "held" /\ nonce[holds[c]] < MaxNonce
    /\ Goto(c, "held", "reserved")
    /\ nonce' = [nonce EXCEPT ![holds[c]] = Inc(@)]
    /\ UNCHANGED <<loaded, idle, draft, holds>>

\* Mutant: the caller does not notice that it has given the nonce back.
RewindNonceTwice(c) ==
    /\ pc[c] = "reserved"
    /\ nonce' = [nonce EXCEPT ![holds[c]] = Dec(@)]
    /\ UNCHANGED <<loaded, idle, pc, draft, holds>>

RewindNonce(c) ==
    /\ Goto(c, "reserved", "held")
    /\ nonce' = [nonce EXCEPT ![holds[c]] = Dec(@)]
    /\ UNCHANGED <<loaded, idle, draft, holds>>

-----------------------------------------------------------------------------

\* The process dies and is started again: NewPool has an empty map, and the
\* goroutines are gone.
PoolRestart ==
    /\ loaded' = {}
    /\ idle' = [p \in Apps |-> << >>]
    /\ nonce' = [a \in Addresses |-> 0]
    /\ pc' = [c \in Callers |-> "out"]
    /\ draft' = [c \in Callers |-> << >>]
    /\ holds' = [c \in Callers |-> NoSigner]

PoolStep(c) ==
    \/ LoadBegin(c)
    \/ LoadList(c)
    \/ \E n \in 0..MaxNonce : LoadSigner(c, n)
    \/ LoadFail(c)
    \/ LoadInstall(c)
    \/ Checkout(c)
    \/ CheckoutCancel(c)
    \/ UseNonce(c)
    \/ RewindNonce(c)
    \/ Release(c)

PoolNext == (\E c \in Callers : PoolStep(c)) \/ PoolRestart

PoolSpec == PoolInit /\ [][PoolNext]_poolVars

\* Submit defers Release, so a holder always gets to it; the runtime serves
\* the goroutines blocked on a channel first come, first served, so a waiter
\* is not passed over for ever.
PoolFairness ==
    \A c \in Callers : WF_poolVars(Release(c)) /\ SF_poolVars(Checkout(c))

PoolFairSpec == PoolSpec /\ PoolFairness

-----------------------------------------------------------------------------
(* Properties *)

\* The variables hold values of the expected shape; in particular a draft is
\* never longer than the list of signers it is read for.
PoolTypeOK ==
    /\ loaded \subseteq Apps
    /\ idle \in [Apps -> Seq(Addresses)]
    /\ nonce \in [Addresses -> 0..MaxNonce]
    /\ pc \in [Callers -> Positions]
    /\ draft \in [Callers -> Seq(0..MaxNonce)]
    /\ \A c \in Callers : Len(draft[c]) <= Size(AppOf[c])
    /\ holds \in [Callers -> Addresses \union {NoSigner}]

\* No signer is checked out by two goroutines at once, however their Loads
\* interleave: what Submit relies on when it uses and rewinds the nonce.
Exclusive ==
    \A c, d \in Callers : Holding(c) /\ Holding(d) /\ holds[c] = holds[d] => c = d

IsIdle(a) == \E p \in Apps : \E i \in 1..Len(idle[p]) : idle[p][i] = a

\* The pool neither loses nor duplicates a signer: once the app is loaded,
\* each of its signers is in the idle channel, once, or checked out, never
\* both and never neither.
Conserved ==
    \A p \in loaded :
        /\ \A i, j \in 1..Len(idle[p]) : idle[p][i] = idle[p][j] => i = j
        /\ \A a \in SignersOf(p) :
             (\E i \in 1..Len(idle[p]) : idle[p][i] = a)
                <=> ~ \E c \in Callers : Holding(c) /\ holds[c] = a

\* The send in Release never blocks: while a signer is out, the idle channel
\* of its app has room for it.
ReleaseNeverBlocks == \A c \in Callers : Holding(c) => Len(idle[AppOf[c]]) < Size(AppOf[c])

\* A reserved nonce can be rewound without wrapping the counter below zero.
RewindNeverWraps == \A c \in Callers : pc[c] = "reserved" => nonce[holds[c]] > 0

\* Checkout never meets ErrAppNotLoaded: a caller whose Load succeeded finds
\* the pool in the map.
LoadedBeforeCheckout ==
    \A c \in Callers : pc[c] = "checkout" \/ Holding(c) => AppOf[c] \in loaded

\* Once a pool is installed, only the goroutine that holds a signer moves its
\* nonce, and by one: a slow Load never overwrites a counter in use with the
\* older value it read from the node.
OnlyHolderMovesNonce ==
    [][\A a \in Addresses :
          nonce'[a] # nonce[a] /\ (\E p \in loaded : a \in SignersOf(p)) /\ loaded' # {} =>
             /\ \E c \in Callers : Holding(c) /\ holds[c] = a
             /\ nonce'[a] \in {Inc(nonce[a]), Dec(nonce[a])}]_poolVars

\* A caller that waits for a signer gets one, or its context ends.
CheckoutReturns == \A c \in Callers : pc[c] = "checkout" ~> pc[c] # "checkout"

-----------------------------------------------------------------------------
(* Refinement *)

\* The refinement mapping: an address is live when its app is loaded, and
\* leased to the caller that holds it.
LiveOf == {a \in Addresses : \E p \in loaded : a \in SignersOf(p)}
HolderOf(a) == {c \in Callers : Holding(c) /\ holds[c] = a}
TheOne(S) == IF S = {} THEN NoCaller ELSE CHOOSE c \in S : TRUE
LeaseOf == [a \in Addresses |-> TheOne(HolderOf(a))]

Lease == INSTANCE SignerLease WITH live <- LiveOf, lease <- LeaseOf, counter <- nonce

\* The pool implements the lease specification: Load's races, the channel and
\* the atomic counter add up to exclusive leases and counters that are set once.
ImplementsLease == Lease!LeaseSpec

=============================================================================
