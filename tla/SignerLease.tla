---------------------------- MODULE SignerLease -----------------------------
(***************************************************************************)
(* What the signer pool promises, without channels, maps or locks: a       *)
(* signer is leased to at most one caller at a time, its nonce counter is  *)
(* set once in the life of the process, and from then on only its          *)
(* leaseholder moves it, one step at a time.  SignerPool implements this.  *)
(***************************************************************************)
EXTENDS Naturals

CONSTANTS Callers, Addresses, NoCaller, MaxNonce

VARIABLES
    live,     \* the addresses whose counter has been read from the chain
    lease,    \* lease[a]: the caller that has address a, or NoCaller
    counter   \* counter[a]: the next nonce of address a

leaseVars == <<live, lease, counter>>

LeaseInit ==
    /\ live = {}
    /\ lease = [a \in Addresses |-> NoCaller]
    /\ counter = [a \in Addresses |-> 0]

\* The addresses of A, none of them live, get their counters.
Hydrate(A) ==
    /\ A \intersect live = {}
    /\ live' = live \union A
    /\ counter' \in [Addresses -> 0..MaxNonce]
    /\ \A a \in Addresses \ A : counter'[a] = counter[a]
    /\ UNCHANGED lease

Acquire(c, a) ==
    /\ a \in live
    /\ lease[a] = NoCaller
    /\ \A b \in Addresses : lease[b] # c
    /\ lease' = [lease EXCEPT ![a] = c]
    /\ UNCHANGED <<live, counter>>

Advance(c, a) ==
    /\ lease[a] = c
    /\ counter' = [counter EXCEPT ![a] = @ + 1]
    /\ UNCHANGED <<live, lease>>

TakeBack(c, a) ==
    /\ lease[a] = c
    /\ counter[a] > 0
    /\ counter' = [counter EXCEPT ![a] = @ - 1]
    /\ UNCHANGED <<live, lease>>

GiveUp(c, a) ==
    /\ lease[a] = c
    /\ lease' = [lease EXCEPT ![a] = NoCaller]
    /\ UNCHANGED <<live, counter>>

\* A restart forgets everything.
Forget ==
    /\ live' = {}
    /\ lease' = [a \in Addresses |-> NoCaller]
    /\ counter' = [a \in Addresses |-> 0]

LeaseNext ==
    \/ \E A \in SUBSET Addresses : Hydrate(A)
    \/ \E c \in Callers, a \in Addresses :
          Acquire(c, a) \/ Advance(c, a) \/ TakeBack(c, a) \/ GiveUp(c, a)
    \/ Forget

LeaseSpec == LeaseInit /\ [][LeaseNext]_leaseVars

=============================================================================
