---------------------------- MODULE ChainProofs -----------------------------
(***************************************************************************)
(* The nonces of the node: what PendingNonceAt returns, and that no nonce  *)
(* becomes free again unless its transaction is evicted.                   *)
(***************************************************************************)
EXTENDS Chain, FiniteSetTheorems, WellFoundedInduction, TLAPS

\* Every nonce of a from the next one to be mined up to, but not including, n
\* is taken by a pending transaction.
Below(a, n) == \A m \in accountNonce[a]..(n - 1) : m \in PendingNonces(a)

\* What the proofs need to know of a transaction.
Numbered(t) == t.from \in Accounts /\ t.nonce \in Nat /\ t.price \in Nat

\* What the lemmas about the node need.
ChainOK ==
    /\ accountNonce \in [Accounts -> Nat]
    /\ IsFiniteSet(mempool)
    /\ \A t \in mempool : Numbered(t)

\* A set of naturals that is not empty has a least element.
LEMMA LeastElement ==
    ASSUME NEW T \in SUBSET Nat, T # {}
    PROVE  \E n \in T : \A m \in T : n <= m
<1>1. PICK n \in T : \A m \in T : ~ (<<m, n>> \in OpToRel(<, Nat))
    BY WFMin, NatLessThanWellFounded, Zenon
<1>2. ASSUME NEW m \in T PROVE n <= m
    <2>1. <<m, n>> \in Nat \X Nat => ~ (<<m, n>>[1] < <<m, n>>[2])
        BY <1>1 DEF OpToRel
    <2> QED  BY <2>1
<1> QED  BY <1>2

\* The mempool takes fewer nonces of an account than the interval has that
\* PendingNonceAt chooses from.
LEMMA SomeNonceIsFree ==
    ASSUME ChainOK, NEW a \in Accounts
    PROVE  \E n \in accountNonce[a]..(accountNonce[a] + Cardinality(mempool)) : n \notin PendingNonces(a)
<1> DEFINE U == {u \in mempool : u.from = a}
           f == [t \in U |-> t.nonce]
           lo == accountNonce[a]
           k == Cardinality(mempool)
<1>1. lo \in Nat /\ k \in Nat
    BY FS_CardinalityType DEF ChainOK
<1>2. IsFiniteSet(U) /\ Cardinality(U) <= k /\ Cardinality(U) \in Nat
    BY FS_Subset, FS_CardinalityType DEF ChainOK
<1>3. f \in Surjection(U, PendingNonces(a))
    BY DEF Surjection, PendingNonces
<1>4. IsFiniteSet(PendingNonces(a)) /\ Cardinality(PendingNonces(a)) <= Cardinality(U)
    BY <1>2, <1>3, FS_Surjection
<1>5. Cardinality(lo..(lo + k)) = k + 1
    BY <1>1, FS_Interval, SMTT(30), Z3T(30)
<1>6. ASSUME lo..(lo + k) \subseteq PendingNonces(a) PROVE FALSE
    <2>1. Cardinality(lo..(lo + k)) <= Cardinality(PendingNonces(a))
        BY <1>4, <1>6, FS_Subset, Zenon
    <2>2. Cardinality(PendingNonces(a)) \in Nat
        BY <1>4, FS_CardinalityType
    <2> QED  BY <1>1, <1>2, <1>4, <1>5, <2>1, <2>2
<1> QED  BY <1>6

\* The pending nonce is the first free one.
LEMMA PendingNonceIsFirstFree ==
    ASSUME ChainOK, NEW a \in Accounts
    PROVE  /\ PendingNonceAt(a) \in Nat
           /\ PendingNonceAt(a) >= accountNonce[a]
           /\ PendingNonceAt(a) \notin PendingNonces(a)
           /\ Below(a, PendingNonceAt(a))
<1> DEFINE lo == accountNonce[a]
           hi == lo + Cardinality(mempool)
           Free == {n \in lo..hi : n \notin PendingNonces(a)}
<1>1. lo \in Nat /\ Cardinality(mempool) \in Nat
    BY FS_CardinalityType DEF ChainOK
<1>2. PICK n \in Free : \A m \in Free : n <= m
    <2>1. Free \in SUBSET Nat /\ Free # {}
        BY <1>1, SomeNonceIsFree
    <2> HIDE DEF Free
    <2> QED  BY <2>1, LeastElement
<1>3. \A m \in lo..(n - 1) : m \in PendingNonces(a)
    BY <1>1, <1>2
<1>4. \E p \in lo..hi : p \notin PendingNonces(a) /\ \A m \in lo..(p - 1) : m \in PendingNonces(a)
    BY <1>2, <1>3
<1>5. /\ PendingNonceAt(a) \in lo..hi
      /\ PendingNonceAt(a) \notin PendingNonces(a)
      /\ \A m \in lo..(PendingNonceAt(a) - 1) : m \in PendingNonces(a)
    BY <1>4 DEF PendingNonceAt
<1> QED  BY <1>1, <1>5 DEF Below

\* A step of the node may mine nonces and replace transactions, but frees no
\* nonce that is not mined.
Grows ==
    \A a \in Accounts : /\ accountNonce'[a] >= accountNonce[a]
                        /\ \A m \in PendingNonces(a) : m >= accountNonce'[a] => m \in PendingNonces(a)'

\* So what is without a gap stays so.
LEMMA BelowStays ==
    ASSUME ChainOK, ChainOK', Grows, NEW a \in Accounts, NEW n \in Nat, Below(a, n)
    PROVE  Below(a, n)'
<1> SUFFICES ASSUME NEW m \in accountNonce'[a]..(n - 1) PROVE m \in PendingNonces(a)'
    BY DEF Below
<1>1. accountNonce[a] \in Nat /\ accountNonce'[a] \in Nat /\ accountNonce'[a] >= accountNonce[a]
    BY DEF ChainOK, Grows
<1>2. m \in PendingNonces(a)
    BY <1>1 DEF Below
<1> QED  BY <1>1, <1>2 DEF Grows

\* What leaves the chain alone leaves the nonces alone.
LEMMA BelowUnchanged ==
    ASSUME UNCHANGED <<accountNonce, mempool>>
    PROVE  /\ ChainOK => ChainOK'
           /\ \A a, n : Below(a, n) => Below(a, n)'
<1>1. \A a : PendingNonces(a)' = PendingNonces(a)
    BY DEF PendingNonces
<1> QED  BY <1>1 DEF ChainOK, Below, Numbered

\* A transaction the node takes from the wire frees no nonce, even if it replaces
\* another one.
LEMMA TakesGrows ==
    ASSUME ChainOK, NEW t, Numbered(t), NEW accepts \in BOOLEAN, NodeTakes(t, accepts)
    PROVE  ChainOK' /\ Grows
<1>1. CASE ~ accepts
    <2>1. UNCHANGED <<accountNonce, mempool>>
        BY <1>1 DEF NodeTakes
    <2>2. \A a : PendingNonces(a)' = PendingNonces(a)
        BY <2>1 DEF PendingNonces
    <2> QED  BY <2>1, <2>2, BelowUnchanged DEF Grows, ChainOK
<1>2. CASE accepts
    <2> DEFINE rest == {u \in mempool : ~ SameSlot(t, u)}
    <2>1. mempool' = rest \union {t} /\ UNCHANGED accountNonce
        BY <1>2 DEF NodeTakes
    <2>2. IsFiniteSet(rest) /\ rest \subseteq mempool
        BY FS_Subset DEF ChainOK
    <2>3. IsFiniteSet(mempool')
        BY <2>1, <2>2, FS_AddElement
    <2>4. ChainOK'
        BY <2>1, <2>2, <2>3 DEF ChainOK, Numbered
    <2>5. ASSUME NEW a \in Accounts, NEW m \in PendingNonces(a) PROVE m \in PendingNonces(a)'
        <3>1. PICK u \in mempool : u.from = a /\ u.nonce = m
            BY DEF PendingNonces
        <3>2. \E v \in mempool' : v.from = a /\ v.nonce = m
            BY <2>1, <3>1 DEF SameSlot
        <3> QED  BY <3>2 DEF PendingNonces
    <2> QED  BY <2>1, <2>4, <2>5 DEF Grows, ChainOK
<1> QED  BY <1>1, <1>2

\* Mining frees no nonce but the one it mines.
LEMMA MineGrows ==
    ASSUME ChainOK, NEW t, NEW ok, Mine(t, ok)
    PROVE  ChainOK' /\ Grows
<1>1. /\ t \in mempool /\ t.from \in Accounts /\ t.nonce = accountNonce[t.from]
      /\ mempool' = mempool \ {t}
      /\ accountNonce' = [accountNonce EXCEPT ![t.from] = @ + 1]
    BY DEF Mine, ChainOK, Numbered
<1>2. IsFiniteSet(mempool')
    BY <1>1, FS_RemoveElement DEF ChainOK
<1>3. ChainOK'
    BY <1>1, <1>2 DEF ChainOK, Numbered
<1>4. \A a \in Accounts : accountNonce'[a] >= accountNonce[a]
    BY <1>1 DEF ChainOK
<1>5. ASSUME NEW a \in Accounts, NEW m \in PendingNonces(a), m >= accountNonce'[a]
      PROVE  m \in PendingNonces(a)'
    <2>1. PICK u \in mempool : u.from = a /\ u.nonce = m
        BY DEF PendingNonces
    <2>2. u # t
        BY <1>1, <1>5, <2>1 DEF ChainOK
    <2> QED  BY <1>1, <2>1, <2>2 DEF PendingNonces
<1> QED  BY <1>3, <1>4, <1>5 DEF Grows

-----------------------------------------------------------------------------
(* The first free nonce from one state to the next *)

\* n is the first nonce of a that is neither mined nor pending.
IsFirstFree(a, n) ==
    /\ n \in Nat
    /\ n >= accountNonce[a]
    /\ n \notin PendingNonces(a)
    /\ Below(a, n)

FirstFreeIsPending == \A a \in Accounts : \A n : IsFirstFree(a, n) <=> n = PendingNonceAt(a)

\* There is one such nonce, and the node reports it ...
LEMMA FirstFreeUnique == ChainOK => FirstFreeIsPending
<1> SUFFICES ASSUME ChainOK, NEW a \in Accounts, NEW n PROVE IsFirstFree(a, n) <=> n = PendingNonceAt(a)
    BY DEF FirstFreeIsPending
<1>1. PICK p : p = PendingNonceAt(a)
    OBVIOUS
<1>2. p \in Nat /\ p >= accountNonce[a] /\ p \notin PendingNonces(a) /\ Below(a, p) /\ accountNonce[a] \in Nat
    BY <1>1, PendingNonceIsFirstFree DEF ChainOK
<1>3. ASSUME IsFirstFree(a, n) PROVE n = p
    <2>1. n \in Nat /\ n >= accountNonce[a] /\ n \notin PendingNonces(a) /\ Below(a, n)
        BY <1>3 DEF IsFirstFree
    <2>2. ~ (n < p)
        BY <1>2, <2>1 DEF Below
    <2>3. ~ (p < n)
        BY <1>2, <2>1 DEF Below
    <2> QED  BY <1>2, <2>1, <2>2, <2>3
<1>4. IsFirstFree(a, p)
    BY <1>2 DEF IsFirstFree
<1> QED  BY <1>1, <1>3, <1>4, Zenon

\* ... in the next state too.
LEMMA FirstFreeNext == ChainOK' => FirstFreeIsPending'
BY FirstFreeUnique, PTL

\* The nonce the node reports for an account depends on that account's
\* transactions only.
LEMMA PendingStays ==
    ASSUME ChainOK, ChainOK', NEW a \in Accounts,
           accountNonce'[a] = accountNonce[a], PendingNonces(a)' = PendingNonces(a)
    PROVE  PendingNonceAt(a)' = PendingNonceAt(a)
<1>1. PICK n : n = PendingNonceAt(a)
    OBVIOUS
<1>2. IsFirstFree(a, n)
    BY <1>1, FirstFreeUnique, Zenon DEF FirstFreeIsPending
<1>3. IsFirstFree(a, n)'
    BY <1>2, Zenon DEF IsFirstFree, Below
<1> QED  BY <1>1, <1>3, FirstFreeNext, Zenon DEF FirstFreeIsPending

\* Mining does not change it.
LEMMA PendingAfterMine ==
    ASSUME ChainOK, NEW t, NEW ok, Mine(t, ok), NEW a \in Accounts
    PROVE  PendingNonceAt(a)' = PendingNonceAt(a)
<1>1. PICK n : n = PendingNonceAt(a)
    OBVIOUS
<1>2. IsFirstFree(a, n)
    BY <1>1, FirstFreeUnique, Zenon DEF FirstFreeIsPending
<1>3. ChainOK' /\ Grows
    BY MineGrows, Zenon
<1>4. Below(a, n)'
    BY <1>2, <1>3, BelowStays, Zenon DEF IsFirstFree
<1>5. /\ t \in mempool /\ t.from \in Accounts /\ t.nonce = accountNonce[t.from]
      /\ mempool' = mempool \ {t}
      /\ accountNonce' = [accountNonce EXCEPT ![t.from] = @ + 1]
    BY DEF Mine, ChainOK, Numbered
<1>6. n \notin PendingNonces(a)'
    BY <1>2, <1>5, Zenon DEF IsFirstFree, PendingNonces
<1>7. n >= accountNonce'[a]
    <2>1. CASE a # t.from
        BY <1>2, <1>5, <2>1 DEF IsFirstFree, ChainOK
    <2>2. CASE a = t.from
        <3>1. t.nonce \in PendingNonces(a)
            BY <1>5, <2>2, Zenon DEF PendingNonces
        <3>2. n # accountNonce[a] /\ n >= accountNonce[a] /\ n \in Nat /\ accountNonce[a] \in Nat
            BY <1>2, <1>5, <2>2, <3>1, Zenon DEF IsFirstFree, ChainOK
        <3>3. accountNonce'[a] = accountNonce[a] + 1
            BY <1>5, <2>2 DEF ChainOK
        <3> QED  BY <3>2, <3>3
    <2> QED  BY <2>1, <2>2
<1>8. IsFirstFree(a, n)'
    BY <1>2, <1>4, <1>6, <1>7, Zenon DEF IsFirstFree
<1> QED  BY <1>1, <1>3, <1>8, FirstFreeNext, Zenon DEF FirstFreeIsPending

\* Another account's transaction does not change it.
LEMMA PendingOfOthers ==
    ASSUME ChainOK, NEW t, Numbered(t), NEW accepts \in BOOLEAN, NodeTakes(t, accepts),
           NEW a \in Accounts, a # t.from \/ ~ accepts
    PROVE  PendingNonceAt(a)' = PendingNonceAt(a)
<1>1. ChainOK' /\ UNCHANGED accountNonce
    BY TakesGrows, Zenon DEF NodeTakes
<1>2. {u \in mempool' : u.from = a} = {u \in mempool : u.from = a}
    BY Zenon DEF NodeTakes, SameSlot
<1>3. PendingNonces(a)' = PendingNonces(a)
    BY <1>2, Zenon DEF PendingNonces
<1> QED  BY <1>1, <1>3, PendingStays, Zenon

\* A transaction with the reported nonce, when everything pending comes before
\* it, makes the next one the first free.
LEMMA PendingAfterAccept ==
    ASSUME ChainOK, NEW t, Numbered(t), NodeTakes(t, TRUE),
           t.nonce = PendingNonceAt(t.from),
           \A m \in PendingNonces(t.from) : m < t.nonce
    PROVE  PendingNonceAt(t.from)' = t.nonce + 1
<1>1. PICK a, n : a = t.from /\ n = t.nonce
    OBVIOUS
<1>2. a \in Accounts /\ n \in Nat /\ IsFirstFree(a, n)
    BY <1>1, FirstFreeUnique, Zenon DEF FirstFreeIsPending, Numbered
<1>3. ChainOK' /\ Grows /\ UNCHANGED accountNonce /\ accountNonce[a] \in Nat
    BY <1>2, TakesGrows, Zenon DEF NodeTakes, ChainOK
<1>4. Below(a, n)'
    BY <1>2, <1>3, BelowStays, Zenon DEF IsFirstFree
<1>5. t \in mempool' /\ mempool' \subseteq mempool \union {t}
    BY Zenon DEF NodeTakes
<1>6. n \in PendingNonces(a)' /\ PendingNonces(a)' \subseteq PendingNonces(a) \union {n}
    BY <1>1, <1>5, Zenon DEF PendingNonces
<1>7. \A m \in PendingNonces(a) : m < n
    BY <1>1, Zenon
<1>8. n + 1 \notin PendingNonces(a)'
    <2>1. ~ (n + 1 < n) /\ n + 1 # n
        BY <1>2
    <2> QED  BY <1>6, <1>7, <2>1, Zenon
<1>9. Below(a, n + 1)'
    <2> SUFFICES ASSUME NEW m \in accountNonce'[a]..((n + 1) - 1) PROVE m \in PendingNonces(a)'
        BY Zenon DEF Below
    <2>1. m = n \/ m \in accountNonce'[a]..(n - 1)
        BY <1>2, <1>3
    <2> QED  BY <1>4, <1>6, <2>1, Zenon DEF Below
<1>10. n + 1 \in Nat /\ n + 1 >= accountNonce'[a]
    BY <1>2, <1>3 DEF IsFirstFree
<1>11. IsFirstFree(a, n + 1)'
    BY <1>8, <1>9, <1>10, Zenon DEF IsFirstFree
<1>12. n + 1 = PendingNonceAt(a)'
    BY <1>2, <1>3, <1>11, FirstFreeNext, Zenon DEF FirstFreeIsPending
<1> QED  BY <1>1, <1>12, Zenon

-----------------------------------------------------------------------------
(* Gaps but for what was evicted *)

\* A nonce up to which everything is pending is above no gap.
LEMMA BelowHasNoGap == \A a, n : Below(a, n) => NoGap(a, n)
BY Zenon DEF Below, NoGap

\* A step of the node that frees no nonce opens no gap ...
LEMMA NoGapStays ==
    ASSUME ChainOK, ChainOK', Grows, dropped \subseteq dropped',
           NEW a \in Accounts, NEW n \in Nat, NoGap(a, n)
    PROVE  NoGap(a, n)'
<1> SUFFICES ASSUME NEW m \in accountNonce'[a]..(n - 1) PROVE m \in PendingNonces(a)' \/ Evicted(a, m)'
    BY Zenon DEF NoGap
<1>1. accountNonce[a] \in Nat /\ accountNonce'[a] \in Nat /\ accountNonce'[a] >= accountNonce[a]
    BY DEF ChainOK, Grows
<1>2. m \in accountNonce[a]..(n - 1) /\ m >= accountNonce'[a]
    BY <1>1
<1>3. m \in PendingNonces(a) \/ Evicted(a, m)
    BY <1>2, Zenon DEF NoGap
<1>4. Evicted(a, m) => Evicted(a, m)'
    BY Zenon DEF Evicted
<1> QED  BY <1>2, <1>3, <1>4, Zenon DEF Grows

\* ... nor does one that leaves the chain alone ...
LEMMA NoGapUnchanged ==
    ASSUME UNCHANGED <<accountNonce, mempool, dropped>>
    PROVE  \A a, n : NoGap(a, n) => NoGap(a, n)'
<1>1. \A a : PendingNonces(a)' = PendingNonces(a)
    BY Zenon DEF PendingNonces
<1> QED  BY <1>1, Zenon DEF NoGap, Evicted

\* ... and what is evicted leaves a gap that is accounted for.
LEMMA NoGapAfterEvict ==
    ASSUME ChainOK, NEW t, Evict(t)
    PROVE  /\ ChainOK'
           /\ \A a, n : NoGap(a, n) => NoGap(a, n)'
<1>1. t \in mempool /\ mempool' = mempool \ {t} /\ dropped' = dropped \union {t} /\ accountNonce' = accountNonce
    BY Zenon DEF Evict
<1>2. ChainOK'
    BY <1>1, FS_RemoveElement DEF ChainOK, Numbered
<1>3. ASSUME NEW a, NEW m, m \in PendingNonces(a) \/ Evicted(a, m)
      PROVE  m \in PendingNonces(a)' \/ Evicted(a, m)'
    <2>1. CASE Evicted(a, m)
        BY <1>1, <2>1, Zenon DEF Evicted
    <2>2. CASE m \in PendingNonces(a)
        <3>1. PICK u \in mempool : u.from = a /\ u.nonce = m
            BY <2>2, Zenon DEF PendingNonces
        <3> QED  BY <1>1, <3>1, Zenon DEF PendingNonces, Evicted
    <2> QED  BY <1>3, <2>1, <2>2
<1>4. \A a, n : NoGap(a, n) => NoGap(a, n)'
    BY <1>1, <1>3, Zenon DEF NoGap
<1> QED  BY <1>2, <1>4

\* The nonce after one that is pending is above no gap if that one is not.
GapsEndBelow ==
    \A a \in Accounts, n \in Nat : NoGap(a, n) /\ n \in PendingNonces(a) => NoGap(a, n + 1)

\* It is so in every state of the node ...
LEMMA NoGapAfterPending == ChainOK => GapsEndBelow
<1> SUFFICES ASSUME ChainOK, NEW a \in Accounts, NEW n \in Nat, NoGap(a, n), n \in PendingNonces(a),
                    NEW m \in accountNonce[a]..((n + 1) - 1)
             PROVE  m \in PendingNonces(a) \/ Evicted(a, m)
    BY Zenon DEF GapsEndBelow, NoGap
<1>1. m = n \/ m \in accountNonce[a]..(n - 1)
    BY DEF ChainOK
<1> QED  BY <1>1, Zenon DEF NoGap

\* ... the next one included.
LEMMA NoGapAfterPendingNext == ChainOK' => GapsEndBelow'
BY NoGapAfterPending, PTL

=============================================================================
