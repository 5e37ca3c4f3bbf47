-------------------------- MODULE SignerPoolProofs --------------------------
(***************************************************************************)
(* Theorems about SignerPool, for any number of apps, callers and signers. *)
(***************************************************************************)
EXTENDS SignerPool, FiniteSetTheorems, TLAPS

USE Zenon

-----------------------------------------------------------------------------
(* The inductive invariant *)

\* A caller holds a signer exactly between Checkout and Release, and it is one
\* of its own app's.
HoldsOwn ==
    \A c \in Callers :
        /\ Holding(c) => holds[c] \in SignersOf(AppOf[c])
        /\ ~ Holding(c) => holds[c] = NoSigner

\* A channel holds signers of its own app, each at most once, and nothing
\* before the app is loaded.
IdleOwn ==
    \A p \in Apps :
        /\ \A i \in 1..Len(idle[p]) : idle[p][i] \in SignersOf(p)
        /\ p \notin loaded => idle[p] = << >>

\* The inductive invariant: the type invariant is not inductive alone, since
\* RewindNonce stays in range only if the nonce was reserved by its one holder.
PoolInv ==
    /\ PoolTypeOK
    /\ HoldsOwn
    /\ IdleOwn
    /\ LoadedBeforeCheckout
    /\ Exclusive
    /\ Conserved
    /\ RewindNeverWraps

-----------------------------------------------------------------------------
(* Lemmas *)

\* The signers of an app are addresses, and an address has one app.
LEMMA SignersAreAddresses ==
    /\ \A p \in Apps : SignersOf(p) \subseteq Addresses
    /\ \A p, q \in Apps : \A a : a \in SignersOf(p) /\ a \in SignersOf(q) => p = q
  BY PoolAssumption, AddressIsKey, SMT, Z3 DEF SignersOf

\* What a receive leaves of a channel.
LEMMA HeadTail ==
    ASSUME NEW S, NEW s \in Seq(S), s # << >>
    PROVE  /\ Len(s) \in Nat /\ Len(s) > 0
           /\ Head(s) = s[1] /\ Head(s) \in S
           /\ Tail(s) \in Seq(S) /\ Len(Tail(s)) = Len(s) - 1
           /\ \A i \in 1..Len(Tail(s)) : Tail(s)[i] = s[i + 1]
  BY SMT, Z3

\* What a send makes of a channel.
LEMMA AppendFacts ==
    ASSUME NEW S, NEW s \in Seq(S), NEW e \in S
    PROVE  /\ Append(s, e) \in Seq(S) /\ Len(Append(s, e)) = Len(s) + 1
           /\ \A i \in 1..Len(s) : Append(s, e)[i] = s[i]
           /\ Append(s, e)[Len(s) + 1] = e
  BY SMT, Z3

\* Two channels with the same elements after a receive: who is idle now.
LEMMA IdleAfterReceive ==
    ASSUME NEW S, NEW s \in Seq(S), s # << >>,
           \A i, j \in 1..Len(s) : s[i] = s[j] => i = j,
           NEW a
    PROVE  (\E i \in 1..Len(Tail(s)) : Tail(s)[i] = a) <=> (\E i \in 1..Len(s) : s[i] = a) /\ a # Head(s)
  <1>1. ASSUME NEW i \in 1..Len(Tail(s)), Tail(s)[i] = a
        PROVE  (\E j \in 1..Len(s) : s[j] = a) /\ a # Head(s)
    <2>1. i + 1 \in 1..Len(s) /\ s[i + 1] = a /\ 1 \in 1..Len(s) /\ i + 1 # 1
      BY <1>1, HeadTail, SMT, Z3
    <2> QED BY <2>1, HeadTail
  <1>2. ASSUME NEW i \in 1..Len(s), s[i] = a, a # Head(s)
        PROVE  \E j \in 1..Len(Tail(s)) : Tail(s)[j] = a
    <2>1. i # 1 BY <1>2, HeadTail
    <2>2. i - 1 \in 1..Len(Tail(s)) /\ Tail(s)[i - 1] = s[i] BY <2>1, HeadTail, SMT, Z3
    <2> QED BY <1>2, <2>2
  <1> QED BY <1>1, <1>2

\* Who is idle after a send.
LEMMA IdleAfterSend ==
    ASSUME NEW S, NEW s \in Seq(S), NEW e \in S, NEW a
    PROVE  (\E i \in 1..Len(Append(s, e)) : Append(s, e)[i] = a) <=> (\E i \in 1..Len(s) : s[i] = a) \/ a = e
  <1>0. Len(s) \in Nat BY SMT, Z3
  <1>1. ASSUME NEW i \in 1..Len(Append(s, e)), Append(s, e)[i] = a
        PROVE  (\E j \in 1..Len(s) : s[j] = a) \/ a = e
    <2>1. CASE i = Len(s) + 1 BY <1>1, <2>1, AppendFacts
    <2>2. CASE i # Len(s) + 1
      <3>1. i \in 1..Len(s) BY <1>0, <2>2, AppendFacts, SMT, Z3
      <3> QED BY <1>1, <3>1, AppendFacts, SMT, Z3
    <2> QED BY <2>1, <2>2
  <1>2. ASSUME NEW i \in 1..Len(s), s[i] = a
        PROVE  \E j \in 1..Len(Append(s, e)) : Append(s, e)[j] = a
    <2>1. i \in 1..Len(Append(s, e)) /\ Append(s, e)[i] = a BY <1>0, <1>2, AppendFacts, SMT, Z3
    <2> QED BY <2>1
  <1>3. ASSUME a = e PROVE \E j \in 1..Len(Append(s, e)) : Append(s, e)[j] = a
    <2>1. Len(s) + 1 \in 1..Len(Append(s, e)) BY <1>0, AppendFacts, SMT, Z3
    <2> QED BY <1>3, <2>1, AppendFacts, SMT, Z3
  <1> QED BY <1>1, <1>2, <1>3

-----------------------------------------------------------------------------
(* The invariant holds initially and is preserved *)

\* A new process satisfies the invariant: NewPool has an empty map.
LEMMA PoolInitInv == PoolInit => PoolInv
  <1> SUFFICES ASSUME PoolInit PROVE PoolInv OBVIOUS
  <1>0. \A c \in Callers : Len(draft[c]) = 0 /\ Size(AppOf[c]) \in Nat /\ ~ Holding(c)
    BY PoolAssumption, SMT, Z3 DEF PoolInit, Size, Holding
  <1>1. PoolTypeOK BY <1>0, PoolAssumption, SMT, Z3 DEF PoolInit, PoolTypeOK, Positions
  <1>2. HoldsOwn BY <1>0 DEF PoolInit, HoldsOwn
  <1>3. IdleOwn
    <2>1. \A p \in Apps : idle[p] = << >> /\ Len(idle[p]) = 0 BY DEF PoolInit
    <2>2. \A p \in Apps : \A i \in 1..Len(idle[p]) : FALSE BY <2>1, SMT, Z3
    <2> QED BY <2>1, <2>2 DEF IdleOwn
  <1>4. Exclusive /\ LoadedBeforeCheckout /\ RewindNeverWraps
    BY <1>0 DEF PoolInit, Exclusive, LoadedBeforeCheckout, RewindNeverWraps
  <1>5. Conserved BY DEF PoolInit, Conserved
  <1> QED BY <1>1, <1>2, <1>3, <1>4, <1>5 DEF PoolInv

\* A step that changes neither channels nor holders keeps the parts of the
\* invariant that speak of them.
LEMMA SameHolders ==
    ASSUME PoolInv, UNCHANGED <<loaded, idle, holds>>,
           \A c \in Callers : Holding(c)' <=> Holding(c)
    PROVE  HoldsOwn' /\ IdleOwn' /\ Exclusive' /\ Conserved'
  <1>1. HoldsOwn' BY DEF PoolInv, HoldsOwn
  <1>2. IdleOwn' BY DEF PoolInv, IdleOwn
  <1>3. Exclusive' BY DEF PoolInv, Exclusive
  <1>4. Conserved' BY SMT, Z3 DEF PoolInv, Conserved
  <1> QED BY <1>1, <1>2, <1>3, <1>4

\* The steps of Load before the pool is installed, and a cancelled Checkout,
\* move only the caller's own program counter and draft.
LEMMA LoadingSteps ==
    ASSUME PoolInv, NEW c \in Callers,
           \/ LoadBegin(c) \/ LoadList(c) \/ LoadFail(c) \/ CheckoutCancel(c)
           \/ \E n \in 0..MaxNonce : LoadSigner(c, n)
    PROVE  PoolInv'
  <1> USE PoolAssumption
  <1>0. /\ UNCHANGED <<loaded, idle, nonce, holds>>
        /\ \A d \in Callers : pc'[d] = "reserved" <=> pc[d] = "reserved"
        /\ \A d \in Callers : pc'[d] = "held" <=> pc[d] = "held"
        /\ \A d \in Callers : pc'[d] = "checkout" => pc[d] = "checkout" \/ AppOf[d] \in loaded
        /\ pc' \in [Callers -> Positions]
    BY DEF PoolInv, PoolTypeOK, LoadBegin, LoadList, LoadFail, LoadSigner, CheckoutCancel, Goto, Positions
  <1>1. \A d \in Callers : Holding(d)' <=> Holding(d) BY <1>0 DEF Holding
  <1>2. HoldsOwn' /\ IdleOwn' /\ Exclusive' /\ Conserved' BY <1>0, <1>1, SameHolders
  <1> DEFINE DraftOK == draft \in [Callers -> Seq(0..MaxNonce)] /\ \A d \in Callers : Len(draft[d]) <= Size(AppOf[d])
  <1>3. DraftOK'
    <2>0. DraftOK BY DEF PoolInv, PoolTypeOK
    <2>1. \A d \in Callers : Size(AppOf[d]) \in Nat BY SMT, Z3 DEF Size
    <2>2. CASE LoadBegin(c) \/ LoadList(c) \/ CheckoutCancel(c)
      BY <2>0, <2>2 DEF LoadBegin, LoadList, CheckoutCancel
    <2>3. CASE LoadFail(c) BY <2>0, <2>1, <2>3, SMT, Z3 DEF LoadFail
    <2>4. ASSUME NEW n \in 0..MaxNonce, LoadSigner(c, n) PROVE DraftOK'
      <3>1. Append(draft[c], n) \in Seq(0..MaxNonce) /\ Len(Append(draft[c], n)) = Len(draft[c]) + 1
        BY <2>0, AppendFacts, SMT, Z3
      <3> QED BY <2>0, <2>1, <2>4, <3>1, SMT, Z3 DEF LoadSigner
    <2> QED BY <2>2, <2>3, <2>4
  <1>4. PoolTypeOK' BY <1>0, <1>3 DEF PoolInv, PoolTypeOK
  <1>5. LoadedBeforeCheckout' BY <1>0, <1>1 DEF PoolInv, LoadedBeforeCheckout
  <1>6. RewindNeverWraps' BY <1>0 DEF PoolInv, RewindNeverWraps
  <1> QED BY <1>2, <1>4, <1>5, <1>6 DEF PoolInv

\* Installing a pool: the losing loader changes nothing, the first one fills a
\* channel whose signers nobody can hold yet.
LEMMA InstallStep ==
    ASSUME PoolInv, NEW c \in Callers, LoadInstall(c)
    PROVE  PoolInv'
  <1> USE PoolAssumption
  <1> DEFINE p == AppOf[c]
  <1>0. /\ p \in Apps /\ pc[c] = "fetch" /\ pc' = [pc EXCEPT ![c] = "checkout"]
        /\ pc \in [Callers -> Positions] /\ pc' \in [Callers -> Positions]
        /\ draft' = [draft EXCEPT ![c] = << >>] /\ Len(draft[c]) = Size(p) /\ holds' = holds
    BY DEF PoolInv, PoolTypeOK, LoadInstall, Goto, Positions
  <1>1. /\ \A d \in Callers : Holding(d)' <=> Holding(d)
        /\ \A d \in Callers : pc'[d] = "reserved" <=> pc[d] = "reserved"
    BY <1>0 DEF Holding
  <1>2. draft' \in [Callers -> Seq(0..MaxNonce)] /\ \A d \in Callers : Len(draft'[d]) <= Size(AppOf[d])
    BY <1>0, SMT, Z3 DEF PoolInv, PoolTypeOK, Size
  <1>3. CASE p \in loaded
    <2>1. UNCHANGED <<loaded, idle, nonce>> BY <1>3 DEF LoadInstall
    <2>2. HoldsOwn' /\ IdleOwn' /\ Exclusive' /\ Conserved' BY <1>0, <1>1, <2>1, SameHolders
    <2>3. PoolTypeOK' BY <1>0, <1>2, <2>1 DEF PoolInv, PoolTypeOK
    <2>4. LoadedBeforeCheckout' BY <1>0, <1>1, <1>3, <2>1 DEF PoolInv, LoadedBeforeCheckout
    <2>5. RewindNeverWraps' BY <1>0, <1>1, <2>1 DEF PoolInv, RewindNeverWraps
    <2> QED BY <2>2, <2>3, <2>4, <2>5 DEF PoolInv
  <1>4. CASE p \notin loaded
    <2>0. Install(c, p) BY <1>4 DEF LoadInstall
    <2>1. /\ loaded' = loaded \union {p}
          /\ idle' = [idle EXCEPT ![p] = ListSigners[p]]
          /\ idle \in [Apps -> Seq(Addresses)] /\ idle' \in [Apps -> Seq(Addresses)]
          /\ \A q \in Apps : q # p => idle'[q] = idle[q]
          /\ idle'[p] = ListSigners[p]
      BY <1>0, <2>0 DEF Install, PoolInv, PoolTypeOK
    <2>2. nonce' \in [Addresses -> 0..MaxNonce] /\ \A a \in Addresses : a \notin SignersOf(p) => nonce'[a] = nonce[a]
      <3>1. ASSUME NEW a \in SignersOf(p)
            PROVE  draft[c][CHOOSE i \in 1..Size(p) : ListSigners[p][i] = a] \in 0..MaxNonce
        <4>1. \E i \in 1..Size(p) : ListSigners[p][i] = a BY DEF SignersOf, Size
        <4>2. (CHOOSE i \in 1..Size(p) : ListSigners[p][i] = a) \in 1..Len(draft[c]) BY <1>0, <4>1
        <4>3. draft[c] \in Seq(0..MaxNonce) BY DEF PoolInv, PoolTypeOK
        <4> QED BY <4>2, <4>3, SMT, Z3
      <3> QED BY <2>0, <3>1 DEF Install, PoolInv, PoolTypeOK
    <2>3. \A d \in Callers : Holding(d) => AppOf[d] # p /\ holds[d] \notin SignersOf(p) /\ holds[d] \in Addresses
      <3>1. \A d \in Callers : Holding(d) => AppOf[d] # p BY <1>4 DEF PoolInv, LoadedBeforeCheckout
      <3> QED BY <1>0, <3>1, SignersAreAddresses DEF PoolInv, HoldsOwn
    <2>4. PoolTypeOK' BY <1>0, <1>2, <2>1, <2>2 DEF PoolInv, PoolTypeOK
    <2>5. HoldsOwn' /\ Exclusive' BY <1>0, <1>1 DEF PoolInv, HoldsOwn, Exclusive
    <2>6. IdleOwn' BY <1>0, <2>1, SMT, Z3 DEF PoolInv, IdleOwn, SignersOf
    <2>7. LoadedBeforeCheckout' BY <1>0, <1>1, <2>1 DEF PoolInv, LoadedBeforeCheckout
    <2>8. RewindNeverWraps'
      BY <1>0, <1>1, <2>2, <2>3 DEF PoolInv, RewindNeverWraps, Holding
    <2>9. Conserved'
      <3>1. ASSUME NEW q \in loaded'
            PROVE  /\ \A i, j \in 1..Len(idle'[q]) : idle'[q][i] = idle'[q][j] => i = j
                   /\ \A a \in SignersOf(q) :
                        (\E i \in 1..Len(idle'[q]) : idle'[q][i] = a)
                          <=> ~ \E d \in Callers : Holding(d)' /\ holds'[d] = a
        <4>1. CASE q = p
          <5>1. \A i, j \in 1..Len(idle'[q]) : idle'[q][i] = idle'[q][j] => i = j
            BY <1>0, <2>1, <4>1, AddressIsKey, SMT, Z3
          <5>2. ASSUME NEW a \in SignersOf(q)
                PROVE  (\E i \in 1..Len(idle'[q]) : idle'[q][i] = a) /\ ~ \E d \in Callers : Holding(d)' /\ holds'[d] = a
            <6>1. \E i \in 1..Len(idle'[q]) : idle'[q][i] = a BY <2>1, <4>1, SMT, Z3 DEF SignersOf
            <6>2. ~ \E d \in Callers : Holding(d)' /\ holds'[d] = a BY <1>0, <1>1, <2>3, <4>1
            <6> QED BY <6>1, <6>2
          <5> QED BY <5>1, <5>2
        <4>2. CASE q # p
          <5>1. q \in loaded /\ q \in Apps /\ idle'[q] = idle[q] BY <2>1, <4>2 DEF PoolInv, PoolTypeOK
          <5> QED BY <1>0, <1>1, <5>1, SMT, Z3 DEF PoolInv, Conserved
        <4> QED BY <4>1, <4>2
      <3> QED BY <3>1 DEF Conserved
    <2> QED BY <2>4, <2>5, <2>6, <2>7, <2>8, <2>9 DEF PoolInv
  <1> QED BY <1>3, <1>4

\* A receive moves the head of the channel to the caller, who had nothing.
LEMMA CheckoutStep ==
    ASSUME PoolInv, NEW c \in Callers, Checkout(c)
    PROVE  PoolInv'
  <1> USE PoolAssumption
  <1> DEFINE p == AppOf[c]
             h == Head(idle[p])
  <1>0. /\ p \in Apps /\ idle[p] # << >> /\ pc[c] = "checkout" /\ p \in loaded
        /\ pc \in [Callers -> Positions] /\ pc' = [pc EXCEPT ![c] = "held"]
        /\ holds' = [holds EXCEPT ![c] = h] /\ holds \in [Callers -> Addresses \union {NoSigner}]
        /\ idle' = [idle EXCEPT ![p] = Tail(idle[p])] /\ idle \in [Apps -> Seq(Addresses)]
        /\ UNCHANGED <<loaded, nonce, draft>>
    BY DEF PoolInv, PoolTypeOK, Checkout, Goto, LoadedBeforeCheckout
  <1>1. /\ h \in Addresses /\ h = idle[p][1] /\ 1 \in 1..Len(idle[p])
        /\ Tail(idle[p]) \in Seq(Addresses) /\ Len(Tail(idle[p])) = Len(idle[p]) - 1
        /\ \A i \in 1..Len(Tail(idle[p])) : Tail(idle[p])[i] = idle[p][i + 1] /\ i + 1 \in 1..Len(idle[p])
    BY <1>0, HeadTail, SMT, Z3
  <1>2. h \in SignersOf(p) BY <1>0, <1>1, SMT, Z3 DEF PoolInv, IdleOwn
  <1>3. ~ Holding(c) /\ Holding(c)' /\ \A d \in Callers : d # c => (Holding(d)' <=> Holding(d))
    BY <1>0 DEF Holding, Positions
  <1>4. \A d \in Callers : ~ (Holding(d) /\ holds[d] = h)
    <2>1. \E i \in 1..Len(idle[p]) : idle[p][i] = h BY <1>1
    <2>2. (\E i \in 1..Len(idle[p]) : idle[p][i] = h) <=> ~ \E d \in Callers : Holding(d) /\ holds[d] = h
      BY <1>0, <1>2, ZenonT(60) DEF PoolInv, Conserved
    <2> QED BY <2>1, <2>2
  <1>5. PoolTypeOK' BY <1>0, <1>1 DEF PoolInv, PoolTypeOK, Positions
  <1>6. HoldsOwn' BY <1>0, <1>2, <1>3 DEF PoolInv, HoldsOwn
  <1>7. IdleOwn' BY <1>0, <1>1, SMT, Z3 DEF PoolInv, IdleOwn
  <1>8. LoadedBeforeCheckout' BY <1>0, <1>3 DEF PoolInv, LoadedBeforeCheckout
  <1>9. Exclusive' BY <1>0, <1>3, <1>4 DEF PoolInv, Exclusive
  <1>10. RewindNeverWraps' BY <1>0 DEF PoolInv, RewindNeverWraps
  <1>11. Conserved'
    <2>1. ASSUME NEW q \in loaded'
          PROVE  /\ \A i, j \in 1..Len(idle'[q]) : idle'[q][i] = idle'[q][j] => i = j
                 /\ \A a \in SignersOf(q) :
                      (\E i \in 1..Len(idle'[q]) : idle'[q][i] = a)
                        <=> ~ \E d \in Callers : Holding(d)' /\ holds'[d] = a
      <3>0. q \in loaded /\ q \in Apps BY <1>0 DEF PoolInv, PoolTypeOK
      <3>1. \A i, j \in 1..Len(idle[q]) : idle[q][i] = idle[q][j] => i = j BY <3>0 DEF PoolInv, Conserved
      <3>2. \A a \in SignersOf(q) :
              (\E i \in 1..Len(idle[q]) : idle[q][i] = a) <=> ~ \E d \in Callers : Holding(d) /\ holds[d] = a
        BY <3>0 DEF PoolInv, Conserved
      <3>3. \A a : (\E d \in Callers : Holding(d)' /\ holds'[d] = a)
                     <=> (a = h \/ \E d \in Callers : Holding(d) /\ holds[d] = a)
        BY <1>0, <1>3
      <3>4. CASE q = p
        <4>1. idle'[q] = Tail(idle[p]) BY <1>0, <3>4
        <4>2. \A i, j \in 1..Len(idle'[q]) : idle'[q][i] = idle'[q][j] => i = j
          <5> SUFFICES ASSUME NEW i \in 1..Len(Tail(idle[p])), NEW j \in 1..Len(Tail(idle[p])),
                              Tail(idle[p])[i] = Tail(idle[p])[j]
                       PROVE  i = j
            BY <4>1
          <5>1. idle[p][i + 1] = idle[p][j + 1] BY <1>1
          <5>2. i + 1 = j + 1 BY <1>1, <3>1, <3>4, <5>1
          <5> QED BY <5>2, SMT, Z3
        <4>3. \A a : (\E i \in 1..Len(idle'[q]) : idle'[q][i] = a)
                       <=> (\E i \in 1..Len(idle[q]) : idle[q][i] = a) /\ a # h
          <5>1. idle[p] \in Seq(Addresses) /\ idle[p] # << >> BY <1>0
          <5>2. \A i, j \in 1..Len(idle[p]) : idle[p][i] = idle[p][j] => i = j BY <3>1, <3>4
          <5>3. \A a : (\E i \in 1..Len(Tail(idle[p])) : Tail(idle[p])[i] = a)
                         <=> (\E i \in 1..Len(idle[p]) : idle[p][i] = a) /\ a # h
            BY <5>1, <5>2, IdleAfterReceive
          <5> QED BY <3>4, <4>1, <5>3, ZenonT(60)
        <4>4. ASSUME NEW a \in SignersOf(q)
              PROVE  (\E i \in 1..Len(idle'[q]) : idle'[q][i] = a)
                        <=> ~ \E d \in Callers : Holding(d)' /\ holds'[d] = a
          BY <3>2, <3>3, <4>3
        <4> QED BY <4>2, <4>4
      <3>5. CASE q # p
        <4>1. idle'[q] = idle[q] BY <1>0, <3>0, <3>5
        <4>2. h \notin SignersOf(q) BY <1>0, <1>2, <3>0, <3>5, SignersAreAddresses
        <4>3. ASSUME NEW a \in SignersOf(q)
              PROVE  (\E i \in 1..Len(idle'[q]) : idle'[q][i] = a)
                        <=> ~ \E d \in Callers : Holding(d)' /\ holds'[d] = a
          BY <3>2, <3>3, <4>1, <4>2
        <4> QED BY <3>1, <4>1, <4>3
      <3> QED BY <3>4, <3>5
    <2> QED BY <2>1 DEF Conserved
  <1> QED BY <1>5, <1>6, <1>7, <1>8, <1>9, <1>10, <1>11 DEF PoolInv

\* A send moves the caller's signer, which nobody else has, to the channel.
LEMMA ReleaseStep ==
    ASSUME PoolInv, NEW c \in Callers, Release(c)
    PROVE  PoolInv'
  <1> USE PoolAssumption
  <1> DEFINE p == AppOf[c]
             h == holds[c]
  <1>0. /\ p \in Apps /\ Holding(c) /\ p \in loaded
        /\ pc \in [Callers -> Positions] /\ pc' = [pc EXCEPT ![c] = "out"]
        /\ holds' = [holds EXCEPT ![c] = NoSigner] /\ holds \in [Callers -> Addresses \union {NoSigner}]
        /\ idle' = [idle EXCEPT ![p] = Append(idle[p], h)] /\ idle \in [Apps -> Seq(Addresses)]
        /\ UNCHANGED <<loaded, nonce, draft>>
    BY DEF PoolInv, PoolTypeOK, Release, LoadedBeforeCheckout
  <1>1. h \in SignersOf(p) /\ h \in Addresses BY <1>0, SignersAreAddresses DEF PoolInv, HoldsOwn
  <1>2. /\ Append(idle[p], h) \in Seq(Addresses) /\ Len(Append(idle[p], h)) = Len(idle[p]) + 1
        /\ \A i \in 1..Len(idle[p]) : Append(idle[p], h)[i] = idle[p][i]
        /\ Append(idle[p], h)[Len(idle[p]) + 1] = h /\ Len(idle[p]) \in Nat
    BY <1>0, <1>1, AppendFacts, SMT, Z3
  <1>3. ~ Holding(c)' /\ \A d \in Callers : d # c => (Holding(d)' <=> Holding(d))
    BY <1>0 DEF Holding
  <1>4. \A d \in Callers : Holding(d) /\ holds[d] = h => d = c BY <1>0 DEF PoolInv, Exclusive
  <1>5. PoolTypeOK' BY <1>0, <1>2 DEF PoolInv, PoolTypeOK, Positions
  <1>6. HoldsOwn' BY <1>0, <1>3 DEF PoolInv, HoldsOwn
  <1>7. IdleOwn'
    <2>1. ASSUME NEW q \in Apps
          PROVE  (\A i \in 1..Len(idle'[q]) : idle'[q][i] \in SignersOf(q)) /\ (q \notin loaded' => idle'[q] = << >>)
      <3>1. CASE q = p
        <4>1. \A i \in 1..Len(idle[p]) : idle[p][i] \in SignersOf(p) BY <1>0 DEF PoolInv, IdleOwn
        <4>2. idle'[q] = Append(idle[p], h) BY <1>0, <3>1
        <4>3. ASSUME NEW i \in 1..(Len(idle[p]) + 1) PROVE Append(idle[p], h)[i] \in SignersOf(p)
          <5>1. CASE i = Len(idle[p]) + 1 BY <1>1, <1>2, <5>1
          <5>2. CASE i # Len(idle[p]) + 1
            <6>1. i \in 1..Len(idle[p]) BY <1>2, <5>2, SMT, Z3
            <6> QED BY <1>2, <4>1, <6>1
          <5> QED BY <5>1, <5>2
        <4> QED BY <1>0, <1>2, <3>1, <4>2, <4>3
      <3>2. CASE q # p BY <1>0, <3>2 DEF PoolInv, IdleOwn
      <3> QED BY <3>1, <3>2
    <2> QED BY <2>1 DEF IdleOwn
  <1>8. LoadedBeforeCheckout' BY <1>0, <1>3 DEF PoolInv, LoadedBeforeCheckout
  <1>9. Exclusive' BY <1>0, <1>3 DEF PoolInv, Exclusive
  <1>10. RewindNeverWraps' BY <1>0 DEF PoolInv, RewindNeverWraps
  <1>11. Conserved'
    <2>1. ASSUME NEW q \in loaded'
          PROVE  /\ \A i, j \in 1..Len(idle'[q]) : idle'[q][i] = idle'[q][j] => i = j
                 /\ \A a \in SignersOf(q) :
                      (\E i \in 1..Len(idle'[q]) : idle'[q][i] = a)
                        <=> ~ \E d \in Callers : Holding(d)' /\ holds'[d] = a
      <3>0. q \in loaded /\ q \in Apps BY <1>0 DEF PoolInv, PoolTypeOK
      <3>1. \A i, j \in 1..Len(idle[q]) : idle[q][i] = idle[q][j] => i = j BY <3>0 DEF PoolInv, Conserved
      <3>2. \A a \in SignersOf(q) :
              (\E i \in 1..Len(idle[q]) : idle[q][i] = a) <=> ~ \E d \in Callers : Holding(d) /\ holds[d] = a
        BY <3>0 DEF PoolInv, Conserved
      <3>3. \A a : (\E d \in Callers : Holding(d)' /\ holds'[d] = a)
                     <=> (a # h /\ \E d \in Callers : Holding(d) /\ holds[d] = a)
        BY <1>0, <1>3, <1>4
      <3>4. CASE q = p
        <4>1. idle'[q] = Append(idle[p], h) BY <1>0, <3>4
        <4>2. \A i \in 1..Len(idle[p]) : idle[p][i] # h BY <1>0, <1>1, <3>2, <3>4
        <4>3. \A i, j \in 1..Len(idle'[q]) : idle'[q][i] = idle'[q][j] => i = j
          <5> SUFFICES ASSUME NEW i \in 1..(Len(idle[p]) + 1), NEW j \in 1..(Len(idle[p]) + 1),
                              Append(idle[p], h)[i] = Append(idle[p], h)[j]
                       PROVE  i = j
            BY <1>2, <4>1
          <5>1. CASE i \in 1..Len(idle[p]) /\ j \in 1..Len(idle[p]) BY <1>2, <3>1, <3>4, <5>1
          <5>2. CASE i = Len(idle[p]) + 1 /\ j \in 1..Len(idle[p]) BY <1>2, <4>2, <5>2
          <5>3. CASE j = Len(idle[p]) + 1 /\ i \in 1..Len(idle[p]) BY <1>2, <4>2, <5>3
          <5> QED BY <1>2, <5>1, <5>2, <5>3, SMT, Z3
        <4>4. \A a : (\E i \in 1..Len(idle'[q]) : idle'[q][i] = a)
                       <=> (\E i \in 1..Len(idle[q]) : idle[q][i] = a) \/ a = h
          BY <1>0, <1>1, <3>4, <4>1, IdleAfterSend, SMT, Z3
        <4>5. ASSUME NEW a \in SignersOf(q)
              PROVE  (\E i \in 1..Len(idle'[q]) : idle'[q][i] = a)
                        <=> ~ \E d \in Callers : Holding(d)' /\ holds'[d] = a
          BY <3>2, <3>3, <4>4
        <4> QED BY <4>3, <4>5
      <3>5. CASE q # p
        <4>1. idle'[q] = idle[q] BY <1>0, <3>0, <3>5
        <4>2. h \notin SignersOf(q) BY <1>0, <1>1, <3>0, <3>5, SignersAreAddresses
        <4>3. ASSUME NEW a \in SignersOf(q)
              PROVE  (\E i \in 1..Len(idle'[q]) : idle'[q][i] = a)
                        <=> ~ \E d \in Callers : Holding(d)' /\ holds'[d] = a
          BY <3>2, <3>3, <4>1, <4>2
        <4> QED BY <3>1, <4>1, <4>3
      <3> QED BY <3>4, <3>5
    <2> QED BY <2>1 DEF Conserved
  <1> QED BY <1>5, <1>6, <1>7, <1>8, <1>9, <1>10, <1>11 DEF PoolInv

\* The holder of a signer moves its counter, and nobody else's.
LEMMA NonceSteps ==
    ASSUME PoolInv, NEW c \in Callers, UseNonce(c) \/ RewindNonce(c)
    PROVE  PoolInv'
  <1> USE PoolAssumption
  <1> DEFINE h == holds[c]
  <1>0. /\ Holding(c)
        /\ UNCHANGED <<loaded, idle, draft, holds>>
        /\ pc \in [Callers -> Positions] /\ pc' \in [Callers -> Positions]
        /\ \A d \in Callers : d # c => pc'[d] = pc[d]
        /\ pc'[c] \in {"held", "reserved"}
        /\ nonce \in [Addresses -> 0..MaxNonce]
    BY DEF PoolInv, PoolTypeOK, UseNonce, RewindNonce, Goto, Positions, Holding
  <1>1. h \in Addresses BY <1>0, SignersAreAddresses DEF PoolInv, HoldsOwn
  <1>2. \A d \in Callers : Holding(d)' <=> Holding(d) BY <1>0 DEF Holding
  <1>3. HoldsOwn' /\ IdleOwn' /\ Exclusive' /\ Conserved' BY <1>0, <1>2, SameHolders
  <1>4. /\ nonce' \in [Addresses -> 0..MaxNonce]
        /\ \A a \in Addresses : a # h => nonce'[a] = nonce[a]
        /\ pc'[c] = "reserved" => nonce'[h] > 0
    <2>1. CASE UseNonce(c)
      <3>1. nonce[h] < MaxNonce /\ nonce' = [nonce EXCEPT ![h] = Inc(nonce[h])] BY <2>1 DEF UseNonce
      <3>2. Inc(nonce[h]) \in 1..MaxNonce BY <1>0, <1>1, <3>1, SMT, Z3 DEF Inc
      <3> QED BY <1>0, <1>1, <3>1, <3>2, SMT, Z3
    <2>2. CASE RewindNonce(c)
      <3>1. pc[c] = "reserved" /\ pc'[c] = "held" /\ nonce' = [nonce EXCEPT ![h] = Dec(nonce[h])]
        BY <1>0, <2>2 DEF RewindNonce, Goto
      <3>2. nonce[h] > 0 BY <3>1 DEF PoolInv, RewindNeverWraps
      <3>3. Dec(nonce[h]) \in 0..MaxNonce BY <1>0, <1>1, <3>2, SMT, Z3 DEF Dec
      <3> QED BY <1>0, <1>1, <3>1, <3>3
    <2> QED BY <2>1, <2>2
  <1>5. PoolTypeOK' BY <1>0, <1>4 DEF PoolInv, PoolTypeOK
  <1>6. LoadedBeforeCheckout'
    BY <1>0, <1>2 DEF PoolInv, LoadedBeforeCheckout
  <1>7. RewindNeverWraps'
    <2> SUFFICES ASSUME NEW d \in Callers, pc'[d] = "reserved" PROVE nonce'[holds'[d]] > 0
      BY DEF RewindNeverWraps
    <2>1. CASE d = c BY <1>0, <1>4, <2>1
    <2>2. CASE d # c
      <3>1. pc[d] = "reserved" /\ Holding(d) BY <1>0, <2>2 DEF Holding
      <3>2. holds[d] # h BY <1>0, <2>2, <3>1 DEF PoolInv, Exclusive
      <3>3. holds[d] \in Addresses BY <3>1, SignersAreAddresses DEF PoolInv, HoldsOwn
      <3>4. nonce[holds[d]] > 0 BY <3>1 DEF PoolInv, RewindNeverWraps
      <3> QED BY <1>0, <1>4, <3>2, <3>3, <3>4
    <2> QED BY <2>1, <2>2
  <1> QED BY <1>3, <1>5, <1>6, <1>7 DEF PoolInv

\* A restart gives the state of a new process.
LEMMA RestartStep ==
    ASSUME PoolRestart
    PROVE  PoolInv'
  <1>0. \A c \in Callers : Len(draft'[c]) = 0 /\ Size(AppOf[c]) \in Nat /\ ~ Holding(c)'
    BY PoolAssumption, SMT, Z3 DEF PoolRestart, Size, Holding
  <1>1. PoolTypeOK' BY <1>0, PoolAssumption, SMT, Z3 DEF PoolRestart, PoolTypeOK, Positions
  <1>2. HoldsOwn' BY <1>0 DEF PoolRestart, HoldsOwn
  <1>3. IdleOwn'
    <2>1. \A p \in Apps : idle'[p] = << >> /\ Len(idle'[p]) = 0 BY DEF PoolRestart
    <2>2. \A p \in Apps : \A i \in 1..Len(idle'[p]) : FALSE BY <2>1, SMT, Z3
    <2> QED BY <2>1, <2>2 DEF IdleOwn
  <1>4. Exclusive' /\ LoadedBeforeCheckout' /\ RewindNeverWraps'
    BY <1>0 DEF PoolRestart, Exclusive, LoadedBeforeCheckout, RewindNeverWraps
  <1>5. Conserved' BY DEF PoolRestart, Conserved
  <1> QED BY <1>1, <1>2, <1>3, <1>4, <1>5 DEF PoolInv

\* Every step of the pool preserves the invariant.
LEMMA PoolNextInv == PoolInv /\ [PoolNext]_poolVars => PoolInv'
  <1> SUFFICES ASSUME PoolInv, [PoolNext]_poolVars PROVE PoolInv' OBVIOUS
  <1>1. ASSUME NEW c \in Callers, PoolStep(c) PROVE PoolInv'
    <2>1. CASE LoadBegin(c) \/ LoadList(c) \/ LoadFail(c) \/ CheckoutCancel(c) \/ \E n \in 0..MaxNonce : LoadSigner(c, n)
      BY <2>1, LoadingSteps
    <2>2. CASE LoadInstall(c) BY <2>2, InstallStep
    <2>3. CASE Checkout(c) BY <2>3, CheckoutStep
    <2>4. CASE Release(c) BY <2>4, ReleaseStep
    <2>5. CASE UseNonce(c) \/ RewindNonce(c) BY <2>5, NonceSteps
    <2> QED BY <1>1, <2>1, <2>2, <2>3, <2>4, <2>5 DEF PoolStep
  <1>2. CASE PoolRestart BY <1>2, RestartStep
  <1>3. CASE UNCHANGED poolVars
    <2>1. UNCHANGED <<loaded, idle, nonce, pc, draft, holds>> BY <1>3 DEF poolVars
    <2>2. \A c \in Callers : Holding(c)' <=> Holding(c) BY <2>1 DEF Holding
    <2>3. HoldsOwn' /\ IdleOwn' /\ Exclusive' /\ Conserved' BY <2>1, <2>2, SameHolders
    <2>4. PoolTypeOK' BY <2>1 DEF PoolInv, PoolTypeOK
    <2>5. LoadedBeforeCheckout' /\ RewindNeverWraps' BY <2>1, <2>2 DEF PoolInv, LoadedBeforeCheckout, RewindNeverWraps
    <2> QED BY <2>3, <2>4, <2>5 DEF PoolInv
  <1> QED BY <1>1, <1>2, <1>3 DEF PoolNext

-----------------------------------------------------------------------------
(* Theorems *)

\* The inductive invariant holds in every reachable state of the pool.
THEOREM PoolInvariant == PoolSpec => []PoolInv
  BY PoolInitInv, PoolNextInv, PTL DEF PoolSpec

\* The pool's variables keep their types, and nonces stay within the counter.
THEOREM PoolTypeCorrect == PoolSpec => []PoolTypeOK
  <1>1. PoolInv => PoolTypeOK BY DEF PoolInv
  <1> QED BY <1>1, PoolInvariant, PTL

\* At no time do two callers hold the same signer, for any number of callers,
\* apps and signers and any interleaving of their Loads.
THEOREM PoolExclusive == PoolSpec => []Exclusive
  <1>1. PoolInv => Exclusive BY DEF PoolInv
  <1> QED BY <1>1, PoolInvariant, PTL

\* A loaded pool neither loses nor duplicates a signer.
THEOREM PoolConserved == PoolSpec => []Conserved
  <1>1. PoolInv => Conserved BY DEF PoolInv
  <1> QED BY <1>1, PoolInvariant, PTL

\* RewindNonce never takes a counter below zero.
THEOREM PoolRewindNeverWraps == PoolSpec => []RewindNeverWraps
  <1>1. PoolInv => RewindNeverWraps BY DEF PoolInv
  <1> QED BY <1>1, PoolInvariant, PTL

\* The places of a channel, counted.
LEMMA CountTo ==
    ASSUME NEW n \in Nat
    PROVE  IsFiniteSet(1..n) /\ Cardinality(1..n) = n
  <1>1. IsFiniteSet(1..n) /\ Cardinality(1..n) = IF 1 > n THEN 0 ELSE n - 1 + 1 BY FS_Interval, SMT, Z3
  <1> QED BY <1>1, SMT, Z3

\* While a signer is out there is room for it in its channel: the channel has
\* distinct signers of the app, the one that is out not among them, so fewer
\* than its capacity.
LEMMA RoomForHeld == PoolInv => ReleaseNeverBlocks
  <1> USE PoolAssumption
  <1> SUFFICES ASSUME PoolInv, NEW c \in Callers, Holding(c)
               PROVE  Len(idle[AppOf[c]]) < Size(AppOf[c])
    BY DEF ReleaseNeverBlocks
  <1> DEFINE p == AppOf[c]
             s == idle[p]
             l == ListSigners[p]
             A == SignersOf(p)
             h == holds[c]
  <1>0. p \in Apps /\ p \in loaded /\ s \in Seq(Addresses) /\ l \in Seq(Addresses) /\ h \in A
    BY DEF PoolInv, PoolTypeOK, LoadedBeforeCheckout, HoldsOwn
  <1>1. Len(s) \in Nat /\ Len(l) \in Nat BY <1>0, SMT, Z3
  <1>2. IsFiniteSet(A) /\ Cardinality(A) <= Len(l)
    <2>1. l \in Surjection(1..Len(l), A) BY <1>0, SMT, Z3 DEF Surjection, SignersOf
    <2>2. IsFiniteSet(1..Len(l)) /\ Cardinality(1..Len(l)) = Len(l) BY <1>1, CountTo
    <2> QED BY <2>1, <2>2, FS_Surjection, SMT, Z3
  <1>3. IsFiniteSet(A \ {h}) /\ Cardinality(A \ {h}) = Cardinality(A) - 1 BY <1>0, <1>2, FS_RemoveElement
  <1>4. Len(s) <= Cardinality(A \ {h})
    <2>1. \A i, j \in 1..Len(s) : s[i] = s[j] => i = j BY <1>0 DEF PoolInv, Conserved
    <2>2. \A i \in 1..Len(s) : s[i] \in A BY <1>0 DEF PoolInv, IdleOwn
    <2>3. \A i \in 1..Len(s) : s[i] # h
      <3>1. (\E i \in 1..Len(s) : s[i] = h) <=> ~ \E d \in Callers : Holding(d) /\ holds[d] = h
        BY <1>0 DEF PoolInv, Conserved
      <3> QED BY <3>1
    <2>4. s \in [1..Len(s) -> A \ {h}] BY <1>0, <2>2, <2>3, SMT, Z3
    <2>5. s \in Injection(1..Len(s), A \ {h}) BY <2>1, <2>4 DEF Injection, IsInjective
    <2>6. Cardinality(1..Len(s)) = Len(s) BY <1>1, CountTo
    <2> QED BY <1>3, <2>5, <2>6, FS_Injection, SMT, Z3
  <1>5. Cardinality(A) \in Nat BY <1>2, FS_CardinalityType
  <1> QED BY <1>1, <1>2, <1>3, <1>4, <1>5, SMT, Z3 DEF Size

\* Release never blocks on a full channel, for any number of callers.
THEOREM PoolReleaseNeverBlocks == PoolSpec => []ReleaseNeverBlocks
  BY RoomForHeld, PoolInvariant, PTL

\* What a step can do to a counter.
LEMMA NonceMoves ==
    ASSUME PoolInv, [PoolNext]_poolVars, NEW a \in Addresses, nonce'[a] # nonce[a],
           \E p \in loaded : a \in SignersOf(p), loaded' # {}
    PROVE  /\ \E c \in Callers : Holding(c) /\ holds[c] = a
           /\ nonce'[a] \in {Inc(nonce[a]), Dec(nonce[a])}
  <1> USE PoolAssumption
  <1>0. nonce \in [Addresses -> 0..MaxNonce] BY DEF PoolInv, PoolTypeOK
  <1>1. nonce' # nonce OBVIOUS
  <1>2. PICK c \in Callers : PoolStep(c)
    BY <1>1 DEF PoolNext, poolVars, PoolRestart
  <1>3. CASE UseNonce(c)
    <2>1. Holding(c) /\ nonce' = [nonce EXCEPT ![holds[c]] = Inc(nonce[holds[c]])]
      BY <1>3 DEF UseNonce, Goto, Holding
    <2>2. holds[c] = a BY <1>0, <2>1
    <2> QED BY <1>0, <2>1, <2>2
  <1>4. CASE RewindNonce(c)
    <2>1. Holding(c) /\ nonce' = [nonce EXCEPT ![holds[c]] = Dec(nonce[holds[c]])]
      BY <1>4 DEF RewindNonce, Goto, Holding
    <2>2. holds[c] = a BY <1>0, <2>1
    <2> QED BY <1>0, <2>1, <2>2
  <1>5. CASE LoadInstall(c)
    <2>1. AppOf[c] \notin loaded /\ Install(c, AppOf[c]) BY <1>1, <1>5 DEF LoadInstall
    <2>2. a \in SignersOf(AppOf[c]) BY <1>0, <2>1 DEF Install
    <2>3. PICK p \in loaded : a \in SignersOf(p) OBVIOUS
    <2>4. p \in Apps /\ AppOf[c] \in Apps BY DEF PoolInv, PoolTypeOK
    <2>5. p = AppOf[c] BY <2>2, <2>3, <2>4, SignersAreAddresses
    <2> QED BY <2>1, <2>3, <2>5
  <1> QED
    BY <1>1, <1>2, <1>3, <1>4, <1>5
    DEF PoolStep, LoadBegin, LoadList, LoadSigner, LoadFail, Checkout, CheckoutCancel, Release

\* Once a pool is installed only the holder of a signer moves its counter, by
\* one: no Load ever overwrites a counter that is in use.
THEOREM PoolOnlyHolderMovesNonce == PoolSpec => OnlyHolderMovesNonce
  <1>1. PoolInv /\ [PoolNext]_poolVars =>
          [\A a \in Addresses :
             nonce'[a] # nonce[a] /\ (\E p \in loaded : a \in SignersOf(p)) /\ loaded' # {} =>
                /\ \E c \in Callers : Holding(c) /\ holds[c] = a
                /\ nonce'[a] \in {Inc(nonce[a]), Dec(nonce[a])}]_poolVars
    BY NonceMoves
  <1> QED BY <1>1, PoolInvariant, PTL DEF PoolSpec, OnlyHolderMovesNonce

-----------------------------------------------------------------------------
(* The pool implements the lease specification *)

\* What the refinement mapping picks.
LEMMA TheOneFacts ==
    /\ TheOne({}) = NoCaller
    /\ \A S : S # {} => TheOne(S) \in S
    /\ \A c : TheOne({c}) = c
  BY DEF TheOne

\* The refinement mapping reads the one holder of an address.
LEMMA LeaseIsHolder ==
    ASSUME PoolInv
    PROVE  /\ LeaseOf \in [Addresses -> Callers \union {NoCaller}]
           /\ \A c \in Callers : Holding(c) => holds[c] \in Addresses /\ LeaseOf[holds[c]] = c
           /\ \A a \in Addresses, c \in Callers : LeaseOf[a] = c <=> Holding(c) /\ holds[c] = a
           /\ \A a \in Addresses : LeaseOf[a] = NoCaller <=> ~ \E c \in Callers : Holding(c) /\ holds[c] = a
  <1> USE PoolAssumption
  <1>1. \A c \in Callers : Holding(c) => holds[c] \in Addresses BY SignersAreAddresses DEF PoolInv, HoldsOwn
  <1>2. ASSUME NEW a \in Addresses
        PROVE  /\ LeaseOf[a] \in Callers \union {NoCaller}
               /\ \A c \in Callers : LeaseOf[a] = c <=> Holding(c) /\ holds[c] = a
               /\ LeaseOf[a] = NoCaller <=> ~ \E c \in Callers : Holding(c) /\ holds[c] = a
    <2>1. LeaseOf[a] = TheOne(HolderOf(a)) BY DEF LeaseOf
    <2>2. CASE HolderOf(a) = {} BY <2>1, <2>2, TheOneFacts DEF HolderOf
    <2>3. CASE HolderOf(a) # {}
      <3>1. LeaseOf[a] \in HolderOf(a) BY <2>1, <2>3, TheOneFacts
      <3>2. LeaseOf[a] \in Callers /\ Holding(LeaseOf[a]) /\ holds[LeaseOf[a]] = a BY <3>1 DEF HolderOf
      <3>3. \A c \in Callers : Holding(c) /\ holds[c] = a => c = LeaseOf[a] BY <3>2 DEF PoolInv, Exclusive
      <3> QED BY <3>2, <3>3
    <2> QED BY <2>2, <2>3
  <1>3. LeaseOf \in [Addresses -> Callers \union {NoCaller}] BY <1>2 DEF LeaseOf
  <1> QED BY <1>1, <1>2, <1>3

\* Steps that change no holder, no map and no counter are invisible.
LEMMA InvisibleStep ==
    ASSUME PoolInv, PoolInv', UNCHANGED <<loaded, holds>>,
           \A c \in Callers : Holding(c)' <=> Holding(c)
    PROVE  LiveOf' = LiveOf /\ LeaseOf' = LeaseOf
  <1>1. LiveOf' = LiveOf BY DEF LiveOf
  <1>2. \A a \in Addresses : HolderOf(a)' = HolderOf(a) BY DEF HolderOf
  <1>3. LeaseOf' = LeaseOf BY <1>2 DEF LeaseOf
  <1> QED BY <1>1, <1>3

\* The empty pool is the initial state of the lease specification.
LEMMA LeaseInitial == PoolInit => Lease!LeaseInit
  <1> SUFFICES ASSUME PoolInit PROVE Lease!LeaseInit OBVIOUS
  <1>1. LiveOf = {} BY DEF PoolInit, LiveOf
  <1>2. \A a \in Addresses : HolderOf(a) = {} BY DEF PoolInit, HolderOf, Holding
  <1>3. LeaseOf = [a \in Addresses |-> NoCaller] BY <1>2, TheOneFacts DEF LeaseOf
  <1> QED BY <1>1, <1>3 DEF PoolInit, Lease!LeaseInit

\* Every step of the pool is a step of the lease specification or invisible to it.
LEMMA LeaseStep ==
    ASSUME PoolInv, PoolInv', [PoolNext]_poolVars
    PROVE  [Lease!LeaseNext]_(Lease!leaseVars)
  <1> USE PoolAssumption DEF Lease!leaseVars
  <1>0. /\ nonce \in [Addresses -> 0..MaxNonce] /\ nonce' \in [Addresses -> 0..MaxNonce]
        /\ pc \in [Callers -> Positions] /\ holds \in [Callers -> Addresses \union {NoSigner}]
    BY DEF PoolInv, PoolTypeOK
  <1>1. ASSUME NEW c \in Callers, LoadBegin(c) \/ LoadList(c) \/ LoadFail(c) \/ CheckoutCancel(c) \/ \E n \in 0..MaxNonce : LoadSigner(c, n)
        PROVE  UNCHANGED Lease!leaseVars
    <2>1. UNCHANGED <<loaded, holds, nonce>> /\ \A d \in Callers : Holding(d)' <=> Holding(d)
      BY <1>0, <1>1 DEF LoadBegin, LoadList, LoadFail, CheckoutCancel, LoadSigner, Goto, Holding
    <2> QED BY <2>1, InvisibleStep
  <1>2. ASSUME NEW c \in Callers, LoadInstall(c)
        PROVE  [Lease!LeaseNext]_(Lease!leaseVars)
    <2>1. UNCHANGED holds /\ \A d \in Callers : Holding(d)' <=> Holding(d)
      BY <1>0, <1>2 DEF LoadInstall, Goto, Holding
    <2>2. CASE AppOf[c] \in loaded
      <3>1. UNCHANGED <<loaded, nonce>> BY <1>2, <2>2 DEF LoadInstall
      <3> QED BY <2>1, <3>1, InvisibleStep
    <2>3. CASE AppOf[c] \notin loaded
      <3> DEFINE p == AppOf[c]
                 A == SignersOf(p)
      <3>0. Install(c, p) /\ p \in Apps BY <1>2, <2>3 DEF LoadInstall
      <3>1. A \subseteq Addresses BY <3>0, SignersAreAddresses
      <3>2. A \intersect LiveOf = {}
        <4>1. loaded \subseteq Apps BY DEF PoolInv, PoolTypeOK
        <4> QED BY <2>3, <3>0, <4>1, SignersAreAddresses DEF LiveOf
      <3>3. LiveOf' = LiveOf \union A
        <4>1. loaded' = loaded \union {p} BY <3>0 DEF Install
        <4> QED BY <3>1, <4>1 DEF LiveOf
      <3>4. \A a \in Addresses \ A : nonce'[a] = nonce[a] BY <3>0 DEF Install
      <3>5. LeaseOf' = LeaseOf
        <4>1. \A a \in Addresses : HolderOf(a)' = HolderOf(a) BY <2>1 DEF HolderOf
        <4> QED BY <4>1 DEF LeaseOf
      <3>6. Lease!Hydrate(A) BY <1>0, <3>2, <3>3, <3>4, <3>5 DEF Lease!Hydrate
      <3> QED BY <3>1, <3>6 DEF Lease!LeaseNext
    <2> QED BY <2>2, <2>3
  <1>3. ASSUME NEW c \in Callers, Checkout(c)
        PROVE  Lease!LeaseNext
    <2> DEFINE p == AppOf[c]
    <2>0. /\ p \in loaded /\ p \in Apps /\ idle[p] # << >> /\ idle[p] \in Seq(Addresses)
          /\ holds' = [holds EXCEPT ![c] = Head(idle[p])]
      BY <1>0, <1>3 DEF Checkout, Goto, Holding, PoolInv, PoolTypeOK, LoadedBeforeCheckout
    <2>1. PICK h \in Addresses : h = Head(idle[p]) BY <2>0, HeadTail
    <2>2. /\ UNCHANGED <<loaded, nonce>> /\ holds'[c] = h
          /\ ~ Holding(c) /\ Holding(c)'
          /\ \A d \in Callers : d # c => (Holding(d)' <=> Holding(d)) /\ holds'[d] = holds[d]
      BY <1>0, <1>3, <2>0, <2>1 DEF Checkout, Goto, Holding
    <2>3. h = idle[p][1] /\ 1 \in 1..Len(idle[p]) BY <2>0, <2>1, HeadTail, SMT, Z3
    <2>4. h \in SignersOf(p) BY <2>0, <2>3 DEF PoolInv, IdleOwn
    <2>5. \A d \in Callers : ~ (Holding(d) /\ holds[d] = h)
      <3>1. \E i \in 1..Len(idle[p]) : idle[p][i] = h BY <2>3
      <3>2. (\E i \in 1..Len(idle[p]) : idle[p][i] = h) <=> ~ \E d \in Callers : Holding(d) /\ holds[d] = h
        BY <2>0, <2>4 DEF PoolInv, Conserved
      <3> QED BY <3>1, <3>2
    <2>6. h \in LiveOf /\ LiveOf' = LiveOf BY <2>0, <2>2, <2>4 DEF LiveOf
    <2>7. LeaseOf[h] = NoCaller BY <2>5, LeaseIsHolder
    <2>8. \A b \in Addresses : LeaseOf[b] # c BY <2>2, LeaseIsHolder
    <2>9. LeaseOf' = [LeaseOf EXCEPT ![h] = c]
      <3>1. HolderOf(h)' = {c} BY <2>2, <2>5 DEF HolderOf
      <3>2. \A a \in Addresses : a # h => HolderOf(a)' = HolderOf(a) BY <2>2 DEF HolderOf
      <3> QED BY <3>1, <3>2, TheOneFacts DEF LeaseOf
    <2>10. Lease!Acquire(c, h) BY <2>2, <2>6, <2>7, <2>8, <2>9 DEF Lease!Acquire
    <2> QED BY <2>10 DEF Lease!LeaseNext
  <1>4. ASSUME NEW c \in Callers, Release(c)
        PROVE  Lease!LeaseNext
    <2>1. Holding(c) /\ holds[c] \in Addresses /\ LeaseOf[holds[c]] = c BY <1>4, LeaseIsHolder DEF Release
    <2>2. PICK h \in Addresses : h = holds[c] BY <2>1
    <2>3. /\ UNCHANGED <<loaded, nonce>> /\ ~ Holding(c)'
          /\ \A d \in Callers : d # c => (Holding(d)' <=> Holding(d)) /\ holds'[d] = holds[d]
      BY <1>0, <1>4 DEF Release, Holding
    <2>4. LeaseOf' = [LeaseOf EXCEPT ![h] = NoCaller]
      <3>1. \A d \in Callers : Holding(d) /\ holds[d] = h => d = c BY <2>1, <2>2 DEF PoolInv, Exclusive
      <3>2. HolderOf(h)' = {} BY <2>3, <3>1 DEF HolderOf
      <3>3. \A a \in Addresses : a # h => HolderOf(a)' = HolderOf(a) BY <2>2, <2>3 DEF HolderOf
      <3> QED BY <3>2, <3>3, TheOneFacts DEF LeaseOf
    <2>5. LiveOf' = LiveOf BY <2>3 DEF LiveOf
    <2>6. Lease!GiveUp(c, h) BY <2>1, <2>2, <2>3, <2>4, <2>5 DEF Lease!GiveUp
    <2> QED BY <2>6 DEF Lease!LeaseNext
  <1>5. ASSUME NEW c \in Callers, UseNonce(c) \/ RewindNonce(c)
        PROVE  Lease!LeaseNext
    <2> DEFINE h == holds[c]
    <2>1. Holding(c) /\ UNCHANGED <<loaded, holds>> /\ \A d \in Callers : Holding(d)' <=> Holding(d)
      BY <1>0, <1>5 DEF UseNonce, RewindNonce, Goto, Holding
    <2>2. h \in Addresses /\ LeaseOf[h] = c BY <2>1, LeaseIsHolder
    <2>3. LiveOf' = LiveOf /\ LeaseOf' = LeaseOf BY <2>1, InvisibleStep
    <2>4. CASE UseNonce(c)
      <3>1. nonce[h] < MaxNonce /\ nonce' = [nonce EXCEPT ![h] = Inc(nonce[h])] BY <2>4 DEF UseNonce
      <3>2. Inc(nonce[h]) = nonce[h] + 1 BY <1>0, <2>2, <3>1, SMT, Z3 DEF Inc
      <3>3. Lease!Advance(c, h) BY <2>2, <2>3, <3>1, <3>2 DEF Lease!Advance
      <3> QED BY <2>2, <3>3 DEF Lease!LeaseNext
    <2>5. CASE RewindNonce(c)
      <3>1. pc[c] = "reserved" /\ nonce' = [nonce EXCEPT ![h] = Dec(nonce[h])] BY <2>5 DEF RewindNonce, Goto
      <3>2. nonce[h] > 0 BY <3>1 DEF PoolInv, RewindNeverWraps
      <3>3. Dec(nonce[h]) = nonce[h] - 1 BY <1>0, <2>2, <3>2, SMT, Z3 DEF Dec
      <3>4. Lease!TakeBack(c, h) BY <2>2, <2>3, <3>1, <3>2, <3>3 DEF Lease!TakeBack
      <3> QED BY <2>2, <3>4 DEF Lease!LeaseNext
    <2> QED BY <1>5, <2>4, <2>5
  <1>6. ASSUME PoolRestart PROVE Lease!LeaseNext
    <2>1. LiveOf' = {} BY <1>6 DEF PoolRestart, LiveOf
    <2>2. \A a \in Addresses : HolderOf(a)' = {} BY <1>6 DEF PoolRestart, HolderOf, Holding
    <2>3. LeaseOf' = [a \in Addresses |-> NoCaller] BY <2>2, TheOneFacts DEF LeaseOf
    <2>4. Lease!Forget BY <1>6, <2>1, <2>3 DEF PoolRestart, Lease!Forget
    <2> QED BY <2>4 DEF Lease!LeaseNext
  <1>7. ASSUME UNCHANGED poolVars PROVE UNCHANGED Lease!leaseVars
    <2>1. UNCHANGED <<loaded, holds, nonce, pc>> BY <1>7 DEF poolVars
    <2>2. \A d \in Callers : Holding(d)' <=> Holding(d) BY <2>1 DEF Holding
    <2> QED BY <2>1, <2>2, InvisibleStep
  <1> QED BY <1>1, <1>2, <1>3, <1>4, <1>5, <1>6, <1>7 DEF PoolNext, PoolStep

\* The pool implements the lease specification, for every number of apps,
\* callers and signers: exclusive leases, and counters that are set once and
\* then moved by their leaseholder only.
THEOREM PoolImplementsLease == PoolSpec => ImplementsLease
  <1>1. PoolInv /\ PoolInv' /\ [PoolNext]_poolVars => [Lease!LeaseNext]_(Lease!leaseVars) BY LeaseStep
  <1> QED BY <1>1, LeaseInitial, PoolInvariant, PTL DEF PoolSpec, ImplementsLease, Lease!LeaseSpec

=============================================================================
