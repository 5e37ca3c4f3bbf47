--------------------------- MODULE WebhookProofs ----------------------------
(***************************************************************************)
(* Theorems about the delivery queue, for any number of deliveries, any    *)
(* schedule, batch size and faults, and about what the receiver of one     *)
(* request's callbacks ends with.                                          *)
(***************************************************************************)
EXTENDS Callback, WellFoundedInduction, TLAPS

USE Zenon

-----------------------------------------------------------------------------
(* Sequences *)

Has(s, x) == \E i \in 1..Len(s) : s[i] = x

NoTwice(s) == \A i, j \in 1..Len(s) : i < j => s[i] # s[j]

SortedBy(s, f) == \A i, j \in 1..Len(s) : i < j => f[s[i]] <= f[s[j]]

\* Taking the only d out of a sequence leaves the others, in their order.
LEMMA RemoveFromLine ==
    ASSUME NEW S, NEW s \in Seq(S), NEW k \in 1..Len(s), NoTwice(s),
           NEW r, r = Without(s, k)
    PROVE  /\ r \in Seq(S) /\ NoTwice(r)
           /\ \A x : Has(r, x) <=> Has(s, x) /\ x # s[k]
           /\ \A f : SortedBy(s, f) => SortedBy(r, f)
<1> DEFINE p(i) == IF i < k THEN i ELSE i + 1
<1>1. r \in Seq(S) /\ Len(r) = Len(s) - 1 /\ Len(s) \in Nat /\ k \in Nat
    <2>1. Len(s) - 1 \in Nat /\ \A i \in 1..(Len(s) - 1) : s[p(i)] \in S
        BY SMT, Z3
    <2>2. r = [i \in 1..(Len(s) - 1) |-> s[p(i)]]
        BY DEF Without
    <2> HIDE DEF p
    <2> QED  BY <2>1, <2>2, SMT, Z3
<1>2. \A i \in 1..Len(r) : r[i] = s[p(i)]
    BY <1>1 DEF Without
<1>3. \A i \in 1..Len(r) : p(i) \in 1..Len(s) /\ p(i) # k
    BY <1>1, SMT, Z3
<1>4. \A i, j \in 1..Len(r) : i < j => p(i) < p(j)
    BY <1>1, SMT, Z3
<1>5. \A i \in 1..Len(s) : i # k => \E j \in 1..Len(r) : p(j) = i
    <2> SUFFICES ASSUME NEW i \in 1..Len(s), i # k  PROVE \E j \in 1..Len(r) : p(j) = i
        OBVIOUS
    <2>1. CASE i < k
        <3>1. i \in 1..Len(r) /\ p(i) = i
            BY <1>1, <2>1, SMT, Z3
        <3> QED  BY <3>1
    <2>2. CASE ~ (i < k)
        <3>1. (i - 1) \in 1..Len(r) /\ p(i - 1) = i
            BY <1>1, <2>2, SMT, Z3
        <3> QED  BY <3>1
    <2> QED  BY <2>1, <2>2
<1>6. \A i \in 1..Len(s) : i # k => s[i] # s[k]
    <2> SUFFICES ASSUME NEW i \in 1..Len(s), i # k  PROVE s[i] # s[k]
        OBVIOUS
    <2>1. i < k \/ k < i
        BY <1>1, SMT, Z3
    <2> QED  BY <2>1 DEF NoTwice
<1> HIDE DEF p
<1>7. NoTwice(r)
    <2> SUFFICES ASSUME NEW i \in 1..Len(r), NEW j \in 1..Len(r), i < j  PROVE r[i] # r[j]
        BY DEF NoTwice
    <2>1. r[i] = s[p(i)] /\ r[j] = s[p(j)] /\ p(i) \in 1..Len(s) /\ p(j) \in 1..Len(s) /\ p(i) < p(j)
        BY <1>2, <1>3, <1>4
    <2> QED  BY <2>1 DEF NoTwice
<1>8. ASSUME NEW f, SortedBy(s, f)  PROVE SortedBy(r, f)
    BY <1>2, <1>3, <1>4, <1>8 DEF SortedBy
<1>9. ASSUME NEW x  PROVE Has(r, x) <=> Has(s, x) /\ x # s[k]
    <2>1. ASSUME Has(r, x)  PROVE Has(s, x) /\ x # s[k]
        <3>1. PICK i \in 1..Len(r) : r[i] = x
            BY <2>1 DEF Has
        <3>2. p(i) \in 1..Len(s) /\ p(i) # k /\ x = s[p(i)]
            BY <1>2, <1>3, <3>1
        <3> QED  BY <1>6, <3>2 DEF Has
    <2>2. ASSUME Has(s, x), x # s[k]  PROVE Has(r, x)
        <3>1. PICK i \in 1..Len(s) : s[i] = x
            BY <2>2 DEF Has
        <3>2. PICK j \in 1..Len(r) : p(j) = i
            BY <1>5, <2>2, <3>1
        <3> QED  BY <1>2, <3>1, <3>2 DEF Has
    <2> QED  BY <2>1, <2>2
<1> QED  BY <1>1, <1>7, <1>8, <1>9

\* Place k of s is the one for a row that is due in w.
Fits(s, k, f, w) ==
    /\ \A i \in 1..(k - 1) : f[s[i]] <= w
    /\ \A i \in k..Len(s) : f[s[i]] > w

\* Putting a new d in at its place by w keeps a sorted sequence sorted.
LEMMA InsertIntoLine ==
    ASSUME NEW S, NEW s \in Seq(S), NEW k \in 1..(Len(s) + 1), NEW d \in S,
           NEW f \in [S -> Nat], NEW w \in Nat,
           NoTwice(s), ~ Has(s, d), SortedBy(s, f), Fits(s, k, f, w),
           NEW r, r = Inserted(s, k, d)
    PROVE  /\ r \in Seq(S) /\ NoTwice(r) /\ SortedBy(r, [f EXCEPT ![d] = w])
           /\ \A x : Has(r, x) <=> Has(s, x) \/ x = d
<1> DEFINE p(i) == IF i < k THEN i ELSE i - 1
           g == [f EXCEPT ![d] = w]
<1>1. r \in Seq(S) /\ Len(r) = Len(s) + 1 /\ Len(s) \in Nat /\ k \in 1..Len(r) /\ k \in Nat
    <2> DEFINE v(i) == IF i < k THEN s[i] ELSE IF i = k THEN d ELSE s[i - 1]
    <2>1. Len(s) + 1 \in Nat /\ \A i \in 1..(Len(s) + 1) : v(i) \in S
        BY SMT, Z3
    <2>2. r = [i \in 1..(Len(s) + 1) |-> v(i)]
        BY DEF Inserted
    <2> HIDE DEF v
    <2> QED  BY <2>1, <2>2, SMT, Z3
<1>2. r[k] = d /\ \A i \in 1..Len(r) : i # k => r[i] = s[p(i)]
    <2>1. \A i \in 1..(Len(s) + 1) : r[i] = IF i < k THEN s[i] ELSE IF i = k THEN d ELSE s[i - 1]
        BY DEF Inserted
    <2>2. k \in 1..(Len(s) + 1) /\ ~ (k < k)
        BY <1>1, SMT, Z3
    <2> QED  BY <1>1, <2>1, <2>2
<1>3. ASSUME NEW i \in 1..Len(r), i # k  PROVE p(i) \in 1..Len(s)
    BY <1>1, <1>3, SMT, Z3
<1>4. \A i, j \in 1..Len(r) : i < j /\ i # k /\ j # k => p(i) < p(j)
    BY <1>1, SMTT(30), Z3T(30)
<1>5. \A i \in 1..Len(s) : \E j \in 1..Len(r) : j # k /\ p(j) = i
    <2> SUFFICES ASSUME NEW i \in 1..Len(s)  PROVE \E j \in 1..Len(r) : j # k /\ p(j) = i
        OBVIOUS
    <2>1. CASE i < k
        <3>1. i \in 1..Len(r) /\ i # k /\ p(i) = i
            BY <1>1, <2>1, SMT, Z3
        <3> QED  BY <3>1
    <2>2. CASE ~ (i < k)
        <3>1. (i + 1) \in 1..Len(r) /\ i + 1 # k /\ p(i + 1) = i
            BY <1>1, <2>2, SMT, Z3
        <3> QED  BY <3>1
    <2> QED  BY <2>1, <2>2
<1>6. \A i \in 1..Len(r) : /\ i < k => p(i) \in 1..(k - 1)
                           /\ i > k => p(i) \in k..Len(s)
    BY <1>1, SMT, Z3
<1> HIDE DEF p
<1>7. \A i \in 1..Len(r) : i # k => s[p(i)] \in S /\ s[p(i)] # d
    <2>1. \A i \in 1..Len(s) : s[i] \in S
        BY SMT, Z3
    <2> QED  BY <1>3, <2>1 DEF Has
<1>8. NoTwice(r)
    <2> SUFFICES ASSUME NEW i \in 1..Len(r), NEW j \in 1..Len(r), i < j  PROVE r[i] # r[j]
        BY DEF NoTwice
    <2>1. ~ (i = k /\ j = k)
        BY <1>1, SMT, Z3
    <2>2. CASE i # k /\ j # k
        <3>1. r[i] = s[p(i)] /\ r[j] = s[p(j)] /\ p(i) \in 1..Len(s) /\ p(j) \in 1..Len(s) /\ p(i) < p(j)
            BY <1>2, <1>3, <1>4, <2>2
        <3> QED  BY <3>1 DEF NoTwice
    <2> QED  BY <1>2, <1>7, <2>1, <2>2
<1>9. SortedBy(r, g)
    <2> SUFFICES ASSUME NEW i \in 1..Len(r), NEW j \in 1..Len(r), i < j  PROVE g[r[i]] <= g[r[j]]
        BY DEF SortedBy
    <2>1. /\ g[d] = w /\ \A x \in S : x # d => g[x] = f[x]
          /\ \A l \in 1..(k - 1) : f[s[l]] <= w
          /\ \A l \in k..Len(s) : f[s[l]] > w
        BY DEF Fits
    <2>2. CASE i = k
        <3>1. j # k /\ j > k
            BY <1>1, <2>2, SMT, Z3
        <3>2. f[s[p(j)]] > w /\ g[r[j]] = f[s[p(j)]] /\ g[r[i]] = w /\ f[s[p(j)]] \in Nat
            BY <1>2, <1>6, <1>7, <2>1, <2>2, <3>1
        <3> QED  BY <3>2, SMT, Z3
    <2>3. CASE j = k
        <3>1. i # k /\ i < k
            BY <1>1, <2>3, SMT, Z3
        <3>2. f[s[p(i)]] <= w /\ g[r[i]] = f[s[p(i)]] /\ g[r[j]] = w
            BY <1>2, <1>6, <1>7, <2>1, <2>3, <3>1
        <3> QED  BY <3>2
    <2>4. CASE i # k /\ j # k
        <3>1. p(i) \in 1..Len(s) /\ p(j) \in 1..Len(s) /\ p(i) < p(j)
            BY <1>3, <1>4, <2>4
        <3>2. g[r[i]] = f[s[p(i)]] /\ g[r[j]] = f[s[p(j)]]
            BY <1>2, <1>7, <2>1, <2>4
        <3> QED  BY <3>1, <3>2 DEF SortedBy
    <2> QED  BY <2>2, <2>3, <2>4
<1>10. ASSUME NEW x  PROVE Has(r, x) <=> Has(s, x) \/ x = d
    <2>1. ASSUME Has(r, x), x # d  PROVE Has(s, x)
        <3>1. PICK i \in 1..Len(r) : r[i] = x
            BY <2>1 DEF Has
        <3>2. p(i) \in 1..Len(s) /\ x = s[p(i)]
            BY <1>2, <1>3, <2>1, <3>1
        <3> QED  BY <3>2 DEF Has
    <2>2. ASSUME Has(s, x)  PROVE Has(r, x)
        <3>1. PICK i \in 1..Len(s) : s[i] = x
            BY <2>2 DEF Has
        <3>2. PICK j \in 1..Len(r) : j # k /\ p(j) = i
            BY <1>5, <3>1
        <3> QED  BY <1>2, <3>1, <3>2 DEF Has
    <2>3. Has(r, d)
        BY <1>1, <1>2 DEF Has
    <2> QED  BY <2>1, <2>2, <2>3
<1> QED  BY <1>1, <1>8, <1>9, <1>10

\* The same for the line, when d gets a new time.
LEMMA PlaceInLine ==
    ASSUME NEW s \in Seq(Deliveries), NEW d \in Deliveries, NEW w \in Nat, wait \in [Deliveries -> Nat],
           NoTwice(s), ~ Has(s, d), SortedBy(s, wait), Place(s, d, w)
    PROVE  /\ line' \in Seq(Deliveries) /\ NoTwice(line') /\ SortedBy(line', [wait EXCEPT ![d] = w])
           /\ \A x : Has(line', x) <=> Has(s, x) \/ x = d
<1>1. PICK k \in 1..(Len(s) + 1) : Fits(s, k, wait, w) /\ line' = Inserted(s, k, d)
    BY DEF Place, Fits
<1> QED  BY <1>1, InsertIntoLine, ZenonT(40)

-----------------------------------------------------------------------------
(* The schedule *)

L == Len(BackoffSchedule)

\* A set of natural numbers has a least element.
LEMMA LeastElement ==
    ASSUME NEW T \in SUBSET Nat, T # {}
    PROVE  \E n \in T : \A m \in T : n <= m
<1>1. PICK n \in T : \A m \in T : ~ (<<m, n>> \in OpToRel(<, Nat))
    BY WFMin, NatLessThanWellFounded, Zenon
<1>2. ASSUME NEW m \in T PROVE n <= m
    <2>1. <<m, n>> \in Nat \X Nat => ~ (<<m, n>>[1] < <<m, n>>[2])
        BY <1>1 DEF OpToRel
    <2> QED  BY <2>1, SMT, Z3
<1> QED  BY <1>2

\* The longest gap exists and is one.
LEMMA LongestGapIsMax ==
    /\ LongestGap \in Nat /\ L \in Nat
    /\ \A i \in 1..L : BackoffSchedule[i] \in Nat \ {0} /\ BackoffSchedule[i] <= LongestGap
<1> USE DEF L
<1>1. L \in Nat /\ \A i \in 1..L : BackoffSchedule[i] \in Nat \ {0}
    BY WebhookAssumption, SMT, Z3
<1> DEFINE First(n) == {BackoffSchedule[i] : i \in 1..n} \union {0}
           Max(n) == \E g \in First(n) : \A h \in First(n) : h <= g
           T == {n \in Nat : n <= L /\ ~ Max(n)}
<1>2. T = {}
    <2> SUFFICES ASSUME T # {}  PROVE FALSE
        OBVIOUS
    <2>1. PICK n \in T : \A m \in T : n <= m
        <3> T \in SUBSET Nat
            OBVIOUS
        <3> HIDE DEF T
        <3> QED  BY LeastElement
    <2>2. n \in Nat /\ n <= L /\ ~ Max(n)
        OBVIOUS
    <2>3. n # 0
        <3>1. First(0) = {0}
            BY SMT, Z3
        <3> QED  BY <2>2, <3>1, SMT, Z3
    <2>4. n - 1 \in Nat /\ n - 1 <= L /\ n - 1 \notin T
        <3> HIDE DEF T, Max
        <3>1. n - 1 \in Nat /\ n - 1 <= L /\ ~ (n <= n - 1)
            BY <1>1, <2>2, <2>3, SMT, Z3
        <3> QED  BY <2>1, <3>1
    <2>5. Max(n - 1)
        BY <2>4
    <2>6. PICK g \in First(n - 1) : \A h \in First(n - 1) : h <= g
        BY <2>5
    <2> DEFINE b == BackoffSchedule[n]
    <2>7. n \in 1..n /\ n \in 1..L /\ b \in Nat
        BY <1>1, <2>2, <2>3, SMT, Z3
    <2>8. First(n) = First(n - 1) \union {b}
        <3>1. 1..n = (1..(n - 1)) \union {n}
            BY <2>2, <2>3, SMT, Z3
        <3> QED  BY <3>1
    <2>9. g \in Nat /\ \A h \in First(n - 1) : h \in Nat
        <3>1. \A i \in 1..(n - 1) : i \in 1..L
            BY <1>1, <2>2, SMT, Z3
        <3>2. 0 \in Nat
            BY SMT, Z3
        <3>3. \A i \in 1..(n - 1) : BackoffSchedule[i] \in Nat
            BY <1>1, <3>1
        <3> QED  BY <3>2, <3>3, <2>6
    <2> HIDE DEF First, b
    <2>10. CASE b <= g
        BY <2>2, <2>6, <2>8, <2>10
    <2>11. CASE ~ (b <= g)
        <3>1. g <= b /\ b <= b
            BY <2>7, <2>9, <2>11, SMT, Z3
        <3>2. \A h \in First(n - 1) : h <= b
            BY <2>6, <2>7, <2>9, <3>1, SMT, Z3
        <3> QED  BY <2>2, <2>8, <3>1, <3>2
    <2> QED  BY <2>10, <2>11
<1>3. Max(L)
    <2>1. L <= L
        BY <1>1, SMT, Z3
    <2> QED  BY <1>1, <1>2, <2>1
<1>4. First(L) = Gaps \union {0}
    BY DEF Gaps
<1>5. \E g \in Gaps \union {0} : \A h \in Gaps : h <= g
    BY <1>3, <1>4
<1>6. LongestGap \in Gaps \union {0} /\ \A h \in Gaps : h <= LongestGap
    BY <1>5 DEF LongestGap
<1>7. \A i \in 1..L : BackoffSchedule[i] \in Gaps
    BY DEF Gaps
<1>8. LongestGap \in Nat
    <2>1. 0 \in Nat
        BY SMT, Z3
    <2> QED  BY <1>1, <1>6, <2>1 DEF Gaps
<1> QED  BY <1>1, <1>6, <1>7, <1>8

-----------------------------------------------------------------------------
(* The inductive invariant of the queue *)

Items == [id : Deliveries, attempt : Nat]

Selected == 1..Len(work)

\* Row d was POSTed and its answer is not recorded yet.
Pending(d) == answer # "none" /\ Current.id = d

\* One POST of d is not yet in its attempt count.
Open(d) == IF Pending(d) THEN 1 ELSE 0

\* d has its 2xx, recorded or not.
Answered(d) == status[d] = "delivered" \/ (answer = "2xx" /\ Current.id = d)

\* The rows the worker holds are different pending rows, due, with their current
\* attempt counts: nobody else changes a row between the query and the update.
WorkOK ==
    /\ work \in Seq(Items)
    /\ \A i, j \in Selected : i < j => work[i].id # work[j].id
    /\ \A i \in Selected : LET d == work[i].id IN
          status[d] = "pending" /\ work[i].attempt = attempt[d] /\ wait[d] = 0
    /\ answer # "none" => work # << >>

\* How far the attempts of a row can be in each status.
AttemptsOK ==
    \A d \in Deliveries : /\ status[d] = "none" => attempt[d] = 0 /\ wait[d] = 0
                          /\ status[d] = "pending" => attempt[d] <= L
                          /\ status[d] = "dead" => attempt[d] = L + 1

\* Every POST is in the attempt count, is about to be, or was lost to a fault.
Counted(d) ==
    /\ d \notin Unstorable => posts[d] <= attempt[d] + Open(d) + FaultsSoFar
    /\ posts[d] >= attempt[d] + Open(d) \/ posts[d] >= MaxPosts
    /\ acks[d] <= FaultsSoFar + (IF Answered(d) THEN 1 ELSE 0)

CountsOK ==
    /\ posts \in [Deliveries -> Nat] /\ acks \in [Deliveries -> Nat]
    /\ \A d \in Deliveries : Counted(d)

\* What is left of a gap, with what has passed of it, is the whole gap.
GapGoesOn(d) ==
    FaultsSoFar = 0 /\ status[d] = "pending" /\ attempt[d] > 0 /\ ~ Pending(d)
        => since[d] + wait[d] >= BackoffSchedule[attempt[d]]

GapsOK ==
    /\ since \in [Deliveries -> Nat]
    /\ \A d \in Deliveries \ Unstorable : GapGoesOn(d)

WebhookInv == TypeOK /\ WorkOK /\ AttemptsOK /\ CountsOK /\ GapsOK

-----------------------------------------------------------------------------
(* Facts about a state that satisfies it *)

\* The shapes that TypeOK gives the variables.
Shapes ==
    /\ status \in [Deliveries -> {"none", "pending", "delivered", "dead"}]
    /\ attempt \in [Deliveries -> 0..(Len(BackoffSchedule) + 1)]
    /\ wait \in [Deliveries -> 0..LongestGap]
    /\ line \in Seq(Deliveries)
    /\ answer \in {"none", "2xx", "failed"}
    /\ faults \in 0..MaxFaults

\* What it says of the line.
LineOK ==
    /\ NoTwice(line) /\ SortedBy(line, wait)
    /\ \A d \in Deliveries : Has(line, d) <=> status[d] = "pending"

\* TypeOK is the two of them, before and after a step.
LEMMA TypeOKParts == (TypeOK <=> Shapes /\ LineOK) /\ (TypeOK' <=> Shapes' /\ LineOK')
BY DEF TypeOK, Shapes, LineOK, NoTwice, SortedBy, Has, InLine

\* The numbers of a state.
LEMMA Numbers ==
    ASSUME Shapes, NEW d \in Deliveries
    PROVE  /\ L \in Nat /\ attempt[d] \in 0..(L + 1) /\ attempt[d] \in Nat
           /\ wait[d] \in Nat /\ FaultsSoFar \in Nat /\ Open(d) \in {0, 1}
<1>1. attempt[d] \in 0..(L + 1) /\ wait[d] \in 0..LongestGap
    BY DEF Shapes, L
<1>2. FaultsSoFar \in Nat
    BY WebhookAssumption, SMT, Z3 DEF Shapes, FaultsSoFar
<1>3. Open(d) \in {0, 1}
    BY DEF Open
<1>4. attempt[d] \in Nat /\ wait[d] \in Nat
    BY <1>1, LongestGapIsMax, SMT, Z3
<1> QED  BY <1>1, <1>2, <1>3, <1>4, LongestGapIsMax

\* The rows the worker holds.
LEMMA SelectedRows ==
    ASSUME WorkOK, NEW i \in Selected
    PROVE  /\ work[i].id \in Deliveries /\ status[work[i].id] = "pending"
           /\ work[i].attempt = attempt[work[i].id] /\ wait[work[i].id] = 0
<1>1. work \in Seq(Items)
    BY DEF WorkOK
<1>2. work[i] \in Items
    BY <1>1, SMT, Z3 DEF Selected
<1>3. work[i].id \in Deliveries
    BY <1>2 DEF Items
<1> QED  BY <1>3 DEF WorkOK

\* The row the worker is at, and the ones after it.
LEMMA AtWork ==
    ASSUME WorkOK, work # << >>
    PROVE  /\ Current.id \in Deliveries /\ status[Current.id] = "pending"
           /\ Current.attempt = attempt[Current.id] /\ wait[Current.id] = 0
           /\ Tail(work) \in Seq(Items)
           /\ \A i \in 1..Len(Tail(work)) :
                /\ i + 1 \in Selected /\ Tail(work)[i] = work[i + 1]
                /\ work[i + 1].id # Current.id
<1>1. work \in Seq(Items)
    BY DEF WorkOK
<1>2. /\ 1 \in Selected /\ Tail(work) \in Seq(Items)
      /\ \A i \in 1..Len(Tail(work)) : i + 1 \in Selected /\ Tail(work)[i] = work[i + 1] /\ 1 < i + 1
    BY <1>1, SMT, Z3 DEF Selected
<1>3. \A i, j \in Selected : i < j => work[i].id # work[j].id
    BY DEF WorkOK
<1>4. \A i \in 1..Len(Tail(work)) : work[i + 1].id # work[1].id
    BY <1>2, <1>3
<1> QED  BY <1>2, <1>4, SelectedRows DEF Current

\* When the worker is done with a row that alone may have changed, the rest of
\* its work is as it was, and no answer is open.
LEMMA DoneKeepsWork ==
    ASSUME WorkOK, work # << >>, Done,
           \A d \in Deliveries : d # Current.id =>
               status'[d] = status[d] /\ attempt'[d] = attempt[d] /\ wait'[d] = wait[d]
    PROVE  WorkOK' /\ \A d : ~ Pending(d)' /\ Open(d)' = 0
<1>1. work' = Tail(work) /\ answer' = "none"
    BY DEF Done
<1>2. /\ work' \in Seq(Items)
      /\ \A i \in Selected' : i + 1 \in Selected /\ work'[i] = work[i + 1] /\ work[i + 1].id # Current.id
    BY <1>1, AtWork DEF Selected
<1>3. ASSUME NEW i \in Selected', NEW j \in Selected', i < j  PROVE work'[i].id # work'[j].id
    <2>1. i + 1 < j + 1
        BY <1>3, SMT, Z3 DEF Selected
    <2>2. i + 1 \in Selected /\ j + 1 \in Selected /\ work'[i] = work[i + 1] /\ work'[j] = work[j + 1]
        BY <1>2
    <2>3. \A k, l \in Selected : k < l => work[k].id # work[l].id
        BY DEF WorkOK
    <2> QED  BY <2>1, <2>2, <2>3, ZenonT(40)
<1>4. ASSUME NEW i \in Selected'
      PROVE  /\ status'[work'[i].id] = "pending"
             /\ work'[i].attempt = attempt'[work'[i].id]
             /\ wait'[work'[i].id] = 0
    <2>1. i + 1 \in Selected /\ work'[i] = work[i + 1] /\ work'[i].id # Current.id
        BY <1>2
    <2>2. /\ work[i + 1].id \in Deliveries /\ status[work[i + 1].id] = "pending"
          /\ work[i + 1].attempt = attempt[work[i + 1].id] /\ wait[work[i + 1].id] = 0
        BY <2>1, SelectedRows
    <2> QED  BY <2>1, <2>2
<1>5. WorkOK'
    BY <1>1, <1>2, <1>3, <1>4 DEF WorkOK
<1> QED  BY <1>1, <1>5 DEF Pending, Open

\* It starts with nothing enqueued.
LEMMA InvInit == Init => WebhookInv
<1> SUFFICES ASSUME Init  PROVE WebhookInv
    OBVIOUS
<1>1. Shapes
    BY WebhookAssumption, LongestGapIsMax, SMT, Z3 DEF Init, Shapes, L
<1>2. Len(line) = 0 /\ Len(work) = 0 /\ 1..0 = {} /\ work \in Seq(Items)
    BY SMT, Z3 DEF Init
<1>3. LineOK
    BY <1>2 DEF Init, LineOK, NoTwice, SortedBy, Has
<1>4. WorkOK
    BY <1>2 DEF Init, WorkOK, Selected
<1>5. AttemptsOK
    BY DEF Init, AttemptsOK
<1>6. CountsOK
    <2>1. ASSUME NEW d \in Deliveries  PROVE Counted(d)
        <3>1. posts[d] = 0 /\ attempt[d] = 0 /\ acks[d] = 0 /\ Open(d) = 0 /\ ~ Answered(d)
            BY DEF Init, Open, Pending, Answered
        <3> QED  BY <1>1, <3>1, Numbers, SMT, Z3 DEF Counted
    <2>2. posts \in [Deliveries -> Nat] /\ acks \in [Deliveries -> Nat]
        BY SMT, Z3 DEF Init
    <2> QED  BY <2>1, <2>2 DEF CountsOK
<1>7. GapsOK
    <2>1. ASSUME NEW d \in Deliveries  PROVE GapGoesOn(d)
        BY DEF Init, GapGoesOn
    <2> QED  BY <2>1, LongestGapIsMax DEF Init, GapsOK
<1> QED  BY <1>1, <1>3, <1>4, <1>5, <1>6, <1>7, TypeOKParts DEF WebhookInv

\* The counts of a row do not depend on anything else.
LEMMA SameCounts ==
    ASSUME CountsOK, faults' = faults, posts' = posts, acks' = acks, attempt' = attempt, answer' = answer,
           work' = work,
           NEW d \in Deliveries, status[d] = "delivered" <=> status'[d] = "delivered"
    PROVE  Counted(d)'
<1>1. Open(d)' = Open(d) /\ FaultsSoFar' = FaultsSoFar /\ (Answered(d)' <=> Answered(d))
    BY DEF Open, Pending, Current, FaultsSoFar, Answered
<1> QED  BY <1>1 DEF CountsOK, Counted

\* Enqueue keeps it.
LEMMA EnqueueInv ==
    ASSUME WebhookInv, NEW d \in Deliveries, Enqueue(d)
    PROVE  WebhookInv'
<1>0. Shapes /\ LineOK /\ WorkOK /\ AttemptsOK /\ CountsOK /\ GapsOK
    BY TypeOKParts DEF WebhookInv
<1>1. /\ status[d] = "none" /\ status' = [status EXCEPT ![d] = "pending"]
      /\ attempt' = attempt /\ wait' = wait /\ work' = work /\ answer' = answer /\ faults' = faults
      /\ posts' = posts /\ acks' = acks /\ since' = since
    BY DEF Enqueue
<1>2. attempt[d] = 0 /\ wait[d] = 0
    BY <1>0, <1>1 DEF AttemptsOK
<1>3. status'[d] = "pending" /\ \A e \in Deliveries : e # d => status'[e] = status[e]
    BY <1>0, <1>1 DEF Shapes
<1>4. Place(line, d, 0)
    BY DEF Enqueue
<1>5. /\ line' \in Seq(Deliveries) /\ NoTwice(line') /\ SortedBy(line', wait)
      /\ \A x : Has(line', x) <=> Has(line, x) \/ x = d
    <2>1. line \in Seq(Deliveries) /\ ~ Has(line, d) /\ NoTwice(line) /\ SortedBy(line, wait)
        BY <1>0, <1>1 DEF LineOK, Shapes
    <2>2. wait \in [Deliveries -> Nat] /\ 0 \in Nat
        BY <1>0, LongestGapIsMax, SMT, Z3 DEF Shapes
    <2>3. wait = [wait EXCEPT ![d] = 0]
        BY <1>2, <2>2
    <2>4. /\ line' \in Seq(Deliveries) /\ NoTwice(line') /\ SortedBy(line', [wait EXCEPT ![d] = 0])
          /\ \A x : Has(line', x) <=> Has(line, x) \/ x = d
        BY <1>4, <2>1, <2>2, PlaceInLine
    <2> QED  BY <2>3, <2>4
<1>6. LineOK'
    BY <1>0, <1>1, <1>3, <1>5 DEF LineOK
<1>7. Shapes'
    BY <1>0, <1>1, <1>5 DEF Shapes
<1>8. WorkOK'
    <2>1. \A i \in Selected : work[i].id \in Deliveries /\ status'[work[i].id] = "pending"
        BY <1>0, <1>3, SelectedRows
    <2> QED  BY <1>0, <1>1, <2>1 DEF WorkOK, Selected
<1>9. AttemptsOK'
    <2>1. 0 <= L
        BY LongestGapIsMax, SMT, Z3
    <2> QED  BY <1>0, <1>1, <1>2, <1>3, <2>1 DEF AttemptsOK
<1>10. CountsOK'
    <2>1. ASSUME NEW e \in Deliveries  PROVE Counted(e)'
        BY <1>0, <1>1, <1>3, SameCounts
    <2> QED  BY <1>0, <1>1, <2>1 DEF CountsOK
<1>11. GapsOK'
    <2>1. ASSUME NEW e \in Deliveries \ Unstorable  PROVE GapGoesOn(e)'
        <3>1. FaultsSoFar' = FaultsSoFar /\ (Pending(e)' <=> Pending(e))
            BY <1>1 DEF FaultsSoFar, Pending, Current
        <3>2. CASE e = d
            <4>1. ~ (attempt'[e] > 0)
                BY <1>1, <1>2, <3>2, SMT, Z3
            <4> QED  BY <4>1 DEF GapGoesOn
        <3>3. CASE e # d
            BY <1>0, <1>1, <1>3, <3>1, <3>3 DEF GapsOK, GapGoesOn
        <3> QED  BY <3>2, <3>3
    <2> QED  BY <1>0, <1>1, <2>1 DEF GapsOK
<1> QED  BY <1>6, <1>7, <1>8, <1>9, <1>10, <1>11, TypeOKParts DEF WebhookInv

\* Tick keeps it: the rows it selects are different, since the line has none
\* twice.
LEMMA TickInv ==
    ASSUME WebhookInv, Tick
    PROVE  WebhookInv'
<1>0. Shapes /\ LineOK /\ WorkOK /\ AttemptsOK /\ CountsOK /\ GapsOK
    BY TypeOKParts DEF WebhookInv
<1>1. /\ work = << >>
      /\ status' = status /\ attempt' = attempt /\ wait' = wait /\ line' = line /\ answer' = answer
      /\ faults' = faults /\ posts' = posts /\ acks' = acks /\ since' = since
    BY DEF Tick
<1>2. PICK n \in 1..Len(line) :
         /\ \A i \in 1..n : wait[line[i]] = 0
         /\ work' = [i \in 1..n |-> [id |-> line[i], attempt |-> attempt[line[i]]]]
    BY DEF Tick
<1>3. answer = "none" /\ \A d : ~ Pending(d) /\ ~ Pending(d)' /\ Open(d) = Open(d)'
    BY <1>0, <1>1 DEF WorkOK, Pending, Open
<1>4. Shapes' /\ LineOK' /\ AttemptsOK'
    BY <1>0, <1>1 DEF Shapes, LineOK, AttemptsOK
<1>5. WorkOK'
    <2>1. line \in Seq(Deliveries) /\ attempt \in [Deliveries -> Nat]
        BY <1>0, LongestGapIsMax, SMT, Z3 DEF Shapes, L
    <2>2. n \in Nat /\ \A i \in 1..n : i \in 1..Len(line) /\ line[i] \in Deliveries
        BY <2>1, SMT, Z3
    <2>3. \A i \in 1..n : [id |-> line[i], attempt |-> attempt[line[i]]] \in Items
        BY <2>1, <2>2 DEF Items
    <2>4. work' \in Seq(Items) /\ Len(work') = n
        BY <1>2, <2>2, <2>3, SMT, Z3
    <2>5. \A i \in Selected' : /\ i \in 1..n
                               /\ work'[i].id = line[i] /\ work'[i].attempt = attempt[line[i]]
        BY <1>2, <2>4 DEF Selected
    <2>6. ASSUME NEW i \in Selected', NEW j \in Selected', i < j  PROVE work'[i].id # work'[j].id
        <3>1. i \in 1..Len(line) /\ j \in 1..Len(line)
            BY <2>2, <2>5
        <3>2. line[i] # line[j]
            BY <1>0, <2>6, <3>1 DEF LineOK, NoTwice
        <3> QED  BY <2>5, <3>2
    <2>7. ASSUME NEW i \in Selected'
          PROVE  /\ status'[work'[i].id] = "pending"
                 /\ work'[i].attempt = attempt'[work'[i].id]
                 /\ wait'[work'[i].id] = 0
        <3>1. Has(line, line[i]) /\ line[i] \in Deliveries /\ wait[line[i]] = 0
            BY <1>2, <2>2, <2>5 DEF Has
        <3>2. status[line[i]] = "pending"
            BY <1>0, <3>1 DEF LineOK
        <3> QED  BY <1>1, <2>5, <3>1, <3>2
    <2> QED  BY <1>1, <1>3, <2>4, <2>6, <2>7 DEF WorkOK
<1>6. CountsOK'
    <2>1. ASSUME NEW d \in Deliveries  PROVE Counted(d)'
        BY <1>0, <1>1, <1>3 DEF CountsOK, Counted, Answered, FaultsSoFar
    <2> QED  BY <1>0, <1>1, <2>1 DEF CountsOK
<1>7. GapsOK'
    BY <1>0, <1>1, <1>3 DEF GapsOK, GapGoesOn, FaultsSoFar
<1> QED  BY <1>4, <1>5, <1>6, <1>7, TypeOKParts DEF WebhookInv

\* Post keeps it: the POST is open until it is recorded.
LEMMA PostInv ==
    ASSUME WebhookInv, Post
    PROVE  WebhookInv'
<1>0. Shapes /\ LineOK /\ WorkOK /\ AttemptsOK /\ CountsOK /\ GapsOK
    BY TypeOKParts DEF WebhookInv
<1>1. /\ work # << >> /\ answer = "none"
      /\ status' = status /\ attempt' = attempt /\ wait' = wait /\ line' = line /\ work' = work
      /\ faults' = faults
    BY DEF Post
<1>2. PICK d \in Deliveries : d = Current.id /\ status[d] = "pending"
    BY <1>0, <1>1, AtWork
<1>3. Current' = Current
    BY <1>1 DEF Current
<1>4. answer' \in {"2xx", "failed"}
    BY DEF Post
<1>5. /\ posts' = [posts EXCEPT ![d] = IF @ < MaxPosts THEN @ + 1 ELSE @]
      /\ since' = [since EXCEPT ![d] = 0]
    BY <1>2 DEF Post
<1>6. \/ answer' = "2xx" /\ acks' = [acks EXCEPT ![d] = IF @ < MaxPosts THEN @ + 1 ELSE @]
      \/ answer' = "failed" /\ acks' = acks
    BY <1>2 DEF Post
<1>7. Shapes' /\ LineOK' /\ AttemptsOK'
    BY <1>0, <1>1, <1>4 DEF Shapes, LineOK, AttemptsOK
<1>8. WorkOK'
    BY <1>0, <1>1 DEF WorkOK, Selected
<1>9. posts \in [Deliveries -> Nat] /\ acks \in [Deliveries -> Nat] /\ since \in [Deliveries -> Nat]
    BY <1>0 DEF CountsOK, GapsOK
<1>10. posts' \in [Deliveries -> Nat] /\ acks' \in [Deliveries -> Nat] /\ since' \in [Deliveries -> Nat]
    BY <1>2, <1>5, <1>6, <1>9, SMT, Z3
<1>11. \A e : ~ Pending(e) /\ Open(e) = 0 /\ (Pending(e)' <=> e = d)
    BY <1>1, <1>2, <1>3, <1>4 DEF Pending, Open
<1>12. ASSUME NEW e \in Deliveries, e # d  PROVE Counted(e)'
    <2>1. posts'[e] = posts[e] /\ acks'[e] = acks[e]
        BY <1>5, <1>6, <1>9, <1>12
    <2>2. Open(e)' = Open(e) /\ (Answered(e)' <=> Answered(e)) /\ FaultsSoFar' = FaultsSoFar
        BY <1>1, <1>2, <1>3, <1>11, <1>12 DEF Open, Answered, FaultsSoFar
    <2> QED  BY <1>0, <1>1, <2>1, <2>2 DEF CountsOK, Counted
<1>13. Counted(d)'
    <2>1. Open(d)' = 1 /\ Open(d) = 0 /\ ~ Answered(d) /\ FaultsSoFar' = FaultsSoFar
        BY <1>1, <1>2, <1>11 DEF Open, Answered, FaultsSoFar
    <2>2. posts'[d] = (IF posts[d] < MaxPosts THEN posts[d] + 1 ELSE posts[d]) /\ posts[d] \in Nat /\ acks[d] \in Nat
        BY <1>2, <1>5, <1>9
    <2>3. /\ d \notin Unstorable => posts[d] <= attempt[d] + 0 + FaultsSoFar
          /\ posts[d] >= attempt[d] + 0 \/ posts[d] >= MaxPosts
          /\ acks[d] <= FaultsSoFar + 0
        BY <1>0, <1>2, <2>1 DEF CountsOK, Counted
    <2>4. attempt[d] \in Nat /\ FaultsSoFar \in Nat /\ MaxPosts \in Nat
        BY <1>0, <1>2, Numbers, WebhookAssumption
    <2>5. d \notin Unstorable => posts'[d] <= attempt'[d] + Open(d)' + FaultsSoFar'
        BY <1>1, <2>1, <2>2, <2>3, <2>4, SMT, Z3
    <2>6. posts'[d] >= attempt'[d] + Open(d)' \/ posts'[d] >= MaxPosts
        BY <1>1, <2>1, <2>2, <2>3, <2>4, SMT, Z3
    <2>7. acks'[d] <= FaultsSoFar' + (IF Answered(d)' THEN 1 ELSE 0)
        <3>1. CASE answer' = "2xx"
            <4>1. Answered(d)'
                BY <1>2, <1>3, <3>1 DEF Answered
            <4>2. acks'[d] = IF acks[d] < MaxPosts THEN acks[d] + 1 ELSE acks[d]
                BY <1>2, <1>6, <1>9, <3>1
            <4>3. acks'[d] <= FaultsSoFar' + 1
                BY <2>1, <2>2, <2>3, <2>4, <4>2, SMT, Z3
            <4> QED  BY <4>1, <4>3
        <3>2. CASE answer' = "failed"
            <4>1. ~ Answered(d)' /\ acks'[d] = acks[d]
                BY <1>1, <1>2, <1>6, <3>2 DEF Answered
            <4> QED  BY <2>1, <2>3, <4>1
        <3> QED  BY <1>4, <3>1, <3>2
    <2> QED  BY <2>5, <2>6, <2>7 DEF Counted
<1>14. CountsOK'
    BY <1>10, <1>12, <1>13 DEF CountsOK
<1>15. GapsOK'
    <2>1. ASSUME NEW e \in Deliveries \ Unstorable  PROVE GapGoesOn(e)'
        <3>1. CASE e = d
            BY <1>11, <3>1 DEF GapGoesOn
        <3>2. CASE e # d
            <4>1. since'[e] = since[e]
                BY <1>5, <1>9, <3>2
            <4> QED  BY <1>0, <1>1, <1>11, <4>1 DEF GapsOK, GapGoesOn, FaultsSoFar
        <3> QED  BY <3>1, <3>2
    <2> QED  BY <1>10, <2>1 DEF GapsOK
<1> QED  BY <1>7, <1>8, <1>14, <1>15, TypeOKParts DEF WebhookInv

\* A pending row leaves the line, and the others stay in their order.
LEMMA LeaveLine ==
    ASSUME Shapes, LineOK, NEW d \in Deliveries, status[d] = "pending"
    PROVE  /\ Leave(d) \in Seq(Deliveries) /\ NoTwice(Leave(d)) /\ SortedBy(Leave(d), wait)
           /\ \A x : Has(Leave(d), x) <=> Has(line, x) /\ x # d
<1> DEFINE k == CHOOSE i \in 1..Len(line) : line[i] = d
<1>1. \E i \in 1..Len(line) : line[i] = d
    BY DEF LineOK, Has
<1>2. k \in 1..Len(line) /\ line[k] = d
    BY <1>1
<1>3. Leave(d) = Without(line, k)
    BY DEF Leave
<1> HIDE DEF k
<1>4. line \in Seq(Deliveries) /\ NoTwice(line) /\ SortedBy(line, wait)
    BY DEF Shapes, LineOK
<1> QED  BY <1>2, <1>3, <1>4, RemoveFromLine

\* The other rows when a row is recorded.
LEMMA OthersCounted ==
    ASSUME CountsOK, answer # "none", answer' = "none", NEW d, d = Current.id,
           faults' = faults, posts' = posts, acks' = acks,
           NEW e \in Deliveries, e # d, status'[e] = status[e], attempt'[e] = attempt[e]
    PROVE  Counted(e)'
<1>1. Open(e) = 0 /\ Open(e)' = 0 /\ FaultsSoFar' = FaultsSoFar /\ (Answered(e)' <=> Answered(e))
    BY DEF Open, Pending, Answered, FaultsSoFar
<1> QED  BY <1>1 DEF CountsOK, Counted

\* RecordSuccess keeps it.
LEMMA RecordSuccessInv ==
    ASSUME WebhookInv, RecordSuccess
    PROVE  WebhookInv'
<1>0. Shapes /\ LineOK /\ WorkOK /\ AttemptsOK /\ CountsOK /\ GapsOK
    BY TypeOKParts DEF WebhookInv
<1>1. /\ answer = "2xx" /\ Done /\ answer' = "none"
      /\ wait' = wait /\ faults' = faults /\ posts' = posts /\ acks' = acks /\ since' = since
    BY DEF RecordSuccess, Done
<1>2. work # << >>
    BY <1>0, <1>1 DEF WorkOK
<1>3. PICK d \in Deliveries : d = Current.id /\ status[d] = "pending"
    BY <1>0, <1>2, AtWork
<1>4. /\ status' = [status EXCEPT ![d] = "delivered"] /\ line' = Leave(d)
      /\ attempt' = [attempt EXCEPT ![d] = @ + 1]
    BY <1>3 DEF RecordSuccess
<1>5. /\ status'[d] = "delivered" /\ attempt'[d] = attempt[d] + 1
      /\ \A e \in Deliveries : e # d => status'[e] = status[e] /\ attempt'[e] = attempt[e]
    BY <1>0, <1>4 DEF Shapes
<1>6. attempt[d] \in Nat /\ attempt[d] <= L /\ L \in Nat
    BY <1>0, <1>3, Numbers DEF AttemptsOK
<1>7. Shapes'
    <2>1. attempt[d] + 1 \in 0..(Len(BackoffSchedule) + 1)
        BY <1>6, SMT, Z3 DEF L
    <2>2. line' \in Seq(Deliveries)
        BY <1>0, <1>3, <1>4, LeaveLine
    <2> QED  BY <1>0, <1>1, <1>4, <2>1, <2>2 DEF Shapes
<1>8. LineOK'
    <2>1. NoTwice(line') /\ SortedBy(line', wait) /\ \A x : Has(line', x) <=> Has(line, x) /\ x # d
        BY <1>0, <1>3, <1>4, LeaveLine
    <2> QED  BY <1>0, <1>1, <1>5, <2>1 DEF LineOK
<1>9. WorkOK' /\ \A e : ~ Pending(e)' /\ Open(e)' = 0
    BY <1>0, <1>1, <1>2, <1>3, <1>5, DoneKeepsWork
<1>10. AttemptsOK'
    BY <1>0, <1>1, <1>5 DEF AttemptsOK
<1>11. Counted(d)'
    <2>1. Open(d) = 1 /\ Answered(d) /\ Answered(d)' /\ FaultsSoFar' = FaultsSoFar
        BY <1>1, <1>3, <1>5 DEF Open, Pending, Answered, FaultsSoFar
    <2>2. /\ d \notin Unstorable => posts[d] <= attempt[d] + 1 + FaultsSoFar
          /\ posts[d] >= attempt[d] + 1 \/ posts[d] >= MaxPosts
          /\ acks[d] <= FaultsSoFar + 1
        BY <1>0, <2>1 DEF CountsOK, Counted
    <2>3. FaultsSoFar \in Nat /\ attempt'[d] + Open(d)' = attempt[d] + 1
        BY <1>0, <1>5, <1>6, <1>9, Numbers, SMT, Z3
    <2> QED  BY <1>1, <2>1, <2>2, <2>3 DEF Counted
<1>12. CountsOK'
    <2>1. ASSUME NEW e \in Deliveries, e # d  PROVE Counted(e)'
        BY <1>0, <1>1, <1>3, <1>5, <2>1, OthersCounted
    <2> QED  BY <1>0, <1>1, <1>11, <2>1 DEF CountsOK
<1>13. GapsOK'
    <2>1. ASSUME NEW e \in Deliveries \ Unstorable  PROVE GapGoesOn(e)'
        <3>1. CASE e = d
            BY <1>5, <3>1 DEF GapGoesOn
        <3>2. CASE e # d
            <4>1. ~ Pending(e)
                BY <1>3, <3>2 DEF Pending
            <4> QED  BY <1>0, <1>1, <1>5, <3>2, <4>1 DEF GapsOK, GapGoesOn, FaultsSoFar
        <3> QED  BY <3>1, <3>2
    <2> QED  BY <1>0, <1>1, <2>1 DEF GapsOK
<1> QED  BY <1>7, <1>8, <1>9, <1>10, <1>12, <1>13, TypeOKParts DEF WebhookInv

\* A fault takes the place of the POSTs that it loses.
LEMMA StruckCounts ==
    ASSUME Shapes, CountsOK, GapsOK, Strike,
           posts' = posts, acks' = acks, attempt' = attempt, status' = status, since' = since,
           \A d : Open(d)' = 0
    PROVE  CountsOK' /\ GapsOK'
<1>1. FaultsSoFar' = FaultsSoFar + 1 /\ FaultsSoFar' # 0
    BY WebhookAssumption, SMT, Z3 DEF Shapes, Strike, FaultsSoFar
<1>2. ASSUME NEW d \in Deliveries  PROVE Counted(d)'
    <2>1. /\ d \notin Unstorable => posts[d] <= attempt[d] + Open(d) + FaultsSoFar
          /\ posts[d] >= attempt[d] + Open(d) \/ posts[d] >= MaxPosts
          /\ acks[d] <= FaultsSoFar + (IF Answered(d) THEN 1 ELSE 0)
        BY DEF CountsOK, Counted
    <2>2. /\ posts[d] \in Nat /\ acks[d] \in Nat /\ FaultsSoFar \in Nat /\ Open(d) \in {0, 1}
          /\ attempt[d] \in Nat /\ MaxPosts \in Nat
        BY Numbers, WebhookAssumption DEF CountsOK
    <2>3. d \notin Unstorable => posts'[d] <= attempt'[d] + Open(d)' + FaultsSoFar'
        BY <1>1, <2>1, <2>2, SMT, Z3
    <2>4. posts'[d] >= attempt'[d] + Open(d)' \/ posts'[d] >= MaxPosts
        BY <2>1, <2>2, SMT, Z3
    <2>5. acks'[d] <= FaultsSoFar' + (IF Answered(d)' THEN 1 ELSE 0)
        BY <1>1, <2>1, <2>2, SMT, Z3
    <2> QED  BY <2>3, <2>4, <2>5 DEF Counted
<1> QED  BY <1>1, <1>2 DEF CountsOK, GapsOK, GapGoesOn

\* RecordError keeps it.
LEMMA RecordErrorInv ==
    ASSUME WebhookInv, RecordError
    PROVE  WebhookInv'
<1>0. Shapes /\ LineOK /\ WorkOK /\ AttemptsOK /\ CountsOK /\ GapsOK
    BY TypeOKParts DEF WebhookInv
<1>1. /\ answer # "none" /\ Done /\ answer' = "none"
      /\ status' = status /\ attempt' = attempt /\ wait' = wait /\ line' = line
      /\ posts' = posts /\ acks' = acks /\ since' = since
    BY DEF RecordError, Done
<1>2. WorkOK' /\ \A e : ~ Pending(e)' /\ Open(e)' = 0
    BY <1>0, <1>1, DoneKeepsWork DEF WorkOK
<1>3. LineOK' /\ AttemptsOK'
    BY <1>0, <1>1 DEF LineOK, AttemptsOK
<1>4. CASE Strike
    <2>1. faults' \in 0..MaxFaults
        BY <1>0, <1>4, WebhookAssumption, SMT, Z3 DEF Shapes, Strike
    <2>2. Shapes'
        BY <1>0, <1>1, <2>1 DEF Shapes
    <2>3. CountsOK' /\ GapsOK'
        BY <1>0, <1>1, <1>2, <1>4, StruckCounts
    <2> QED  BY <1>2, <1>3, <2>2, <2>3, TypeOKParts DEF WebhookInv
<1>5. CASE answer = "failed" /\ Current.id \in Unstorable /\ UNCHANGED faults
    <2>1. Shapes' /\ FaultsSoFar' = FaultsSoFar
        BY <1>0, <1>1, <1>5 DEF Shapes, FaultsSoFar
    <2>2. ASSUME NEW d \in Deliveries  PROVE Counted(d)'
        <3>1. /\ d \notin Unstorable => posts[d] <= attempt[d] + Open(d) + FaultsSoFar
              /\ posts[d] >= attempt[d] + Open(d) \/ posts[d] >= MaxPosts
              /\ acks[d] <= FaultsSoFar + (IF Answered(d) THEN 1 ELSE 0)
            BY <1>0 DEF CountsOK, Counted
        <3>2. (d \notin Unstorable => Open(d) = 0) /\ (Answered(d)' <=> Answered(d))
            BY <1>1, <1>5 DEF Open, Pending, Answered
        <3>3. posts[d] \in Nat /\ attempt[d] \in Nat /\ Open(d) \in {0, 1} /\ MaxPosts \in Nat
            BY <1>0, Numbers, WebhookAssumption DEF CountsOK
        <3>4. posts'[d] >= attempt'[d] + Open(d)' \/ posts'[d] >= MaxPosts
            BY <1>1, <1>2, <3>1, <3>3, SMT, Z3
        <3> QED  BY <1>1, <1>2, <2>1, <3>1, <3>2, <3>4 DEF Counted
    <2>3. ASSUME NEW d \in Deliveries \ Unstorable  PROVE GapGoesOn(d)'
        <3>1. ~ Pending(d)
            BY <1>5 DEF Pending
        <3> QED  BY <1>0, <1>1, <2>1, <3>1 DEF GapsOK, GapGoesOn
    <2> QED  BY <1>0, <1>1, <1>2, <1>3, <2>1, <2>2, <2>3, TypeOKParts DEF WebhookInv, CountsOK, GapsOK
<1> QED  BY <1>4, <1>5 DEF RecordError

\* A crash keeps it.
LEMMA CrashInv ==
    ASSUME WebhookInv, Crash
    PROVE  WebhookInv'
<1>0. Shapes /\ LineOK /\ WorkOK /\ AttemptsOK /\ CountsOK /\ GapsOK
    BY TypeOKParts DEF WebhookInv
<1>1. /\ Strike /\ work' = << >> /\ answer' = "none"
      /\ status' = status /\ attempt' = attempt /\ wait' = wait /\ line' = line
      /\ posts' = posts /\ acks' = acks /\ since' = since
    BY DEF Crash
<1>2. Len(work') = 0 /\ 1..0 = {} /\ work' \in Seq(Items)
    BY <1>1, SMT, Z3
<1>3. WorkOK' /\ \A e : Open(e)' = 0
    BY <1>1, <1>2 DEF WorkOK, Selected, Open, Pending
<1>4. LineOK' /\ AttemptsOK'
    BY <1>0, <1>1 DEF LineOK, AttemptsOK
<1>5. faults' \in 0..MaxFaults
    BY <1>0, <1>1, WebhookAssumption, SMT, Z3 DEF Shapes, Strike
<1>6. Shapes'
    BY <1>0, <1>1, <1>5 DEF Shapes
<1>7. CountsOK' /\ GapsOK'
    BY <1>0, <1>1, <1>3, StruckCounts
<1> QED  BY <1>3, <1>4, <1>6, <1>7, TypeOKParts DEF WebhookInv

\* RecordFailure keeps it.
LEMMA RecordFailureInv ==
    ASSUME WebhookInv, RecordFailure
    PROVE  WebhookInv'
<1>0. Shapes /\ LineOK /\ WorkOK /\ AttemptsOK /\ CountsOK /\ GapsOK
    BY TypeOKParts DEF WebhookInv
<1>1. /\ answer = "failed" /\ Done /\ answer' = "none"
      /\ faults' = faults /\ posts' = posts /\ acks' = acks /\ since' = since
    BY DEF RecordFailure, Done
<1>2. work # << >>
    BY <1>0, <1>1 DEF WorkOK
<1>3. PICK d \in Deliveries : d = Current.id /\ status[d] = "pending"
    BY <1>0, <1>2, AtWork
<1>4. Current.attempt = attempt[d] /\ wait[d] = 0
    BY <1>0, <1>2, <1>3, AtWork
<1>5. attempt[d] \in Nat /\ attempt[d] <= L /\ L \in Nat
    BY <1>0, <1>3, Numbers DEF AttemptsOK
<1>6. attempt' = [attempt EXCEPT ![d] = attempt[d] + 1]
    BY <1>3, <1>4 DEF RecordFailure, NextAttempt
<1>7. attempt'[d] = attempt[d] + 1 /\ \A e \in Deliveries : e # d => attempt'[e] = attempt[e]
    BY <1>0, <1>6 DEF Shapes
<1>8. attempt' \in [Deliveries -> 0..(Len(BackoffSchedule) + 1)]
    <2>1. attempt[d] + 1 \in 0..(Len(BackoffSchedule) + 1)
        BY <1>5, SMT, Z3 DEF L
    <2> QED  BY <1>0, <1>6, <2>1 DEF Shapes
<1>9. \/ /\ attempt[d] + 1 >= L + 1
         /\ status' = [status EXCEPT ![d] = "dead"] /\ line' = Leave(d) /\ wait' = wait
      \/ /\ attempt[d] + 1 < L + 1
         /\ wait' = [wait EXCEPT ![d] = BackoffSchedule[attempt[d] + 1]]
         /\ Place(Leave(d), d, BackoffSchedule[attempt[d] + 1])
         /\ status' = status
    BY <1>3, <1>4 DEF RecordFailure, NextAttempt, Gap, L
\* What is the same for both.
<1>10. ASSUME Shapes', LineOK',
              status'[d] \in {"pending", "dead"}, status'[d] = "pending" => attempt[d] + 1 <= L,
              status'[d] = "dead" => attempt[d] + 1 = L + 1,
              status'[d] = "pending" => wait'[d] >= BackoffSchedule[attempt[d] + 1],
              \A e \in Deliveries : e # d => status'[e] = status[e] /\ wait'[e] = wait[e]
       PROVE  WebhookInv'
    <2>1. WorkOK' /\ \A e : ~ Pending(e)' /\ Open(e)' = 0
        BY <1>0, <1>1, <1>2, <1>3, <1>7, <1>10, DoneKeepsWork
    <2>2. AttemptsOK'
        BY <1>0, <1>7, <1>10 DEF AttemptsOK
    <2>3. Counted(d)'
        <3>1. Open(d) = 1 /\ ~ Answered(d) /\ ~ Answered(d)' /\ FaultsSoFar' = FaultsSoFar
            BY <1>1, <1>3, <1>10 DEF Open, Pending, Answered, FaultsSoFar
        <3>2. /\ d \notin Unstorable => posts[d] <= attempt[d] + 1 + FaultsSoFar
              /\ posts[d] >= attempt[d] + 1 \/ posts[d] >= MaxPosts
              /\ acks[d] <= FaultsSoFar + 0
            BY <1>0, <3>1 DEF CountsOK, Counted
        <3>3. attempt'[d] + Open(d)' = attempt[d] + 1
            BY <1>5, <1>7, <2>1, SMT, Z3
        <3> QED  BY <1>1, <3>1, <3>2, <3>3 DEF Counted
    <2>4. CountsOK'
        <3>1. ASSUME NEW e \in Deliveries, e # d  PROVE Counted(e)'
            BY <1>0, <1>1, <1>3, <1>7, <1>10, <3>1, OthersCounted
        <3> QED  BY <1>0, <1>1, <2>3, <3>1 DEF CountsOK
    <2>5. GapsOK'
        <3>1. ASSUME NEW e \in Deliveries \ Unstorable  PROVE GapGoesOn(e)'
            <4>1. CASE e = d
                <5>1. since'[d] \in Nat /\ wait'[d] \in Nat
                    BY <1>0, <1>1, <1>10, LongestGapIsMax, SMT, Z3 DEF GapsOK, Shapes
                <5>2. CASE status'[d] = "pending"
                    <6>1. attempt[d] + 1 \in 1..L
                        BY <1>5, <1>10, <5>2, SMT, Z3
                    <6>2. BackoffSchedule[attempt[d] + 1] \in Nat
                        BY <6>1, LongestGapIsMax
                    <6>3. since'[d] + wait'[d] >= BackoffSchedule[attempt[d] + 1]
                        BY <1>10, <5>1, <5>2, <6>2, SMT, Z3
                    <6> QED  BY <1>7, <4>1, <6>3 DEF GapGoesOn
                <5> QED  BY <4>1, <5>2 DEF GapGoesOn
            <4>2. CASE e # d
                <5>1. ~ Pending(e)
                    BY <1>3, <4>2 DEF Pending
                <5> QED  BY <1>0, <1>1, <1>7, <1>10, <4>2, <5>1 DEF GapsOK, GapGoesOn, FaultsSoFar
            <4> QED  BY <4>1, <4>2
        <3> QED  BY <1>0, <1>1, <3>1 DEF GapsOK
    <2> QED  BY <1>10, <2>1, <2>2, <2>4, <2>5, TypeOKParts DEF WebhookInv
<1>11. /\ Leave(d) \in Seq(Deliveries) /\ NoTwice(Leave(d)) /\ SortedBy(Leave(d), wait)
       /\ \A x : Has(Leave(d), x) <=> Has(line, x) /\ x # d
    BY <1>0, <1>3, LeaveLine
<1>12. CASE /\ attempt[d] + 1 >= L + 1
            /\ status' = [status EXCEPT ![d] = "dead"] /\ line' = Leave(d) /\ wait' = wait
    <2>1. status'[d] = "dead" /\ \A e \in Deliveries : e # d => status'[e] = status[e]
        BY <1>0, <1>12 DEF Shapes
    <2>2. Shapes'
        BY <1>0, <1>1, <1>8, <1>11, <1>12 DEF Shapes
    <2>3. LineOK'
        BY <1>0, <1>11, <1>12, <2>1 DEF LineOK
    <2>4. attempt[d] + 1 = L + 1
        BY <1>5, <1>12, SMT, Z3
    <2> QED  BY <1>10, <1>12, <2>1, <2>2, <2>3, <2>4
<1>13. CASE /\ attempt[d] + 1 < L + 1
            /\ wait' = [wait EXCEPT ![d] = BackoffSchedule[attempt[d] + 1]]
            /\ Place(Leave(d), d, BackoffSchedule[attempt[d] + 1])
            /\ status' = status
    <2>1. attempt[d] + 1 \in 1..L /\ attempt[d] + 1 <= L
        BY <1>5, <1>13, SMT, Z3
    <2>2. PICK w \in Nat : w = BackoffSchedule[attempt[d] + 1] /\ w <= LongestGap
        BY <2>1, LongestGapIsMax
    <2>3. wait'[d] = w /\ \A e \in Deliveries : e # d => wait'[e] = wait[e]
        BY <1>0, <1>13, <2>2 DEF Shapes
    <2>4. wait' \in [Deliveries -> 0..LongestGap]
        <3>1. w \in 0..LongestGap
            BY <2>2, LongestGapIsMax, SMT, Z3
        <3> QED  BY <1>0, <1>13, <2>2, <3>1 DEF Shapes
    <2>5. PICK rest \in Seq(Deliveries) : rest = Leave(d)
        BY <1>11
    <2>6. Place(rest, d, w)
        BY <1>13, <2>2, <2>5
    <2>7. /\ line' \in Seq(Deliveries) /\ NoTwice(line') /\ SortedBy(line', wait')
          /\ \A x : Has(line', x) <=> Has(rest, x) \/ x = d
        <3>1. wait \in [Deliveries -> Nat]
            BY <1>0, LongestGapIsMax, SMT, Z3 DEF Shapes
        <3>2. NoTwice(rest) /\ SortedBy(rest, wait) /\ ~ Has(rest, d)
            BY <1>11, <2>5
        <3>3. wait' = [wait EXCEPT ![d] = w]
            BY <1>13, <2>2
        <3> QED  BY <2>6, <3>1, <3>2, <3>3, PlaceInLine
    <2>9. Shapes'
        BY <1>0, <1>1, <1>8, <1>13, <2>4, <2>7 DEF Shapes
    <2>10. LineOK'
        <3>1. \A x \in Deliveries : Has(line', x) <=> Has(line, x)
            BY <1>0, <1>3, <1>11, <2>5, <2>7 DEF LineOK
        <3> QED  BY <1>0, <1>13, <2>7, <3>1 DEF LineOK
    <2>11. status'[d] = "pending" /\ wait'[d] >= BackoffSchedule[attempt[d] + 1]
        <3>1. w >= w
            BY SMT, Z3
        <3> QED  BY <1>3, <1>13, <2>2, <2>3, <3>1
    <2> QED  BY <1>10, <1>13, <2>1, <2>3, <2>9, <2>10, <2>11
<1> QED  BY <1>9, <1>12, <1>13

\* The clock keeps it: what the wait loses, the time since the POST gains.
LEMMA TockInv ==
    ASSUME WebhookInv, Tock
    PROVE  WebhookInv'
<1>0. Shapes /\ LineOK /\ WorkOK /\ AttemptsOK /\ CountsOK /\ GapsOK
    BY TypeOKParts DEF WebhookInv
<1>1. /\ wait' = [d \in Deliveries |-> IF wait[d] > 0 THEN wait[d] - 1 ELSE 0]
      /\ since' = [d \in Deliveries |-> IF since[d] < LongestGap THEN since[d] + 1 ELSE since[d]]
      /\ status' = status /\ attempt' = attempt /\ line' = line /\ work' = work /\ answer' = answer
      /\ faults' = faults /\ posts' = posts /\ acks' = acks
    BY DEF Tock
<1>2. ASSUME NEW d \in Deliveries
      PROVE  /\ wait[d] \in Nat /\ wait'[d] = (IF wait[d] > 0 THEN wait[d] - 1 ELSE 0)
             /\ wait'[d] \in 0..LongestGap /\ (wait[d] = 0 => wait'[d] = 0)
             /\ since[d] \in Nat /\ since'[d] \in Nat
             /\ since'[d] = (IF since[d] < LongestGap THEN since[d] + 1 ELSE since[d])
    <2>1. /\ wait'[d] = (IF wait[d] > 0 THEN wait[d] - 1 ELSE 0)
          /\ since'[d] = (IF since[d] < LongestGap THEN since[d] + 1 ELSE since[d])
        BY <1>1
    <2>2. wait[d] \in 0..LongestGap /\ since[d] \in Nat /\ LongestGap \in Nat
        BY <1>0, LongestGapIsMax DEF Shapes, GapsOK
    <2> QED  BY <2>1, <2>2, SMT, Z3
<1>3. wait' \in [Deliveries -> 0..LongestGap] /\ since' \in [Deliveries -> Nat]
    <2>1. \A d \in Deliveries : /\ (IF wait[d] > 0 THEN wait[d] - 1 ELSE 0) \in 0..LongestGap
                                /\ (IF since[d] < LongestGap THEN since[d] + 1 ELSE since[d]) \in Nat
        BY <1>2
    <2> QED  BY <1>1, <2>1
<1>4. Shapes'
    BY <1>0, <1>1, <1>3 DEF Shapes
<1>5. LineOK'
    <2>1. \A i \in 1..Len(line) : line[i] \in Deliveries
        BY <1>0, SMT, Z3 DEF Shapes
    <2>2. ASSUME NEW i \in 1..Len(line), NEW j \in 1..Len(line), i < j
          PROVE  wait'[line[i]] <= wait'[line[j]]
        <3>1. wait[line[i]] <= wait[line[j]]
            BY <1>0, <2>2 DEF LineOK, SortedBy
        <3>2. PICK a \in Deliveries : a = line[i]
            BY <2>1
        <3>3. PICK b \in Deliveries : b = line[j]
            BY <2>1
        <3>4. /\ wait[a] \in Nat /\ wait'[a] = (IF wait[a] > 0 THEN wait[a] - 1 ELSE 0)
              /\ wait[b] \in Nat /\ wait'[b] = (IF wait[b] > 0 THEN wait[b] - 1 ELSE 0)
            BY <1>2
        <3>5. wait[a] <= wait[b]
            BY <3>1, <3>2, <3>3
        <3>6. wait'[a] <= wait'[b]
            BY <3>4, <3>5, SMT, Z3
        <3> QED  BY <3>2, <3>3, <3>6
    <2> QED  BY <1>0, <1>1, <2>2 DEF LineOK, SortedBy
<1>6. WorkOK'
    <2>1. \A i \in Selected : wait'[work[i].id] = 0
        BY <1>0, <1>2, SelectedRows
    <2> QED  BY <1>0, <1>1, <2>1 DEF WorkOK, Selected
<1>7. AttemptsOK'
    BY <1>0, <1>1, <1>2 DEF AttemptsOK
<1>8. CountsOK'
    <2>1. ASSUME NEW d \in Deliveries  PROVE Counted(d)'
        BY <1>0, <1>1, SameCounts
    <2> QED  BY <1>0, <1>1, <2>1 DEF CountsOK
<1>9. GapsOK'
    <2>1. ASSUME NEW d \in Deliveries \ Unstorable,
                 FaultsSoFar = 0, status[d] = "pending", attempt[d] > 0, ~ Pending(d)
          PROVE  since'[d] + wait'[d] >= BackoffSchedule[attempt[d]]
        <3>1. since[d] + wait[d] >= BackoffSchedule[attempt[d]]
            BY <1>0, <2>1 DEF GapsOK, GapGoesOn
        <3>2. attempt[d] \in 1..L
            BY <1>0, <2>1, Numbers, SMT, Z3 DEF AttemptsOK
        <3>3. BackoffSchedule[attempt[d]] \in Nat /\ BackoffSchedule[attempt[d]] <= LongestGap /\ LongestGap \in Nat
            BY <3>2, LongestGapIsMax
        <3>4. d \in Deliveries
            OBVIOUS
        <3>5. /\ wait[d] \in Nat /\ wait'[d] = (IF wait[d] > 0 THEN wait[d] - 1 ELSE 0)
              /\ since[d] \in Nat /\ since'[d] = (IF since[d] < LongestGap THEN since[d] + 1 ELSE since[d])
            BY <1>2, <3>4
        <3> QED  BY <3>1, <3>3, <3>5, SMT, Z3
    <2>2. FaultsSoFar' = FaultsSoFar /\ \A d : Pending(d)' <=> Pending(d)
        BY <1>1 DEF FaultsSoFar, Pending, Current
    <2> QED  BY <1>1, <1>3, <2>1, <2>2 DEF GapsOK, GapGoesOn
<1> QED  BY <1>4, <1>5, <1>6, <1>7, <1>8, <1>9, TypeOKParts DEF WebhookInv

-----------------------------------------------------------------------------
(* The theorems about the queue *)

\* Every step keeps the invariant.
LEMMA InvNext == WebhookInv /\ [Next]_vars => WebhookInv'
<1> SUFFICES ASSUME WebhookInv, [Next]_vars  PROVE WebhookInv'
    OBVIOUS
<1>1. CASE UNCHANGED vars
    <2>1. /\ status' = status /\ attempt' = attempt /\ wait' = wait /\ line' = line /\ work' = work
          /\ answer' = answer /\ faults' = faults /\ posts' = posts /\ acks' = acks /\ since' = since
        BY <1>1 DEF vars
    <2>2. Shapes /\ LineOK /\ WorkOK /\ AttemptsOK /\ CountsOK /\ GapsOK
        BY TypeOKParts DEF WebhookInv
    <2>3. Shapes' /\ LineOK' /\ AttemptsOK' /\ WorkOK'
        BY <2>1, <2>2 DEF Shapes, LineOK, AttemptsOK, WorkOK, Selected
    <2>4. FaultsSoFar' = FaultsSoFar /\ \A d : (Pending(d)' <=> Pending(d))
        BY <2>1 DEF FaultsSoFar, Pending, Current
    <2>5. \A d \in Deliveries : Counted(d)'
        BY <2>1, <2>2, SameCounts
    <2>6. CountsOK' /\ GapsOK'
        BY <2>1, <2>2, <2>4, <2>5 DEF CountsOK, GapsOK, GapGoesOn
    <2> QED  BY <2>3, <2>6, TypeOKParts DEF WebhookInv
<1>2. CASE \E d \in Deliveries : Enqueue(d)
    BY <1>2, EnqueueInv
<1>3. CASE Worker
    BY <1>3, TickInv, PostInv, RecordSuccessInv, RecordFailureInv, RecordErrorInv DEF Worker
<1>4. CASE Crash
    BY <1>4, CrashInv
<1>5. CASE Tock
    BY <1>5, TockInv
<1> QED  BY <1>1, <1>2, <1>3, <1>4, <1>5 DEF Next

\* The inductive invariant of the queue.
THEOREM WebhookInvariant == Spec => []WebhookInv
BY InvInit, InvNext, PTL DEF Spec

\* The line of the queue has exactly the pending rows, each once and in the order
\* of next_attempt_at, whatever fails between the worker's query and its updates.
THEOREM LineIsThePendingRows == Spec => []TypeOK
<1>1. WebhookInv => TypeOK
    BY DEF WebhookInv
<1> QED  BY <1>1, WebhookInvariant, PTL

\* No row whose failures can be stored is POSTed more often than the schedule has
\* attempts and faults lost an update, and none again after a 2xx but for those.
THEOREM PostsAreBounded == Spec => []PostsBounded
<1>1. WebhookInv => PostsBounded
    <2> SUFFICES ASSUME WebhookInv, NEW d \in Deliveries
                 PROVE  /\ d \notin Unstorable => posts[d] <= Len(BackoffSchedule) + 1 + FaultsSoFar
                        /\ acks[d] <= 1 + FaultsSoFar
        BY DEF PostsBounded
    <2>0. Shapes /\ WorkOK /\ AttemptsOK /\ CountsOK
        BY TypeOKParts DEF WebhookInv
    <2>1. /\ d \notin Unstorable => posts[d] <= attempt[d] + Open(d) + FaultsSoFar
          /\ acks[d] <= FaultsSoFar + (IF Answered(d) THEN 1 ELSE 0)
          /\ posts[d] \in Nat /\ acks[d] \in Nat
        BY <2>0 DEF CountsOK, Counted
    <2>2. /\ L \in Nat /\ attempt[d] \in 0..(L + 1) /\ FaultsSoFar \in Nat /\ Open(d) \in {0, 1}
        BY <2>0, Numbers
    <2>3. Open(d) = 1 => attempt[d] <= L
        <3>1. ASSUME Pending(d)  PROVE attempt[d] <= L
            <4>1. status[d] = "pending"
                BY <2>0, <3>1, AtWork DEF Pending, WorkOK
            <4> QED  BY <2>0, <4>1 DEF AttemptsOK
        <3> QED  BY <3>1, SMT, Z3 DEF Open
    <2>4. attempt[d] + Open(d) <= L + 1
        BY <2>2, <2>3, SMT, Z3
    <2>5. d \notin Unstorable => posts[d] <= L + 1 + FaultsSoFar
        BY <2>1, <2>2, <2>4, SMT, Z3
    <2>6. acks[d] <= 1 + FaultsSoFar
        BY <2>1, <2>2, SMT, Z3
    <2> QED  BY <2>5, <2>6 DEF L
<1> QED  BY <1>1, WebhookInvariant, PTL

\* As long as the POSTs are counted far enough, a dead row was POSTed once more
\* than there are gaps.
THEOREM NoneGivenUpEarly ==
    ASSUME MaxPosts >= Len(BackoffSchedule) + 1
    PROVE  Spec => []NotGivenUpEarly
<1>1. WebhookInv => NotGivenUpEarly
    <2> SUFFICES ASSUME WebhookInv, NEW d \in Deliveries, status[d] = "dead"
                 PROVE  posts[d] >= Len(BackoffSchedule) + 1
        BY DEF NotGivenUpEarly
    <2>0. Shapes /\ AttemptsOK /\ CountsOK
        BY TypeOKParts DEF WebhookInv
    <2>1. /\ posts[d] >= attempt[d] + Open(d) \/ posts[d] >= MaxPosts
          /\ posts[d] \in Nat
        BY <2>0 DEF CountsOK, Counted
    <2>2. attempt[d] = L + 1
        BY <2>0 DEF AttemptsOK
    <2>3. L \in Nat /\ Open(d) \in {0, 1} /\ MaxPosts \in Nat /\ MaxPosts >= L + 1
        BY <2>0, Numbers, WebhookAssumption DEF L
    <2>4. posts[d] >= L + 1
        BY <2>1, <2>2, <2>3, SMT, Z3
    <2> QED  BY <2>4 DEF L
<1> QED  BY <1>1, WebhookInvariant, PTL

\* Without faults two POSTs of a row are at least the scheduled gap apart.
THEOREM GapsAreKept == Spec => GapsKept
<1> DEFINE A == \A d \in Deliveries \ Unstorable :
                   FaultsSoFar = 0 /\ posts'[d] > posts[d] /\ posts[d] > 0 => since[d] >= BackoffSchedule[posts[d]]
<1>1. WebhookInv /\ [Next]_vars => [A]_vars
    <2> SUFFICES ASSUME WebhookInv, Next, NEW d \in Deliveries \ Unstorable,
                        FaultsSoFar = 0, posts'[d] > posts[d], posts[d] > 0
                 PROVE  since[d] >= BackoffSchedule[posts[d]]
        OBVIOUS
    <2>0. Shapes /\ WorkOK /\ CountsOK /\ GapsOK /\ d \in Deliveries
        BY TypeOKParts DEF WebhookInv
    <2>1. posts \in [Deliveries -> Nat] /\ posts[d] \in Nat /\ since[d] \in Nat
        BY <2>0 DEF CountsOK, GapsOK
    <2>2. posts' # posts
        BY <2>1, SMT, Z3
    <2>3. Post
        BY <2>2 DEF Next, Worker, Enqueue, Tick, RecordSuccess, RecordFailure, RecordError, Crash, Tock
    <2>4. /\ work # << >> /\ answer = "none"
          /\ posts' = [posts EXCEPT ![Current.id] = IF @ < MaxPosts THEN @ + 1 ELSE @]
        BY <2>3 DEF Post
    <2>5. d = Current.id
        <3>1. posts'[d] # posts[d]
            BY <2>1, SMT, Z3
        <3> QED  BY <2>1, <2>4, <3>1
    <2>6. posts[d] < MaxPosts
        <3>1. posts'[d] = IF posts[d] < MaxPosts THEN posts[d] + 1 ELSE posts[d]
            BY <2>0, <2>1, <2>4, <2>5
        <3> QED  BY <2>1, <3>1, SMT, Z3
    <2>7. status[d] = "pending" /\ wait[d] = 0
        BY <2>0, <2>4, <2>5, AtWork
    <2>8. ~ Pending(d) /\ Open(d) = 0
        BY <2>4 DEF Pending, Open
    <2>9. /\ posts[d] <= attempt[d] + 0 + 0
          /\ posts[d] >= attempt[d] + 0 \/ posts[d] >= MaxPosts
        BY <2>0, <2>8 DEF CountsOK, Counted
    <2>10. posts[d] = attempt[d]
        <3>1. attempt[d] \in Nat /\ MaxPosts \in Nat
            BY <2>0, Numbers, WebhookAssumption
        <3> QED  BY <2>1, <2>6, <2>9, <3>1, SMT, Z3
    <2>11. since[d] + wait[d] >= BackoffSchedule[attempt[d]]
        BY <2>0, <2>7, <2>8, <2>10 DEF GapsOK, GapGoesOn
    <2>12. since[d] + 0 = since[d]
        BY <2>1, SMT, Z3
    <2> QED  BY <2>7, <2>10, <2>11, <2>12
<1>2. GapsKept <=> [][A]_vars
    BY PTL DEF GapsKept
<1> QED  BY <1>1, <1>2, WebhookInvariant, PTL DEF Spec

-----------------------------------------------------------------------------
(* The inductive invariant of the callbacks of one request *)

Payloads == [status : {"none", "pending", "submitted", "confirmed"}, at : Nat]

CallbackTypeOK ==
    /\ row \in Payloads /\ clock \in Nat
    /\ pos \in [Writers -> {"ready", "begun", "committed", "snapped", "done"}]
    /\ began \in [Writers -> Nat]
    /\ snap \in [Writers -> Payloads]
    /\ payload \in [Deliveries -> Payloads]
    /\ seen \in Payloads

\* x is not newer than the row, and not another payload with its date.
Obsolete(x) == x.at <= row.at /\ (x.at = row.at => x = row)

\* As long as no two transactions were open at once, an open one is newer than
\* the row, so dates rise with every commit and tell payloads apart.
DatesOK ==
    /\ 0 < row.at /\ row.at <= clock
    /\ \A w \in Writers : pos[w] = "begun" => row.at < began[w] /\ began[w] <= clock
    /\ \A v, w \in Writers : pos[v] = "begun" /\ pos[w] = "begun" => v = w
    /\ \A w \in Writers : Obsolete(snap[w])
    /\ \A d \in Deliveries : Obsolete(payload[d])
    /\ Obsolete(seen)

\* The row as it is now is announced, or a writer is about to.
Announced ==
    \/ \E w \in Writers : pos[w] = "committed"
    \/ \E w \in Writers : pos[w] = "snapped" /\ snap[w] = row
    \/ \E d \in Deliveries : status[d] # "none" /\ payload[d] = row

CallbackInv ==
    /\ WebhookInv /\ CallbackTypeOK
    /\ ~ overlap => DatesOK
    /\ ~ silent /\ row.status # "pending" => Announced
    /\ \A d \in Deliveries : Answered(d) => seen.at >= payload[d].at

\* Writers and receiver leave the queue alone or take one of its steps.
LEMMA CallbackStepIsQueueStep ==
    ASSUME [CallbackNext]_callbackVars
    PROVE  [Next]_vars
<1>1. CASE UNCHANGED callbackVars
    BY <1>1 DEF callbackVars
<1>2. ASSUME NEW w \in Writers, Write(w)  PROVE [Next]_vars
    <2>1. CASE BeginTx(w) \/ CommitTx(w) \/ ReadRow(w)
        BY <2>1 DEF BeginTx, CommitTx, ReadRow
    <2>2. CASE Announce(w)
        <3>1. NewRow \in Deliveries
            BY <2>2 DEF Announce, NewRow
        <3> QED  BY <2>2, <3>1 DEF Announce, Next
    <2> QED  BY <1>2, <2>1, <2>2 DEF Write
<1>3. CASE NodeMines
    BY <1>3 DEF NodeMines
<1>4. CASE Receive
    BY <1>4 DEF Receive, Next, Worker
<1>5. CASE Deliver
    BY <1>5 DEF Deliver, Next, Worker
<1>6. CASE Die
    BY <1>6 DEF Die, Next
<1> QED  BY <1>1, <1>2, <1>3, <1>4, <1>5, <1>6 DEF CallbackNext

\* What was answered stays the same when the queue does.
LEMMA SameAnswers ==
    ASSUME UNCHANGED vars
    PROVE  status' = status /\ \A d : Answered(d)' <=> Answered(d)
BY DEF vars, Answered, Current

\* It starts with a row that nobody announced and nobody has to.
LEMMA CallbackInvInit == CallbackInit => CallbackInv
<1> SUFFICES ASSUME CallbackInit  PROVE CallbackInv
    OBVIOUS
<1>0. Nothing \in Payloads /\ Nothing.at = 0 /\ [status |-> "pending", at |-> 1] \in Payloads
    BY SMT, Z3 DEF Nothing, Payloads
<1>1. row.at = 1 /\ row.status = "pending" /\ clock = 1
    BY DEF CallbackInit
<1>2. CallbackTypeOK
    <2>1. 1 \in Nat /\ 0 \in Nat
        BY SMT, Z3
    <2> QED  BY <1>0, <1>1, <2>1 DEF CallbackInit, CallbackTypeOK
<1>3. DatesOK
    <2>1. Obsolete(Nothing)
        BY <1>0, <1>1, SMT, Z3 DEF Obsolete
    <2>2. 1 <= 1 /\ 0 < 1
        BY SMT, Z3
    <2> QED  BY <1>1, <2>1, <2>2 DEF CallbackInit, DatesOK
<1>4. \A d \in Deliveries : ~ Answered(d)
    BY DEF CallbackInit, Init, Answered
<1>5. WebhookInv
    BY InvInit DEF CallbackInit
<1> QED  BY <1>1, <1>2, <1>3, <1>4, <1>5 DEF CallbackInv

\* BEGIN keeps it.
LEMMA BeginTxInv ==
    ASSUME CallbackInv, WebhookInv', NEW w \in Writers, BeginTx(w)
    PROVE  CallbackInv'
<1>0. CallbackTypeOK
    BY DEF CallbackInv
<1>1. /\ pos[w] = "ready" /\ pos' = [pos EXCEPT ![w] = "begun"] /\ clock' = clock + 1
      /\ began' = [began EXCEPT ![w] = clock + 1]
      /\ overlap' = (overlap \/ \E v \in Writers : pos[v] = "begun")
      /\ row' = row /\ snap' = snap /\ payload' = payload /\ seen' = seen /\ silent' = silent
      /\ UNCHANGED vars
    BY DEF BeginTx, Go
<1>2. /\ pos'[w] = "begun" /\ began'[w] = clock + 1
      /\ \A v \in Writers : v # w => pos'[v] = pos[v] /\ began'[v] = began[v]
    BY <1>0, <1>1 DEF CallbackTypeOK
<1>3. clock \in Nat /\ clock + 1 \in Nat /\ clock <= clock + 1 /\ clock < clock + 1 /\ clock + 1 <= clock + 1
    BY <1>0, SMT, Z3 DEF CallbackTypeOK
<1>4. CallbackTypeOK'
    BY <1>0, <1>1, <1>3 DEF CallbackTypeOK
<1>5. ASSUME ~ overlap'  PROVE DatesOK'
    <2>1. ~ overlap /\ \A v \in Writers : pos[v] # "begun"
        BY <1>1, <1>5
    <2>2. DatesOK
        BY <2>1 DEF CallbackInv
    <2>3. row.at \in Nat
        BY <1>0 DEF CallbackTypeOK, Payloads
    <2>4. row.at <= clock
        BY <2>2 DEF DatesOK
    <2>5. row.at <= clock' /\ row.at < clock + 1
        BY <1>1, <1>3, <2>3, <2>4, SMT, Z3
    <2>6. \A v \in Writers : pos'[v] = "begun" => v = w
        BY <1>2, <2>1
    <2> QED  BY <1>1, <1>2, <1>3, <2>2, <2>5, <2>6 DEF DatesOK, Obsolete
<1>6. ASSUME ~ silent', row'.status # "pending"  PROVE Announced'
    <2>1. Announced
        BY <1>1, <1>6 DEF CallbackInv
    <2>2. \A v \in Writers : pos[v] # "ready" => pos'[v] = pos[v]
        BY <1>1, <1>2
    <2>3. status' = status
        BY <1>1, SameAnswers
    <2> QED  BY <1>1, <2>1, <2>2, <2>3 DEF Announced
<1>7. \A d \in Deliveries : Answered(d)' => seen'.at >= payload'[d].at
    BY <1>1, SameAnswers DEF CallbackInv
<1> QED  BY <1>4, <1>5, <1>6, <1>7 DEF CallbackInv

\* The commit keeps it: its date is newer than all that was read before.
LEMMA CommitTxInv ==
    ASSUME CallbackInv, WebhookInv', NEW w \in Writers, CommitTx(w)
    PROVE  CallbackInv'
<1>0. CallbackTypeOK
    BY DEF CallbackInv
<1>1. /\ pos[w] = "begun" /\ UNCHANGED vars
      /\ clock' = clock /\ began' = began /\ snap' = snap /\ payload' = payload /\ seen' = seen
      /\ overlap' = overlap
    BY DEF CommitTx, Go
<1>2. PICK to \in {"committed", "ready", "done"} :
         /\ pos' = [pos EXCEPT ![w] = to]
         /\ \/ row' = row /\ silent' = silent
            \/ row' = Updated(w) /\ silent' = silent /\ to = "committed"
            \/ row' = Updated(w) /\ silent' = TRUE
    BY DEF CommitTx, Go, Ended
<1>3. pos'[w] = to /\ \A v \in Writers : v # w => pos'[v] = pos[v]
    BY <1>0, <1>2 DEF CallbackTypeOK
<1>4. Updated(w).at = began[w] /\ began[w] \in Nat /\ Updated(w) \in Payloads
    <2>1. began[w] \in Nat
        BY <1>0 DEF CallbackTypeOK
    <2> QED  BY <2>1 DEF Updated, Payloads
<1>5. ASSUME ~ overlap'
      PROVE  DatesOK'
    <2>1. DatesOK
        BY <1>1, <1>5 DEF CallbackInv
    <2>2. \A v \in Writers : v # w => pos[v] # "begun" /\ pos'[v] # "begun"
        BY <1>1, <1>3, <2>1 DEF DatesOK
    <2>3. \A v \in Writers : pos'[v] # "begun"
        BY <1>2, <1>3, <2>2
    <2>4. CASE row' = row
        BY <1>1, <2>1, <2>3, <2>4 DEF DatesOK, Obsolete
    <2>5. CASE row' = Updated(w)
        <3>1. row.at < row'.at /\ row'.at <= clock /\ row.at \in Nat /\ row'.at \in Nat
            BY <1>0, <1>1, <1>4, <2>1, <2>5 DEF DatesOK, CallbackTypeOK, Payloads
        <3>2. ASSUME NEW x \in Payloads, Obsolete(x)  PROVE Obsolete(x)'
            <4>1. x.at \in Nat /\ x.at <= row.at
                BY <3>2 DEF Payloads, Obsolete
            <4>2. x.at <= row'.at /\ x.at # row'.at
                BY <3>1, <4>1, SMT, Z3
            <4> QED  BY <4>2 DEF Obsolete
        <3>3. Obsolete(seen)'
            <4>1. PICK x \in Payloads : x = seen
                BY <1>0 DEF CallbackTypeOK
            <4>2. Obsolete(x)'
                BY <2>1, <3>2, <4>1 DEF DatesOK
            <4> QED  BY <1>1, <4>1, <4>2 DEF Obsolete
        <3>4. ASSUME NEW d \in Deliveries  PROVE Obsolete(payload[d])'
            <4>1. PICK x \in Payloads : x = payload[d]
                BY <1>0 DEF CallbackTypeOK
            <4>2. Obsolete(x)'
                BY <2>1, <3>2, <4>1 DEF DatesOK
            <4> QED  BY <1>1, <4>1, <4>2 DEF Obsolete
        <3>5. ASSUME NEW v \in Writers  PROVE Obsolete(snap[v])'
            <4>1. PICK x \in Payloads : x = snap[v]
                BY <1>0 DEF CallbackTypeOK
            <4>2. Obsolete(x)'
                BY <2>1, <3>2, <4>1 DEF DatesOK
            <4> QED  BY <1>1, <4>1, <4>2 DEF Obsolete
        <3>6. 0 < row'.at
            BY <3>1, SMT, Z3
        <3> QED  BY <1>1, <2>3, <3>1, <3>3, <3>4, <3>5, <3>6 DEF DatesOK
    <2> QED  BY <1>2, <2>4, <2>5
<1>6. CallbackTypeOK'
    <2>1. row' \in Payloads
        BY <1>0, <1>2, <1>4 DEF CallbackTypeOK
    <2> QED  BY <1>0, <1>1, <1>2, <2>1 DEF CallbackTypeOK
<1>7. ASSUME ~ silent', row'.status # "pending"  PROVE Announced'
    <2>1. CASE row' = row /\ silent' = silent
        <3>1. Announced
            BY <1>7, <2>1 DEF CallbackInv
        <3>2. \A v \in Writers : pos[v] # "begun" => pos'[v] = pos[v]
            BY <1>1, <1>3
        <3> QED  BY <1>1, <2>1, <3>1, <3>2, SameAnswers DEF Announced
    <2>2. CASE to = "committed"
        BY <1>3, <2>2 DEF Announced
    <2> QED  BY <1>2, <1>7, <2>1, <2>2
<1>8. \A d \in Deliveries : Answered(d)' => seen'.at >= payload'[d].at
    BY <1>1, SameAnswers DEF CallbackInv
<1> QED  BY <1>5, <1>6, <1>7, <1>8 DEF CallbackInv

\* Enqueue's read keeps it: what it reads is the row.
LEMMA ReadRowInv ==
    ASSUME CallbackInv, WebhookInv', NEW w \in Writers, ReadRow(w)
    PROVE  CallbackInv'
<1>0. CallbackTypeOK
    BY DEF CallbackInv
<1>1. /\ pos[w] = "committed" /\ UNCHANGED vars /\ row' = row
      /\ clock' = clock /\ began' = began /\ payload' = payload /\ seen' = seen /\ overlap' = overlap
    BY DEF ReadRow, Go
<1>2. PICK to \in {"snapped", "ready", "done"} :
         /\ pos' = [pos EXCEPT ![w] = to]
         /\ \/ to = "snapped" /\ snap' = [snap EXCEPT ![w] = row] /\ silent' = silent
            \/ snap' = snap /\ silent' = TRUE
    BY DEF ReadRow, Go, Ended, Get
<1>3. pos'[w] = to /\ \A v \in Writers : v # w => pos'[v] = pos[v]
    BY <1>0, <1>2 DEF CallbackTypeOK
<1>4. \A v \in Writers : snap'[v] = snap[v] \/ snap'[v] = row
    BY <1>0, <1>2 DEF CallbackTypeOK
<1>5. CallbackTypeOK'
    BY <1>0, <1>1, <1>2 DEF CallbackTypeOK
<1>6. ASSUME ~ overlap'  PROVE DatesOK'
    <2>1. DatesOK
        BY <1>1, <1>6 DEF CallbackInv
    <2>2. row.at <= row.at
        BY <1>0, SMT, Z3 DEF CallbackTypeOK, Payloads
    <2>3. \A v \in Writers : Obsolete(snap[v])'
        BY <1>1, <1>4, <2>1, <2>2 DEF DatesOK, Obsolete
    <2>4. \A v \in Writers : pos'[v] = "begun" => pos[v] = "begun"
        BY <1>2, <1>3
    <2> QED  BY <1>1, <2>1, <2>3, <2>4 DEF DatesOK, Obsolete
<1>7. ASSUME ~ silent', row'.status # "pending"  PROVE Announced'
    <2>1. to = "snapped" /\ snap'[w] = row
        BY <1>0, <1>2, <1>7 DEF CallbackTypeOK
    <2> QED  BY <1>1, <1>3, <2>1 DEF Announced
<1>8. \A d \in Deliveries : Answered(d)' => seen'.at >= payload'[d].at
    BY <1>1, SameAnswers DEF CallbackInv
<1> QED  BY <1>5, <1>6, <1>7, <1>8 DEF CallbackInv

\* Enqueue's insert keeps it.
LEMMA AnnounceInv ==
    ASSUME CallbackInv, WebhookInv', NEW w \in Writers, Announce(w)
    PROVE  CallbackInv'
<1>0. CallbackTypeOK /\ WebhookInv
    BY DEF CallbackInv
<1>1. /\ pos[w] = "snapped" /\ row' = row /\ clock' = clock /\ began' = began /\ seen' = seen
      /\ overlap' = overlap /\ snap' = [snap EXCEPT ![w] = Nothing]
    BY DEF Announce, Go
<1>2. PICK to \in {"ready", "done"} : pos' = [pos EXCEPT ![w] = to]
    BY DEF Announce, Go, Ended
<1>3. PICK n \in Deliveries : n = NewRow /\ status[n] = "none"
    BY DEF Announce, NewRow
<1>4. \/ /\ Enqueue(n) /\ payload' = [payload EXCEPT ![n] = snap[w]] /\ silent' = silent
      \/ /\ UNCHANGED vars /\ payload' = payload /\ silent' = TRUE
    BY <1>3 DEF Announce
<1>5. pos'[w] = to /\ \A v \in Writers : v # w => pos'[v] = pos[v] /\ snap'[v] = snap[v]
    BY <1>0, <1>1, <1>2 DEF CallbackTypeOK
<1>6. snap'[w] = Nothing /\ Nothing \in Payloads /\ Nothing.at = 0 /\ 0 \in Nat
    <2>1. 0 \in Nat
        BY SMT, Z3
    <2> QED  BY <1>0, <1>1, <2>1 DEF CallbackTypeOK, Nothing, Payloads
<1>7. CallbackTypeOK'
    <2>1. snap[w] \in Payloads
        BY <1>0 DEF CallbackTypeOK
    <2>2. payload' \in [Deliveries -> Payloads]
        BY <1>0, <1>4, <2>1 DEF CallbackTypeOK
    <2> QED  BY <1>0, <1>1, <1>2, <1>6, <2>2 DEF CallbackTypeOK
<1>8. ASSUME ~ overlap'  PROVE DatesOK'
    <2>1. DatesOK
        BY <1>1, <1>8 DEF CallbackInv
    <2>2. Obsolete(Nothing)
        <3>1. row.at \in Nat /\ 0 < row.at
            BY <1>0, <2>1 DEF CallbackTypeOK, Payloads, DatesOK
        <3> QED  BY <1>6, <3>1, SMT, Z3 DEF Obsolete
    <2>3. \A v \in Writers : Obsolete(snap'[v])
        BY <1>5, <1>6, <2>1, <2>2 DEF DatesOK
    <2>4. \A d \in Deliveries : payload'[d] = payload[d] \/ payload'[d] = snap[w]
        BY <1>0, <1>4 DEF CallbackTypeOK
    <2>5. \A d \in Deliveries : Obsolete(payload'[d])
        BY <2>1, <2>4 DEF DatesOK
    <2>6. \A v \in Writers : pos'[v] = "begun" => pos[v] = "begun"
        BY <1>2, <1>5
    <2> QED  BY <1>1, <2>1, <2>3, <2>5, <2>6 DEF DatesOK, Obsolete
<1>9. ASSUME ~ silent', row'.status # "pending"  PROVE Announced'
    <2>1. Enqueue(n) /\ payload' = [payload EXCEPT ![n] = snap[w]] /\ silent' = silent
        BY <1>4, <1>9
    <2>2. Announced
        BY <1>1, <1>9, <2>1 DEF CallbackInv
    <2>3. /\ payload'[n] = snap[w] /\ status'[n] # "none"
          /\ \A d \in Deliveries : d # n => payload'[d] = payload[d] /\ status'[d] = status[d]
        <3>1. status \in [Deliveries -> {"none", "pending", "delivered", "dead"}]
            BY <1>0 DEF WebhookInv, TypeOK
        <3> QED  BY <1>0, <2>1, <3>1 DEF CallbackTypeOK, Enqueue
    <2>4. CASE \E v \in Writers : pos[v] = "committed"
        <3>1. PICK v \in Writers : pos[v] = "committed"
            BY <2>4
        <3>2. v # w
            BY <1>1, <3>1
        <3> QED  BY <1>5, <3>1, <3>2 DEF Announced
    <2>5. CASE \E v \in Writers : pos[v] = "snapped" /\ snap[v] = row
        <3>1. PICK v \in Writers : pos[v] = "snapped" /\ snap[v] = row
            BY <2>5
        <3>2. CASE v = w
            BY <1>1, <2>3, <3>1, <3>2 DEF Announced
        <3>3. CASE v # w
            BY <1>1, <1>5, <3>1, <3>3 DEF Announced
        <3> QED  BY <3>2, <3>3
    <2>6. CASE \E d \in Deliveries : status[d] # "none" /\ payload[d] = row
        <3>1. PICK d \in Deliveries : status[d] # "none" /\ payload[d] = row
            BY <2>6
        <3>2. d # n
            BY <1>3, <3>1
        <3> QED  BY <1>1, <2>3, <3>1, <3>2 DEF Announced
    <2> QED  BY <2>2, <2>4, <2>5, <2>6 DEF Announced
<1>10. ASSUME NEW d \in Deliveries, Answered(d)'  PROVE seen'.at >= payload'[d].at
    <2>1. CASE UNCHANGED vars /\ payload' = payload
        BY <1>1, <1>10, <2>1, SameAnswers DEF CallbackInv
    <2>2. CASE Enqueue(n) /\ payload' = [payload EXCEPT ![n] = snap[w]]
        <3>1. status' = [status EXCEPT ![n] = "pending"] /\ answer' = answer /\ work' = work
            BY <2>2 DEF Enqueue
        <3>2. status \in [Deliveries -> {"none", "pending", "delivered", "dead"}] /\ WorkOK
            BY <1>0 DEF WebhookInv, TypeOK
        <3>3. d # n
            <4>1. status'[n] = "pending"
                BY <3>1, <3>2
            <4>2. ASSUME answer = "2xx", Current.id = n  PROVE FALSE
                BY <1>3, <3>2, <4>2, AtWork DEF WorkOK
            <4> QED  BY <1>10, <3>1, <4>1, <4>2 DEF Answered, Current
        <3>4. Answered(d) /\ payload'[d] = payload[d]
            BY <1>0, <1>10, <2>2, <3>1, <3>2, <3>3 DEF Answered, Current, CallbackTypeOK
        <3> QED  BY <1>1, <3>4 DEF CallbackInv
    <2> QED  BY <1>4, <2>1, <2>2
<1> QED  BY <1>7, <1>8, <1>9, <1>10 DEF CallbackInv

\* A step of the queue that is no crash keeps it: the writers go on, and what the
\* receiver has of an answered delivery is at least as new as its payload.
LEMMA QueueStepKeeps ==
    ASSUME CallbackInv, WebhookInv', writerVars' = writerVars, payload' = payload,
           overlap' = overlap, silent' = silent, seen' \in Payloads,
           \A d \in Deliveries : status[d] # "none" => status'[d] # "none",
           ~ overlap => Obsolete(seen'),
           \A d \in Deliveries : Answered(d)' => seen'.at >= payload[d].at
    PROVE  CallbackInv'
<1>1. row' = row /\ clock' = clock /\ pos' = pos /\ began' = began /\ snap' = snap
    BY DEF writerVars
<1>2. CallbackTypeOK'
    BY <1>1 DEF CallbackInv, CallbackTypeOK
<1>3. ~ overlap => DatesOK'
    BY <1>1 DEF CallbackInv, DatesOK, Obsolete
<1>4. ~ silent /\ row.status # "pending" => Announced'
    BY <1>1 DEF CallbackInv, Announced
<1> QED  BY <1>1, <1>2, <1>3, <1>4 DEF CallbackInv

\* A POST keeps it.
LEMMA ReceiveInv ==
    ASSUME CallbackInv, WebhookInv', Receive
    PROVE  CallbackInv'
<1>0. CallbackTypeOK /\ WorkOK
    BY DEF CallbackInv, WebhookInv
<1>1. /\ Post /\ work # << >> /\ status' = status /\ work' = work /\ Current' = Current
      /\ writerVars' = writerVars /\ payload' = payload /\ overlap' = overlap /\ silent' = silent
    BY DEF Receive, Post, Current
<1>2. PICK c \in Deliveries : c = Current.id
    BY <1>0, <1>1, AtWork
<1>3. payload[c] \in Payloads /\ seen \in Payloads /\ payload[c].at \in Nat /\ seen.at \in Nat
    BY <1>0 DEF CallbackTypeOK, Payloads
<1>4. \/ seen' = Newer(seen, payload[c])
      \/ answer' = "failed" /\ seen' = seen
    BY <1>2 DEF Receive
<1>5. seen' = seen \/ seen' = payload[c]
    BY <1>4 DEF Newer
<1>6. seen'.at >= seen.at
    <2>1. CASE seen' = seen
        BY <1>3, <2>1, SMT, Z3
    <2>2. CASE seen' = Newer(seen, payload[c])
        BY <1>3, <2>2, SMT, Z3 DEF Newer
    <2> QED  BY <1>4, <2>1, <2>2
<1>7. answer' = "2xx" => seen'.at >= payload[c].at
    <2>1. Newer(seen, payload[c]).at >= payload[c].at
        BY <1>3, SMT, Z3 DEF Newer
    <2> QED  BY <1>4, <2>1
<1>8. ASSUME NEW d \in Deliveries, Answered(d)'  PROVE seen'.at >= payload[d].at
    <2>1. CASE status[d] = "delivered"
        <3>1. seen.at >= payload[d].at
            BY <2>1 DEF CallbackInv, Answered
        <3>2. payload[d].at \in Nat /\ seen'.at \in Nat
            BY <1>0, <1>3, <1>5 DEF CallbackTypeOK, Payloads
        <3> QED  BY <1>3, <1>6, <3>1, <3>2, SMT, Z3
    <2>2. CASE answer' = "2xx" /\ d = c
        BY <1>7, <2>2
    <2> QED  BY <1>1, <1>2, <1>8, <2>1, <2>2 DEF Answered
<1>9. seen' \in Payloads
    BY <1>3, <1>5
<1>10. ~ overlap => Obsolete(seen')
    BY <1>5 DEF CallbackInv, DatesOK
<1> QED  BY <1>1, <1>8, <1>9, <1>10, QueueStepKeeps

\* The other steps of the queue keep it.
LEMMA DeliverInv ==
    ASSUME CallbackInv, WebhookInv', Deliver
    PROVE  CallbackInv'
<1>0. CallbackTypeOK /\ WorkOK /\ status \in [Deliveries -> {"none", "pending", "delivered", "dead"}]
    BY DEF CallbackInv, WebhookInv, TypeOK
<1>1. /\ writerVars' = writerVars /\ payload' = payload /\ seen' = seen
      /\ overlap' = overlap /\ silent' = silent
    BY DEF Deliver
<1>2. /\ \A d \in Deliveries : status[d] # "none" => status'[d] # "none"
      /\ \A d \in Deliveries : Answered(d)' => Answered(d)
    <2>1. CASE Tick
        <3>1. answer = "none" /\ answer' = "none" /\ status' = status
            BY <1>0, <2>1 DEF Tick, WorkOK
        <3> QED  BY <3>1 DEF Answered
    <2>2. CASE Tock
        BY <2>2 DEF Tock, Answered, Current
    <2>3. CASE RecordError
        BY <2>3 DEF RecordError, Done, Answered
    <2>4. CASE RecordSuccess
        BY <1>0, <2>4 DEF RecordSuccess, Done, Answered
    <2>5. CASE RecordFailure
        BY <1>0, <2>5 DEF RecordFailure, Done, Answered
    <2> QED  BY <2>1, <2>2, <2>3, <2>4, <2>5 DEF Deliver
<1>3. seen' \in Payloads /\ (~ overlap => Obsolete(seen'))
    BY <1>0, <1>1 DEF CallbackInv, CallbackTypeOK, DatesOK
<1>4. \A d \in Deliveries : Answered(d)' => seen'.at >= payload[d].at
    BY <1>1, <1>2 DEF CallbackInv
<1> QED  BY <1>1, <1>2, <1>3, <1>4, QueueStepKeeps

\* A crash keeps it.
LEMMA DieInv ==
    ASSUME CallbackInv, WebhookInv', Die
    PROVE  CallbackInv'
<1>0. CallbackTypeOK
    BY DEF CallbackInv
<1>1. /\ status' = status /\ answer' = "none"
      /\ snap' = [w \in Writers |-> Nothing]
      /\ silent' = (silent \/ \E w \in Writers : pos[w] \in {"committed", "snapped"})
      /\ row' = row /\ clock' = clock /\ began' = began /\ payload' = payload /\ seen' = seen
      /\ overlap' = overlap
    BY DEF Die, Crash
<1>2. /\ pos' \in [Writers -> {"ready", "begun", "committed", "snapped", "done"}]
      /\ \A w \in Writers : pos'[w] # "begun"
    BY SMT, Z3 DEF Die, Writers
<1>3. Nothing \in Payloads /\ Nothing.at = 0
    BY SMT, Z3 DEF Nothing, Payloads
<1>4. CallbackTypeOK'
    BY <1>0, <1>1, <1>2, <1>3 DEF CallbackTypeOK
<1>5. ASSUME ~ overlap'  PROVE DatesOK'
    <2>1. DatesOK
        BY <1>1, <1>5 DEF CallbackInv
    <2>2. Obsolete(Nothing)
        <3>1. row.at \in Nat /\ 0 < row.at
            BY <1>0, <2>1 DEF CallbackTypeOK, Payloads, DatesOK
        <3> QED  BY <1>3, <3>1, SMT, Z3 DEF Obsolete
    <2> QED  BY <1>1, <1>2, <2>1, <2>2 DEF DatesOK, Obsolete
<1>6. ASSUME ~ silent', row'.status # "pending"  PROVE Announced'
    BY <1>1, <1>6 DEF CallbackInv, Announced
<1>7. \A d \in Deliveries : Answered(d)' => seen'.at >= payload'[d].at
    BY <1>1 DEF CallbackInv, Answered
<1> QED  BY <1>4, <1>5, <1>6, <1>7 DEF CallbackInv

\* Every step keeps the invariant.
LEMMA CallbackInvNext == CallbackInv /\ [CallbackNext]_callbackVars => CallbackInv'
<1> SUFFICES ASSUME CallbackInv, [CallbackNext]_callbackVars  PROVE CallbackInv'
    OBVIOUS
<1>1. WebhookInv'
    BY CallbackStepIsQueueStep, InvNext DEF CallbackInv
<1>2. ASSUME /\ UNCHANGED vars /\ row' = row /\ clock' = clock /\ pos' = pos /\ began' = began /\ snap' = snap
             /\ payload' = payload /\ seen' = seen /\ overlap' = overlap /\ silent' = silent
      PROVE  CallbackInv'
    <2>1. CallbackTypeOK' /\ (~ overlap' => DatesOK')
        BY <1>2 DEF CallbackInv, CallbackTypeOK, DatesOK, Obsolete
    <2>2. status' = status /\ \A d : Answered(d)' <=> Answered(d)
        BY <1>2, SameAnswers
    <2>3. ~ silent' /\ row'.status # "pending" => Announced'
        BY <1>2, <2>2 DEF CallbackInv, Announced
    <2>4. \A d \in Deliveries : Answered(d)' => seen'.at >= payload'[d].at
        BY <1>2, <2>2 DEF CallbackInv
    <2> QED  BY <1>1, <2>1, <2>3, <2>4 DEF CallbackInv
<1>3. CASE UNCHANGED callbackVars
    BY <1>2, <1>3 DEF callbackVars, writerVars
<1>4. CASE NodeMines
    BY <1>2, <1>4 DEF NodeMines
<1>5. ASSUME NEW w \in Writers, Write(w)  PROVE CallbackInv'
    BY <1>1, <1>5, BeginTxInv, CommitTxInv, ReadRowInv, AnnounceInv DEF Write
<1>6. CASE Receive
    BY <1>1, <1>6, ReceiveInv
<1>7. CASE Deliver
    BY <1>1, <1>7, DeliverInv
<1>8. CASE Die
    BY <1>1, <1>8, DieInv
<1> QED  BY <1>3, <1>4, <1>5, <1>6, <1>7, <1>8 DEF CallbackNext

\* The inductive invariant of the callbacks.
THEOREM CallbackInvariant == CallbackSpec => []CallbackInv
BY CallbackInvInit, CallbackInvNext, PTL DEF CallbackSpec

\* The callbacks use the queue as the queue alone is used.
THEOREM CallbackUsesQueue == CallbackSpec => Spec
<1>1. CallbackInit => Init
    BY DEF CallbackInit
<1>2. [CallbackNext]_callbackVars => [Next]_vars
    BY CallbackStepIsQueueStep
<1> QED  BY <1>1, <1>2, PTL DEF CallbackSpec, Spec

\* However many deliveries there are and in whatever order they arrive, a receiver
\* that keeps the payload with the newest updated_at ends with what Get returns,
\* unless transactions overlapped or an announcement was lost.
THEOREM ReceiverEndsWithTheRow == CallbackSpec => []NewestIsLast
<1>1. CallbackInv => NewestIsLast
    <2> SUFFICES ASSUME CallbackInv, Settled, ~ overlap, ~ silent
                 PROVE  seen = row
        BY DEF NewestIsLast, Get
    <2>1. /\ row.status # "pending"
          /\ \A d \in Deliveries : status[d] # "none" => status[d] = "delivered"
        BY DEF Settled
    <2>2. \A w \in Writers : pos[w] \notin {"committed", "snapped"}
        BY SMT, Z3 DEF Settled, Writers
    <2>3. PICK d \in Deliveries : status[d] = "delivered" /\ payload[d] = row
        BY <2>1, <2>2 DEF CallbackInv, Announced
    <2>4. seen.at >= row.at
        BY <2>3 DEF CallbackInv, Answered
    <2>5. seen.at <= row.at /\ (seen.at = row.at => seen = row)
        BY DEF CallbackInv, DatesOK, Obsolete
    <2>6. seen.at \in Nat /\ row.at \in Nat
        BY DEF CallbackInv, CallbackTypeOK, Payloads
    <2>7. seen.at = row.at
        BY <2>4, <2>5, <2>6, SMT, Z3
    <2> QED  BY <2>5, <2>7
<1> QED  BY <1>1, CallbackInvariant, PTL

=============================================================================
