---------------------------- MODULE AlertsProofs ----------------------------
(***************************************************************************)
(* Alerts are spaced, for any apps, transports, interval and timeout.      *)
(***************************************************************************)
EXTENDS Alerts, TLAPS

\* The longest time that n calls in a row take.
Delay(n) == n * Timeout

\* Delay without multiplication.
LEMMA DelayIsNat == \A n \in Nat : Delay(n) \in Nat
BY AlertsAssumption DEF Delay

\* One more call takes one more timeout.
LEMMA DelayStep == \A n \in Nat \ {0} : Delay(n) = Delay(n - 1) + Timeout
<1> SUFFICES ASSUME NEW n \in Nat \ {0} PROVE n * Timeout = (n - 1) * Timeout + Timeout
    BY DEF Delay
<1>1. Timeout \in Nat
    BY AlertsAssumption
<1> QED  BY <1>1

\* The throttle's age of an alert is never more than the time since a transport
\* delivered it and the calls up to this transport; while an alert is sent, its
\* age is the time that the calls so far took, and the transports that are still
\* to be called delivered it last about an interval ago.
SpacedInv ==
    /\ TypeOK
    /\ turn # 0 => age[app] <= Delay(turn - 1) + spent
    /\ \A n \in 1..Transports, p \in Apps : age[p] <= heard[n][p] + Delay(n)
    /\ \A n \in 1..Transports : turn # 0 /\ n >= turn => heard[n][app] + Delay(n) >= Interval

\* Initially every alert is an interval old.
LEMMA SpacedInit == Init => SpacedInv
<1> SUFFICES ASSUME Init PROVE SpacedInv
    OBVIOUS
<1>1. TypeOK
    BY AlertsAssumption DEF Init, TypeOK, Created
<1>2. ASSUME NEW n \in 1..Transports, NEW p \in Apps PROVE age[p] <= heard[n][p] + Delay(n)
    <2>1. age[p] = Interval /\ heard[n][p] = Interval
        BY DEF Init
    <2>2. Delay(n) \in Nat /\ Interval \in Nat
        BY DelayIsNat, AlertsAssumption
    <2> QED  BY <2>1, <2>2
<1> QED  BY <1>1, <1>2 DEF SpacedInv, Init

\* TypeOK is inductive, given where the loop over the transports stands.
LEMMA TypeStep == SpacedInv /\ [Next]_vars => TypeOK'
<1> SUFFICES ASSUME SpacedInv, [Next]_vars PROVE TypeOK'
    OBVIOUS
<1> USE AlertsAssumption
<1>0. TypeOK
    BY DEF SpacedInv
<1>1. ASSUME NEW p \in Apps, CreateApp(p) PROVE TypeOK'
    BY <1>0, <1>1, SMTT(60), Z3T(60) DEF TypeOK, CreateApp, Created, workerVars
<1>2. ASSUME NEW p \in Apps, Fund(p) \/ Drain(p) PROVE TypeOK'
    BY <1>0, <1>2, SMTT(60), Z3T(60) DEF TypeOK, Fund, Drain, Created, workerVars
<1>3. CASE Tick
    BY <1>0, <1>3 DEF TypeOK, Tick, Managed, Created
<1>r. ASSUME Restart, UNCHANGED <<policy, low>> PROVE TypeOK'
    BY <1>0, <1>r DEF TypeOK, Restart, Created
<1>4. ASSUME NEW p \in todo, CheckTreasury(p) PROVE TypeOK'
    <2>1. CASE Restart
        BY <1>4, <1>r, <2>1 DEF CheckTreasury
    <2>2. CASE ~ Restart
        <3>1. /\ p \in Created /\ app' = p /\ todo' = todo \ {p} /\ spent' = spent /\ heard' = heard
              /\ Transports > 0 \/ turn' = turn
            BY <1>0, <1>4, <2>2 DEF TypeOK, CheckTreasury
        <3>2. age' \in {age, [age EXCEPT ![p] = 0]} /\ turn' \in {turn, 1} /\ UNCHANGED <<policy, low>>
            BY <1>4, <2>2 DEF CheckTreasury, Notify
        <3>3. age' \in [Apps -> 0..Interval]
            BY <1>0, <3>1, <3>2 DEF TypeOK, Created
        <3> QED  BY <1>0, <3>1, <3>2, <3>3 DEF TypeOK, Created
    <2> QED  BY <2>1, <2>2
<1>5. ASSUME NEW p \in todo, CheckFails(p) PROVE TypeOK'
    BY <1>0, <1>5 DEF TypeOK, CheckFails, Created
<1>6. ASSUME NEW got \in BOOLEAN, Call(got) PROVE TypeOK'
    <2>1. app \in Apps /\ turn \in 1..Transports /\ UNCHANGED <<policy, low, age, todo, app>>
        BY <1>0, <1>6 DEF TypeOK, Call
    <2>2. spent' = 0 /\ turn' \in 0..Transports
        BY <1>6, <2>1 DEF Call, NextTransport
    <2>3. heard' \in [1..Transports -> [Apps -> 0..Interval]]
        BY <1>0, <1>6, <2>1 DEF TypeOK, Call
    <2> QED  BY <1>0, <2>1, <2>2, <2>3 DEF TypeOK, Created
<1>f. CASE FinishApp
    <2>1. CASE Restart
        BY <1>f, <1>r, <2>1 DEF FinishApp
    <2>2. CASE ~ Restart
        BY <1>0, <1>f, <2>2 DEF TypeOK, FinishApp, Created
    <2> QED  BY <2>1, <2>2
<1>7. CASE Tock
    <2>1. spent' \in 0..Timeout
        BY <1>0, <1>7 DEF TypeOK, Tock
    <2>2. age' \in [Apps -> 0..Interval]
        BY <1>0, <1>7 DEF TypeOK, Tock
    <2>3. heard' \in [1..Transports -> [Apps -> 0..Interval]]
        BY <1>0, <1>7 DEF TypeOK, Tock
    <2> QED  BY <1>0, <1>7, <2>1, <2>2, <2>3 DEF TypeOK, Tock, Created
<1>8. CASE Crash
    BY <1>8, <1>r DEF Crash
<1>9. CASE UNCHANGED vars
    BY <1>0, <1>9 DEF TypeOK, vars, workerVars, Created
<1> QED  BY <1>1, <1>2, <1>3, <1>4, <1>5, <1>6, <1>f, <1>7, <1>8, <1>9 DEF Next, Worker

\* The terms of the invariant are numbers.
LEMMA Numbers ==
    TypeOK => \A n \in 1..Transports, p \in Apps :
                 age[p] \in 0..Interval /\ heard[n][p] \in 0..Interval /\ Delay(n) \in Nat
<1> SUFFICES ASSUME TypeOK, NEW n \in 1..Transports, NEW p \in Apps
             PROVE  age[p] \in 0..Interval /\ heard[n][p] \in 0..Interval /\ Delay(n) \in Nat
    OBVIOUS
<1>1. n \in Nat
    BY AlertsAssumption
<1> QED  BY <1>1, DelayIsNat, Zenon DEF TypeOK

\* Every step keeps the invariant.
LEMMA SpacedStep == SpacedInv /\ [Next]_vars => SpacedInv'
<1> SUFFICES ASSUME SpacedInv, [Next]_vars PROVE SpacedInv'
    OBVIOUS
<1> USE AlertsAssumption
<1>0. TypeOK /\ TypeOK'
    BY TypeStep DEF SpacedInv
<1>n. \A n \in 1..Transports, p \in Apps :
         /\ age[p] \in 0..Interval /\ heard[n][p] \in 0..Interval /\ Delay(n) \in Nat
         /\ age[p] <= heard[n][p] + Delay(n)
    BY <1>0, Numbers DEF SpacedInv
<1>t. turn # 0 => app \in Apps /\ turn \in 1..Transports
    BY <1>0 DEF TypeOK
<1>1. ASSUME UNCHANGED <<age, turn, spent, heard>>, turn # 0 => app' = app PROVE SpacedInv'
    BY <1>0, <1>1 DEF SpacedInv
<1>r. ASSUME Restart PROVE SpacedInv'
    BY <1>0, <1>r, DelayIsNat DEF Restart, SpacedInv
<1>2. ASSUME NEW p \in todo, CheckTreasury(p), ~ Restart, turn' # turn PROVE SpacedInv'
    <2>1. /\ p \in Apps /\ age[p] >= Interval /\ age' = [age EXCEPT ![p] = 0] /\ Transports > 0
          /\ app' = p /\ turn' = 1 /\ spent' \in Nat /\ heard' = heard
        BY <1>0, <1>2 DEF CheckTreasury, Notify, TypeOK, Created
    <2>2. ASSUME NEW n \in 1..Transports, NEW q \in Apps PROVE age'[q] <= heard[n][q] + Delay(n)
        <3>1. age'[q] \in {age[q], 0}
            BY <1>0, <2>1 DEF TypeOK
        <3> QED  BY <1>n, <3>1
    <2>3. ASSUME NEW n \in 1..Transports PROVE heard[n][p] + Delay(n) >= Interval
        BY <1>n, <2>1
    <2>4. age'[p] = 0 /\ Delay(0) \in Nat
        BY <1>0, <2>1, DelayIsNat DEF TypeOK
    <2> QED  BY <1>0, <2>1, <2>2, <2>3, <2>4 DEF SpacedInv, TypeOK
<1>3. ASSUME NEW got \in BOOLEAN, Call(got) PROVE SpacedInv'
    <2>1. /\ app \in Apps /\ turn \in 1..Transports /\ age' = age /\ spent \in 0..Timeout /\ Timeout \in Nat
          /\ heard' \in {heard, [heard EXCEPT ![turn][app] = 0]}
          /\ app' = app /\ spent' = 0
          /\ turn' # 0 => turn' = turn + 1 /\ turn' <= Transports
        BY <1>0, <1>3, <1>t DEF Call, NextTransport, SpacedInv, TypeOK
    <2>2. Delay(turn) = Delay(turn - 1) + Timeout /\ Delay(turn) \in Nat /\ Delay(turn - 1) \in Nat
        <3>1. turn \in Nat \ {0} /\ turn - 1 \in Nat
            BY <2>1
        <3> QED  BY <3>1, DelayIsNat, DelayStep
    <2>3. age[app] <= Delay(turn)
        <3>1. age[app] \in Nat /\ age[app] <= Delay(turn - 1) + spent
            BY <1>n, <2>1 DEF SpacedInv
        <3> QED  BY <2>1, <2>2, <3>1
    <2>4. /\ heard' = heard \/ heard'[turn][app] = 0
          /\ \A n \in 1..Transports, p \in Apps : n # turn \/ p # app => heard'[n][p] = heard[n][p]
        <3>1. CASE heard' = heard
            BY <3>1
        <3>2. CASE heard' = [heard EXCEPT ![turn][app] = 0]
            <4>1. heard \in [1..Transports -> [Apps -> 0..Interval]]
                BY <1>0 DEF TypeOK
            <4> QED  BY <2>1, <3>2, <4>1
        <3> QED  BY <2>1, <3>1, <3>2
    <2>5. ASSUME NEW n \in 1..Transports, NEW p \in Apps PROVE age[p] <= heard'[n][p] + Delay(n)
        <3>1. CASE heard'[n][p] = heard[n][p]
            BY <1>n, <3>1
        <3>2. CASE n = turn /\ p = app /\ heard'[n][p] = 0
            BY <2>2, <2>3, <3>2
        <3> QED  BY <2>4, <3>1, <3>2
    <2>6. ASSUME NEW n \in 1..Transports, turn' # 0, n >= turn'
          PROVE  heard'[n][app'] + Delay(n) >= Interval
        <3>1. app' = app /\ n # turn /\ n >= turn
            BY <2>1, <2>6
        <3> QED  BY <2>1, <2>4, <3>1 DEF SpacedInv
    <2>7. ASSUME turn' # 0 PROVE turn' \in 1..Transports /\ age'[app'] <= Delay(turn' - 1) + spent'
        <3>1. app' = app /\ turn' - 1 = turn /\ turn' \in 1..Transports
            BY <2>1, <2>7
        <3> QED  BY <1>n, <2>1, <2>2, <2>3, <3>1
    <2> QED  BY <1>0, <2>1, <2>5, <2>6, <2>7 DEF SpacedInv
<1>4. CASE Tock
    <2>1. /\ UNCHANGED <<app, turn>>
          /\ turn # 0 => spent' = spent + 1
          /\ \A p \in Apps : age'[p] = IF age[p] < Interval THEN age[p] + 1 ELSE Interval
          /\ \A n \in 1..Transports, p \in Apps :
               heard'[n][p] = IF heard[n][p] < Interval THEN heard[n][p] + 1 ELSE Interval
        BY <1>4 DEF Tock
    <2>2. ASSUME NEW n \in 1..Transports, NEW p \in Apps PROVE age'[p] <= heard'[n][p] + Delay(n)
        BY <1>n, <2>1
    <2>3. ASSUME turn # 0 PROVE age'[app] <= Delay(turn - 1) + spent'
        <3>1. app \in Apps /\ turn \in 1..Transports /\ turn - 1 \in Nat /\ spent \in Nat
            BY <1>0, <1>t, <2>3 DEF TypeOK
        <3>2. age[app] \in 0..Interval /\ Delay(turn - 1) \in Nat /\ age[app] <= Delay(turn - 1) + spent
            BY <1>n, <2>3, <3>1, DelayIsNat DEF SpacedInv
        <3> QED  BY <2>1, <2>3, <3>1, <3>2
    <2>4. ASSUME NEW n \in 1..Transports, turn # 0, n >= turn
          PROVE  heard'[n][app] + Delay(n) >= Interval
        <3>1. app \in Apps /\ heard[n][app] + Delay(n) >= Interval
            BY <1>0, <2>4 DEF SpacedInv, TypeOK
        <3> QED  BY <1>n, <2>1, <2>4, <3>1
    <2> QED  BY <1>0, <2>1, <2>2, <2>3, <2>4 DEF SpacedInv
<1>5. CASE Crash
    BY <1>5, <1>r DEF Crash
<1>6. ASSUME \/ \E p \in Apps : CreateApp(p) \/ Fund(p) \/ Drain(p)
             \/ Tick
             \/ \E p \in todo : CheckFails(p)
             \/ UNCHANGED vars
      PROVE  UNCHANGED <<age, app, turn, spent, heard>>
    BY <1>6 DEF CreateApp, Fund, Drain, Tick, CheckFails, vars, workerVars
<1>7. ASSUME NEW p \in todo, CheckTreasury(p), ~ Restart, turn' = turn
      PROVE  UNCHANGED <<age, turn, spent, heard>> /\ turn = 0
    BY <1>0, <1>7 DEF CheckTreasury, Notify, TypeOK, Created
<1>8. CASE FinishApp
    <2>1. Restart \/ (UNCHANGED <<age, turn, spent, heard>> /\ turn = 0)
        BY <1>8 DEF FinishApp
    <2> QED  BY <1>1, <1>r, <2>1
<1> QED  BY <1>1, <1>2, <1>3, <1>4, <1>5, <1>6, <1>7, <1>8, <1>r DEF Next, Worker

\* Type correctness: the loop over the transports ends with the last of them.
THEOREM AlertsTypeCorrect == Spec => []TypeOK
<1>1. SpacedInv => TypeOK
    BY DEF SpacedInv
<1> QED  BY <1>1, SpacedInit, SpacedStep, PTL DEF Spec

\* No transport brings two alerts of an app closer together than the throttle's
\* interval less the time its calls may take, whatever fails and however many
\* apps and transports there are.
THEOREM AlertsAreSpaced == Spec => AlertsSpaced
<1>1. ASSUME SpacedInv, [Next]_vars
      PROVE  [\A n \in 1..Transports, p \in Apps :
                 heard'[n][p] < heard[n][p] => heard[n][p] + n * Timeout >= Interval]_vars
    <2> SUFFICES ASSUME NEW n \in 1..Transports, NEW p \in Apps, heard'[n][p] < heard[n][p]
                 PROVE  heard[n][p] + Delay(n) >= Interval
        BY DEF Delay
    <2>t. TypeOK
        BY <1>1 DEF SpacedInv
    <2>0. TypeOK /\ heard[n][p] \in 0..Interval
        BY <2>t, Zenon DEF TypeOK
    <2>1. heard' # heard
        BY <2>0, AlertsAssumption
    <2>2. ~ Restart
        BY <2>0, AlertsAssumption DEF Restart
    <2>3. ~ Tock
        BY <2>0, AlertsAssumption DEF Tock
    <2>4. PICK got \in BOOLEAN : Call(got)
        BY <1>1, <2>1, <2>2, <2>3
        DEF Next, Worker, CreateApp, Fund, Drain, Tick, CheckTreasury, CheckFails, FinishApp, Crash, vars
    <2>5. n = turn /\ p = app /\ turn # 0
        BY <2>0, <2>4 DEF Call, TypeOK
    <2> QED  BY <1>1, <2>5 DEF SpacedInv
<1> QED  BY <1>1, SpacedInit, SpacedStep, PTL DEF Spec, AlertsSpaced

=============================================================================
