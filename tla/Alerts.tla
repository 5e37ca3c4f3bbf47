------------------------------- MODULE Alerts -------------------------------
(***************************************************************************)
(* The low-treasury alerts: the gas worker's tick and the head of its      *)
(* processApp (internal/gas/worker.go), the throttle and the fan-out to    *)
(* the transports (internal/alert), put together by buildNotifier          *)
(* (cmd/txmill/main.go).  The rest of processApp is the subject of         *)
(* Treasury; here it matters only when it panics.  Apps come into being    *)
(* one by one, each in one step, as Apps shows, with one of the policies   *)
(* that Create lets through.  Such a policy may have amounts that are not  *)
(* numbers: tick drops SetString's ok, and is left with nil pointers.      *)
(*                                                                         *)
(* Time is relative: age[p] is how long ago the throttle noted the alert   *)
(* of app p, and stays at Interval once it has got there.                  *)
(***************************************************************************)
EXTENDS Integers

CONSTANTS
    Apps,        \* the apps that may be created
    NoApp,       \* "no app"
    NaN,         \* the value of a NUMERIC that is not a number
    Policies,    \* their gas policies: the three amounts
    Transports,  \* how many transports are configured
    Reliable,    \* the one of them that does not fail for ever
    Interval,    \* the throttle's interval
    Timeout,     \* of the HTTP client of each transport
    MaxCrashes,  \* bound: restarts of the process, but for panics
    MaxDrains    \* bound: how often a funded treasury runs low again

\* What the database holds of a gas policy.
Amounts == Int \union {NaN}
GasPolicy == [min : Amounts, refill : Amounts, floor : Amounts]

ASSUME AlertsAssumption ==
    /\ NoApp \notin Apps \union GasPolicy
    /\ NaN \notin Int
    /\ Policies \in [Apps -> SUBSET GasPolicy]
    /\ Transports \in Nat /\ MaxCrashes \in Nat /\ MaxDrains \in Nat
    /\ Interval \in Nat \ {0} /\ Timeout \in Nat

VARIABLES
    policy,  \* policy[p]: the row of app p, NoApp before it is created
    low,     \* the apps whose treasury has less than treasury_min_balance
    crashes, drains,  \* how often the process may still die, and a treasury run low
    age,     \* age[p]: Throttled.sent, as the time since
    todo,    \* the apps of this tick that are not processed
    app,     \* the app in processApp, or NoApp
    turn,    \* the transport whose turn it is to send its alert, or 0
    spent,   \* how long its call has taken
    heard    \* history, heard[n][p]: time since transport n got an alert of p from this process

workerVars == <<age, todo, app, turn, spent>>
vars == <<policy, low, crashes, drains, workerVars, heard>>

Init ==
    /\ policy = [p \in Apps |-> NoApp]
    /\ low = Apps  \* a new treasury is empty
    /\ crashes = MaxCrashes /\ drains = MaxDrains
    /\ age = [p \in Apps |-> Interval]
    /\ todo = {} /\ app = NoApp /\ turn = 0 /\ spent = 0
    /\ heard = [n \in 1..Transports |-> [p \in Apps |-> Interval]]

-----------------------------------------------------------------------------

\* Create commits.
CreateApp(p) ==
    /\ policy[p] = NoApp
    /\ \E q \in Policies[p] : policy' = [policy EXCEPT ![p] = q]
    /\ UNCHANGED <<low, crashes, drains, workerVars, heard>>

Created == {p \in Apps : policy[p] # NoApp}

\* The worker's query; to the database NaN is greater than every number.
Positive(x) == x = NaN \/ x > 0
Managed == {p \in Created : Positive(policy[p].min) /\ Positive(policy[p].refill)}

Tick ==
    /\ todo = {} /\ app = NoApp
    /\ Managed # {}
    /\ todo' = Managed
    /\ UNCHANGED <<policy, low, crashes, drains, age, app, turn, spent, heard>>

\* The process starts with an empty throttle.
Restart ==
    /\ age' = [p \in Apps |-> Interval]
    /\ todo' = {} /\ app' = NoApp /\ turn' = 0 /\ spent' = 0
    /\ heard' = [n \in 1..Transports |-> [p \in Apps |-> Interval]]

\* Mutant: what is sent is not noted.
NotifyUnnoted(p) == turn' = 1 /\ UNCHANGED age

\* Throttled.Notify: an alert noted less than Interval ago is not sent again;
\* else it is noted, and sent.
Notify(p) ==
    \/ age[p] < Interval /\ UNCHANGED <<age, turn>>
    \/ age[p] >= Interval /\ age' = [age EXCEPT ![p] = 0] /\ turn' = 1

\* The app has a treasury minimum.
Watched(p) == p \in Managed /\ policy[p].floor # NaN /\ policy[p].floor > 0

\* processApp reads the treasury's balance and alerts the operator when it is
\* below the minimum, if there is one.  A minimum that is not a number is nil,
\* and the process panics.
CheckTreasury(p) ==
    /\ app = NoApp /\ p \in todo
    /\ \/ policy[p].floor = NaN /\ Restart
       \/ /\ policy[p].floor # NaN
          /\ app' = p /\ todo' = todo \ {p}
          /\ IF Watched(p) /\ p \in low /\ Transports > 0 THEN Notify(p) ELSE UNCHANGED <<age, turn>>
          /\ UNCHANGED <<spent, heard>>
    /\ UNCHANGED <<policy, low, crashes, drains>>

\* BalanceAt fails: the app is left for the next tick.
CheckFails(p) ==
    /\ app = NoApp /\ p \in todo
    /\ todo' = todo \ {p}
    /\ UNCHANGED <<policy, low, crashes, drains, age, app, turn, spent, heard>>

\* Mutant: the loop runs once too often.
NextTransportPast(got) ==
    /\ spent' = 0
    /\ turn' = IF turn <= Transports THEN turn + 1 ELSE 0

\* Mutant: an error of one transport ends the loop.
NextTransportStops(got) ==
    /\ spent' = 0
    /\ turn' = IF turn < Transports /\ got THEN turn + 1 ELSE 0

\* Multi.Notify goes on to the next transport whatever came of this one.
NextTransport(got) ==
    /\ spent' = 0
    /\ turn' = IF turn < Transports THEN turn + 1 ELSE 0

\* The call of one transport: the operator gets the alert (the answer may get
\* lost), or does not.
Call(got) ==
    /\ turn # 0
    /\ heard' = IF got THEN [heard EXCEPT ![turn][app] = 0] ELSE heard
    /\ NextTransport(got)
    /\ UNCHANGED <<policy, low, crashes, drains, age, todo, app>>

\* The rest of processApp.  It panics when it compares the balance of a signer
\* with a minimum that is not a number, but may end before it comes to that.
FinishApp ==
    /\ app # NoApp /\ turn = 0
    /\ \/ app' = NoApp /\ UNCHANGED <<age, todo, turn, spent, heard>>
       \/ policy[app].min = NaN /\ Restart
    /\ UNCHANGED <<policy, low, crashes, drains>>

\* A call may take time, up to its timeout.
Tock ==
    /\ turn # 0 => spent < Timeout
    /\ spent' = IF turn # 0 THEN spent + 1 ELSE 0
    /\ age' = [p \in Apps |-> IF age[p] < Interval THEN age[p] + 1 ELSE Interval]
    /\ heard' = [n \in 1..Transports |-> [p \in Apps |->
                   IF heard[n][p] < Interval THEN heard[n][p] + 1 ELSE Interval]]
    /\ UNCHANGED <<policy, low, crashes, drains, todo, app, turn>>

\* The operator funds a treasury, and top-ups spend it.
Fund(p) ==
    /\ p \in Created \intersect low
    /\ low' = low \ {p}
    /\ UNCHANGED <<policy, crashes, drains, workerVars, heard>>

Drain(p) ==
    /\ p \in Created \ low /\ drains > 0
    /\ low' = low \union {p} /\ drains' = drains - 1
    /\ UNCHANGED <<policy, crashes, workerVars, heard>>

\* The process dies and starts again.
Crash ==
    /\ crashes > 0 /\ crashes' = crashes - 1
    /\ Restart
    /\ UNCHANGED <<policy, low, drains>>

Worker ==
    \/ Tick
    \/ \E p \in todo : CheckTreasury(p) \/ CheckFails(p)
    \/ \E got \in BOOLEAN : Call(got)
    \/ FinishApp

Next ==
    \/ \E p \in Apps : CreateApp(p) \/ Fund(p) \/ Drain(p)
    \/ Worker
    \/ Tock
    \/ Crash

Spec == Init /\ [][Next]_vars

\* The worker's ticker fires and time passes; the node does not fail for ever to
\* answer for an app when its alert is due, nor the reliable transport to take it.
FairSpec ==
    /\ Spec
    /\ WF_vars(Worker) /\ WF_vars(Tock)
    /\ \A p \in Apps : /\ SF_vars(CheckTreasury(p) /\ app' = p /\ turn' = 1)
                       /\ SF_vars(app = p /\ turn = Reliable /\ Call(TRUE))

-----------------------------------------------------------------------------
(* Properties *)

\* The variables hold values of the expected shape.
TypeOK ==
    /\ policy \in [Apps -> GasPolicy \union {NoApp}]
    /\ low \subseteq Apps /\ todo \subseteq Created
    /\ age \in [Apps -> 0..Interval]
    /\ app \in Apps \union {NoApp}
    /\ turn \in 0..Transports /\ (turn # 0 => app # NoApp)
    /\ spent \in 0..Timeout
    /\ heard \in [1..Transports -> [Apps -> 0..Interval]]

\* Within the life of a process the operator does not get an alert about an app
\* twice within the throttle's interval over the same transport, give or take
\* the time that the calls up to this transport may take, and although a
\* transport may fail every time.
AlertsSpaced ==
    [][\A n \in 1..Transports, p \in Apps :
          heard'[n][p] < heard[n][p] => heard[n][p] + n * Timeout >= Interval]_vars

\* The worker selects an app that makes it panic.
Unreadable == \E p \in Managed : NaN \in {policy[p].min, policy[p].floor}

\* As long as the treasury of an app with a complete policy stays low the
\* operator hears of it again and again, even if all transports but one always
\* fail, the process restarts, and other apps have alerts too; unless an app is
\* created, be it another one, whose amounts are not numbers.
LowIsAlerted ==
    \A p \in Apps :
        (Watched(p) /\ p \in low) ~> (p \notin low \/ (\E n \in 1..Transports : heard[n][p] = 0) \/ Unreadable)

=============================================================================
