----------------------------- MODULE AppsProofs -----------------------------
(***************************************************************************)
(* Creating apps, for any number of concurrent calls, pool sizes, inputs   *)
(* and faults: whatever fails, rows have keys and answers are true.        *)
(***************************************************************************)
EXTENDS Apps, FiniteSetTheorems, TLAPS

USE Zenon

-----------------------------------------------------------------------------
(* The inductive invariant *)

Positions == {"start", "temp", "rename", "insert", "copy", "commit", "answer", "done", "dead"}

\* The part of AppsTypeOK about the shape of the variables.
Shape ==
    /\ file \in [KeyAddrs -> Content] /\ temp \in [KeyAddrs -> Content]
    /\ apps \in [Calls -> AppRows \union {NoApp}]
    /\ signers \subseteq [address : KeyAddrs, app : Calls]
    /\ at \in [Calls -> Positions]
    /\ input \in [Calls -> Inputs \union {NoApp}]
    /\ made \in [Calls -> Seq(KeyAddrs)]
    /\ answer \in [Calls -> {"none", "201", "400"}]
    /\ ctxDone \subseteq Calls
    /\ faults \in 0..MaxFaults

\* The keys of a call are numbered, and their files complete.
Named(c) == \A i \in 1..Len(made[c]) : made[c][i] = <<c, i - 1>> /\ Loadable(<<c, i - 1>>)

\* A call has all its keys.
Full(c) == input[c] \in Inputs /\ Valid(input[c]) /\ Len(made[c]) = input[c].size + 1

\* What holds where Create stands, and of the rows once they are there.
Progress(c) ==
    /\ at[c] = "start" => Len(made[c]) = 0
    /\ at[c] \in {"temp", "rename"} =>
         input[c] \in Inputs /\ Valid(input[c]) /\ Len(made[c]) <= input[c].size
    /\ at[c] = "rename" => temp[NextKey(c)] = "whole"
    /\ at[c] \in {"insert", "copy", "commit"} => Full(c)
    /\ at[c] \in {"copy", "commit"} => StorableInput(input[c])
    /\ at[c] = "answer" \/ answer[c] = "201" => c \in Registered
    /\ c \in Registered => /\ at[c] \in {"answer", "done", "dead"}
                           /\ Full(c) /\ StorableInput(input[c])
                           /\ apps[c] = AppRow(c)

AppsInv ==
    /\ AppsTypeOK
    /\ \A a \in KeyAddrs : file[a] # "torn"
    /\ \A c \in Calls : Named(c) /\ Progress(c)
    /\ signers = UNION {SignerRows(c) : c \in Registered}

\* Nothing has happened yet.
LEMMA AppsInvInit == AppsInit => AppsInv
<1> SUFFICES ASSUME AppsInit PROVE AppsInv
    OBVIOUS
<1> USE AppsAssumption
<1>1. AppsTypeOK
    BY SMT, Z3 DEF AppsInit, KeyInit, AppsTypeOK, Content
<1>2. \A a \in KeyAddrs : file[a] # "torn"
    BY DEF AppsInit, KeyInit
<1>3. Registered = {}
    BY DEF AppsInit, Registered
<1>4. ASSUME NEW c \in Calls PROVE Named(c) /\ Progress(c)
    <2>1. at[c] = "start" /\ answer[c] = "none" /\ made[c] = << >>
        BY DEF AppsInit
    <2> QED  BY <1>3, <2>1, SMT, Z3 DEF Named, Progress
<1>5. signers = UNION {SignerRows(c) : c \in Registered}
    BY <1>3 DEF AppsInit
<1> QED  BY <1>1, <1>2, <1>4, <1>5 DEF AppsInv

-----------------------------------------------------------------------------
(* What a step leaves alone *)

\* The variables of one call.
callVars(c) == <<apps[c], at[c], input[c], made[c], answer[c]>>

\* A call that a step does not touch keeps its part of the invariant.
LEMMA OtherCalls ==
    ASSUME AppsTypeOK, NEW c \in Calls, Named(c), Progress(c), UNCHANGED callVars(c),
           \A a \in KeyAddrs : Loadable(a) => Loadable(a)',
           at[c] = "rename" => temp'[NextKey(c)] = temp[NextKey(c)]
    PROVE  Named(c)' /\ Progress(c)'
<1>1. UNCHANGED <<apps[c], at[c], input[c], made[c], answer[c]>>
    BY DEF callVars
<1>2. Named(c)'
    <2> SUFFICES ASSUME NEW i \in 1..Len(made[c]) PROVE made[c][i] = <<c, i - 1>> /\ Loadable(<<c, i - 1>>)'
        BY <1>1 DEF Named
    <2>1. made[c] \in Seq(KeyAddrs) /\ made[c][i] = <<c, i - 1>> /\ Loadable(<<c, i - 1>>)
        BY Zenon DEF AppsTypeOK, Named
    <2>2. <<c, i - 1>> \in KeyAddrs
        BY <2>1, SMT, Z3
    <2> QED  BY <2>1, <2>2
<1>3. (c \in Registered)' <=> c \in Registered
    BY <1>1 DEF Registered
<1>4. Progress(c)'
    BY <1>1, <1>3 DEF Progress, Full, AppRow, NextKey
<1> QED  BY <1>2, <1>4

\* A call's own key numbers lie within its pool, and belong to no other call.
LEMMA OwnKey ==
    ASSUME AppsTypeOK, NEW c \in Calls, Progress(c), at[c] \in {"temp", "rename"}
    PROVE  /\ NextKey(c) \in KeyAddrs
           /\ \A d \in Calls \ {c} : NextKey(d) # NextKey(c)
<1>1. Len(made[c]) \in Nat
    BY SMT, Z3 DEF AppsTypeOK
<1>2. input[c].size \in MinPoolSize..MaxPoolSize /\ Len(made[c]) <= input[c].size
    BY DEF Progress, Valid
<1>3. Len(made[c]) \in 0..MaxPoolSize
    BY <1>1, <1>2, AppsAssumption, SMT, Z3
<1> QED  BY <1>3, AppsAssumption DEF NextKey

-----------------------------------------------------------------------------
(* Every step keeps the invariant *)

\* A position change keeps the functions of AppsTypeOK that it updates.
LEMMA MoveTypes ==
    ASSUME AppsTypeOK, NEW c \in Calls, NEW from, NEW to \in Positions, Move(c, from, to)
    PROVE  /\ at[c] = from /\ at'[c] = to /\ \A d \in Calls \ {c} : at'[d] = at[d]
           /\ at' \in [Calls -> Positions]
BY DEF AppsTypeOK, Move, Positions

\* An error path ends with an answer.
LEMMA RefuseTypes ==
    ASSUME AppsTypeOK, NEW c \in Calls, NEW from, Refuse(c, from)
    PROVE  /\ at[c] = from /\ at'[c] = "done" /\ answer'[c] = "400"
           /\ \A d \in Calls \ {c} : at'[d] = at[d] /\ answer'[d] = answer[d]
           /\ at' \in [Calls -> Positions]
           /\ answer' \in [Calls -> {"none", "201", "400"}]
<1>1. Move(c, from, "done") /\ answer' = [answer EXCEPT ![c] = "400"]
    BY DEF Refuse
<1>2. answer \in [Calls -> {"none", "201", "400"}]
    BY DEF AppsTypeOK
<1> QED  BY <1>1, <1>2, MoveTypes DEF Positions

\* A fault strikes, or not.
LEMMA FaultTypes ==
    ASSUME AppsTypeOK, NEW c \in Calls, Strike \/ Fails(c) \/ UNCHANGED faults
    PROVE  faults' \in 0..MaxFaults
BY AppsAssumption, SMT, Z3 DEF AppsTypeOK, Strike, Fails

\* The rows of signers stay those of the apps while neither changes.
LEMMA RowsStay ==
    ASSUME AppsInv, UNCHANGED <<apps, signers>>, \A c \in Registered : made'[c] = made[c]
    PROVE  signers' = UNION {SignerRows(c)' : c \in Registered'}
<1>1. Registered' = Registered
    BY DEF Registered
<1>2. \A c \in Registered : SignerRows(c)' = SignerRows(c)
    BY DEF SignerRows
<1> QED  BY <1>1, <1>2 DEF AppsInv

\* A step of one call: what is left to show of it.
LEMMA OneCall ==
    ASSUME AppsInv, NEW c \in Calls,
           \A d \in Calls \ {c} : /\ UNCHANGED callVars(d)
                                  /\ at[d] = "rename" => temp'[NextKey(d)] = temp[NextKey(d)],
           \A a \in KeyAddrs : Loadable(a) => Loadable(a)',
           Shape', \A a \in KeyAddrs : file'[a] # "torn",
           at'[c] \notin {"start", "done", "dead"} => input'[c] # NoApp,
           at'[c] = "done" <=> answer'[c] # "none",
           Len(made'[c]) <= MaxPoolSize + 1,
           Named(c)', Progress(c)',
           signers' = UNION {SignerRows(d)' : d \in Registered'}
    PROVE  AppsInv'
<1>0. AppsTypeOK
    BY DEF AppsInv
<1>1. \A d \in Calls \ {c} : Named(d)' /\ Progress(d)'
    BY <1>0, OtherCalls DEF AppsInv
<1>2. \A d \in Calls : /\ at'[d] \notin {"start", "done", "dead"} => input'[d] # NoApp
                       /\ at'[d] = "done" <=> answer'[d] # "none"
                       /\ Len(made'[d]) <= MaxPoolSize + 1
    BY <1>0, ZenonT(60), SMT, Z3 DEF AppsTypeOK, callVars
<1>3. AppsTypeOK'
    BY <1>2 DEF AppsTypeOK, Shape, Positions
<1> QED  BY <1>1, <1>3 DEF AppsInv

\* Begin takes a valid body, or answers 400.
LEMMA BeginStep ==
    ASSUME AppsInv, NEW c \in Calls, NEW in \in Inputs, Begin(c, in)
    PROVE  AppsInv'
<1> USE AppsAssumption
<1>0. AppsTypeOK /\ Named(c) /\ Progress(c)
    BY DEF AppsInv
<1>1. UNCHANGED <<file, temp, apps, signers, made, ctxDone, faults>>
    BY DEF Begin, keyVars
<1>2. /\ at[c] = "start" /\ at' \in [Calls -> Positions]
      /\ input' \in [Calls -> Inputs \union {NoApp}] /\ answer' \in [Calls -> {"none", "201", "400"}]
      /\ \A d \in Calls \ {c} : at'[d] = at[d] /\ input'[d] = input[d] /\ answer'[d] = answer[d]
      /\ \/ at'[c] = "temp" /\ input'[c] = in /\ Valid(in) /\ answer'[c] = answer[c]
         \/ at'[c] = "done" /\ answer'[c] = "400" /\ input' = input
    <2>1. CASE Valid(in) /\ Move(c, "start", "temp") /\ input' = [input EXCEPT ![c] = in] /\ UNCHANGED answer
        BY <1>0, <2>1, MoveTypes, SMT, Z3 DEF AppsTypeOK, Positions
    <2>2. CASE Refuse(c, "start") /\ UNCHANGED input
        BY <1>0, <2>2, RefuseTypes DEF AppsTypeOK
    <2> QED  BY <2>1, <2>2 DEF Begin
<1>3. Shape'
    BY <1>0, <1>1, <1>2 DEF Shape, AppsTypeOK
<1>4. c \notin Registered /\ Registered' = Registered /\ answer[c] = "none"
    BY <1>0, <1>1, <1>2 DEF Progress, Registered, AppsTypeOK
<1>5. Named(c)'
    BY <1>0, <1>1 DEF Named, Loadable
<1>6. Progress(c)'
    <2>1. Len(made[c]) = 0
        BY <1>0, <1>2 DEF Progress
    <2>2. Valid(in) => in.size \in Nat
        BY DEF Valid
    <2> QED  BY <1>1, <1>2, <1>4, <2>1, <2>2, SMT, Z3 DEF Progress
<1>7. signers' = UNION {SignerRows(d)' : d \in Registered'}
    BY <1>1, RowsStay
<1>8. \A a \in KeyAddrs : file'[a] # "torn" /\ (Loadable(a) => Loadable(a)')
    BY <1>1 DEF AppsInv, Loadable
<1>9. Len(made'[c]) <= MaxPoolSize + 1 /\ (at'[c] \notin {"start", "done", "dead"} => input'[c] # NoApp)
    BY <1>0, <1>1, <1>2 DEF AppsTypeOK
<1>10. \A d \in Calls \ {c} : UNCHANGED callVars(d) /\ temp'[NextKey(d)] = temp[NextKey(d)]
    BY <1>1, <1>2 DEF callVars
<1> QED  BY <1>2, <1>3, <1>4, <1>5, <1>6, <1>7, <1>8, <1>9, <1>10, OneCall

\* A step that changes no more than the position and the answer of a call.
LEMMA PlainStep ==
    ASSUME AppsInv, NEW c \in Calls,
           UNCHANGED <<file, temp, apps, signers, input, made>>,
           ctxDone' \subseteq Calls, faults' \in 0..MaxFaults,
           at' \in [Calls -> Positions], answer' \in [Calls -> {"none", "201", "400"}],
           \A d \in Calls \ {c} : at'[d] = at[d] /\ answer'[d] = answer[d],
           at'[c] \notin {"start", "done", "dead"} => input[c] # NoApp,
           at'[c] = "done" <=> answer'[c] # "none",
           Progress(c)'
    PROVE  AppsInv'
<1>0. AppsTypeOK /\ Named(c)
    BY DEF AppsInv
<1>1. Shape'
    BY <1>0 DEF Shape, AppsTypeOK
<1>2. Named(c)'
    BY <1>0 DEF Named, Loadable
<1>3. signers' = UNION {SignerRows(d)' : d \in Registered'}
    BY RowsStay
<1>4. \A a \in KeyAddrs : file'[a] # "torn" /\ (Loadable(a) => Loadable(a)')
    BY DEF AppsInv, Loadable
<1>5. Len(made'[c]) <= MaxPoolSize + 1
    BY <1>0 DEF AppsTypeOK
<1>6. \A d \in Calls \ {c} : UNCHANGED callVars(d) /\ temp'[NextKey(d)] = temp[NextKey(d)]
    BY DEF callVars
<1> QED  BY <1>1, <1>2, <1>3, <1>4, <1>5, <1>6, OneCall

\* The row that the transaction writes, and the accounts of it.
LEMMA CommitRow ==
    ASSUME AppsTypeOK, NEW c \in Calls, Full(c)
    PROVE  AppRow(c) \in AppRows /\ AppRow(c) # NoApp /\ SignerRows(c) \subseteq [address : KeyAddrs, app : Calls]
<1> USE AppsAssumption
<1>1. made[c] \in Seq(KeyAddrs) /\ input[c].size \in Nat /\ Len(made[c]) = input[c].size + 1
    BY DEF AppsTypeOK, Full, Valid
<1>2. \A i \in 1..Len(made[c]) : made[c][i] \in KeyAddrs
    BY <1>1, SMT, Z3
<1>3. input[c] \in [named : BOOLEAN, size : Nat, min : Texts, refill : Texts, floor : Texts]
    BY DEF Full
<1>4. \A s \in Texts : Numeric(s) \in Amounts
    BY SMT, Z3 DEF Texts, Numeric, Amounts
<1>5. AppRow(c) \in AppRows
    BY <1>1, <1>2, <1>3, <1>4, SMT, Z3 DEF AppRow, AppRows
<1>6. SignerRows(c) \subseteq [address : KeyAddrs, app : Calls]
    BY <1>1, <1>2, SMT, Z3 DEF SignerRows
<1> QED  BY <1>5, <1>6 DEF AppRows

\* The steps of the transaction before its commit, its failed commit without
\* rows, and the answer.
LEMMA DatabaseStep ==
    ASSUME AppsInv, NEW c \in Calls,
           InsertApp(c) \/ CopySigners(c) \/ (Commit(c) /\ UNCHANGED <<apps, signers>>) \/ Answer(c)
    PROVE  AppsInv'
<1> USE DEF Positions
<1>0. AppsTypeOK /\ Progress(c)
    BY DEF AppsInv
<1>1. UNCHANGED <<file, temp, apps, signers, input, made, ctxDone>>
    BY DEF InsertApp, CopySigners, Commit, Answer, keyVars
<1>2. Registered' = Registered
    BY <1>1 DEF Registered
<1>3. ASSUME NEW from \in {"insert", "copy", "commit"}, Refuse(c, from), Strike \/ Fails(c) \/ UNCHANGED faults
      PROVE  AppsInv'
    <2>1. /\ at[c] = from /\ at'[c] = "done" /\ answer'[c] = "400" /\ faults' \in 0..MaxFaults
          /\ \A d \in Calls \ {c} : at'[d] = at[d] /\ answer'[d] = answer[d]
          /\ at' \in [Calls -> Positions] /\ answer' \in [Calls -> {"none", "201", "400"}]
        BY <1>0, <1>3, RefuseTypes, FaultTypes
    <2>2. Progress(c)'
        BY <1>0, <1>1, <1>2, <2>1 DEF Progress
    <2> QED  BY <1>0, <1>1, <2>1, <2>2, PlainStep, Zenon DEF AppsTypeOK
<1>4. ASSUME Move(c, "insert", "copy"), StorableInput(input[c]), UNCHANGED <<answer, faults>> PROVE AppsInv'
    <2>1. /\ at[c] = "insert" /\ at'[c] = "copy" /\ at' \in [Calls -> Positions]
          /\ \A d \in Calls \ {c} : at'[d] = at[d]
        BY <1>0, <1>4, MoveTypes
    <2>2. answer[c] = "none" /\ input[c] # NoApp
        BY <1>0, <2>1, Zenon DEF AppsTypeOK
    <2>3. Progress(c)'
        BY <1>0, <1>1, <1>2, <1>4, <2>1 DEF Progress, Full
    <2> QED  BY <1>0, <1>1, <1>4, <2>1, <2>2, <2>3, PlainStep, Zenon DEF AppsTypeOK
<1>5. ASSUME Move(c, "copy", "commit"), UNCHANGED <<answer, faults>> PROVE AppsInv'
    <2>1. /\ at[c] = "copy" /\ at'[c] = "commit" /\ at' \in [Calls -> Positions]
          /\ \A d \in Calls \ {c} : at'[d] = at[d]
        BY <1>0, <1>5, MoveTypes
    <2>2. answer[c] = "none" /\ input[c] # NoApp
        BY <1>0, <2>1, ZenonT(60) DEF AppsTypeOK
    <2>3. Progress(c)'
        BY <1>0, <1>1, <1>2, <1>5, <2>1 DEF Progress, Full
    <2> QED  BY <1>0, <1>1, <1>5, <2>1, <2>2, <2>3, PlainStep, Zenon DEF AppsTypeOK
<1>6. ASSUME Commit(c), UNCHANGED <<apps, signers>> PROVE Refuse(c, "commit") /\ (Strike \/ Fails(c))
    <2> SUFFICES ASSUME Move(c, "commit", "answer"), Rows(c) PROVE FALSE
        BY <1>6 DEF Commit
    <2>1. at[c] = "commit" /\ apps[c] = NoApp
        BY <1>0 DEF Move, Progress, Registered
    <2>2. AppRow(c) = NoApp
        BY <1>0, <1>6, <2>1 DEF Rows, AppsTypeOK
    <2> QED  BY <1>0, <2>1, <2>2, CommitRow DEF Progress
<1>7. ASSUME Answer(c) PROVE AppsInv'
    <2>1. /\ at[c] = "answer" /\ at'[c] = "done" /\ at' \in [Calls -> Positions]
          /\ \A d \in Calls \ {c} : at'[d] = at[d]
        BY <1>0, <1>7, MoveTypes DEF Answer
    <2>2. /\ answer'[c] = "201" /\ answer' \in [Calls -> {"none", "201", "400"}] /\ UNCHANGED faults
          /\ \A d \in Calls \ {c} : answer'[d] = answer[d]
        BY <1>0, <1>7 DEF Answer, AppsTypeOK
    <2>3. Progress(c)'
        BY <1>0, <1>1, <1>2, <2>1, <2>2 DEF Progress, Full, AppRow
    <2> QED  BY <1>0, <1>1, <2>1, <2>2, <2>3, PlainStep, ZenonT(60) DEF AppsTypeOK
<1> QED  BY <1>3, <1>4, <1>5, <1>6, <1>7 DEF InsertApp, CopySigners

\* The commit that takes effect, reported or not.
LEMMA CommitStep ==
    ASSUME AppsInv, NEW c \in Calls, Commit(c), Rows(c)
    PROVE  AppsInv'
<1> USE DEF Positions
<1>0. AppsTypeOK /\ Named(c) /\ Progress(c)
    BY DEF AppsInv
<1>1. UNCHANGED <<file, temp, input, made, ctxDone>>
    BY DEF Commit, keyVars
<1>2. /\ at[c] = "commit" /\ at' \in [Calls -> Positions] /\ faults' \in 0..MaxFaults
      /\ answer' \in [Calls -> {"none", "201", "400"}]
      /\ \A d \in Calls \ {c} : at'[d] = at[d] /\ answer'[d] = answer[d]
      /\ \/ at'[c] = "answer" /\ answer'[c] = answer[c]
         \/ at'[c] = "done" /\ answer'[c] = "400"
    <2>1. CASE Move(c, "commit", "answer") /\ UNCHANGED <<answer, faults>>
        BY <1>0, <2>1, MoveTypes DEF AppsTypeOK
    <2>2. CASE Refuse(c, "commit") /\ (Fails(c) \/ Strike)
        BY <1>0, <2>2, RefuseTypes, FaultTypes
    <2> QED  BY <2>1, <2>2 DEF Commit
<1>3. Full(c) /\ StorableInput(input[c]) /\ c \notin Registered /\ answer[c] = "none" /\ input[c] # NoApp
    BY <1>0, <1>2, ZenonT(60) DEF Progress, AppsTypeOK
<1>4. /\ AppRow(c) \in AppRows /\ AppRow(c) # NoApp
      /\ SignerRows(c) \subseteq [address : KeyAddrs, app : Calls]
    BY <1>0, <1>3, CommitRow
<1>5. /\ apps'[c] = AppRow(c) /\ \A d \in Calls \ {c} : apps'[d] = apps[d]
      /\ apps' \in [Calls -> AppRows \union {NoApp}] /\ signers' = signers \union SignerRows(c)
    BY <1>0, <1>4 DEF Rows, AppsTypeOK
<1>6. Registered' = Registered \union {c}
    BY <1>4, <1>5 DEF Registered
<1>7. Shape'
    BY <1>0, <1>1, <1>2, <1>4, <1>5 DEF Shape, AppsTypeOK
<1>8. Named(c)'
    BY <1>0, <1>1 DEF Named, Loadable
<1>9. Progress(c)'
    BY <1>1, <1>2, <1>3, <1>5, <1>6 DEF Progress, Full, AppRow
<1>10. signers' = UNION {SignerRows(d)' : d \in Registered'}
    <2>1. \A d \in Calls : SignerRows(d)' = SignerRows(d)
        BY <1>1 DEF SignerRows
    <2>2. Registered' \subseteq Calls
        BY DEF Registered
    <2> QED  BY <1>5, <1>6, <2>1, <2>2 DEF AppsInv
<1>11. \A a \in KeyAddrs : file'[a] # "torn" /\ (Loadable(a) => Loadable(a)')
    BY <1>1 DEF AppsInv, Loadable
<1>12. Len(made'[c]) <= MaxPoolSize + 1
    BY <1>0, <1>1 DEF AppsTypeOK
<1>13. \A d \in Calls \ {c} : UNCHANGED callVars(d) /\ temp'[NextKey(d)] = temp[NextKey(d)]
    BY <1>1, <1>2, <1>5, SMTT(60), Z3T(60) DEF callVars
<1> QED  BY <1>1, <1>2, <1>3, <1>7, <1>8, <1>9, <1>10, <1>11, <1>12, <1>13, OneCall, Zenon

\* The first half of writing a key file touches no file of its final name.
LEMMA GenerateTempStep ==
    ASSUME AppsInv, NEW c \in Calls, GenerateTemp(c)
    PROVE  AppsInv'
<1> USE DEF Positions
<1>0. AppsTypeOK /\ Named(c) /\ Progress(c)
    BY DEF AppsInv
<1>1. UNCHANGED <<file, apps, signers, input, made, ctxDone>>
    BY DEF GenerateTemp, WriteTemp, WriteTempError
<1>2. /\ at[c] = "temp" /\ at' \in [Calls -> Positions] /\ faults' \in 0..MaxFaults
      /\ answer' \in [Calls -> {"none", "201", "400"}]
      /\ \A d \in Calls \ {c} : at'[d] = at[d] /\ answer'[d] = answer[d]
      /\ \E now \in Content : temp' = [temp EXCEPT ![NextKey(c)] = now]
      /\ \/ at'[c] = "rename" /\ answer'[c] = answer[c] /\ temp' = [temp EXCEPT ![NextKey(c)] = "whole"]
         \/ at'[c] = "done" /\ answer'[c] = "400"
    <2>1. CASE Move(c, "temp", "rename") /\ WriteTemp(NextKey(c)) /\ UNCHANGED <<answer, faults>>
        BY <1>0, <2>1, MoveTypes, SMTT(60), Z3T(60) DEF AppsTypeOK, WriteTemp, Content
    <2>2. CASE Refuse(c, "temp") /\ WriteTempError(NextKey(c)) /\ Strike
        BY <1>0, <2>2, RefuseTypes, FaultTypes, Zenon DEF WriteTempError, Content
    <2> QED  BY <2>1, <2>2 DEF GenerateTemp
<1>3. /\ NextKey(c) \in KeyAddrs
      /\ \A d \in Calls \ {c} : NextKey(d) # NextKey(c) /\ (at[d] = "rename" => NextKey(d) \in KeyAddrs)
    BY <1>0, <1>2, OwnKey DEF AppsInv
<1>4. temp' \in [KeyAddrs -> Content] /\ \A d \in Calls \ {c} : at[d] = "rename" => temp'[NextKey(d)] = temp[NextKey(d)]
    BY <1>0, <1>2, <1>3, SMT, Z3 DEF AppsTypeOK
<1>5. Shape'
    BY <1>0, <1>1, <1>2, <1>4 DEF Shape, AppsTypeOK
<1>6. c \notin Registered /\ Registered' = Registered /\ answer[c] = "none" /\ input[c] # NoApp
    BY <1>0, <1>1, <1>2, Zenon DEF Progress, Registered, AppsTypeOK
<1>7. Named(c)'
    BY <1>0, <1>1 DEF Named, Loadable
<1>8. Progress(c)'
    <2>1. at'[c] = "rename" => temp'[NextKey(c)] = "whole"
        BY <1>0, <1>2, <1>3 DEF AppsTypeOK
    <2>2. NextKey(c)' = NextKey(c)
        BY <1>1 DEF NextKey
    <2> QED  BY <1>0, <1>1, <1>2, <1>6, <2>1, <2>2 DEF Progress
<1>9. signers' = UNION {SignerRows(d)' : d \in Registered'}
    BY <1>1, RowsStay
<1>10. \A a \in KeyAddrs : file'[a] # "torn" /\ (Loadable(a) => Loadable(a)')
    BY <1>1 DEF AppsInv, Loadable
<1>11. Len(made'[c]) <= MaxPoolSize + 1
    BY <1>0, <1>1 DEF AppsTypeOK
<1>12. \A d \in Calls \ {c} : UNCHANGED callVars(d)
    BY <1>1, <1>2 DEF callVars
<1> QED  BY <1>1, <1>2, <1>4, <1>5, <1>6, <1>7, <1>8, <1>9, <1>10, <1>11, <1>12, OneCall

\* The second half puts a complete file in place and records its address.
LEMMA GenerateKeyStep ==
    ASSUME AppsInv, NEW c \in Calls, GenerateKey(c)
    PROVE  AppsInv'
<1> USE DEF Positions
<1>0. AppsTypeOK /\ Named(c) /\ Progress(c)
    BY DEF AppsInv
<1>1. UNCHANGED <<apps, signers, input, ctxDone>> /\ at[c] = "rename"
    BY DEF GenerateKey, Refuse, Move
<1>2. /\ NextKey(c) \in KeyAddrs
      /\ \A d \in Calls \ {c} : NextKey(d) # NextKey(c) /\ (at[d] = "rename" => NextKey(d) \in KeyAddrs)
    BY <1>0, <1>1, OwnKey DEF AppsInv
<1>3. c \notin Registered /\ Registered' = Registered /\ answer[c] = "none" /\ input[c] # NoApp
    BY <1>0, <1>1, ZenonT(60) DEF Progress, Registered, AppsTypeOK
<1>4. /\ made[c] \in Seq(KeyAddrs) /\ Len(made[c]) \in Nat /\ Len(made[c]) <= input[c].size
      /\ input[c].size \in Nat /\ input[c].size <= MaxPoolSize /\ MaxPoolSize \in Nat
    BY <1>0, <1>1, AppsAssumption, SMT, Z3 DEF AppsTypeOK, Progress, Valid
<1>5. CASE Refuse(c, "rename") /\ RenameError(NextKey(c)) /\ Strike /\ UNCHANGED made
    <2>1. /\ at'[c] = "done" /\ at' \in [Calls -> Positions] /\ faults' \in 0..MaxFaults
          /\ answer'[c] = "400" /\ answer' \in [Calls -> {"none", "201", "400"}]
          /\ \A d \in Calls \ {c} : at'[d] = at[d] /\ answer'[d] = answer[d]
        BY <1>0, <1>5, RefuseTypes, FaultTypes
    <2>2. /\ file' = file /\ temp' \in [KeyAddrs -> Content]
          /\ \A d \in Calls \ {c} : at[d] = "rename" => temp'[NextKey(d)] = temp[NextKey(d)]
        <3>1. temp \in [KeyAddrs -> Content] /\ "none" \in Content
            BY <1>0 DEF AppsTypeOK, Content
        <3>2. CASE temp' = temp
            BY <1>5, <3>1, <3>2 DEF RenameError
        <3>3. CASE temp' = [temp EXCEPT ![NextKey(c)] = "none"]
            BY <1>2, <1>5, <3>1, <3>3 DEF RenameError
        <3> QED  BY <1>5, <3>2, <3>3 DEF RenameError
    <2>3. Shape'
        BY <1>0, <1>1, <1>5, <2>1, <2>2, SMTT(60), Z3T(60) DEF Shape, AppsTypeOK
    <2>4. Named(c)'
        BY <1>0, <1>5, <2>2 DEF Named, Loadable
    <2>5. Progress(c)'
        BY <1>3, <2>1 DEF Progress
    <2>6. signers' = UNION {SignerRows(d)' : d \in Registered'}
        BY <1>1, <1>5, RowsStay
    <2>7. \A a \in KeyAddrs : file'[a] # "torn" /\ (Loadable(a) => Loadable(a)')
        BY <2>2 DEF AppsInv, Loadable
    <2>8. \A d \in Calls \ {c} : UNCHANGED callVars(d)
        BY <1>1, <1>5, <2>1 DEF callVars
    <2>9. Len(made'[c]) <= MaxPoolSize + 1
        BY <1>0, <1>5, SMTT(60), Z3T(60) DEF AppsTypeOK
    <2> QED  BY <2>1, <2>2, <2>3, <2>4, <2>5, <2>6, <2>7, <2>8, <2>9, OneCall
<1>6. ASSUME Rename(NextKey(c)),
             made' = [made EXCEPT ![c] = Append(@, NextKey(c))],
             at' = [at EXCEPT ![c] = IF AllMade(c, made'[c]) THEN "insert" ELSE "temp"],
             UNCHANGED <<answer, faults>>
      PROVE  AppsInv'
    <2>1. /\ made'[c] = Append(made[c], NextKey(c)) /\ made' \in [Calls -> Seq(KeyAddrs)]
          /\ \A d \in Calls \ {c} : made'[d] = made[d]
        BY <1>0, <1>2, <1>4, <1>6, SMT, Z3 DEF AppsTypeOK
    <2>2. /\ Len(made'[c]) = Len(made[c]) + 1 /\ made'[c][Len(made[c]) + 1] = NextKey(c)
          /\ \A i \in 1..Len(made[c]) : made'[c][i] = made[c][i]
        BY <1>2, <1>4, <2>1, SMT, Z3
    <2>3. /\ at' \in [Calls -> Positions] /\ \A d \in Calls \ {c} : at'[d] = at[d]
          /\ at'[c] = IF Len(made[c]) = input[c].size THEN "insert" ELSE "temp"
        BY <1>0, <1>4, <1>6, <2>2, SMT, Z3 DEF AppsTypeOK, AllMade
    <2>4. /\ file' = [file EXCEPT ![NextKey(c)] = "whole"] /\ file' \in [KeyAddrs -> Content]
          /\ temp' \in [KeyAddrs -> Content] /\ \A d \in Calls \ {c} : at[d] = "rename" => temp'[NextKey(d)] = temp[NextKey(d)]
        BY <1>0, <1>1, <1>2, <1>6 DEF Rename, AppsTypeOK, Progress, Content
    <2>5. Shape'
        BY <1>0, <1>1, <1>6, <2>1, <2>3, <2>4, SMTT(60), Z3T(60) DEF Shape, AppsTypeOK
    <2>6. \A a \in KeyAddrs : file'[a] # "torn" /\ (Loadable(a) => Loadable(a)')
        BY <1>0, <2>4 DEF AppsInv, Loadable, AppsTypeOK
    <2>7. Named(c)'
        <3> SUFFICES ASSUME NEW i \in 1..Len(made'[c])
                     PROVE  made'[c][i] = <<c, i - 1>> /\ Loadable(<<c, i - 1>>)'
            BY DEF Named
        <3>1. CASE i \in 1..Len(made[c])
            <4>1. made[c][i] \in KeyAddrs /\ made[c][i] = <<c, i - 1>> /\ Loadable(<<c, i - 1>>)
                BY <1>0, <1>4, <3>1, SMT, Z3 DEF Named
            <4> QED  BY <2>2, <2>6, <3>1, <4>1
        <3>2. CASE i = Len(made[c]) + 1
            <4>1. NextKey(c) = <<c, i - 1>>
                BY <1>4, <3>2, SMT, Z3 DEF NextKey
            <4>2. file'[NextKey(c)] = "whole"
                BY <1>0, <1>2, <2>4, SMTT(60), Z3T(60) DEF AppsTypeOK
            <4> QED  BY <2>2, <3>2, <4>1, <4>2 DEF Loadable
        <3> QED  BY <1>4, <2>2, <3>1, <3>2, SMT, Z3
    <2>8. Progress(c)'
        <3>1. input[c] \in Inputs /\ Valid(input[c])
            BY <1>0, <1>1, SMTT(60), Z3T(60) DEF Progress
        <3>2. at'[c] = "temp" => Len(made'[c]) <= input[c].size
            BY <1>4, <2>2, <2>3, SMT, Z3
        <3>3. at'[c] = "insert" => Len(made'[c]) = input[c].size + 1
            BY <1>4, <2>2, <2>3
        <3> QED  BY <1>1, <1>3, <1>6, <2>3, <3>1, <3>2, <3>3, SMTT(60), Z3T(60) DEF Progress, Full
    <2>9. signers' = UNION {SignerRows(d)' : d \in Registered'}
        BY <1>1, <1>3, <2>1, RowsStay DEF Registered
    <2>10. \A d \in Calls \ {c} : UNCHANGED callVars(d)
        BY <1>1, <1>6, <2>1, <2>3 DEF callVars
    <2>11. Len(made'[c]) <= MaxPoolSize + 1
        BY <1>4, <2>2, SMT, Z3
    <2>12. at'[c] = "done" <=> answer'[c] # "none"
        BY <1>3, <1>6, <2>3
    <2> QED  BY <1>1, <1>3, <2>3, <2>4, <2>5, <2>6, <2>7, <2>8, <2>9, <2>10, <2>11, <2>12, OneCall
<1> QED  BY <1>5, <1>6 DEF GenerateKey

\* A crash tears temporary files only, and keeps every row.
LEMMA CrashStep == AppsInv /\ AppsCrash => AppsInv'
<1> SUFFICES ASSUME AppsInv, AppsCrash PROVE AppsInv'
    OBVIOUS
<1> USE DEF Positions
<1>0. AppsTypeOK
    BY DEF AppsInv
<1>1. /\ UNCHANGED <<file, apps, signers, input, made, answer>> /\ ctxDone' = {} /\ Strike
      /\ at' = [c \in Calls |-> IF at[c] \in {"start", "done"} THEN at[c] ELSE "dead"]
      /\ temp' \in [KeyAddrs -> Content]
    BY <1>0 DEF AppsCrash, AppsTypeOK, Content
<1>2. faults' \in 0..MaxFaults
    BY <1>0, <1>1, AppsAssumption, SMT, Z3 DEF AppsTypeOK, Strike
<1>3. AppsTypeOK'
    BY <1>0, <1>1, <1>2 DEF AppsTypeOK
<1>4. Registered' = Registered
    BY <1>1 DEF Registered
<1>5. ASSUME NEW c \in Calls PROVE Named(c)' /\ Progress(c)'
    <2>1. Named(c) /\ Progress(c)
        BY DEF AppsInv
    <2>2. at'[c] \in {"start", "done", "dead"} /\ (at'[c] = "start" => at[c] = "start")
        BY <1>0, <1>1 DEF AppsTypeOK
    <2>3. at[c] \in {"answer", "done", "dead"} => at'[c] \in {"answer", "done", "dead"}
        BY <1>1
    <2>4. Named(c)'
        BY <1>1, <2>1, SMTT(60), Z3T(60) DEF Named, Loadable
    <2>5. Progress(c)'
        BY <1>1, <1>4, <2>1, <2>2, <2>3 DEF Progress, Full, AppRow
    <2> QED  BY <2>4, <2>5
<1>6. signers' = UNION {SignerRows(d)' : d \in Registered'}
    BY <1>1, RowsStay
<1>7. \A a \in KeyAddrs : file'[a] # "torn"
    BY <1>1 DEF AppsInv
<1> QED  BY <1>3, <1>5, <1>6, <1>7 DEF AppsInv

\* Every step keeps the invariant.
LEMMA AppsInvStep == AppsInv /\ [AppsNext]_appsVars => AppsInv'
<1> SUFFICES ASSUME AppsInv, [AppsNext]_appsVars PROVE AppsInv'
    OBVIOUS
<1>0. AppsTypeOK
    BY DEF AppsInv
<1>1. ASSUME NEW c \in Calls, Create(c) PROVE AppsInv'
    <2>1. CASE Commit(c)
        BY <2>1, CommitStep, DatabaseStep DEF Commit
    <2> QED  BY <1>1, <2>1, BeginStep, GenerateTempStep, GenerateKeyStep, DatabaseStep DEF Create
<1>2. ASSUME NEW c \in Calls, ClientGone(c) PROVE AppsInv'
    <2>1. UNCHANGED <<file, temp, apps, signers, at, input, made, answer>> /\ ctxDone' \subseteq Calls
        BY <1>0, <1>2 DEF ClientGone, keyVars, AppsTypeOK
    <2>2. faults' \in 0..MaxFaults
        BY <1>0, <1>2, FaultTypes DEF ClientGone
    <2>3. Progress(c)'
        <3>1. Progress(c) /\ Registered' = Registered
            BY <2>1 DEF AppsInv, Registered
        <3> QED  BY <2>1, <3>1 DEF Progress, Full, AppRow, NextKey
    <2> QED  BY <1>0, <2>1, <2>2, <2>3, PlainStep, SMTT(60), Z3T(60) DEF AppsTypeOK, Positions
<1>3. CASE UNCHANGED appsVars
    <2>1. UNCHANGED <<file, temp, apps, signers, at, input, made, answer, ctxDone, faults>>
        BY <1>3 DEF appsVars, keyVars, createVars
    <2>2. AppsTypeOK'
        BY <1>0, <2>1 DEF AppsTypeOK
    <2>3. Registered' = Registered
        BY <2>1, SMTT(60), Z3T(60) DEF Registered
    <2>4. \A c \in Calls : Named(c)' /\ Progress(c)'
        BY <2>1, <2>3, ZenonT(60) DEF AppsInv, Named, Progress, Full, AppRow, NextKey, Loadable
    <2>5. signers' = UNION {SignerRows(d)' : d \in Registered'}
        BY <2>1, RowsStay
    <2> QED  BY <2>1, <2>2, <2>4, <2>5 DEF AppsInv
<1> QED  BY <1>1, <1>2, <1>3, CrashStep DEF AppsNext

-----------------------------------------------------------------------------
(* What follows from it *)

\* The accounts of an app are the keys its call made.
LEMMA AccountsOfApp ==
    ASSUME AppsInv, NEW c \in Registered
    PROVE  /\ c \in Calls /\ apps[c].size \in Nat \ {0} /\ apps[c].token = c
           /\ made[c] \in Seq(KeyAddrs) /\ Len(made[c]) = apps[c].size + 1
           /\ apps[c].treasury = made[c][1] /\ made[c][1] = <<c, 0>>
           /\ ListSigners(c) = {made[c][i] : i \in 2..Len(made[c])}
           /\ ListSigners(c) = {<<c, i>> : i \in 1..apps[c].size}
           /\ \A a \in Accounts(c) : Loadable(a) /\ a \in KeyAddrs /\ a[1] = c
<1>1. c \in Calls /\ AppsTypeOK /\ Named(c) /\ Full(c) /\ apps[c] = AppRow(c)
    BY SMTT(60), Z3T(60) DEF AppsInv, Progress, Registered
<1>2. apps[c].size = input[c].size /\ apps[c].token = c /\ apps[c].treasury = made[c][1]
    BY <1>1, SMTT(60), Z3T(60) DEF AppRow
<1>3. input[c].size \in Nat \ {0} /\ Len(made[c]) = input[c].size + 1 /\ made[c] \in Seq(KeyAddrs)
    BY <1>1, AppsAssumption, SMT, Z3 DEF Full, Valid, AppsTypeOK
<1>4. \A i \in 1..Len(made[c]) : made[c][i] \in KeyAddrs /\ made[c][i] = <<c, i - 1>> /\ Loadable(<<c, i - 1>>)
    <2>1. \A i \in 1..Len(made[c]) : made[c][i] \in KeyAddrs
        BY <1>3, SMT, Z3
    <2> QED  BY <1>1, <2>1 DEF Named
<1>5. made[c][1] = <<c, 0>> /\ Loadable(made[c][1])
    <2>1. 1 \in 1..Len(made[c]) /\ 1 - 1 = 0
        BY <1>3, SMT, Z3
    <2> QED  BY <1>4, <2>1, Zenon
<1>6. ListSigners(c) = {made[c][i] : i \in 2..Len(made[c])}
    <2>1. ASSUME NEW r \in signers, r.app = c PROVE \E i \in 2..Len(made[c]) : r.address = made[c][i]
        <3>1. PICK d \in Registered : r \in SignerRows(d)
            BY DEF AppsInv
        <3>2. PICK i \in 2..Len(made[d]) : r = [address |-> made[d][i], app |-> d]
            BY <3>1 DEF SignerRows
        <3> QED  BY <2>1, <3>2
    <2>2. ASSUME NEW i \in 2..Len(made[c]) PROVE [address |-> made[c][i], app |-> c] \in signers
        BY SMT, Z3 DEF AppsInv, SignerRows
    <2>3. ASSUME NEW i \in 2..Len(made[c]) PROVE made[c][i] \in ListSigners(c)
        <3>1. [address |-> made[c][i], app |-> c] \in {s \in signers : s.app = c}
            BY <2>2
        <3> QED  BY <3>1, SMT, Z3 DEF ListSigners
    <2> QED  BY <2>1, <2>3 DEF ListSigners
<1>7. ListSigners(c) = {<<c, i>> : i \in 1..input[c].size}
    <2>1. ASSUME NEW i \in 2..Len(made[c]) PROVE made[c][i] = <<c, i - 1>> /\ i - 1 \in 1..input[c].size
        <3>1. i \in 1..Len(made[c]) /\ i - 1 \in 1..input[c].size
            BY <1>3, SMT, Z3
        <3> QED  BY <1>4, <3>1, Zenon
    <2>2. ASSUME NEW i \in 1..input[c].size PROVE i + 1 \in 2..Len(made[c]) /\ made[c][i + 1] = <<c, i>>
        <3>1. i + 1 \in 2..Len(made[c]) /\ i + 1 \in 1..Len(made[c]) /\ (i + 1) - 1 = i
            BY <1>3, SMT, Z3
        <3> QED  BY <1>4, <3>1, Zenon
    <2> QED  BY <1>6, <2>1, <2>2, Zenon
<1>8. \A a \in Accounts(c) : Loadable(a) /\ a \in KeyAddrs /\ a[1] = c
    <2>1. ASSUME NEW a \in Accounts(c) PROVE \E i \in 1..Len(made[c]) : a = made[c][i]
        BY <1>2, <1>3, <1>6, SMT, Z3 DEF Accounts
    <2>2. ASSUME NEW i \in 1..Len(made[c]) PROVE Loadable(made[c][i]) /\ made[c][i] \in KeyAddrs /\ made[c][i][1] = c
        <3>1. made[c][i] \in KeyAddrs /\ made[c][i] = <<c, i - 1>> /\ Loadable(<<c, i - 1>>)
            BY <1>4
        <3>2. Loadable(made[c][i])
            BY <3>1, Zenon
        <3>3. made[c][i][1] = c
            BY <3>1, SMT, Z3
        <3> QED  BY <3>1, <3>2, <3>3
    <2> QED  BY <2>1, <2>2
<1> QED  BY <1>1, <1>2, <1>3, <1>5, <1>6, <1>7, <1>8

\* The invariant holds of every behaviour.
THEOREM AppsInvariant == AppsSpec => []AppsInv
BY AppsInvInit, AppsInvStep, PTL DEF AppsSpec

\* Type correctness; in particular Create never generates more keys than the
\* treasury's and a full pool's, and every call that ends has an answer.
THEOREM AppsTypeCorrect == AppsSpec => []AppsTypeOK
<1>1. AppsInv => AppsTypeOK
    BY DEF AppsInv
<1> QED  BY <1>1, AppsInvariant, PTL

\* List names complete files only, whatever disk errors and crashes there were.
THEOREM AppsListedIsLoadable == AppsSpec => []ListedIsLoadable
<1>1. AppsInv => ListedIsLoadable
    BY ZenonT(60) DEF AppsInv, AppsTypeOK, Content, ListedIsLoadable, List, Loadable
<1> QED  BY <1>1, AppsInvariant, PTL

\* No row without its keys: apps have all their accounts, each with a file that
\* Load can read, and share none.
THEOREM AppsRowsHaveKeys == AppsSpec => []RowsHaveKeys
<1>1. ASSUME AppsInv PROVE RowsHaveKeys
    <2>1. ASSUME NEW c \in Registered
          PROVE  Cardinality(ListSigners(c)) = apps[c].size /\ apps[c].treasury \notin ListSigners(c)
        <3> DEFINE n == apps[c].size
                   f == [i \in 1..n |-> <<c, i>>]
        <3>1. n \in Nat /\ apps[c].treasury = <<c, 0>> /\ ListSigners(c) = {<<c, i>> : i \in 1..n}
            BY <1>1, AccountsOfApp, SMTT(60), Z3T(60)
        <3>2. f \in Bijection(1..n, ListSigners(c))
            <4>1. f \in [1..n -> ListSigners(c)]
                BY <3>1
            <4>2. \A i, j \in 1..n : f[i] = f[j] => i = j
                OBVIOUS
            <4>3. \A a \in ListSigners(c) : \E i \in 1..n : f[i] = a
                BY <3>1
            <4> HIDE DEF f, n
            <4> QED  BY <4>1, <4>2, <4>3 DEF Bijection, Injection, Surjection, IsInjective
        <3>3. IsFiniteSet(1..n) /\ Cardinality(1..n) = n
            <4> HIDE DEF n
            <4>1. n \in Int /\ 1 \in Int /\ n >= 0
                BY <3>1, SMT, Z3
            <4>2. IsFiniteSet(1..n) /\ Cardinality(1..n) = IF 1 > n THEN 0 ELSE n - 1 + 1
                BY <4>1, FS_Interval
            <4> QED  BY <4>1, <4>2, SMT, Z3
        <3> HIDE DEF f, n
        <3>4. Cardinality(ListSigners(c)) = n
            BY <3>2, <3>3, FS_Bijection DEF ExistsBijection
        <3> QED  BY <3>1, <3>4, SMT, Z3 DEF n
    <2>2. ASSUME NEW c \in Registered, NEW d \in Registered \ {c} PROVE Accounts(c) \intersect Accounts(d) = {}
        BY <1>1, AccountsOfApp, SMT, Z3
    <2>3. \A s \in signers : s.app \in Registered
        BY <1>1, SMT, Z3 DEF AppsInv, SignerRows
    <2>4. \A c \in Registered : apps[c].size > 0 /\ \A a \in Accounts(c) : Loadable(a)
        BY <1>1, AccountsOfApp, SMT, Z3
    <2> QED  BY <2>1, <2>2, <2>3, <2>4 DEF RowsHaveKeys
<1> QED  BY <1>1, AppsInvariant, PTL

\* Policies with an amount in decimals are in the right order once in the
\* database, although Go and the database read the other amount differently.
THEOREM AppsDecimalPolicies == AppsSpec => []DecimalPolicies
<1>1. ASSUME AppsInv PROVE DecimalPolicies
    <2> SUFFICES ASSUME NEW c \in Registered, "decimal" \in {input[c].min.kind, input[c].refill.kind},
                        Positive(apps[c].min), Positive(apps[c].refill)
                 PROVE  NaN \notin {apps[c].min, apps[c].refill} /\ apps[c].refill > apps[c].min
        BY Zenon DEF DecimalPolicies
    <2> DEFINE min == input[c].min
               refill == input[c].refill
    <2>1. /\ input[c] \in Inputs /\ ValidGasPolicy(min, refill) /\ Storable(min) /\ Storable(refill)
          /\ apps[c].min = Numeric(min) /\ apps[c].refill = Numeric(refill)
        <3>1. Full(c) /\ StorableInput(input[c]) /\ apps[c] = AppRow(c)
            BY <1>1, ZenonT(60) DEF AppsInv, Progress, Registered
        <3> QED  BY <3>1, SMTT(60), Z3T(60) DEF Full, Valid, StorableInput, AppRow
    <2>2. min \in Texts /\ refill \in Texts
        BY <2>1, AppsAssumption
    <2>3. min.n \in Nat /\ refill.n \in Nat
        BY <2>2 DEF Texts
    <2> HIDE DEF min, refill
    <2>4. CASE min.kind = "decimal"
        <3>1. Numeric(min) = min.n /\ parseUintOrZero(min) = min.n
            BY <2>4 DEF Numeric, parseUintOrZero
        <3>2. min.n > 0
            BY <2>1, <2>3, <3>1, AppsAssumption, SMT, Z3 DEF Positive
        <3>3. parseUintOrZero(refill) > min.n
            BY <2>1, <2>3, <3>1, <3>2 DEF ValidGasPolicy
        <3>4. refill.kind = "decimal"
            BY <2>1, <2>3, <3>3, SMT, Z3 DEF parseUintOrZero, Storable
        <3>5. Numeric(refill) = refill.n /\ refill.n > min.n
            BY <3>3, <3>4 DEF Numeric, parseUintOrZero
        <3> QED  BY <2>1, <2>3, <3>1, <3>5, AppsAssumption, SMT, Z3
    <2>5. CASE refill.kind = "decimal"
        <3>1. Numeric(refill) = refill.n /\ parseUintOrZero(refill) = refill.n
            BY <2>5 DEF Numeric, parseUintOrZero
        <3>2. refill.n > 0
            BY <2>1, <2>3, <3>1, AppsAssumption, SMT, Z3 DEF Positive
        <3>3. parseUintOrZero(min) # 0
            BY <2>1, <2>3, <3>1, <3>2, SMT, Z3 DEF ValidGasPolicy
        <3>4. min.kind = "decimal"
            BY <2>1, <2>3, <3>3 DEF parseUintOrZero, Storable
        <3> QED  BY <2>4, <3>4
    <2> QED  BY <2>4, <2>5 DEF min, refill
<1> QED  BY <1>1, AppsInvariant, PTL

-----------------------------------------------------------------------------
(* Answers *)

\* The apps that exist although their creation was answered 400.
Denied == {c \in Registered : answer[c] = "400"}

\* An app comes to be denied by a fault that strikes its commit.
LEMMA DeniedStep ==
    ASSUME AppsInv, [AppsNext]_appsVars
    PROVE  /\ faults' \in {faults, faults - 1}
           /\ \/ Denied' \subseteq Denied
              \/ faults' = faults - 1 /\ \E c \in Calls : Denied' \subseteq Denied \union {c}
<1>0. AppsTypeOK /\ \A c \in Calls : Progress(c)
    BY DEF AppsInv
<1>1. ASSUME NEW c \in Calls, NEW from \in {"start", "temp", "rename", "insert", "copy", "commit"},
             Refuse(c, from), UNCHANGED apps
      PROVE  Denied' \subseteq Denied
    <2>1. at[c] = from /\ \A d \in Calls \ {c} : answer'[d] = answer[d]
        BY <1>0, <1>1, RefuseTypes
    <2>2. c \notin Registered /\ Registered' = Registered
        BY <1>0, <1>1, <2>1 DEF Progress, Registered
    <2> QED  BY <2>1, <2>2 DEF Denied, Registered
<1>2. ASSUME UNCHANGED <<apps, answer>> PROVE Denied' \subseteq Denied
    BY <1>2 DEF Denied, Registered
<1>3. ASSUME NEW c \in Calls, Answer(c) PROVE Denied' \subseteq Denied
    BY <1>0, <1>3 DEF Answer, Denied, Registered, AppsTypeOK
<1>4. ASSUME NEW c \in Calls, Move(c, "commit", "answer"), Rows(c), UNCHANGED answer PROVE Denied' \subseteq Denied
    <2>1. answer[c] = "none"
        BY <1>0, <1>4 DEF Move, AppsTypeOK
    <2> QED  BY <1>0, <1>4, <2>1 DEF Denied, Registered, Rows, AppsTypeOK
<1>5. ASSUME NEW c \in Calls, Refuse(c, "commit"), Strike, Rows(c) PROVE Denied' \subseteq Denied \union {c}
    BY <1>0, <1>5 DEF Denied, Registered, Rows, Refuse, AppsTypeOK
<1>6. ASSUME NEW c \in Calls, Strike \/ Fails(c) \/ UNCHANGED faults PROVE faults' \in {faults, faults - 1}
    BY <1>6 DEF Strike, Fails
<1>7. ASSUME NEW c \in Calls, Create(c)
      PROVE  \/ Denied' \subseteq Denied /\ faults' \in {faults, faults - 1}
             \/ Denied' \subseteq Denied \union {c} /\ faults' = faults - 1
    <2>1. CASE \E in \in Inputs : Begin(c, in)
        BY <1>1, <1>2, <2>1 DEF Begin
    <2>2. CASE GenerateTemp(c) \/ GenerateKey(c)
        BY <1>1, <1>2, <1>6, <2>2 DEF GenerateTemp, GenerateKey
    <2>3. CASE InsertApp(c) \/ CopySigners(c)
        BY <1>1, <1>2, <1>6, <2>3 DEF InsertApp, CopySigners
    <2>4. CASE Commit(c)
        <3>1. CASE Refuse(c, "commit") /\ Strike /\ Rows(c)
            BY <1>5, <3>1 DEF Strike
        <3> QED  BY <1>1, <1>4, <1>6, <2>4, <3>1 DEF Commit
    <2>5. CASE Answer(c)
        BY <1>3, <2>5, Zenon DEF Answer
    <2> QED  BY <1>7, <2>1, <2>2, <2>3, <2>4, <2>5 DEF Create
<1>8. ASSUME (\E c \in Calls : ClientGone(c)) \/ AppsCrash PROVE Denied' \subseteq Denied /\ faults' = faults - 1
    BY <1>2, <1>8 DEF ClientGone, AppsCrash, Strike
<1>9. CASE UNCHANGED appsVars
    BY <1>2, <1>9 DEF appsVars, createVars
<1> QED  BY <1>7, <1>8, <1>9 DEF AppsNext

\* Each denied app has used up a fault.
DeniedInv == IsFiniteSet(Denied) /\ Cardinality(Denied) <= MaxFaults - faults

\* The count follows the steps.
LEMMA DeniedInvStep == AppsInv /\ DeniedInv /\ [AppsNext]_appsVars => DeniedInv'
<1> SUFFICES ASSUME AppsInv, DeniedInv, [AppsNext]_appsVars PROVE DeniedInv'
    OBVIOUS
<1>1. faults \in Nat /\ MaxFaults \in Nat /\ IsFiniteSet(Denied) /\ Cardinality(Denied) \in Nat
    BY AppsAssumption, FS_CardinalityType, SMT, Z3 DEF AppsInv, AppsTypeOK, DeniedInv
<1>2. CASE Denied' \subseteq Denied
    <2>1. IsFiniteSet(Denied') /\ Cardinality(Denied') \in Nat /\ Cardinality(Denied') <= Cardinality(Denied)
        BY <1>1, <1>2, FS_Subset, FS_CardinalityType
    <2> QED  BY <1>1, <2>1, DeniedStep, SMT, Z3 DEF DeniedInv
<1>3. ASSUME NEW c \in Calls, faults' = faults - 1, Denied' \subseteq Denied \union {c} PROVE DeniedInv'
    <2>1. /\ IsFiniteSet(Denied \union {c}) /\ Cardinality(Denied \union {c}) \in Nat
          /\ Cardinality(Denied \union {c}) <= Cardinality(Denied) + 1
        BY <1>1, FS_AddElement, FS_CardinalityType, SMT, Z3
    <2>2. /\ IsFiniteSet(Denied') /\ Cardinality(Denied') \in Nat
          /\ Cardinality(Denied') <= Cardinality(Denied \union {c})
        BY <1>3, <2>1, FS_Subset, FS_CardinalityType
    <2> QED  BY <1>1, <1>3, <2>1, <2>2, SMT, Z3 DEF DeniedInv
<1> QED  BY <1>2, <1>3, DeniedStep

\* What clients are told is so: a 201 names an app that its token opens, with
\* the accounts listed; and it takes a fault to deny an app that exists.
THEOREM AppsAnswerIsTrue == AppsSpec => []AnswerIsTrue
<1>1. AppsInit => DeniedInv
    <2> SUFFICES ASSUME AppsInit PROVE DeniedInv
        OBVIOUS
    <2>1. Denied = {} /\ faults = MaxFaults
        BY DEF AppsInit, Denied, Registered
    <2>2. MaxFaults - MaxFaults = 0
        BY AppsAssumption, SMT, Z3
    <2> QED  BY <2>1, <2>2, FS_EmptySet, SMT, Z3 DEF DeniedInv
<1>2. ASSUME AppsInv, DeniedInv PROVE AnswerIsTrue
    <2>1. ASSUME NEW c \in Calls, answer[c] = "201"
          PROVE  /\ Authenticate(c) = {c}
                 /\ ListSigners(c) = {made[c][i] : i \in 2..Len(made[c])}
                 /\ apps[c].treasury = made[c][1]
        <3>1. c \in Registered
            BY <1>2, <2>1, SMTT(60), Z3T(60) DEF AppsInv, Progress
        <3>2. \A d \in Registered : apps[d].token = d
            BY <1>2, AccountsOfApp
        <3>3. Authenticate(c) = {c}
            BY <3>1, <3>2 DEF Authenticate
        <3> QED  BY <1>2, <3>1, <3>3, AccountsOfApp
    <2> QED  BY <1>2, <2>1 DEF AnswerIsTrue, DeniedInv, Denied
<1> QED  BY <1>1, <1>2, AppsInvariant, DeniedInvStep, PTL DEF AppsSpec

-----------------------------------------------------------------------------
(* The registry *)

\* The refinement mapping.
Keys == {a \in KeyAddrs : Loadable(a)}
AccountsOf == [c \in Calls |-> IF apps[c] = NoApp THEN {} ELSE Accounts(c)]
Told == {c \in Calls : answer[c] = "201"}

\* AccountsOfApp as a formula, of a state and of the next one.
AccountsAreKeys ==
    \A c \in Registered : /\ ListSigners(c) = {<<c, i>> : i \in 1..apps[c].size}
                          /\ \A a \in Accounts(c) : Loadable(a) /\ a \in KeyAddrs /\ a[1] = c

\* It follows from the invariant.
LEMMA AccountsNow == AppsInv => AccountsAreKeys
BY AccountsOfApp DEF AccountsAreKeys

\* The same, primed.
LEMMA AccountsNext == AppsInv' => AccountsAreKeys'
BY AccountsNow, PTL

\* The accounts of an app follow from its row.
LEMMA AccountsStay ==
    ASSUME AppsInv, AppsInv', NEW c \in Calls, apps'[c] = apps[c]
    PROVE  AccountsOf'[c] = AccountsOf[c]
<1>1. CASE apps[c] = NoApp
    BY <1>1 DEF AccountsOf
<1>2. CASE apps[c] # NoApp
    <2>1. c \in Registered /\ c \in Registered'
        BY <1>2 DEF Registered
    <2>2. ListSigners(c) = {<<c, i>> : i \in 1..apps[c].size}
        BY <2>1, AccountsOfApp
    <2>3. ListSigners(c)' = {<<c, i>> : i \in 1..apps'[c].size}
        BY <2>1, AccountsNext DEF AccountsAreKeys
    <2>4. Accounts(c)' = Accounts(c)
        BY <2>2, <2>3 DEF Accounts
    <2> QED  BY <1>2, <2>4 DEF AccountsOf
<1> QED  BY <1>1, <1>2

\* Initially there is nothing.
LEMMA RegistryInitial == AppsInit => Registry!RegistryInit
<1> SUFFICES ASSUME AppsInit PROVE Registry!RegistryInit
    OBVIOUS
<1>1. Keys = {} /\ Told = {}
    BY DEF AppsInit, KeyInit, Keys, Told, Loadable
<1>2. AccountsOf = [c \in Calls |-> {}]
    BY DEF AppsInit, AccountsOf
<1> QED  BY <1>1, <1>2 DEF Registry!RegistryInit, Keys, Told, AccountsOf

\* Every step is one of the registry's, or changes nothing it shows.
LEMMA RegistryStep ==
    AppsInv /\ AppsInv' /\ [AppsNext]_appsVars => [Registry!RegistryNext]_(Registry!registryVars)
<1> SUFFICES ASSUME AppsInv, AppsInv', [AppsNext]_appsVars
             PROVE  [Registry!RegistryNext]_(Registry!registryVars)
    OBVIOUS
<1>0. AppsTypeOK /\ \A c \in Calls : Progress(c)
    BY DEF AppsInv
<1>1. ASSUME UNCHANGED <<Keys, AccountsOf, Told>> PROVE UNCHANGED Registry!registryVars
    BY <1>1, SMTT(60), Z3T(60) DEF Registry!registryVars, Keys, AccountsOf, Told
<1>2. ASSUME NEW a \in KeyAddrs, Keys' = Keys \union {a}, UNCHANGED <<AccountsOf, Told>> PROVE Registry!RegistryNext
    BY <1>2, SMTT(60), Z3T(60) DEF Registry!RegistryNext, Registry!StoreKey, Keys, AccountsOf, Told
<1>3. ASSUME NEW c \in Calls, NEW S \in SUBSET KeyAddrs,
             AccountsOf[c] = {}, S # {}, S \subseteq Keys,
             \A d \in Calls : S \intersect AccountsOf[d] = {},
             AccountsOf' = [AccountsOf EXCEPT ![c] = S], UNCHANGED <<Keys, Told>>
      PROVE  Registry!RegistryNext
    BY <1>3, ZenonT(60) DEF Registry!RegistryNext, Registry!Register, Keys, AccountsOf, Told
<1>4. ASSUME NEW c \in Calls, AccountsOf[c] # {}, Told' = Told \union {c}, UNCHANGED <<Keys, AccountsOf>>
      PROVE  Registry!RegistryNext
    BY <1>4 DEF Registry!RegistryNext, Registry!Acknowledge, Keys, AccountsOf, Told
<1>5. ASSUME UNCHANGED apps PROVE UNCHANGED AccountsOf
    <2>1. \A c \in Calls : AccountsOf'[c] = AccountsOf[c]
        BY <1>5, AccountsStay
    <2> QED  BY <2>1 DEF AccountsOf
<1>6. ASSUME UNCHANGED file PROVE UNCHANGED Keys
    BY <1>6 DEF Keys, Loadable
<1>7. ASSUME UNCHANGED answer PROVE UNCHANGED Told
    BY <1>7 DEF Told
<1>8. ASSUME NEW c \in Calls, NEW from \in {"start", "temp", "rename", "insert", "copy", "commit"}, Refuse(c, from)
      PROVE  UNCHANGED Told
    <2>1. at[c] = from /\ answer'[c] = "400" /\ \A d \in Calls \ {c} : answer'[d] = answer[d]
        BY <1>0, <1>8, RefuseTypes
    <2>2. answer[c] = "none"
        BY <1>0, <1>8, <2>1 DEF AppsTypeOK
    <2> QED  BY <2>1, <2>2 DEF Told
<1>9. ASSUME NEW c \in Calls, GenerateKey(c), at'[c] # "done" PROVE Registry!RegistryNext
    <2>1. Rename(NextKey(c)) /\ UNCHANGED <<apps, answer>> /\ at[c] = "rename"
        BY <1>0, <1>9, RefuseTypes, SMTT(60), Z3T(60) DEF GenerateKey
    <2>2. NextKey(c) \in KeyAddrs /\ temp[NextKey(c)] = "whole"
        BY <1>0, <2>1, OwnKey DEF Progress
    <2>3. Keys' = Keys \union {NextKey(c)}
        BY <1>0, <2>1, <2>2 DEF Keys, Loadable, Rename, AppsTypeOK
    <2> QED  BY <1>2, <1>5, <1>7, <2>1, <2>2, <2>3
<1>10. ASSUME NEW c \in Calls, Commit(c), Rows(c) PROVE Registry!RegistryNext
    <2>1. at[c] = "commit" /\ UNCHANGED file /\ UNCHANGED Told
        BY <1>7, <1>8, <1>10 DEF Commit, Refuse, Move, keyVars
    <2>2. c \notin Registered /\ AccountsOf[c] = {}
        BY <1>0, <2>1 DEF Progress, Registered, AccountsOf
    <2>3. Full(c)
        BY <1>0, <2>1 DEF Progress
    <2>4. apps'[c] # NoApp /\ \A d \in Calls \ {c} : apps'[d] = apps[d]
        BY <1>0, <1>10, <2>3, CommitRow DEF Rows, AppsTypeOK
    <2> DEFINE S == Accounts(c)'
    <2>5. c \in Registered'
        BY <2>4, SMTT(60), Z3T(60) DEF Registered
    <2>6. \A a \in S : Loadable(a)' /\ a \in KeyAddrs /\ a[1] = c
        BY <2>5, AccountsNext, SMTT(60), Z3T(60) DEF AccountsAreKeys
    <2>7. S \subseteq Keys /\ S \in SUBSET KeyAddrs
        BY <2>1, <2>6, Zenon DEF Keys, Loadable
    <2>8. S # {}
        BY DEF Accounts
    <2>9. ASSUME NEW d \in Calls PROVE S \intersect AccountsOf[d] = {}
        <3>1. CASE d = c
            BY <2>2, <3>1
        <3>2. CASE d # c /\ apps[d] = NoApp
            BY <3>2 DEF AccountsOf
        <3>3. CASE d # c /\ apps[d] # NoApp
            <4>1. \A a \in Accounts(d) : a[1] = d
                BY <3>3, AccountsOfApp DEF Registered
            <4>2. AccountsOf[d] = Accounts(d)
                BY <3>3 DEF AccountsOf
            <4> HIDE DEF S
            <4> QED  BY <2>6, <3>3, <4>1, <4>2
        <3> QED  BY <3>1, <3>2, <3>3
    <2>10. AccountsOf' = [AccountsOf EXCEPT ![c] = S]
        <3>1. AccountsOf'[c] = S
            BY <2>4 DEF AccountsOf
        <3>2. \A d \in Calls \ {c} : AccountsOf'[d] = AccountsOf[d]
            BY <2>4, AccountsStay
        <3>3. AccountsOf = [d \in Calls |-> AccountsOf[d]] /\ AccountsOf' = [d \in Calls |-> AccountsOf'[d]]
            BY DEF AccountsOf
        <3> HIDE DEF S
        <3> QED  BY <3>1, <3>2, <3>3
    <2> HIDE DEF S
    <2> QED  BY <1>3, <1>6, <2>1, <2>2, <2>7, <2>8, <2>9, <2>10, Zenon
<1>11. ASSUME NEW c \in Calls, Answer(c) PROVE Registry!RegistryNext
    <2>1. at[c] = "answer" /\ UNCHANGED <<file, apps>> /\ Told' = Told \union {c}
        BY <1>0, <1>11, SMTT(60), Z3T(60) DEF Answer, Move, keyVars, Told, AppsTypeOK
    <2>2. AccountsOf[c] # {}
        BY <1>0, <2>1 DEF Progress, Registered, AccountsOf, Accounts
    <2> QED  BY <1>4, <1>5, <1>6, <2>1, <2>2
<1>12. ASSUME NEW c \in Calls, Create(c) PROVE [Registry!RegistryNext]_(Registry!registryVars)
    <2>1. CASE \E in \in Inputs : Begin(c, in)
        BY <1>1, <1>5, <1>6, <1>7, <1>8, <2>1 DEF Begin, keyVars
    <2>2. CASE GenerateTemp(c)
        BY <1>1, <1>5, <1>6, <1>7, <1>8, <2>2 DEF GenerateTemp, WriteTemp, WriteTempError
    <2>3. CASE GenerateKey(c)
        <3>1. CASE Refuse(c, "rename") /\ RenameError(NextKey(c))
            BY <1>1, <1>5, <1>6, <1>8, <2>3, <3>1 DEF GenerateKey, RenameError
        <3>2. CASE at' = [at EXCEPT ![c] = IF AllMade(c, made'[c]) THEN "insert" ELSE "temp"]
            <4>1. at'[c] # "done"
                BY <1>0, <3>2 DEF AppsTypeOK
            <4> QED  BY <1>9, <2>3, <4>1
        <3> QED  BY <2>3, <3>1, <3>2 DEF GenerateKey
    <2>4. CASE InsertApp(c) \/ CopySigners(c)
        BY <1>1, <1>5, <1>6, <1>7, <1>8, <2>4 DEF InsertApp, CopySigners, keyVars
    <2>5. CASE Commit(c)
        <3>1. CASE Refuse(c, "commit") /\ UNCHANGED apps
            BY <1>1, <1>5, <1>6, <1>8, <2>5, <3>1 DEF Commit, keyVars
        <3> QED  BY <1>10, <2>5, <3>1 DEF Commit
    <2> QED  BY <1>11, <1>12, <2>1, <2>2, <2>3, <2>4, <2>5, SMTT(60), Z3T(60) DEF Create
<1>13. ASSUME (\E c \in Calls : ClientGone(c)) \/ AppsCrash PROVE UNCHANGED Registry!registryVars
    BY <1>1, <1>5, <1>6, <1>7, <1>13 DEF ClientGone, AppsCrash, keyVars
<1>14. CASE UNCHANGED appsVars
    BY <1>1, <1>5, <1>6, <1>7, <1>14 DEF appsVars, createVars, keyVars
<1> QED  BY <1>12, <1>13, <1>14 DEF AppsNext

\* Creating apps implements the registry: an app appears in one step with all
\* its accounts, whose keys are stored, and stays.
THEOREM AppsImplementRegistry == AppsSpec => ImplementsRegistry
<1>1. AppsInv /\ AppsInv' /\ [AppsNext]_appsVars => [Registry!RegistryNext]_(Registry!registryVars)
    BY RegistryStep
<1> QED  BY <1>1, RegistryInitial, AppsInvariant, PTL DEF AppsSpec, ImplementsRegistry, Registry!RegistrySpec

=============================================================================
