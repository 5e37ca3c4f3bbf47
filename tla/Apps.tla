-------------------------------- MODULE Apps --------------------------------
(***************************************************************************)
(* Creating apps: POST /v1/apps (internal/api/apps.go), app.Service.Create *)
(* (internal/app/app.go) and the queries by which the rest of the program  *)
(* finds what it made (internal/app/auth.go, internal/app/signers.go).     *)
(* Create writes the key files first, one after the other, and then the    *)
(* rows of the app and of its signers in one transaction.                  *)
(*                                                                         *)
(* A call c stands for one POST, the app it makes and the bearer token of  *)
(* that app; <<c, i>> is the i-th key it generates, the treasury's first.  *)
(* A name is only present or missing.  An amount is a text, of which the   *)
(* model keeps what Go and what the database read in it.                   *)
(***************************************************************************)
EXTENDS Keystore, Integers, Sequences, FiniteSets

CONSTANTS
    Calls,        \* the POSTs
    Inputs,       \* the bodies they may have
    MinPoolSize,
    MaxPoolSize,
    NoApp,        \* "no such row"
    NaN,          \* the value of a NUMERIC that is not a number
    MaxFaults     \* bound: crashes, disk and database errors, clients that hang up

\* How an amount can be written: not at all, in decimals, with a minus sign, in
\* a notation only the database reads as a number (a fraction, an exponent), as
\* the NaN it knows, in more decimals than NUMERIC(78, 0) holds, or not at all as
\* a number.
Texts == [kind : {"empty", "decimal", "minus", "dbonly", "nan", "long", "junk"}, n : Nat]

\* What a column of type NUMERIC(78, 0) holds.
Amounts == Int \union {NaN}

ASSUME AppsAssumption ==
    /\ KeyAddrs = Calls \X (0..MaxPoolSize)
    /\ Inputs \subseteq [named : BOOLEAN, size : Nat, min : Texts, refill : Texts, floor : Texts]
    /\ MinPoolSize \in Nat \ {0} /\ MaxPoolSize \in Nat
    /\ NoApp \notin Inputs
    /\ NoApp \notin [treasury : KeyAddrs, size : Nat, token : Calls, min : Amounts, refill : Amounts, floor : Amounts]
    /\ NaN \notin Int
    /\ MaxFaults \in Nat

VARIABLES
    apps,     \* apps[c]: the row of the app that c makes, or NoApp
    signers,  \* the rows of signers: an address and its app
    at,       \* at[c]: where Create stands
    input,    \* input[c]: the body, once it was found valid
    made,     \* made[c]: the keys generated so far, treasury first
    answer,   \* answer[c]: the HTTP status
    ctxDone,  \* the calls whose client has hung up
    faults    \* the faults that may still strike

createVars == <<apps, signers, at, input, made, answer, ctxDone>>
appsVars == <<keyVars, createVars, faults>>

AppsInit ==
    /\ KeyInit
    /\ apps = [c \in Calls |-> NoApp]
    /\ signers = {}
    /\ at = [c \in Calls |-> "start"]
    /\ input = [c \in Calls |-> NoApp]
    /\ made = [c \in Calls |-> << >>]
    /\ answer = [c \in Calls |-> "none"]
    /\ ctxDone = {}
    /\ faults = MaxFaults

Strike == faults > 0 /\ faults' = faults - 1

\* A database call fails: at once when the client has gone, else because the
\* connection broke or the client went meanwhile.
Fails(c) == (c \in ctxDone /\ UNCHANGED faults) \/ Strike

Move(c, from, to) == at[c] = from /\ at' = [at EXCEPT ![c] = to]

\* Mutant: an error path returns without writing a response.
RefuseUnanswered(c, from) == Move(c, from, "done") /\ UNCHANGED answer

\* createApp answers every error with 400.
Refuse(c, from) == Move(c, from, "done") /\ answer' = [answer EXCEPT ![c] = "400"]

-----------------------------------------------------------------------------
(* Amounts *)

parseUintOrZero(s) == IF s.kind \in {"decimal", "long"} THEN s.n ELSE 0

\* What NUMERIC(78, 0) makes of nonEmptyOrZero(s); it refuses the rest.
Storable(s) == s.kind \notin {"long", "junk"}
Numeric(s) ==
    CASE s.kind \in {"decimal", "dbonly"} -> s.n
      [] s.kind = "minus" -> - s.n
      [] s.kind = "nan" -> NaN
      [] OTHER -> 0

\* The comparison with 0 in the gas worker's query; to the database NaN is
\* greater than every number.
Positive(x) == x = NaN \/ x > 0

\* Mutant: the case that only one of the two is zero is not looked at.
ValidGasPolicyLax(min, refill) ==
    LET m == parseUintOrZero(min)
        r == parseUintOrZero(refill)
    IN  (m = 0 /\ r = 0) \/ r > m

ValidGasPolicy(min, refill) ==
    LET m == parseUintOrZero(min)
        r == parseUintOrZero(refill)
    IN  (m = 0 /\ r = 0) \/ (m # 0 /\ r # 0 /\ r > m)

Valid(in) ==
    /\ in.named
    /\ in.size \in MinPoolSize..MaxPoolSize
    /\ ValidGasPolicy(in.min, in.refill)

-----------------------------------------------------------------------------
(* Create *)

Begin(c, in) ==
    /\ \/ /\ Valid(in)
          /\ Move(c, "start", "temp")
          /\ input' = [input EXCEPT ![c] = in]
          /\ UNCHANGED answer
       \/ ~ Valid(in) /\ Refuse(c, "start") /\ UNCHANGED input
    /\ UNCHANGED <<keyVars, apps, signers, made, ctxDone, faults>>

\* The columns can hold the amounts.
StorableInput(in) == Storable(in.min) /\ Storable(in.refill) /\ Storable(in.floor)

NextKey(c) == <<c, Len(made[c])>>

\* Keystore.Generate, up to the temporary file.
GenerateTemp(c) ==
    /\ \/ Move(c, "temp", "rename") /\ WriteTemp(NextKey(c)) /\ UNCHANGED <<answer, faults>>
       \/ Refuse(c, "temp") /\ WriteTempError(NextKey(c)) /\ Strike
    /\ UNCHANGED <<apps, signers, input, made, ctxDone>>

\* Mutant: one signer less than asked for.
AllMadeEarly(c, keys) == Len(keys) = input[c].size

\* The treasury and a pool of signers.
AllMade(c, keys) == Len(keys) = input[c].size + 1

\* The rest of it, and the end of Create's loop.
GenerateKey(c) ==
    /\ \/ /\ at[c] = "rename"
          /\ Rename(NextKey(c))
          /\ made' = [made EXCEPT ![c] = Append(@, NextKey(c))]
          /\ at' = [at EXCEPT ![c] = IF AllMade(c, made'[c]) THEN "insert" ELSE "temp"]
          /\ UNCHANGED <<answer, faults>>
       \/ Refuse(c, "rename") /\ RenameError(NextKey(c)) /\ Strike /\ UNCHANGED made
    /\ UNCHANGED <<apps, signers, input, ctxDone>>

\* insert begins its transaction with the app's row.  An amount the column
\* cannot hold is an error like any other.
InsertApp(c) ==
    /\ \/ /\ Move(c, "insert", "copy")
          /\ c \notin ctxDone /\ StorableInput(input[c])
          /\ UNCHANGED <<answer, faults>>
       \/ /\ Refuse(c, "insert")
          /\ Fails(c) \/ (~ StorableInput(input[c]) /\ UNCHANGED faults)
    /\ UNCHANGED <<keyVars, apps, signers, input, made, ctxDone>>

CopySigners(c) ==
    /\ \/ c \notin ctxDone /\ Move(c, "copy", "commit") /\ UNCHANGED <<answer, faults>>
       \/ Refuse(c, "copy") /\ Fails(c)
    /\ UNCHANGED <<keyVars, apps, signers, input, made, ctxDone>>

\* The rows of the transaction.
AppRow(c) ==
    [treasury |-> made[c][1], size |-> input[c].size, token |-> c,
     min |-> Numeric(input[c].min), refill |-> Numeric(input[c].refill), floor |-> Numeric(input[c].floor)]
SignerRows(c) == {[address |-> made[c][i], app |-> c] : i \in 2..Len(made[c])}

Rows(c) ==
    /\ apps' = [apps EXCEPT ![c] = AppRow(c)]
    /\ signers' = signers \union SignerRows(c)

\* Mutant: a failed commit is reported as a success.
CommitUnchecked(c) ==
    /\ Move(c, "commit", "answer")
    /\ \/ c \notin ctxDone /\ Rows(c) /\ UNCHANGED faults
       \/ Fails(c) /\ UNCHANGED <<apps, signers>>
    /\ UNCHANGED <<keyVars, input, made, answer, ctxDone>>

\* Commit; when it returns an error the transaction may have been committed,
\* unless the context was done before.
Commit(c) ==
    /\ \/ c \notin ctxDone /\ Move(c, "commit", "answer") /\ Rows(c) /\ UNCHANGED <<answer, faults>>
       \/ Refuse(c, "commit") /\ Fails(c) /\ UNCHANGED <<apps, signers>>
       \/ Refuse(c, "commit") /\ Strike /\ c \notin ctxDone /\ Rows(c)
    /\ UNCHANGED <<keyVars, input, made, ctxDone>>

\* 201, with the token and the addresses.
Answer(c) ==
    /\ Move(c, "answer", "done")
    /\ answer' = [answer EXCEPT ![c] = "201"]
    /\ UNCHANGED <<keyVars, apps, signers, input, made, ctxDone, faults>>

ClientGone(c) ==
    /\ at[c] \notin {"start", "done", "dead"} /\ c \notin ctxDone
    /\ Strike
    /\ ctxDone' = ctxDone \union {c}
    /\ UNCHANGED <<keyVars, apps, signers, at, input, made, answer>>

\* The process dies, perhaps in the middle of WriteFile.  Nothing at start-up
\* looks at key files or apps.
AppsCrash ==
    /\ Strike
    /\ \E torn \in SUBSET {NextKey(c) : c \in {d \in Calls : at[d] = "temp"}} :
         temp' = [a \in KeyAddrs |-> IF a \in torn THEN "torn" ELSE temp[a]]
    /\ at' = [c \in Calls |-> IF at[c] \in {"start", "done"} THEN at[c] ELSE "dead"]
    /\ ctxDone' = {}
    /\ UNCHANGED <<file, apps, signers, input, made, answer>>

Create(c) ==
    \/ \E in \in Inputs : Begin(c, in)
    \/ GenerateTemp(c) \/ GenerateKey(c)
    \/ InsertApp(c) \/ CopySigners(c) \/ Commit(c)
    \/ Answer(c)

AppsNext == (\E c \in Calls : Create(c) \/ ClientGone(c)) \/ AppsCrash

AppsSpec == AppsInit /\ [][AppsNext]_appsVars

-----------------------------------------------------------------------------
(* What the rest of the program reads *)

Registered == {c \in Calls : apps[c] # NoApp}

\* The apps Authenticate may find for a token.
Authenticate(token) == {c \in Registered : apps[c].token = token}

ListSigners(c) == {r.address : r \in {s \in signers : s.app = c}}

Accounts(c) == ListSigners(c) \union {apps[c].treasury}

-----------------------------------------------------------------------------
(* Properties *)

AppRows == [treasury : KeyAddrs, size : Nat, token : Calls, min : Amounts, refill : Amounts, floor : Amounts]

\* The variables hold values of the expected shape; Create has its input and
\* no more keys than it needs while it runs, and has answered when it ends.
AppsTypeOK ==
    /\ file \in [KeyAddrs -> Content] /\ temp \in [KeyAddrs -> Content]
    /\ apps \in [Calls -> AppRows \union {NoApp}]
    /\ signers \subseteq [address : KeyAddrs, app : Calls]
    /\ at \in [Calls -> {"start", "temp", "rename", "insert", "copy", "commit", "answer", "done", "dead"}]
    /\ input \in [Calls -> Inputs \union {NoApp}]
    /\ made \in [Calls -> Seq(KeyAddrs)]
    /\ answer \in [Calls -> {"none", "201", "400"}]
    /\ ctxDone \subseteq Calls
    /\ faults \in 0..MaxFaults
    /\ \A c \in Calls : /\ at[c] \notin {"start", "done", "dead"} => input[c] # NoApp
                        /\ at[c] = "done" <=> answer[c] # "none"
                        /\ Len(made[c]) <= MaxPoolSize + 1

\* Whatever fails or dies in between, an app that is in the database has a key
\* file that Load can read for its treasury and for each of its signers, as
\* many signers as its pool_size says, and shares none of them with another app.
RowsHaveKeys ==
    /\ \A c \in Registered :
         /\ \A a \in Accounts(c) : Loadable(a)
         /\ Cardinality(ListSigners(c)) = apps[c].size /\ apps[c].size > 0
         /\ apps[c].treasury \notin ListSigners(c)
         /\ \A d \in Registered \ {c} : Accounts(c) \intersect Accounts(d) = {}
    /\ \A s \in signers : s.app \in Registered

\* What the client is told is so, and stays so: the token of a 201 opens the app
\* of its own call and no other, with the accounts the answer listed; an app
\* whose creation was answered 400 does not exist, where each exception takes a
\* fault at its commit.
AnswerIsTrue ==
    /\ \A c \in Calls : answer[c] = "201" =>
         /\ Authenticate(c) = {c}
         /\ ListSigners(c) = {made[c][i] : i \in 2..Len(made[c])}
         /\ apps[c].treasury = made[c][1]
    /\ Cardinality({c \in Registered : answer[c] = "400"}) <= MaxFaults - faults

\* List names no key that Load cannot read, after a full disk or a crash in the
\* middle of a write: a file gets its name when it is complete.
ListedIsLoadable == \A a \in List : Loadable(a)

\* Every app that the gas worker's query selects gets refills above its minimum
\* if one of the two amounts was written in decimals, whatever the other was: the
\* check reads fewer notations than the database does, and is enough all the same.
DecimalPolicies ==
    \A c \in Registered :
        "decimal" \in {input[c].min.kind, input[c].refill.kind} /\ Positive(apps[c].min) /\ Positive(apps[c].refill)
            => NaN \notin {apps[c].min, apps[c].refill} /\ apps[c].refill > apps[c].min

\* Creating apps implements the registry: no app is ever seen with a part of its
\* accounts, or before the keys of all of them are in the keystore.
Registry == INSTANCE AppRegistry WITH
    Ids <- Calls,
    Addresses <- KeyAddrs,
    keys <- {a \in KeyAddrs : Loadable(a)},
    accounts <- [c \in Calls |-> IF apps[c] = NoApp THEN {} ELSE Accounts(c)],
    told <- {c \in Calls : answer[c] = "201"}

ImplementsRegistry == Registry!RegistrySpec

=============================================================================
