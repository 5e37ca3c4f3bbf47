---------------------------- MODULE AppRegistry -----------------------------
(***************************************************************************)
(* What creating apps promises: an app comes into being in one step,       *)
(* together with all of its accounts, whose keys are in the keystore by    *)
(* then, and which no other app has; and its creator learns of it, if at   *)
(* all, afterwards.  Keys and apps stay.                                   *)
(***************************************************************************)
CONSTANTS
    Ids,       \* the apps that may be created
    Addresses  \* the accounts

VARIABLES
    keys,      \* the accounts with a key in the keystore
    accounts,  \* accounts[i]: the accounts of app i, {} while it does not exist
    told       \* the apps whose creation has been acknowledged

registryVars == <<keys, accounts, told>>

RegistryInit ==
    /\ keys = {}
    /\ accounts = [i \in Ids |-> {}]
    /\ told = {}

StoreKey(a) ==
    /\ keys' = keys \union {a}
    /\ UNCHANGED <<accounts, told>>

Register(i, S) ==
    /\ accounts[i] = {} /\ S # {}
    /\ S \subseteq keys
    /\ \A j \in Ids : S \intersect accounts[j] = {}
    /\ accounts' = [accounts EXCEPT ![i] = S]
    /\ UNCHANGED <<keys, told>>

Acknowledge(i) ==
    /\ accounts[i] # {}
    /\ told' = told \union {i}
    /\ UNCHANGED <<keys, accounts>>

RegistryNext ==
    \/ \E a \in Addresses : StoreKey(a)
    \/ \E i \in Ids, S \in SUBSET Addresses : Register(i, S)
    \/ \E i \in Ids : Acknowledge(i)

RegistrySpec == RegistryInit /\ [][RegistryNext]_registryVars

=============================================================================
