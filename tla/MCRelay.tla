------------------------------ MODULE MCRelay -------------------------------
(* Instances of Relay for TLC. *)
EXTENDS Relay, TLC

CONSTANTS p1, c1, c2, c3, a1, call, other

OneApp == [c \in Callers |-> p1]
OneSigner == p1 :> <<a1>>

\* Every caller relays the same call, as retries do ...
SameCall == [c \in Callers |-> call]
\* ... or the first one a call of its own.
OwnCall == [c \in Callers |-> IF c = c1 THEN other ELSE call]

NoFaults == [k \in FaultKinds |-> 0]
OneCrash == [NoFaults EXCEPT !["crash"] = 1]
OneLostAnswer == [NoFaults EXCEPT !["rpc"] = 1]
CrashAndEviction == [NoFaults EXCEPT !["crash"] = 1, !["evict"] = 1]
AllFaults == [k \in FaultKinds |-> 1]

=============================================================================
