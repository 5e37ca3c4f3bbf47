----------------------------- MODULE MCTreasury -----------------------------
(* Instances of Treasury for TLC. *)
EXTENDS Treasury, TLC

CONSTANTS p1, p2, t1, t2, s1, s2, k1, k2

\* p2 has no policy and no signers.
OwnTreasury == p1 :> t1 @@ p2 :> t2
TwoSigners == p1 :> <<s1, s2>> @@ p2 :> << >>
SweepOne == [k \in Sweeps |-> p1]

=============================================================================
