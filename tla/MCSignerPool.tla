---------------------------- MODULE MCSignerPool ----------------------------
(* Instances of SignerPool for TLC. *)
EXTENDS SignerPool, TLC

CONSTANTS p1, c1, c2, c3, a1, a2

\* Three callers of one app with two signers.
OneApp == c1 :> p1 @@ c2 :> p1 @@ c3 :> p1
TwoSigners == p1 :> <<a1, a2>>

=============================================================================
