----------------------------- MODULE MCCallback -----------------------------
(* Instances of Callback for TLC. *)
EXTENDS Callback

OneGap == <<1>>

=============================================================================
