----------------------------- MODULE MCWebhook ------------------------------
(* Instances of Webhook for TLC. *)
EXTENDS Webhook

\* 5s, 30s, 5m, 30m, in scale-free units that keep their order.
FourGaps == <<1, 2, 3, 4>>

\* The first two of them.
TwoGaps == <<1, 2>>

=============================================================================
