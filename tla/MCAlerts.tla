------------------------------ MODULE MCAlerts ------------------------------
(* Instances of Alerts for TLC. *)
EXTENDS Alerts

\* One app with a complete policy; another with one, with a treasury minimum only,
\* without one, or with amounts that are not numbers.
Complete == <<1, 2, 1>>
Others == {Complete, <<0, 0, 1>>, <<1, 2, 0>>, <<1, 2, NaN>>, <<NaN, 1, 1>>}
SomePolicies ==
    LET first == CHOOSE p \in Apps : TRUE
    IN  [p \in Apps |-> {[min |-> q[1], refill |-> q[2], floor |-> q[3]] :
                            q \in IF p = first THEN {Complete} ELSE Others}]

=============================================================================
