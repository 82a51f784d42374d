-------------------------- MODULE MCWebhookIntake ---------------------------
(* Two environments connected to two repositories; the first is reconnected. *)
EXTENDS WebhookIntake, TLC

CONSTANTS e1, e2, g1, g2, s1, s2, s3, d1, d2, c1, c2, c3

\* s1 and s2 connect one environment to two repositories, s3 the other one.
TwoEnvironmentsOf == [k \in Setups |-> IF k = s3 THEN e2 ELSE e1]
TwoReposOf == [k \in Setups |-> IF k = s2 THEN g2 ELSE g1]

\* One delivery repeated, the other delivered once.
RepeatedDelivery == [c \in Calls |-> IF c = c3 THEN d2 ELSE d1]

=============================================================================
