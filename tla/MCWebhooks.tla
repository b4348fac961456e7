------------------------------ MODULE MCWebhooks ------------------------------
(* Model values for the run of Webhooks.                                   *)
EXTENDS Webhooks

CONSTANTS d1, d2, x, y, i, k1, k2

TwoDeliveries == {d1, d2}
OneDelivery == {d1}
TwoDeploys == {x, y}
OneOfVercel == {x}
OneCommit == [d \in OneOfVercel |-> "a commit"]
OneIssue == {i}
TwoChecks == {k1, k2}
OneRate == {20}

\* An event alerts once, however often it is delivered, and a monitor that is armed is the
\* one a later event of its deploy finds and cancels.
WebhooksHold == AlertedOnce /\ ArmedIsRegistered
=============================================================================
