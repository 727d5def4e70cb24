---------------------------- MODULE MCWebhooks ------------------------------
(***************************************************************************)
(* Instances of Webhooks for TLC.                                          *)
(***************************************************************************)
EXTENDS Webhooks, TLC

CONSTANTS h1, h2, p1

\* Both webhooks in one partition, so that one can hold up the other.
Shared == [h \in Hooks |-> p1]
=============================================================================
