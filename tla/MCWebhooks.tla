------------------------------ MODULE MCWebhooks ------------------------------
(* Instances of Webhooks for TLC.                                            *)
EXTENDS Webhooks

\* Deliveries in the order of their created_at.
Two == 1 .. 2
===============================================================================
