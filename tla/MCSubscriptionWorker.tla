------------------------- MODULE MCSubscriptionWorker -------------------------
(* Instances of SubscriptionWorker for TLC.                                *)
EXTENDS SubscriptionWorker
=============================================================================
