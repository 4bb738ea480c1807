--------------------------- MODULE MCConsumerWorker ---------------------------
(* The instance of ConsumerWorker for TLC: a message whose third delivery  *)
(* finds both slots taken by the first two.                                *)
EXTENDS ConsumerWorker
=============================================================================
