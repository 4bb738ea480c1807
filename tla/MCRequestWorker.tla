--------------------------- MODULE MCRequestWorker ---------------------------
(* Instances of RequestWorker for TLC.                                     *)
EXTENDS RequestWorker
=============================================================================
