----------------------------- MODULE MCLiveHarness -----------------------------
(* Instances of LiveHarness for TLC.                                       *)
EXTENDS LiveHarness

Consumer(stream, filter) == [stream |-> stream, filter |-> filter]

\* No consumer; one; two services with one stream between them and another of the second's own.
ServiceSets == {
  << << >> >>,
  << <<Consumer("orders", "orders.new")>>,
     <<Consumer("orders", "orders.paid"), Consumer("audit", "audit.all")>> >> }

MCTests ==
  [flavour : {"multi_thread", "current_thread", "outside"}, services : ServiceSets,
   jetstream : BOOLEAN, keepLogs : BOOLEAN, required : {FALSE}]
    \cup [flavour : {"multi_thread"}, services : {<< << >> >>},
          jetstream : {FALSE}, keepLogs : {FALSE}, required : {TRUE}]
=============================================================================
