------------------------- MODULE MCJetStreamSimulator -------------------------
(* Instances of JetStreamSimulator for TLC: a durable with a backoff and a *)
(* dead-letter subject that gets every message, and one without that gets  *)
(* one of them.                                                            *)
EXTENDS JetStreamSimulator

CONSTANTS d1, d2, m1, m2

MCAccepts == [m \in Messages |-> IF m = m1 THEN {d1, d2} ELSE {d1}]
MCMaxDeliver == [d \in Durables |-> IF d = d1 THEN 3 ELSE 2]
MCAckWait == [d \in Durables |-> 2]
MCBackoff == [d \in Durables |-> IF d = d1 THEN <<1>> ELSE <<>>]
=============================================================================
