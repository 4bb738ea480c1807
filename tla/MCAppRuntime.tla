---------------------------- MODULE MCAppRuntime ----------------------------
(* An instance of AppRuntime for TLC: two services, the first with two     *)
(* request workers, the second with a request worker and a consumer.       *)
EXTENDS AppRuntime

CONSTANTS s1, s2, r1, r2, r3, c1

MCStartup == <<s1, r1, r2, s2, r3, c1>>
MCServiceOf == [w \in Workers |-> CASE w \in {r1, r2} -> s1 [] w = r3 -> s2 [] OTHER -> None]
=============================================================================
