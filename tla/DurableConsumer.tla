---------------------------- MODULE DurableConsumer ----------------------------
(***************************************************************************)
(* A durable consumer as its handlers know it: at-least-once delivery with *)
(* an end to it.  An item is delivered, one delivery at a time as far as   *)
(* the server is concerned, until a handler settles it or the deliveries   *)
(* it is allowed are used up.  JetStreamSimulator stands in for such a     *)
(* consumer, and is shown to be one, except that a delivery whose handler  *)
(* goes away is lost.                                                      *)
(***************************************************************************)
EXTENDS Naturals

CONSTANTS Items,   \* what the consumer may have to deliver
          Limit    \* how often each item is delivered at most

VARIABLE item      \* of each item: where it is, and how often it was delivered if that is not over

Place == [state : {"absent", "waiting", "out", "acked", "termed", "exhausted", "lost"},
          tries : Nat]

TypeOK == item \in [Items -> Place]

At(s, n) == [state |-> s, tries |-> n]

Init == item = [c \in Items |-> At("absent", 0)]

Publish(S) ==
  /\ \A c \in S : item[c].state = "absent"
  /\ item' = [c \in Items |-> IF c \in S THEN At("waiting", 0) ELSE item[c]]

Deliver(c) ==
  /\ item[c].state = "waiting"
  /\ item[c].tries < Limit[c]
  /\ item' = [item EXCEPT ![c] = At("out", item[c].tries + 1)]

\* The handler that has the item settles it.
Settle(c, how) ==
  /\ item[c].state = "out"
  /\ item' = [item EXCEPT ![c] = At(how, 0)]

\* The delivery was rejected, or nobody answered in time.
Requeue(c) ==
  /\ item[c].state = "out"
  /\ item' = [item EXCEPT ![c] = IF item[c].tries < Limit[c] THEN At("waiting", item[c].tries)
                                                              ELSE At("exhausted", 0)]

\* The handler is gone, and no timer brings the item back.
Forget(c) ==
  /\ item[c].state = "out"
  /\ item' = [item EXCEPT ![c] = At("lost", 0)]

Next ==
  \/ \E S \in SUBSET Items : Publish(S)
  \/ \E c \in Items : \/ Deliver(c)
                      \/ Settle(c, "acked") \/ Settle(c, "termed")
                      \/ Requeue(c)
                      \/ Forget(c)

Spec == Init /\ [][Next]_item
=============================================================================
