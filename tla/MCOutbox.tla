------------------------------- MODULE MCOutbox -------------------------------
(* Instances of Outbox for TLC. *)
EXTENDS OutboxProps

(* The smallest aggregate in which an event can overtake another.          *)
TwoEvents == 1..2
OneAggregate == <<"a", "a">>
==============================================================================
