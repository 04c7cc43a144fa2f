------------------------ MODULE MCNotificationDelivery ------------------------
(***************************************************************************)
(* Two dispatches of the event and two operators.                          *)
(***************************************************************************)
EXTENDS NotificationDeliveryProps, TLC

Symmetry == Permutations(Dispatches) \union Permutations(Operators)
===============================================================================
