------------------------------ MODULE MCDelivery ------------------------------
(***************************************************************************)
(* One replica and alice, who has a device, and the messages sent to her.  *)
(***************************************************************************)
EXTENDS Delivery

CONSTANTS alice, a1

MCUserOf == [c \in Conns |-> alice]

MCTopic == [x \in Rows |-> alice]
===============================================================================
