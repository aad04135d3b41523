-------------------------------- MODULE MCHub --------------------------------
(***************************************************************************)
(* One replica and alice, who has two devices.                             *)
(***************************************************************************)
EXTENDS Hub

CONSTANTS alice, a1, a2

MCUserOf == [c \in Conns |-> alice]
==============================================================================
