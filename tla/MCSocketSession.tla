---------------------------- MODULE MCSocketSession ----------------------------
(***************************************************************************)
(* One socket with a short queue and an impatient heartbeat.               *)
(***************************************************************************)
EXTENDS SocketSession
==============================================================================
