-------------------------------- MODULE MCSync --------------------------------
(***************************************************************************)
(* Four messages, pages of two and four instants of the clock; two messages *)
(***************************************************************************)
EXTENDS Sync
==============================================================================
