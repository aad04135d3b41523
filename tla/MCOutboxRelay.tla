---------------------------- MODULE MCOutboxRelay ----------------------------
(***************************************************************************)
(* Two replicas, one of which may crash, and more rows than a batch holds. *)
(***************************************************************************)
EXTENDS OutboxRelay, TLC

CONSTANTS api1, api2

(* Both may crash in the larger instance: they are interchangeable. *)
Replicas == Permutations({api1, api2})
==============================================================================
