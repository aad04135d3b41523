---------------------------- MODULE MCAttachments ----------------------------
(***************************************************************************)
(* A key of alice's, which bob names too; two allowed types, one of which  *)
(* clients spell in two ways, and one that is not allowed; two pods that   *)
(* start.                                                                  *)
(***************************************************************************)
EXTENDS Attachments, TLC

CONSTANTS alice, bob, ka, png, PNG, pdf, exe, pod1, pod2

MCOwnerOf == [k \in Keys |-> alice]

Interchangeable == Permutations({pod1, pod2})

MCNormal == [t \in Types |-> IF t = PNG THEN png ELSE t]
==============================================================================
