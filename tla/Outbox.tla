-------------------------------- MODULE Outbox --------------------------------
(***************************************************************************)
(* What the outbox promises whoever commits to it (README.md, "How it      *)
(* works"; app/realtime/relay.py): Redis is told of every committed        *)
(* row, as often as failures require, and the row is marked after it has   *)
(* been told.  OutboxRelay implements it with one relay per replica, and   *)
(* Delivery builds on it.                                                  *)
(***************************************************************************)
EXTENDS Naturals

CONSTANT Rows

VARIABLES
    row,       \* "absent", "pending" or "published"
    pushed     \* how often Redis was told of each row

vars == <<row, pushed>>

Init == /\ row = [x \in Rows |-> "absent"]
        /\ pushed = [x \in Rows |-> 0]

(* The service commits row x. *)
Commit(x) == /\ row[x] = "absent"
             /\ row' = [row EXCEPT ![x] = "pending"]
             /\ UNCHANGED pushed

(* A relay publishes it, for the first time or once more. *)
Push(x) == /\ row[x] = "pending"
           /\ pushed' = [pushed EXCEPT ![x] = @ + 1]
           /\ UNCHANGED row

(* MUTANT: the batch is marked before it is published. *)
Untold(x) == row[x] = "pending"

(* Redis has been told, the row is not yet marked. *)
Told(x) == row[x] = "pending" /\ pushed[x] >= 1

(* A relay commits the marks of a batch. *)
Mark(X) == /\ X # {} /\ \A x \in X : Told(x)
           /\ row' = [x \in Rows |-> IF x \in X THEN "published" ELSE row[x]]
           /\ UNCHANGED pushed

Next == \/ \E x \in Rows : Commit(x) \/ Push(x)
        \/ \E X \in SUBSET Rows : Mark(X)

Spec == Init /\ [][Next]_vars

(* Every row is told at least once and then marked. *)
Fairness == \A x \in Rows : /\ WF_vars(pushed[x] = 0 /\ Push(x))
                            /\ WF_vars(\E X \in SUBSET Rows : x \in X /\ Mark(X))

FairSpec == Spec /\ Fairness
===============================================================================
