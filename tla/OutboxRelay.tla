----------------------------- MODULE OutboxRelay -----------------------------
(***************************************************************************)
(* app/realtime/relay.py: the relay task of every replica, which publishes *)
(* the committed rows of the outbox table to Redis and marks them, and the *)
(* request handlers that commit rows and then call notify().               *)
(*                                                                         *)
(* A relay's cycle: clear the wake event, SELECT .. FOR UPDATE SKIP LOCKED *)
(* a batch, PUBLISH its rows through a pipeline, mark and commit them,     *)
(* refresh the backlog gauge and sweep, then wait to be woken or to time   *)
(* out.  Locks are held by the open transaction: batch is what is locked.  *)
(***************************************************************************)
EXTENDS Naturals, FiniteSets

CONSTANTS
    Relays,       \* the replicas
    Mortal,       \* those that may crash
    Rows,         \* ids of outbox rows, in the order of the identity column
    BatchSize,
    MaxFailures,  \* bound: failed cycles and crashes
    None

ASSUME RelayAssumption == /\ Rows \subseteq Nat /\ IsFiniteSet(Rows)
                          /\ BatchSize \in Nat \ {0}
                          /\ MaxFailures \in Nat
                          /\ Mortal \subseteq Relays
                          /\ None \notin Relays

VARIABLES
    row,       \* what became of each row
    origin,    \* the replica whose handler committed it
    before,    \* history: the rows with smaller ids committed before each row
    owed,      \* rows of a replica's commits for which notify() is still to run
    pc,        \* where each relay is in its cycle
    wake,      \* its wake event
    batch,     \* the rows its open transaction has locked
    sent,      \* those it has published in this cycle
    full,      \* whether its last batch had BatchSize rows
    pushed,    \* history: how often Redis was told of each row
    undone,    \* history: how often a push was not followed by a commit, or
               \* not answered
    orphaned,  \* history: rows a failed cycle or a lost notify() left behind
    failures

relay == <<pc, wake, batch, sent, full>>
hist  == <<pushed, undone, orphaned>>
vars  == <<row, origin, before, owed, relay, hist, failures>>

RowStates == {"absent", "pending", "published", "swept"}
Labels == {"top", "select", "publish", "mark", "maintain", "wait", "sleep", "down"}

Init ==
    /\ row = [x \in Rows |-> "absent"]
    /\ origin = [x \in Rows |-> None]
    /\ before = [x \in Rows |-> {}]
    /\ owed = [r \in Relays |-> {}]
    /\ pc = [r \in Relays |-> "top"]
    /\ wake = [r \in Relays |-> FALSE]
    /\ batch = [r \in Relays |-> {}]
    /\ sent = [r \in Relays |-> {}]
    /\ full = [r \in Relays |-> FALSE]
    /\ pushed = [x \in Rows |-> 0]
    /\ undone = [x \in Rows |-> 0]
    /\ orphaned = {}
    /\ failures = 0

Goto(r, label) == pc' = [pc EXCEPT ![r] = label]

(* MUTANT: what was published in this cycle is remembered in the next. *)
ReleaseBatch(r) == /\ batch' = [batch EXCEPT ![r] = {}]
                   /\ UNCHANGED sent

(* The transaction of publish_batch is over. *)
Release(r) == /\ batch' = [batch EXCEPT ![r] = {}]
              /\ sent' = [sent EXCEPT ![r] = {}]

(* The number of rows publish_batch returned is forgotten. *)
EndCycle(r) == full' = [full EXCEPT ![r] = FALSE]

(* What was pushed is pushed again. *)
Undo(r) == /\ undone' = [x \in Rows |-> IF x \in sent[r] THEN undone[x] + 1 ELSE undone[x]]
           /\ UNCHANGED pushed

(* It is rolled back: what was locked is pending again, what was pushed is *)
(* not marked.                                                             *)
Abort(r) == /\ Release(r)
            /\ Undo(r)
            /\ orphaned' = orphaned \cup batch[r]

-----------------------------------------------------------------------------
(* A request handler of replica r *)

(* ChatService._commit: the row is durable.  Ids are drawn before the      *)
(* commit, so a row may become visible after rows with larger ids.         *)
Commit(r, x) ==
    /\ pc[r] # "down"
    /\ row[x] = "absent"
    /\ row' = [row EXCEPT ![x] = "pending"]
    /\ origin' = [origin EXCEPT ![x] = r]
    /\ before' = [before EXCEPT ![x] = {y \in Rows : y < x /\ row[y] # "absent"}]
    /\ owed' = [owed EXCEPT ![r] = @ \cup {x}]
    /\ UNCHANGED <<relay, hist, failures>>

(* on_commit *)
Notify(r, x) ==
    /\ x \in owed[r]
    /\ owed' = [owed EXCEPT ![r] = @ \ {x}]
    /\ wake' = [wake EXCEPT ![r] = TRUE]
    /\ UNCHANGED <<row, origin, before, pc, batch, sent, full, hist, failures>>

(* The handler is cancelled while it awaits the commit, as a socket's tasks *)
(* are when one of them ends (ws.py:91-93): durable, but nobody is told.   *)
NotifyLost(r, x) ==
    /\ x \in owed[r]
    /\ failures < MaxFailures
    /\ failures' = failures + 1
    /\ owed' = [owed EXCEPT ![r] = @ \ {x}]
    /\ orphaned' = orphaned \cup {x}
    /\ UNCHANGED <<row, origin, before, relay, pushed, undone>>

-----------------------------------------------------------------------------
(* The relay task of replica r *)

Clear(r) ==
    /\ pc[r] = "top"
    /\ wake' = [wake EXCEPT ![r] = FALSE]
    /\ Goto(r, "select")
    /\ UNCHANGED <<row, origin, before, owed, batch, sent, full, hist, failures>>

Locked == UNION {batch[r] : r \in Relays}

(* MUTANT: FOR UPDATE without regard to the other relays' locks. *)
PendingRows == {x \in Rows : row[x] = "pending"}

(* The rows SKIP LOCKED leaves to select from. *)
Available == {x \in Rows : row[x] = "pending" /\ x \notin Locked}

(* MUTANT: LIMIT without ORDER BY takes any rows. *)
IsAnyBatch(B, A) == /\ B \subseteq A
                    /\ Cardinality(B) <= BatchSize
                    /\ B # A => Cardinality(B) = BatchSize

(* B is what ORDER BY id LIMIT BatchSize takes of A. *)
IsBatch(B, A) == /\ B \subseteq A
                 /\ \A x \in B, y \in A : y < x => y \in B
                 /\ Cardinality(B) <= BatchSize
                 /\ B # A => Cardinality(B) = BatchSize

Select(r) ==
    /\ pc[r] = "select"
    /\ \E B \in SUBSET Rows :
          /\ IsBatch(B, Available)
          /\ batch' = [batch EXCEPT ![r] = B]
          /\ full' = [full EXCEPT ![r] = Cardinality(B) >= BatchSize]
          /\ Goto(r, IF B = {} THEN "maintain" ELSE "publish")
    /\ UNCHANGED <<row, origin, before, owed, wake, sent, hist, failures>>

(* The pipeline is not a transaction: Redis executes one PUBLISH after the *)
(* other, and a failure between two leaves the first ones executed.        *)
Publish(r) ==
    /\ pc[r] = "publish"
    /\ \E x \in batch[r] \ sent[r] :
          /\ \A y \in batch[r] \ sent[r] : x <= y
          /\ sent' = [sent EXCEPT ![r] = @ \cup {x}]
          /\ pushed' = [pushed EXCEPT ![x] = @ + 1]
          /\ Goto(r, IF batch[r] = sent[r] \cup {x} THEN "mark" ELSE "publish")
    /\ UNCHANGED <<row, origin, before, owed, wake, batch, full, undone, orphaned, failures>>

(* redis-py retries a pipeline whose connection failed (main.py:39 leaves  *)
(* its default): all of it, also what Redis executed and did not answer.   *)
Resend(r) ==
    /\ pc[r] \in {"publish", "mark"}
    /\ sent[r] # {}
    /\ failures < MaxFailures
    /\ failures' = failures + 1
    /\ Undo(r)
    /\ sent' = [sent EXCEPT ![r] = {}]
    /\ Goto(r, "publish")
    /\ UNCHANGED <<row, origin, before, owed, wake, batch, full, orphaned>>

(* MUTANT: the session is never committed, so nothing is marked. *)
MarkLost(r) ==
    /\ pc[r] = "mark"
    /\ Release(r)
    /\ Goto(r, "maintain")
    /\ UNCHANGED <<row, origin, before, owed, wake, full, hist, failures>>

Mark(r) ==
    /\ pc[r] = "mark"
    /\ row' = [x \in Rows |-> IF x \in batch[r] THEN "published" ELSE row[x]]
    /\ Release(r)
    /\ Goto(r, "maintain")
    /\ UNCHANGED <<origin, before, owed, wake, full, hist, failures>>

(* MUTANT: the sweep takes rows by age, published or not. *)
ExpiredByAge(x) == row[x] \in {"pending", "published"}

(* Rows old enough for the sweep: their age is left open. *)
Expired(x) == row[x] = "published"

(* A full batch means more rows may be waiting. *)
AfterCycle(r) == IF full[r] THEN "top" ELSE "wait"

(* MUTANT: the wake event is cleared before waiting for it. *)
MaintainThenClear(r) ==
    /\ pc[r] = "maintain"
    /\ wake' = [wake EXCEPT ![r] = FALSE]
    /\ Goto(r, AfterCycle(r))
    /\ EndCycle(r)
    /\ UNCHANGED <<row, origin, before, owed, batch, sent, hist, failures>>

(* backlog() only reads; _sweep() deletes expired rows when it is due. *)
Maintain(r) ==
    /\ pc[r] = "maintain"
    /\ \E S \in SUBSET {x \in Rows : Expired(x)} :
          row' = [x \in Rows |-> IF x \in S THEN "swept" ELSE row[x]]
    /\ Goto(r, AfterCycle(r))
    /\ EndCycle(r)
    /\ UNCHANGED <<origin, before, owed, wake, batch, sent, hist, failures>>

Woken(r) ==
    /\ pc[r] = "wait"
    /\ wake[r]
    /\ Goto(r, "top")
    /\ UNCHANGED <<row, origin, before, owed, wake, batch, sent, full, hist, failures>>

(* MUTANT: the relay waits for its wake event without a timeout. *)
NoTimeout(r) == Woken(r)

PollTimeout(r) ==
    /\ pc[r] = "wait"
    /\ Goto(r, "top")
    /\ UNCHANGED <<row, origin, before, owed, wake, batch, sent, full, hist, failures>>

(* A statement, the pipeline or the commit raises: back off. *)
CycleFails(r) ==
    /\ pc[r] \in {"select", "publish", "mark", "maintain"}
    /\ failures < MaxFailures
    /\ failures' = failures + 1
    /\ Abort(r)
    /\ EndCycle(r)
    /\ Goto(r, "sleep")
    /\ UNCHANGED <<row, origin, before, owed, wake>>

SleepDone(r) ==
    /\ pc[r] = "sleep"
    /\ Goto(r, "top")
    /\ UNCHANGED <<row, origin, before, owed, wake, batch, sent, full, hist, failures>>

(* The process is killed or stop() cancels the task, at any point. *)
Crash(r) ==
    /\ r \in Mortal
    /\ pc[r] # "down"
    /\ failures < MaxFailures
    /\ failures' = failures + 1
    /\ Abort(r)
    /\ owed' = [owed EXCEPT ![r] = {}]
    /\ wake' = [wake EXCEPT ![r] = FALSE]
    /\ EndCycle(r)
    /\ Goto(r, "down")
    /\ UNCHANGED <<row, origin, before>>

Restart(r) ==
    /\ pc[r] = "down"
    /\ Goto(r, "top")
    /\ UNCHANGED <<row, origin, before, owed, wake, batch, sent, full, hist, failures>>

Cycle(r) == \/ Clear(r) \/ Select(r) \/ Publish(r) \/ Mark(r) \/ Maintain(r)
            \/ Woken(r) \/ SleepDone(r)

Next == \E r \in Relays :
    \/ \E x \in Rows : Commit(r, x) \/ Notify(r, x) \/ NotifyLost(r, x)
    \/ Cycle(r) \/ Resend(r) \/ PollTimeout(r) \/ CycleFails(r) \/ Crash(r) \/ Restart(r)

Spec == Init /\ [][Next]_vars

(* A running relay's task goes on and its timer fires; a crashed replica   *)
(* need not come back, a handler need not get to its notify().             *)
Fairness == \A r \in Relays : WF_vars(Cycle(r)) /\ WF_vars(PollTimeout(r))

FairSpec == Spec /\ Fairness

-----------------------------------------------------------------------------
(* Properties *)

(* Every variable has its type, and a relay has published only rows of the *)
(* batch it has locked.                                                    *)
TypeOK ==
    /\ row \in [Rows -> RowStates]
    /\ origin \in [Rows -> Relays \cup {None}]
    /\ before \in [Rows -> SUBSET Rows]
    /\ owed \in [Relays -> SUBSET Rows]
    /\ pc \in [Relays -> Labels]
    /\ wake \in [Relays -> BOOLEAN]
    /\ batch \in [Relays -> SUBSET Rows]
    /\ sent \in [Relays -> SUBSET Rows]
    /\ \A r \in Relays : sent[r] \subseteq batch[r]
    /\ full \in [Relays -> BOOLEAN]
    /\ pushed \in [Rows -> Nat]
    /\ undone \in [Rows -> Nat]
    /\ orphaned \in SUBSET Rows
    /\ failures \in 0..MaxFailures

(* "lets replicas share the work without double-publishing a row": two     *)
(* relays never hold the same row, and what one holds is still pending.    *)
ExclusiveBatch ==
    /\ \A r, q \in Relays : r # q => batch[r] \cap batch[q] = {}
    /\ \A r \in Relays : \A x \in batch[r] : row[x] = "pending"

(* At least once: a row is marked, or deleted, only after Redis was told.  *)
MarkedWasPushed == \A x \in Rows : row[x] \in {"published", "swept"} => pushed[x] >= 1

(* "if the commit after publishing fails, the batch is published again":   *)
(* every push of a row beyond the first is paid for by such a failure, or  *)
(* by a connection to Redis that failed before it answered.                *)
RepeatsAreFailures == \A x \in Rows : pushed[x] <= undone[x] + 1

(* No wakeup is lost: a relay does not sit out its poll interval on a row  *)
(* its own replica committed and notified, unless another relay has it or  *)
(* a failure orphaned it.                                                  *)
NoLostWakeup == \A x \in Rows : \A r \in Relays :
    (/\ row[x] = "pending" /\ origin[x] = r /\ x \notin owed[r]
     /\ pc[r] = "wait" /\ ~wake[r])
    => x \in Locked \cup orphaned

(* Redis first hears of a row after it has heard of every row that has a   *)
(* smaller id and was committed earlier, unless a failure left that row    *)
(* behind or another relay still holds it: only then may message.delivered *)
(* overtake the message.new of the same message.                           *)
InOrder == [][\A y \in Rows : pushed[y] = 0 /\ pushed'[y] = 1 =>
                \A x \in before[y] :
                   \/ pushed[x] >= 1
                   \/ x \in orphaned
                   \/ \E q \in Relays : x \in batch[q] /\ y \notin batch[q]]_vars

(* What became of row x as far as the clients of the outbox are concerned: *)
(* the sweep deletes only what has been published.                         *)
Status(x) == IF row[x] = "swept" THEN "published" ELSE row[x]

Abstract == INSTANCE Outbox WITH row <- [x \in Rows |-> Status(x)]

(* The relays implement the outbox: a step commits one row, tells Redis of *)
(* one pending row, or marks rows Redis has been told of, and no crash,    *)
(* rollback or race between relays is seen as anything else.               *)
KeepsOutbox == Abstract!Spec

(* They also keep its promise, README.md: "a push is guaranteed -          *)
(* eventually, at-least-once - even if the API crashes right after         *)
(* committing", whatever replica comes back or stays down.                 *)
KeepsPromise == Abstract!FairSpec
==============================================================================
