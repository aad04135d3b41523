-------------------------- MODULE OutboxRelayProofs --------------------------
(***************************************************************************)
(* The safety properties of OutboxRelay for any number of replicas, rows   *)
(* and failures and any batch size, from one inductive invariant.          *)
(***************************************************************************)
EXTENDS OutboxRelay, FiniteSetTheorems, TLAPS

(* Where a transaction is open, and how far its pipeline has got. *)
Phases == \A r \in Relays :
    /\ pc[r] \notin {"publish", "mark"} => batch[r] = {} /\ sent[r] = {}
    /\ pc[r] = "mark" => sent[r] = batch[r]

(* A row is being pushed: published by a relay that has yet to mark it. *)
InFlight(x) == \E r \in Relays : x \in sent[r]

Marked(x) == row[x] \in {"published", "swept"}

(* Every push is accounted for: undone by a failure, or marked, or about   *)
(* to be one of the two.                                                   *)
Accounts == \A x \in Rows :
    /\ Marked(x) \/ InFlight(x) => pushed[x] = undone[x] + 1
    /\ ~Marked(x) /\ ~InFlight(x) => pushed[x] = undone[x]

(* What keeps a relay from waiting on a row it should know of: it is woken *)
(* or on its way to a SELECT.                                              *)
WillSelect(r) == \/ wake[r]
                 \/ pc[r] \in {"top", "select", "sleep", "down"}
                 \/ full[r] /\ pc[r] \in {"publish", "mark", "maintain"}

Prompt == \A x \in Rows : \A r \in Relays :
    (/\ row[x] = "pending" /\ origin[x] = r
     /\ x \notin owed[r] /\ x \notin Locked \cup orphaned)
    => WillSelect(r)

-----------------------------------------------------------------------------
(* What rolling a transaction back leaves well typed. *)
LEMMA AbortTypes ==
  ASSUME TypeOK, NEW r \in Relays, Abort(r)
  PROVE  /\ batch' \in [Relays -> SUBSET Rows]
         /\ sent' \in [Relays -> SUBSET Rows]
         /\ \A q \in Relays : sent'[q] \subseteq batch'[q]
         /\ pushed' \in [Rows -> Nat]
         /\ undone' \in [Rows -> Nat]
         /\ orphaned' \in SUBSET Rows
<1> USE DEF TypeOK, Abort, Release, Undo
<1>1. batch' \in [Relays -> SUBSET Rows] /\ sent' \in [Relays -> SUBSET Rows]
  OBVIOUS
<1>2. ASSUME NEW q \in Relays PROVE sent'[q] \subseteq batch'[q]
  OBVIOUS
<1>3. \A x \in Rows : undone[x] + 1 \in Nat /\ undone[x] \in Nat
  OBVIOUS
<1>4. undone' \in [Rows -> Nat]
  BY <1>3
<1>5. orphaned' \in SUBSET Rows /\ pushed' \in [Rows -> Nat]
  OBVIOUS
<1> QED BY <1>1, <1>2, <1>4, <1>5

(* Every step keeps the types and the phases. *)
LEMMA StepTypes ==
  ASSUME TypeOK, Phases, [Next]_vars PROVE TypeOK' /\ Phases'
<1> USE RelayAssumption
    DEF TypeOK, Phases, RowStates, Labels, Goto, relay, hist
<1>1. ASSUME NEW r \in Relays, NEW x \in Rows,
             Commit(r, x) \/ Notify(r, x) \/ NotifyLost(r, x)
      PROVE  TypeOK' /\ Phases'
  <2>1. CASE Commit(r, x)
    BY <2>1 DEF Commit
  <2>2. CASE Notify(r, x)
    BY <2>2 DEF Notify
  <2>3. CASE NotifyLost(r, x)
    BY <2>3 DEF NotifyLost
  <2> QED BY <1>1, <2>1, <2>2, <2>3
<1>2. ASSUME NEW r \in Relays, Clear(r) PROVE TypeOK' /\ Phases'
  BY <1>2 DEF Clear
<1>3. ASSUME NEW r \in Relays, Select(r) PROVE TypeOK' /\ Phases'
  <2>1. PICK B \in SUBSET Rows :
          /\ batch' = [batch EXCEPT ![r] = B]
          /\ full' = [full EXCEPT ![r] = Cardinality(B) >= BatchSize]
          /\ Goto(r, IF B = {} THEN "maintain" ELSE "publish")
    BY <1>3 DEF Select
  <2>2. sent[r] = {} /\ batch[r] = {}
    BY <1>3 DEF Select
  <2>3. (Cardinality(B) >= BatchSize) \in BOOLEAN
    OBVIOUS
  <2> HIDE DEF IsBatch
  <2>4. TypeOK'
    <3>1. full' \in [Relays -> BOOLEAN]
      BY <2>1, <2>3
    <3>2. pc' \in [Relays -> Labels]
      BY <2>1
    <3>3. batch' \in [Relays -> SUBSET Rows]
      BY <2>1
    <3>4. \A q \in Relays : sent'[q] \subseteq batch'[q]
      BY <1>3, <2>1, <2>2 DEF Select
    <3>5. UNCHANGED <<row, origin, before, owed, wake, sent, hist, failures>>
      BY <1>3 DEF Select
    <3> QED BY <3>1, <3>2, <3>3, <3>4, <3>5
  <2>5. Phases'
    BY <1>3, <2>1, <2>2 DEF Select
  <2> QED BY <2>4, <2>5
<1>4. ASSUME NEW r \in Relays, Publish(r) PROVE TypeOK' /\ Phases'
  BY <1>4 DEF Publish
<1>5. ASSUME NEW r \in Relays, Mark(r) PROVE TypeOK' /\ Phases'
  BY <1>5 DEF Mark, Release
<1>6. ASSUME NEW r \in Relays, Maintain(r) PROVE TypeOK' /\ Phases'
  BY <1>6 DEF Maintain, EndCycle, AfterCycle
<1>7. ASSUME NEW r \in Relays, Woken(r) \/ PollTimeout(r) \/ SleepDone(r) \/ Restart(r)
      PROVE  TypeOK' /\ Phases'
  BY <1>7 DEF Woken, PollTimeout, SleepDone, Restart
<1>8. ASSUME NEW r \in Relays, CycleFails(r) PROVE TypeOK' /\ Phases'
  <2>0. Abort(r)
    BY <1>8 DEF CycleFails
  <2>1. TypeOK'
    BY <1>8, <2>0, AbortTypes DEF CycleFails, EndCycle
  <2>2. Phases'
    BY <1>8 DEF CycleFails, Abort, Release, EndCycle
  <2> QED BY <2>1, <2>2
<1>9. ASSUME NEW r \in Relays, Crash(r) PROVE TypeOK' /\ Phases'
  <2>0. Abort(r)
    BY <1>9 DEF Crash
  <2>1. TypeOK'
    BY <1>9, <2>0, AbortTypes DEF Crash, EndCycle
  <2>2. Phases'
    BY <1>9 DEF Crash, Abort, Release, EndCycle
  <2> QED BY <2>1, <2>2
<1>10. CASE UNCHANGED vars
  BY <1>10 DEF vars
<1>11. ASSUME NEW r \in Relays, Resend(r) PROVE TypeOK' /\ Phases'
  <2>1. undone' \in [Rows -> Nat] /\ pushed' = pushed
    <3>1. \A x \in Rows : undone[x] + 1 \in Nat /\ undone[x] \in Nat
      OBVIOUS
    <3> QED BY <1>11, <3>1 DEF Resend, Undo
  <2>2. sent' = [sent EXCEPT ![r] = {}] /\ pc' = [pc EXCEPT ![r] = "publish"]
    BY <1>11 DEF Resend
  <2>3. TypeOK'
    BY <1>11, <2>1, <2>2 DEF Resend
  <2>4. Phases'
    BY <1>11, <2>2 DEF Resend
  <2> QED BY <2>3, <2>4
<1> QED
  BY <1>1, <1>2, <1>3, <1>4, <1>5, <1>6, <1>7, <1>8, <1>9, <1>10, <1>11 DEF Next, Cycle

(* The transaction a relay has open, its batch and its pipeline agree with *)
(* where it is in its cycle.                                               *)
THEOREM TypeCorrect == Spec => [](TypeOK /\ Phases)
<1>1. Init => TypeOK /\ Phases
  BY RelayAssumption DEF Init, TypeOK, Phases, RowStates, Labels
<1>2. TypeOK /\ Phases /\ [Next]_vars => TypeOK' /\ Phases'
  BY StepTypes
<1> QED
  BY <1>1, <1>2, PTL DEF Spec

-----------------------------------------------------------------------------
(* No two relays work on the same row: each row is locked by one of them   *)
(* at most, and only while it is pending.                                  *)
THEOREM BatchesExclusive == Spec => []ExclusiveBatch
<1>1. Init => ExclusiveBatch
  BY DEF Init, ExclusiveBatch
<1>2. TypeOK /\ Phases /\ ExclusiveBatch /\ [Next]_vars => ExclusiveBatch'
  <2> SUFFICES ASSUME TypeOK, Phases, ExclusiveBatch, [Next]_vars
               PROVE  ExclusiveBatch'
    OBVIOUS
  <2> USE DEF ExclusiveBatch, TypeOK
  <2>1. ASSUME NEW r \in Relays, NEW x \in Rows, Commit(r, x) PROVE ExclusiveBatch'
    BY <2>1 DEF Commit, relay
  <2>2. ASSUME NEW r \in Relays, Select(r) PROVE ExclusiveBatch'
    <3>1. PICK B \in SUBSET Rows : B \subseteq Available /\ batch' = [batch EXCEPT ![r] = B]
      BY <2>2 DEF Select, IsBatch
    <3>2. \A q \in Relays : B \cap batch[q] = {}
      BY <3>1 DEF Available, Locked
    <3>3. \A x \in B : row[x] = "pending"
      BY <3>1 DEF Available
    <3>4. row' = row
      BY <2>2 DEF Select
    <3> QED BY <3>1, <3>2, <3>3, <3>4
  <2>3. ASSUME NEW r \in Relays, Mark(r) PROVE ExclusiveBatch'
    BY <2>3 DEF Mark, Release
  <2>4. ASSUME NEW r \in Relays, Maintain(r) PROVE ExclusiveBatch'
    BY <2>4 DEF Maintain, Expired
  <2>5. ASSUME NEW r \in Relays, CycleFails(r) \/ Crash(r) PROVE ExclusiveBatch'
    <3>1. row' = row
      BY <2>5 DEF CycleFails, Crash
    <3>2. batch' = [batch EXCEPT ![r] = {}]
      BY <2>5 DEF CycleFails, Crash, Abort, Release
    <3>3. \A q \in Relays : batch'[q] \subseteq batch[q]
      BY <3>2
    <3> QED BY <3>1, <3>3
  <2>6. CASE row' = row /\ batch' = batch
    BY <2>6
  <2>7. ASSUME NEW r \in Relays, NEW x \in Rows, Notify(r, x) \/ NotifyLost(r, x)
        PROVE  row' = row /\ batch' = batch
    BY <2>7 DEF Notify, NotifyLost, relay
  <2>8. ASSUME NEW r \in Relays,
               \/ Clear(r) \/ Publish(r) \/ Resend(r) \/ Woken(r)
               \/ PollTimeout(r) \/ SleepDone(r) \/ Restart(r)
        PROVE  row' = row /\ batch' = batch
    BY <2>8 DEF Clear, Publish, Resend, Woken, PollTimeout, SleepDone, Restart
  <2>9. CASE UNCHANGED vars
    BY <2>9, <2>6 DEF vars, relay
  <2> QED
    BY <2>1, <2>2, <2>3, <2>4, <2>5, <2>6, <2>7, <2>8, <2>9 DEF Next, Cycle
<1> QED
  BY <1>1, <1>2, TypeCorrect, PTL DEF Spec

-----------------------------------------------------------------------------
(* Undoing keeps the accounts: each row the relay had pushed is now pushed *)
(* once more than marked.                                                  *)
LEMMA UndoAccounts ==
  ASSUME TypeOK, ExclusiveBatch, Accounts, NEW r \in Relays,
         Undo(r), sent' = [sent EXCEPT ![r] = {}], row' = row
  PROVE  Accounts'
<1> SUFFICES ASSUME NEW x \in Rows
             PROVE  /\ Marked(x)' \/ InFlight(x)' => pushed'[x] = undone'[x] + 1
                    /\ ~Marked(x)' /\ ~InFlight(x)' => pushed'[x] = undone'[x]
  BY DEF Accounts
<1>1. Marked(x)' = Marked(x)
  BY DEF Marked
<1>2. sent' = [sent EXCEPT ![r] = {}] /\ pushed' = pushed
  BY DEF Undo
<1>3. CASE x \in sent[r]
  <2>1. ~Marked(x)
    BY <1>3 DEF ExclusiveBatch, TypeOK, Marked
  <2>2. ~InFlight(x)'
    BY <1>2, <1>3 DEF ExclusiveBatch, TypeOK, InFlight
  <2>3. pushed[x] = undone[x] + 1 /\ undone'[x] = undone[x] + 1
    BY <1>3 DEF Accounts, InFlight, Undo
  <2> QED BY <1>1, <1>2, <2>1, <2>2, <2>3
<1>4. CASE x \notin sent[r]
  <2>1. InFlight(x)' <=> InFlight(x)
    BY <1>2, <1>4 DEF InFlight, TypeOK
  <2>2. undone'[x] = undone[x]
    BY <1>4 DEF Undo
  <2> QED BY <1>1, <1>2, <2>1, <2>2 DEF Accounts
<1> QED BY <1>3, <1>4

(* A push is undone by a failure, or marked, or still to be marked: never  *)
(* forgotten and never repeated for any other reason.                      *)
THEOREM PushesAccounted == Spec => []Accounts
<1>1. Init => Accounts
  BY DEF Init, Accounts, Marked, InFlight
<1>2. TypeOK /\ Phases /\ ExclusiveBatch /\ Accounts /\ [Next]_vars => Accounts'
  <2> SUFFICES ASSUME TypeOK, Phases, ExclusiveBatch, Accounts, [Next]_vars
               PROVE  Accounts'
    OBVIOUS
  <2>1. ASSUME row' = row, sent' = sent, pushed' = pushed, undone' = undone
        PROVE  Accounts'
    BY <2>1 DEF Accounts, Marked, InFlight
  <2>2. ASSUME NEW r \in Relays, NEW x \in Rows, Commit(r, x) PROVE Accounts'
    BY <2>2 DEF Commit, TypeOK, Accounts, Marked, InFlight, relay, hist
  <2>3. ASSUME NEW r \in Relays, Publish(r) PROVE Accounts'
    <3>1. PICK x \in batch[r] \ sent[r] :
            /\ sent' = [sent EXCEPT ![r] = @ \cup {x}]
            /\ pushed' = [pushed EXCEPT ![x] = @ + 1]
      BY <2>3 DEF Publish
    <3>2. row' = row /\ undone' = undone
      BY <2>3 DEF Publish
    <3>3. x \in Rows /\ ~Marked(x) /\ ~InFlight(x)
      BY <3>1 DEF ExclusiveBatch, TypeOK, Marked, InFlight
    <3>4. InFlight(x)' /\ \A y \in Rows \ {x} : InFlight(y)' <=> InFlight(y)
      BY <3>1 DEF TypeOK, InFlight
    <3>5. \A y \in Rows : Marked(y)' <=> Marked(y)
      BY <3>2 DEF Marked
    <3>6. pushed'[x] = pushed[x] + 1 /\ \A y \in Rows \ {x} : pushed'[y] = pushed[y]
      BY <3>1, <3>3 DEF TypeOK
    <3> QED BY <3>2, <3>3, <3>4, <3>5, <3>6 DEF Accounts, TypeOK
  <2>4. ASSUME NEW r \in Relays, Mark(r) PROVE Accounts'
    <3>1. batch[r] = sent[r]
      BY <2>4 DEF Mark, Phases
    <3>2. sent' = [sent EXCEPT ![r] = {}] /\ pushed' = pushed /\ undone' = undone
      BY <2>4 DEF Mark, Release, hist
    <3>3. row' = [x \in Rows |-> IF x \in sent[r] THEN "published" ELSE row[x]]
      BY <2>4, <3>1 DEF Mark
    <3>4. ASSUME NEW x \in Rows
          PROVE  (Marked(x)' \/ InFlight(x)') <=> (Marked(x) \/ InFlight(x))
      BY <3>2, <3>3 DEF Marked, InFlight, TypeOK
    <3> QED BY <3>2, <3>4 DEF Accounts
  <2>5. ASSUME NEW r \in Relays, Maintain(r) PROVE Accounts'
    <3>1. \A x \in Rows : Marked(x)' <=> Marked(x)
      BY <2>5 DEF Maintain, Expired, Marked
    <3> QED BY <2>5, <3>1 DEF Maintain, Accounts, InFlight, hist
  <2>6. ASSUME NEW r \in Relays, CycleFails(r) \/ Crash(r) PROVE Accounts'
    <3>1. Undo(r) /\ sent' = [sent EXCEPT ![r] = {}] /\ row' = row
      BY <2>6 DEF CycleFails, Crash, Abort, Release
    <3> QED BY <3>1, UndoAccounts
  <2>11. ASSUME NEW r \in Relays, Resend(r) PROVE Accounts'
    BY <2>11, UndoAccounts DEF Resend
  <2>7. ASSUME NEW r \in Relays, NEW x \in Rows, Notify(r, x) \/ NotifyLost(r, x)
        PROVE  Accounts'
    BY <2>1, <2>7 DEF Notify, NotifyLost, relay, hist
  <2>8. ASSUME NEW r \in Relays,
               \/ Clear(r) \/ Woken(r) \/ PollTimeout(r) \/ SleepDone(r) \/ Restart(r)
        PROVE  Accounts'
    BY <2>1, <2>8 DEF Clear, Woken, PollTimeout, SleepDone, Restart, hist
  <2>9. ASSUME NEW r \in Relays, Select(r) PROVE Accounts'
    BY <2>1, <2>9 DEF Select, hist
  <2>10. CASE UNCHANGED vars
    BY <2>1, <2>10 DEF vars, relay, hist
  <2> QED
    BY <2>2, <2>3, <2>4, <2>5, <2>6, <2>7, <2>8, <2>9, <2>10, <2>11 DEF Next, Cycle
<1> QED
  BY <1>1, <1>2, TypeCorrect, BatchesExclusive, PTL DEF Spec

(* At least once: what is marked was pushed.                               *)
THEOREM AtLeastOnce == Spec => []MarkedWasPushed
<1>1. TypeOK /\ Accounts => MarkedWasPushed
  BY DEF TypeOK, Accounts, Marked, MarkedWasPushed
<1> QED
  BY <1>1, TypeCorrect, PushesAccounted, PTL

(* And once but for failures: a repeat follows a failure between a push    *)
(* and the commit of its mark.                                             *)
THEOREM RepeatsFollowFailures == Spec => []RepeatsAreFailures
<1>1. TypeOK /\ Accounts => RepeatsAreFailures
  BY DEF TypeOK, Accounts, RepeatsAreFailures
<1> QED
  BY <1>1, TypeCorrect, PushesAccounted, PTL

-----------------------------------------------------------------------------
(* A row a SELECT leaves behind, though no relay holds it, is left behind  *)
(* because the batch is full.                                              *)
LEMMA FullBatch ==
  ASSUME NEW B \in SUBSET Rows, IsBatch(B, Available),
         NEW x \in Available, x \notin B
  PROVE  B # {} /\ Cardinality(B) >= BatchSize
<1>1. Cardinality(B) = BatchSize
  BY DEF IsBatch
<1>2. B # {}
  BY <1>1, FS_EmptySet, RelayAssumption
<1> QED BY <1>1, <1>2, RelayAssumption

(* A replica's relay always comes back to a SELECT for the rows it was     *)
(* told of: the wake event set during a cycle survives until the wait, and *)
(* a full batch is followed by another.                                    *)
THEOREM NoWakeupLost == Spec => [](Prompt /\ NoLostWakeup)
<1>1. Init => Prompt
  BY DEF Init, Prompt
<1>2. TypeOK /\ Phases /\ Prompt /\ [Next]_vars => Prompt'
  <2> SUFFICES ASSUME TypeOK, Phases, Prompt, [Next]_vars,
                      NEW x \in Rows, NEW r \in Relays,
                      row'[x] = "pending", origin'[x] = r, x \notin owed'[r],
                      x \notin Locked' \cup orphaned'
               PROVE  WillSelect(r)'
    BY DEF Prompt
  <2> USE DEF TypeOK
  <2>1. ASSUME NEW q \in Relays, NEW y \in Rows, Commit(q, y) PROVE WillSelect(r)'
    BY <2>1 DEF Commit, Prompt, WillSelect, Locked, relay, hist
  <2>2. ASSUME NEW q \in Relays, NEW y \in Rows, Notify(q, y) \/ NotifyLost(q, y)
        PROVE  WillSelect(r)'
    <3>1. CASE Notify(q, y)
      BY <3>1 DEF Notify, Prompt, WillSelect, Locked, hist
    <3>2. CASE NotifyLost(q, y)
      BY <3>2 DEF NotifyLost, Prompt, WillSelect, Locked, relay
    <3> QED BY <2>2, <3>1, <3>2
  <2>3. ASSUME NEW q \in Relays, Clear(q) PROVE WillSelect(r)'
    BY <2>3 DEF Clear, Goto, Prompt, WillSelect, Locked, hist
  <2>4. ASSUME NEW q \in Relays, Select(q) PROVE WillSelect(r)'
    <3>1. PICK B \in SUBSET Rows :
            /\ IsBatch(B, Available)
            /\ batch' = [batch EXCEPT ![q] = B]
            /\ full' = [full EXCEPT ![q] = Cardinality(B) >= BatchSize]
            /\ pc' = [pc EXCEPT ![q] = IF B = {} THEN "maintain" ELSE "publish"]
      BY <2>4 DEF Select, Goto
    <3>2. batch[q] = {}
      BY <2>4 DEF Select, Phases
    <3>3. UNCHANGED <<row, origin, owed, wake, orphaned>>
      BY <2>4 DEF Select, hist
    <3>4. x \notin B /\ x \notin Locked
      BY <3>1, <3>2 DEF Locked
    <3>5. x \in Available
      BY <3>3, <3>4 DEF Available
    <3>6. CASE q = r
      <4>1. B # {} /\ Cardinality(B) >= BatchSize
        BY <3>1, <3>4, <3>5, FullBatch
      <4> QED BY <3>1, <3>6, <4>1 DEF WillSelect
    <3>7. CASE q # r
      <4>1. WillSelect(r)
        BY <3>3, <3>4 DEF Prompt
      <4> QED BY <3>1, <3>3, <3>7, <4>1 DEF WillSelect
    <3> QED BY <3>6, <3>7
  <2>5. ASSUME NEW q \in Relays, Publish(q) PROVE WillSelect(r)'
    BY <2>5 DEF Publish, Goto, Prompt, WillSelect, Locked
  <2>11. ASSUME NEW q \in Relays, Resend(q) PROVE WillSelect(r)'
    BY <2>11 DEF Resend, Goto, Prompt, WillSelect, Locked
  <2>6. ASSUME NEW q \in Relays, Mark(q) PROVE WillSelect(r)'
    <3>1. x \notin batch[q] /\ row[x] = "pending" /\ x \notin Locked
      BY <2>6 DEF Mark, Release, Locked
    <3>2. WillSelect(r)
      BY <2>6, <3>1 DEF Mark, Prompt, hist
    <3> QED BY <2>6, <3>2 DEF Mark, Goto, WillSelect
  <2>7. ASSUME NEW q \in Relays, Maintain(q) PROVE WillSelect(r)'
    <3>1. row[x] = "pending"
      BY <2>7 DEF Maintain
    <3>2. WillSelect(r)
      BY <2>7, <3>1 DEF Maintain, Prompt, Locked, hist
    <3> QED BY <2>7, <3>2 DEF Maintain, AfterCycle, EndCycle, Goto, WillSelect
  <2>8. ASSUME NEW q \in Relays,
               Woken(q) \/ PollTimeout(q) \/ SleepDone(q) \/ Restart(q)
        PROVE  WillSelect(r)'
    BY <2>8 DEF Woken, PollTimeout, SleepDone, Restart, Goto, Prompt, WillSelect,
                Locked, hist
  <2>9. ASSUME NEW q \in Relays, CycleFails(q) \/ Crash(q) PROVE WillSelect(r)'
    <3>1. CASE q = r
      BY <2>9, <3>1 DEF CycleFails, Crash, Goto, WillSelect
    <3>2. CASE q # r
      <4>1. x \notin batch[q] /\ x \notin orphaned /\ batch' = [batch EXCEPT ![q] = {}]
        BY <2>9 DEF CycleFails, Crash, Abort, Release
      <4>2. x \notin Locked
        BY <4>1 DEF Locked
      <4>3. row' = row /\ origin' = origin /\ owed'[r] = owed[r]
        BY <2>9, <3>2 DEF CycleFails, Crash
      <4>4. WillSelect(r)
        BY <4>1, <4>2, <4>3 DEF Prompt
      <4> QED BY <2>9, <3>2, <4>4 DEF CycleFails, Crash, EndCycle, Goto, WillSelect
    <3> QED BY <3>1, <3>2
  <2>10. CASE UNCHANGED vars
    BY <2>10 DEF vars, relay, hist, Prompt, WillSelect, Locked
  <2> QED
    BY <2>1, <2>2, <2>3, <2>4, <2>5, <2>6, <2>7, <2>8, <2>9, <2>10, <2>11 DEF Next, Cycle
<1>3. Prompt => NoLostWakeup
  BY DEF Prompt, NoLostWakeup, WillSelect
<1> QED
  BY <1>1, <1>2, <1>3, TypeCorrect, PTL DEF Spec

-----------------------------------------------------------------------------
(* What lets a relay push a row: every earlier row with a smaller id has   *)
(* been pushed, was left behind by a failure, or is some relay's work.     *)
Ahead == \A r \in Relays : \A y \in batch[r] : \A x \in before[y] :
            pushed[x] >= 1 \/ x \in orphaned \/ x \in Locked

(* before[y] are committed rows with smaller ids. *)
Earlier == \A y \in Rows : \A x \in before[y] : x < y /\ row[x] # "absent"

(* No step uncommits a row or forgets a push or an orphan. *)
LEMMA Monotone ==
  ASSUME TypeOK, [Next]_vars
  PROVE  \A x \in Rows : /\ row[x] # "absent" => row'[x] # "absent"
                         /\ pushed'[x] >= pushed[x]
                         /\ x \in orphaned => x \in orphaned'
<1> USE DEF TypeOK, relay, hist
<1>1. ASSUME NEW r \in Relays, NEW y \in Rows,
             Commit(r, y) \/ Notify(r, y) \/ NotifyLost(r, y)
      PROVE  \A x \in Rows : /\ row[x] # "absent" => row'[x] # "absent"
                             /\ pushed'[x] >= pushed[x]
                             /\ x \in orphaned => x \in orphaned'
  BY <1>1 DEF Commit, Notify, NotifyLost
<1>2. ASSUME NEW r \in Relays, Publish(r)
      PROVE  \A x \in Rows : /\ row[x] # "absent" => row'[x] # "absent"
                             /\ pushed'[x] >= pushed[x]
                             /\ x \in orphaned => x \in orphaned'
  BY <1>2 DEF Publish
<1>3. ASSUME NEW r \in Relays, \/ Clear(r) \/ Select(r) \/ Mark(r) \/ Maintain(r) \/ Woken(r)
                               \/ SleepDone(r) \/ PollTimeout(r) \/ Restart(r)
      PROVE  \A x \in Rows : /\ row[x] # "absent" => row'[x] # "absent"
                             /\ pushed'[x] >= pushed[x]
                             /\ x \in orphaned => x \in orphaned'
  BY <1>3 DEF Clear, Select, Mark, Maintain, Woken, SleepDone, PollTimeout, Restart
<1>4. ASSUME NEW r \in Relays, CycleFails(r) \/ Crash(r) \/ Resend(r)
      PROVE  \A x \in Rows : /\ row[x] # "absent" => row'[x] # "absent"
                             /\ pushed'[x] >= pushed[x]
                             /\ x \in orphaned => x \in orphaned'
  BY <1>4 DEF CycleFails, Crash, Resend, Abort, Undo
<1>5. CASE UNCHANGED vars
  BY <1>5 DEF vars
<1> QED BY <1>1, <1>2, <1>3, <1>4, <1>5 DEF Next, Cycle

(* Rows with smaller ids go first, but for what a failure left behind and  *)
(* what two relays work on at the same time.                               *)
THEOREM Ordered == Spec => InOrder
<1> DEFINE Inv == TypeOK /\ Phases /\ ExclusiveBatch /\ Accounts
<1>1. Init => Ahead /\ Earlier
  BY DEF Init, Ahead, Earlier
<1>2. Inv /\ Ahead /\ Earlier /\ [Next]_vars => Earlier'
  <2> SUFFICES ASSUME Inv, Earlier, [Next]_vars PROVE Earlier'
    OBVIOUS
  <2>1. \A x \in Rows : row[x] # "absent" => row'[x] # "absent"
    BY Monotone
  <2>2. CASE before' = before
    BY <2>1, <2>2 DEF Earlier, TypeOK
  <2>3. ASSUME NEW r \in Relays, NEW x \in Rows, Commit(r, x) PROVE Earlier'
    BY <2>1, <2>3 DEF Commit, Earlier, TypeOK
  <2>4. before' = before \/ \E r \in Relays : \E x \in Rows : Commit(r, x)
    BY DEF Next, Cycle, vars, Notify, NotifyLost, Clear, Select, Publish, Mark, Maintain, Woken,
           SleepDone, PollTimeout, CycleFails, Crash, Restart, Resend
  <2> QED BY <2>2, <2>3, <2>4
<1>3. Inv /\ Ahead /\ Earlier /\ [Next]_vars => Ahead'
  <2> SUFFICES ASSUME Inv, Ahead, Earlier, [Next]_vars,
                      NEW r \in Relays, NEW y \in batch'[r], NEW x \in before'[y]
               PROVE  pushed'[x] >= 1 \/ x \in orphaned' \/ x \in Locked'
    BY DEF Ahead
  <2>0. batch' \in [Relays -> SUBSET Rows] /\ before' \in [Rows -> SUBSET Rows]
    BY StepTypes DEF TypeOK
  <2>1. y \in Rows /\ x \in Rows
    BY <2>0
  <2>2. pushed[x] >= 1 \/ x \in orphaned => pushed'[x] >= 1 \/ x \in orphaned'
    <3>1. pushed'[x] >= pushed[x] /\ (x \in orphaned => x \in orphaned')
      BY <2>1, Monotone
    <3>2. pushed[x] \in Nat /\ pushed'[x] \in Nat
      BY <2>1, StepTypes DEF TypeOK
    <3> QED BY <3>1, <3>2
  <2>3. ASSUME batch' = batch, before' = before
        PROVE  x \in Locked \/ pushed[x] >= 1 \/ x \in orphaned
    BY <2>3 DEF Ahead
  <2>4. CASE batch' = batch /\ before' = before
    BY <2>2, <2>3, <2>4 DEF Locked
  <2>5. ASSUME NEW q \in Relays, NEW z \in Rows, Commit(q, z)
        PROVE  pushed'[x] >= 1 \/ x \in orphaned' \/ x \in Locked'
    <3>1. batch' = batch
      BY <2>5 DEF Commit, relay
    <3>2. y # z
      BY <2>5, <3>1 DEF Commit, ExclusiveBatch
    <3>3. x \in before[y]
      BY <2>5, <2>1, <3>2 DEF Commit, TypeOK
    <3>4. pushed[x] >= 1 \/ x \in orphaned \/ x \in Locked
      BY <3>1, <3>3 DEF Ahead
    <3> QED BY <2>2, <3>1, <3>4 DEF Locked
  <2>6. ASSUME NEW q \in Relays, Select(q)
        PROVE  pushed'[x] >= 1 \/ x \in orphaned' \/ x \in Locked'
    <3>1. PICK B \in SUBSET Rows : IsBatch(B, Available) /\ batch' = [batch EXCEPT ![q] = B]
      BY <2>6 DEF Select
    <3>2. batch[q] = {} /\ before' = before /\ row' = row
      BY <2>6 DEF Select, Phases
    <3>3. Locked' = Locked \cup B
      BY <3>1, <3>2 DEF Locked, TypeOK
    <3>4. CASE y \in batch[r]
      BY <2>2, <3>2, <3>3, <3>4 DEF Ahead
    <3>5. CASE y \in B
      <4>1. x < y /\ row[x] # "absent"
        BY <2>1, <3>2 DEF Earlier
      <4>2. CASE row[x] = "pending" /\ x \notin Locked
        BY <2>1, <3>1, <3>3, <3>5, <4>1, <4>2 DEF IsBatch, Available
      <4>3. CASE row[x] # "pending"
        BY <2>1, <2>2, <4>1, <4>3 DEF Accounts, Marked, TypeOK, RowStates
      <4> QED BY <3>3, <4>2, <4>3
    <3> QED BY <3>1, <3>4, <3>5 DEF TypeOK
  <2>7. ASSUME NEW q \in Relays, Mark(q)
        PROVE  pushed'[x] >= 1 \/ x \in orphaned' \/ x \in Locked'
    <3>1. batch' = [batch EXCEPT ![q] = {}] /\ before' = before /\ batch[q] = sent[q]
      BY <2>7 DEF Mark, Release, Phases
    <3>2. pushed[x] >= 1 \/ x \in orphaned \/ x \in Locked
      BY <3>1 DEF Ahead, TypeOK
    <3>3. x \in batch[q] => pushed[x] >= 1
      BY <2>1, <3>1 DEF Accounts, InFlight, TypeOK
    <3> QED BY <2>2, <3>1, <3>2, <3>3 DEF Locked, TypeOK
  <2>8. ASSUME NEW q \in Relays, CycleFails(q) \/ Crash(q)
        PROVE  pushed'[x] >= 1 \/ x \in orphaned' \/ x \in Locked'
    <3>1. /\ batch' = [batch EXCEPT ![q] = {}] /\ before' = before
          /\ orphaned' = orphaned \cup batch[q]
      BY <2>8 DEF CycleFails, Crash, Abort, Release
    <3>2. pushed[x] >= 1 \/ x \in orphaned \/ x \in Locked
      BY <3>1 DEF Ahead, TypeOK
    <3> QED BY <2>2, <3>1, <3>2 DEF Locked, TypeOK
  <2>9. \/ batch' = batch /\ before' = before
        \/ \E q \in Relays : \/ \E z \in Rows : Commit(q, z)
                             \/ Select(q) \/ Mark(q) \/ CycleFails(q) \/ Crash(q)
    BY DEF Next, Cycle, vars, relay, Notify, NotifyLost, Clear, Publish, Maintain, Woken,
           SleepDone, PollTimeout, Restart, Resend
  <2> QED BY <2>4, <2>5, <2>6, <2>7, <2>8, <2>9
<1>4. Inv /\ Ahead /\ Earlier /\ [Next]_vars =>
        [\A y \in Rows : pushed[y] = 0 /\ pushed'[y] = 1 =>
            \A x \in before[y] :
               \/ pushed[x] >= 1
               \/ x \in orphaned
               \/ \E q \in Relays : x \in batch[q] /\ y \notin batch[q]]_vars
  <2> SUFFICES ASSUME Inv, Ahead, Earlier, [Next]_vars,
                      NEW y \in Rows, pushed[y] = 0, pushed'[y] = 1, NEW x \in before[y]
               PROVE  \/ pushed[x] >= 1
                      \/ x \in orphaned
                      \/ \E q \in Relays : x \in batch[q] /\ y \notin batch[q]
    OBVIOUS
  <2>1. PICK r \in Relays : Publish(r)
    BY DEF Next, Cycle, vars, relay, hist, Commit, Notify, NotifyLost, Clear, Select, Mark,
           Maintain, Woken, SleepDone, PollTimeout, CycleFails, Crash, Abort, Undo, Restart, Resend
  <2>2. y \in batch[r] \ sent[r] /\ \A z \in batch[r] \ sent[r] : y <= z
    BY <2>1 DEF Publish, TypeOK
  <2>3. x \in Rows /\ x < y
    BY DEF Earlier, TypeOK
  <2>4. CASE x \in batch[r]
    <3>1. x \in sent[r]
      BY <2>2, <2>3, <2>4, RelayAssumption DEF TypeOK
    <3> QED BY <2>3, <3>1 DEF Accounts, InFlight, TypeOK
  <2>5. CASE x \in Locked /\ x \notin batch[r]
    <3>1. PICK q \in Relays : x \in batch[q]
      BY <2>5 DEF Locked
    <3>2. y \notin batch[q]
      BY <2>2, <2>5, <3>1 DEF ExclusiveBatch
    <3> QED BY <3>1, <3>2
  <2> QED BY <2>2, <2>4, <2>5 DEF Ahead
<1> QED
  BY <1>1, <1>2, <1>3, <1>4, TypeCorrect, BatchesExclusive, PushesAccounted, PTL
     DEF Spec, InOrder
-----------------------------------------------------------------------------
(* With rows that were swept taken as published, every step of the relays  *)
(* is a step of Outbox or changes nothing it knows of.                     *)
THEOREM ImplementsOutbox == Spec => KeepsOutbox
<1> DEFINE Inv == TypeOK /\ Phases /\ ExclusiveBatch /\ Accounts
<1>1. Init => Abstract!Init
  BY DEF Init, Abstract!Init, Status
<1>2. Inv /\ [Next]_vars => [Abstract!Next]_(Abstract!vars)
  <2> SUFFICES ASSUME Inv, [Next]_vars PROVE [Abstract!Next]_(Abstract!vars)
    OBVIOUS
  <2> USE DEF Status
  <2>1. CASE UNCHANGED <<row, pushed>>
    BY <2>1 DEF Abstract!vars
  <2>2. ASSUME NEW r \in Relays, NEW x \in Rows, Commit(r, x) PROVE Abstract!Next
    <3>1. Abstract!Commit(x)
      BY <2>2 DEF Commit, Abstract!Commit, TypeOK, hist
    <3> QED BY <3>1 DEF Abstract!Next
  <2>3. ASSUME NEW r \in Relays, Publish(r) PROVE Abstract!Next
    <3>1. PICK x \in batch[r] : pushed' = [pushed EXCEPT ![x] = @ + 1] /\ row' = row
      BY <2>3 DEF Publish
    <3>2. x \in Rows /\ row[x] = "pending"
      BY <3>1 DEF TypeOK, ExclusiveBatch
    <3>3. Abstract!Push(x)
      BY <3>1, <3>2 DEF Abstract!Push
    <3> QED BY <3>2, <3>3 DEF Abstract!Next
  <2>4. ASSUME NEW r \in Relays, Mark(r) PROVE [Abstract!Next]_(Abstract!vars)
    <3>1. /\ row' = [x \in Rows |-> IF x \in batch[r] THEN "published" ELSE row[x]]
          /\ pushed' = pushed /\ sent[r] = batch[r]
      BY <2>4 DEF Mark, Phases, hist
    <3>2. \A x \in batch[r] : x \in Rows /\ row[x] = "pending" /\ pushed[x] >= 1
      BY <3>1 DEF TypeOK, ExclusiveBatch, Accounts, InFlight
    <3>3. CASE batch[r] = {}
      BY <3>1, <3>3, <2>1 DEF TypeOK
    <3>4. CASE batch[r] # {}
      <4>1. PICK X \in SUBSET Rows : X = batch[r]
        BY DEF TypeOK
      <4>2. Abstract!Mark(X)
        BY <3>1, <3>2, <3>4, <4>1 DEF Abstract!Mark, Abstract!Told
      <4> QED BY <4>2 DEF Abstract!Next
    <3> QED BY <3>3, <3>4
  <2>5. ASSUME NEW r \in Relays, Maintain(r) PROVE UNCHANGED Abstract!vars
    <3>1. pushed' = pushed
      BY <2>5 DEF Maintain, hist
    <3>2. \A x \in Rows : Status(x)' = Status(x)
      BY <2>5 DEF Maintain, Expired
    <3> QED BY <3>1, <3>2 DEF Abstract!vars
  <2>6. \/ UNCHANGED <<row, pushed>>
        \/ \E r \in Relays : \/ \E x \in Rows : Commit(r, x)
                             \/ Publish(r) \/ Mark(r) \/ Maintain(r)
    BY DEF Next, Cycle, vars, relay, hist, Notify, NotifyLost, Clear, Select, Woken, SleepDone,
           PollTimeout, CycleFails, Crash, Abort, Undo, Restart, Resend
  <2> QED BY <2>1, <2>2, <2>3, <2>4, <2>5, <2>6
<1> QED
  BY <1>1, <1>2, TypeCorrect, BatchesExclusive, PushesAccounted, PTL
     DEF Spec, KeepsOutbox, Abstract!Spec
=============================================================================
