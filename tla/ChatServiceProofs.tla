-------------------------- MODULE ChatServiceProofs --------------------------
(***************************************************************************)
(* The safety properties of ChatService for any users, requests, sessions, *)
(* clocks and failures.  Inv is inductive: what a session has read, locked *)
(* or inserted stays true while the other sessions commit.                 *)
(***************************************************************************)
EXTENDS ChatService, TLAPS

SendLabels == {"lookup", "head", "conversation", "insert", "rollback", "relookup"}
DeliveredLabels == {"update", "get"}
ReadLabels == {"membership", "anchor", "scan", "lock"}

(* The request of a session fits the statement it is at. *)
RequestFits == \A s \in Sessions :
    /\ pc[s] # "idle" => req[s] \in Request
    /\ pc[s] \in SendLabels => req[s] \in SendRequest
    /\ pc[s] \in DeliveredLabels => req[s] \in DeliveredRequest
    /\ pc[s] \in ReadLabels => req[s] \in ReadRequest
    /\ (req[s] \in SendRequest /\ pc[s] \notin {"idle", "done"}) => ~Rejected(req[s])

(* So do the values its transaction has computed. *)
TxnFits == \A s \in Sessions :
    /\ (pc[s] = "insert" \/ (pc[s] = "commit" /\ req[s].op = "send")) => id[s] \in MsgIds
    /\ pc[s] \in {"insert", "update", "scan", "lock", "commit"} => at[s] \in Times
    /\ id[s] # None => pc[s] \in {"insert", "rollback", "commit"} /\ ~Committed(id[s])
    /\ \A u \in Sessions \ {s} : id[s] # None => id[u] # id[s]
    /\ staged[s] => pc[s] \in {"insert", "rollback", "commit"} /\ req[s] \in SendRequest

(* What an UPDATE may still match: a row of this reader's conversation. *)
Visits(s, m) == /\ Committed(m)
                /\ messages[m].recipient = req[s].user
                /\ {messages[m].sender, messages[m].recipient} = req[s].conv

(* The rows a session holds still match its WHERE clause. *)
Holds(s, m) == \/ /\ req[s] \in DeliveredRequest
                  /\ pc[s] = "commit"
                  /\ m = req[s].msg
                  /\ Deliverable(req[s])
               \/ /\ req[s] \in ReadRequest
                  /\ pc[s] \in {"lock", "commit"}
                  /\ Visits(s, m)
                  /\ messages[m].status # "read"

LocksFit == \A s \in Sessions :
    /\ \A m \in todo[s] : pc[s] = "lock" /\ Visits(s, m)
    /\ \A m \in held[s] : Holds(s, m)
    /\ \A u \in Sessions \ {s} : held[s] \cap held[u] = {}
    /\ (pc[s] = "commit" /\ req[s] \in DeliveredRequest) => held[s] = {req[s].msg}

Rows == \A m \in MsgIds : Committed(m) => messages[m].sender # messages[m].recipient

Inv == TypeOK /\ RequestFits /\ TxnFits /\ LocksFit /\ Rows

-----------------------------------------------------------------------------
(* The row a send that was not rejected will store. *)
LEMMA NewRowTyped ==
  ASSUME NEW s \in Sessions, req[s] \in SendRequest, ~Rejected(req[s]), at[s] \in Times
  PROVE  NewRow(s) \in Row
BY DEF NewRow, Row, SendRequest, Status, Rejected

(* The kinds of request are told apart by their op. *)
LEMMA RequestKinds ==
  ASSUME NEW r \in Request
  PROVE  /\ r \in SendRequest <=> r.op = "send"
         /\ r \in DeliveredRequest <=> r.op = "delivered"
         /\ r \in ReadRequest <=> r.op = "read"
BY DEF Request, SendRequest, DeliveredRequest, ReadRequest

(* The fields of a row that never change. *)
SameMessageAs(row, old) == /\ row.sender = old.sender
                           /\ row.recipient = old.recipient
                           /\ row.cmid = old.cmid
                           /\ row.content = old.content
                           /\ row.created_at = old.created_at

(* What a commit of mark_read or mark_delivered makes of a row is a row,   *)
(* of the same message.                                                    *)
LEMMA UpdatedRows ==
  ASSUME NEW row \in Row, NEW t \in Times
  PROVE  LET read == ReadRow(row, t)
             delivered == [row EXCEPT !.status = "delivered", !.delivered_at = t]
         IN  /\ read \in Row /\ SameMessageAs(read, row) /\ read.status = "read"
             /\ delivered \in Row /\ SameMessageAs(delivered, row)
             /\ delivered.status = "delivered"
BY DEF Row, ReadRow, Status, SameMessageAs

(* A row is not None. *)
LEMMA RowIsNotNone ==
  ASSUME TypeOK, NEW m \in MsgIds
  PROVE  Committed(m) <=> messages[m] \in Row
BY NoneAssumption DEF TypeOK, Committed

(* Where the reader's peer comes from. *)
LEMMA PeerIsUser ==
  ASSUME NEW r \in ReadRequest, r.user \in r.conv
  PROVE  Peer(r) \in Users /\ Peer(r) # r.user /\ r.conv = {Peer(r), r.user}
<1>1. PICK u \in Users, v \in Users : u # v /\ r.conv = {u, v}
  BY DEF ReadRequest, Pairs
<1>2. \E w \in Users : w # r.user /\ r.conv = {w, r.user}
  BY <1>1
<1> QED BY <1>2 DEF Peer

(* Whatever a session answers is an answer. *)
LEMMA AnswerTypes ==
  ASSUME TypeOK, NEW s \in Sessions,
         NEW c \in Codes, NEW m \in MsgIds \cup {None}, Respond(s, c, m)
  PROVE  resp' \in [Sessions -> Answer]
BY DEF TypeOK, Respond, Answer

(* A session holds only rows that exist. *)
LEMMA HeldCommitted ==
  ASSUME TypeOK, LocksFit, NEW s \in Sessions, NEW m \in held[s]
  PROVE  m \in MsgIds /\ Committed(m) /\ messages[m] \in Row
<1>1. m \in MsgIds
  BY DEF TypeOK
<1>2. Holds(s, m)
  BY DEF LocksFit
<1>3. Committed(m)
  BY <1>2 DEF Holds, Deliverable, Visits
<1> QED BY <1>1, <1>3, RowIsNotNone

-----------------------------------------------------------------------------
(* Nobody has written or asked anything yet. *)
LEMMA InitInv == Init => Inv
<1> SUFFICES ASSUME Init PROVE Inv
  OBVIOUS
<1> USE DEF Init
<1>1. TypeOK
  BY NumbersAssumption DEF TypeOK, Labels, Answer, Codes, NoAnswer, Times
<1>2. RequestFits /\ TxnFits /\ LocksFit /\ Rows
  BY DEF RequestFits, TxnFits, LocksFit, Rows, Committed,
         SendLabels, DeliveredLabels, ReadLabels
<1> QED BY <1>1, <1>2 DEF Inv

(* Every step of every session leaves each variable in its type. *)
LEMMA TypeStep ==
  ASSUME Inv, [Next]_vars
  PROVE  TypeOK'
<1> USE DEF Inv, TypeOK, Goto, EndTxn, Labels, store, txn
<1>0. /\ {"rejected", "ok", "created", "conflict", "idempotency_conflict", "failed"} \subseteq Codes
      /\ None \in MsgIds \cup {None}
      /\ NoAnswer \in Answer
  BY DEF Codes, NoAnswer, Answer
<1>1. ASSUME NEW s \in Sessions, NEW r \in Requests, Start(s, r) PROVE TypeOK'
  <2>1. r \in Request /\ Unread(r) \subseteq MsgIds
    BY RequestsAssumption DEF Unread
  <2>2. CASE StartSend(s, r)
    <3>1. resp' \in [Sessions -> Answer]
      BY <2>2, <1>0, AnswerTypes DEF StartSend
    <3> QED BY <2>1, <2>2, <3>1 DEF StartSend
  <2>3. CASE StartDelivered(s, r)
    BY <2>1, <2>3 DEF StartDelivered, Utcnow
  <2>4. CASE StartRead(s, r)
    BY <2>1, <2>4 DEF StartRead
  <2> QED BY <1>1, <2>2, <2>3, <2>4 DEF Start
<1>2. ASSUME NEW s \in Sessions, Lookup(s) \/ Relookup(s) PROVE TypeOK'
  <2>1. ByClientMsgId(req[s]) \subseteq MsgIds
    BY DEF ByClientMsgId
  <2>2. resp' \in [Sessions -> Answer]
    BY <1>0, <1>2, <2>1, AnswerTypes DEF Lookup, Relookup, Replay
  <2>3. pc' \in [Sessions -> Labels]
    BY <1>2 DEF Lookup, Relookup, Replay
  <2> QED BY <1>2, <2>2, <2>3 DEF Lookup, Relookup
<1>3. ASSUME NEW s \in Sessions, HeadAttachment(s) PROVE TypeOK'
  <2>1. resp' \in [Sessions -> Answer]
    BY <1>0, <1>3, AnswerTypes DEF HeadAttachment
  <2>2. pc' \in [Sessions -> Labels]
    BY <1>3 DEF HeadAttachment
  <2> QED BY <1>3, <2>1, <2>2 DEF HeadAttachment
<1>4. ASSUME NEW s \in Sessions, InsertConversation(s) PROVE TypeOK'
  BY <1>4 DEF InsertConversation, FreshIds, Utcnow
<1>5. ASSUME NEW s \in Sessions, InsertMessage(s) PROVE TypeOK'
  BY <1>5 DEF InsertMessage
<1>6. ASSUME NEW s \in Sessions, RollbackSend(s) PROVE TypeOK'
  BY <1>6 DEF RollbackSend
<1>7. ASSUME NEW s \in Sessions, CommitSend(s) PROVE TypeOK'
  <2>1. req[s] \in SendRequest /\ ~Rejected(req[s])
    BY <1>7, RequestKinds DEF CommitSend, RequestFits
  <2>2. id[s] \in MsgIds /\ at[s] \in Times
    BY <1>7 DEF CommitSend, TxnFits
  <2>3. NewRow(s) \in Row
    BY <2>1, <2>2, NewRowTyped
  <2>4. messages' \in [MsgIds -> Row \cup {None}]
    BY <1>7, <2>2, <2>3 DEF CommitSend
  <2>5. ConvOf(req[s]) \in Pairs
    BY <2>1 DEF ConvOf, Pairs, SendRequest, Rejected
  <2>6. conversations' \subseteq Pairs
    BY <1>7, <2>5 DEF CommitSend
  <2>7. outbox' \in [Event -> Nat]
    BY <1>7 DEF CommitSend, Enqueue
  <2>8. resp' \in [Sessions -> Answer]
    BY <1>0, <1>7, <2>2, AnswerTypes DEF CommitSend
  <2> QED BY <1>7, <2>2, <2>4, <2>6, <2>7, <2>8 DEF CommitSend
<1>8. ASSUME NEW s \in Sessions, UpdateDelivered(s) PROVE TypeOK'
  <2>1. req[s].msg \in MsgIds
    BY <1>8 DEF UpdateDelivered, RequestFits, DeliveredLabels, DeliveredRequest
  <2>2. held' \in [Sessions -> SUBSET MsgIds] /\ pc' \in [Sessions -> Labels]
    BY <1>8, <2>1 DEF UpdateDelivered
  <2> QED BY <1>8, <2>2 DEF UpdateDelivered
<1>9. ASSUME NEW s \in Sessions, GetMessage(s) PROVE TypeOK'
  <2>1. req[s].msg \in MsgIds
    BY <1>9 DEF GetMessage, RequestFits, DeliveredLabels, DeliveredRequest
  <2>2. resp' \in [Sessions -> Answer]
    BY <1>0, <1>9, <2>1, AnswerTypes DEF GetMessage
  <2> QED BY <1>9, <2>2 DEF GetMessage
<1>10. ASSUME NEW s \in Sessions, CommitDelivered(s) PROVE TypeOK'
  <2>1. req[s] \in DeliveredRequest /\ at[s] \in Times
    BY <1>10, RequestKinds DEF CommitDelivered, RequestFits, TxnFits
  <2>2. req[s].msg \in MsgIds /\ req[s].msg \in held[s]
    BY <1>10, <2>1 DEF CommitDelivered, LocksFit, DeliveredRequest
  <2>3. messages[req[s].msg] \in Row
    BY <2>2, HeldCommitted
  <2>4. [messages[req[s].msg] EXCEPT !.status = "delivered", !.delivered_at = at[s]] \in Row
    BY <2>1, <2>3, UpdatedRows
  <2>5. messages' \in [MsgIds -> Row \cup {None}]
    BY <1>10, <2>2, <2>4 DEF CommitDelivered
  <2>6. outbox' \in [Event -> Nat]
    BY <1>10 DEF CommitDelivered, Enqueue
  <2>7. resp' \in [Sessions -> Answer]
    BY <1>0, <1>10, <2>2, AnswerTypes DEF CommitDelivered
  <2> QED BY <1>10, <2>2, <2>5, <2>6, <2>7 DEF CommitDelivered
<1>11. ASSUME NEW s \in Sessions, GetConversation(s) \/ GetAnchor(s) PROVE TypeOK'
  <2>1. resp' \in [Sessions -> Answer]
    BY <1>0, <1>11, AnswerTypes DEF GetConversation, GetAnchor
  <2>2. CASE GetConversation(s)
    BY <2>1, <2>2 DEF GetConversation
  <2>3. CASE GetAnchor(s)
    BY <2>1, <2>3 DEF GetAnchor, Utcnow
  <2> QED BY <1>11, <2>2, <2>3
<1>12. ASSUME NEW s \in Sessions, ScanUnread(s) PROVE TypeOK'
  BY <1>12 DEF ScanUnread, Unread
<1>13. ASSUME NEW s \in Sessions, LockRow(s) PROVE TypeOK'
  BY <1>13 DEF LockRow
<1>14. ASSUME NEW s \in Sessions, FinishUpdate(s) PROVE TypeOK'
  <2>1. resp' \in [Sessions -> Answer]
    BY <1>0, <1>14, AnswerTypes DEF FinishUpdate
  <2>2. pc' \in [Sessions -> Labels] /\ UNCHANGED <<store, clock, req, seen, failures>>
    BY <1>14 DEF FinishUpdate
  <2>3. CASE held[s] = {}
    <3>1. EndTxn(s)
      BY <1>14, <2>3 DEF FinishUpdate
    <3> QED BY <2>1, <2>2, <3>1
  <2>4. CASE held[s] # {}
    BY <1>14, <2>1, <2>2, <2>4 DEF FinishUpdate
  <2> QED BY <2>3, <2>4
<1>15. ASSUME NEW s \in Sessions, CommitRead(s) PROVE TypeOK'
  <2>1. at[s] \in Times
    BY <1>15 DEF CommitRead, TxnFits
  <2>2. \A m \in held[s] : ReadRow(messages[m], at[s]) \in Row
    BY <2>1, HeldCommitted, UpdatedRows
  <2>3. messages' \in [MsgIds -> Row \cup {None}]
    BY <1>15, <2>2 DEF CommitRead
  <2>4. outbox' \in [Event -> Nat]
    BY <1>15 DEF CommitRead, Enqueue
  <2>5. resp' \in [Sessions -> Answer]
    BY <1>0, <1>15, AnswerTypes DEF CommitRead
  <2> QED BY <1>15, <2>3, <2>4, <2>5 DEF CommitRead
<1>16. ASSUME NEW s \in Sessions, Reply(s) PROVE TypeOK'
  BY <1>16 DEF Reply
<1>17. ASSUME NEW s \in Sessions, Fail(s) PROVE TypeOK'
  <2>1. resp' \in [Sessions -> Answer]
    BY <1>0, <1>17, AnswerTypes DEF Fail
  <2>2. failures' \in 0..MaxFailures
    BY <1>17, NumbersAssumption DEF Fail
  <2> QED BY <1>17, <2>1, <2>2 DEF Fail
<1>18. ASSUME NEW s \in Sessions, DeadlockVictim(s) PROVE TypeOK'
  <2>1. resp' \in [Sessions -> Answer]
    BY <1>0, <1>18, AnswerTypes DEF DeadlockVictim
  <2> QED BY <1>18, <2>1 DEF DeadlockVictim
<1>19. ASSUME NEW s \in Sessions, Finish(s) PROVE TypeOK'
  BY <1>0, <1>19 DEF Finish
<1>20. CASE Tick
  BY <1>20, NumbersAssumption DEF Tick, Times
<1>21. CASE UNCHANGED vars
  BY <1>21 DEF vars
<1> HIDE DEF Inv, TypeOK, Goto, EndTxn, Labels, store, txn
<1> QED
  BY <1>1, <1>2, <1>3, <1>4, <1>5, <1>6, <1>7, <1>8, <1>9, <1>10, <1>11, <1>12, <1>13,
     <1>14, <1>15, <1>16, <1>17, <1>18, <1>19, <1>20, <1>21 DEF Next, Step

-----------------------------------------------------------------------------
(* A step of session s, of any kind. *)
Act(s) == \/ Step(s) \/ Fail(s) \/ DeadlockVictim(s)
          \/ \E r \in Requests : Start(s, r)

(* Only its commits are seen by the others: a session's step changes       *)
(* nothing of another session.                                             *)
LEMMA Local ==
  ASSUME TypeOK, NEW s \in Sessions, NEW u \in Sessions \ {s}, Act(s)
  PROVE  own(u)' = own(u)
<1> USE DEF TypeOK, own, Goto, Respond, EndTxn, store, txn
<1>1. ASSUME NEW r \in Requests, Start(s, r) PROVE own(u)' = own(u)
  BY <1>1 DEF Start, StartSend, StartDelivered, StartRead
<1>2. CASE Lookup(s) \/ Relookup(s)
  BY <1>2 DEF Lookup, Relookup, Replay
<1>3. CASE HeadAttachment(s) \/ InsertConversation(s) \/ InsertMessage(s) \/ RollbackSend(s)
  BY <1>3 DEF HeadAttachment, InsertConversation, InsertMessage, RollbackSend
<1>4. CASE CommitSend(s) \/ CommitDelivered(s) \/ CommitRead(s)
  BY <1>4 DEF CommitSend, CommitDelivered, CommitRead
<1>5. CASE UpdateDelivered(s) \/ GetMessage(s)
  BY <1>5 DEF UpdateDelivered, GetMessage
<1>6. CASE GetConversation(s) \/ GetAnchor(s) \/ ScanUnread(s)
  BY <1>6 DEF GetConversation, GetAnchor, ScanUnread
<1>7. CASE LockRow(s)
  BY <1>7 DEF LockRow
<1>8. CASE FinishUpdate(s)
  BY <1>8 DEF FinishUpdate
<1>9. CASE Reply(s) \/ Fail(s) \/ DeadlockVictim(s) \/ Finish(s)
  BY <1>9 DEF Reply, Fail, DeadlockVictim, Finish
<1> HIDE DEF TypeOK, own, Goto, Respond, EndTxn, store, txn
<1> QED
  BY <1>1, <1>2, <1>3, <1>4, <1>5, <1>6, <1>7, <1>8, <1>9 DEF Act, Step

(* Only commits change the committed rows and the outbox. *)
Commits(s) == CommitSend(s) \/ CommitDelivered(s) \/ CommitRead(s)

LEMMA OnlyCommits ==
  ASSUME NEW s \in Sessions, Act(s)
  PROVE  Commits(s) \/ UNCHANGED store
<1>1. ASSUME NEW r \in Requests, Start(s, r) PROVE UNCHANGED store
  BY <1>1 DEF Start, StartSend, StartDelivered, StartRead
<1>2. CASE Lookup(s) \/ Relookup(s) \/ HeadAttachment(s) \/ InsertConversation(s)
  BY <1>2 DEF Lookup, Relookup, HeadAttachment, InsertConversation
<1>3. CASE InsertMessage(s) \/ RollbackSend(s) \/ UpdateDelivered(s) \/ GetMessage(s)
  BY <1>3 DEF InsertMessage, RollbackSend, UpdateDelivered, GetMessage
<1>4. CASE GetConversation(s) \/ GetAnchor(s) \/ ScanUnread(s) \/ LockRow(s)
  BY <1>4 DEF GetConversation, GetAnchor, ScanUnread, LockRow
<1>5. CASE FinishUpdate(s) \/ Reply(s) \/ Fail(s) \/ DeadlockVictim(s) \/ Finish(s)
  BY <1>5 DEF FinishUpdate, Reply, Fail, DeadlockVictim, Finish
<1> QED
  BY <1>1, <1>2, <1>3, <1>4, <1>5 DEF Act, Step, Commits

(* A commit touches the rows its session holds, or adds its new one. *)
LEMMA CommittedRows ==
  ASSUME Inv, NEW s \in Sessions, Commits(s), NEW m \in MsgIds
  PROVE  \/ /\ CommitSend(s) /\ m = id[s] /\ ~Committed(m)
            /\ messages'[m] = NewRow(s)
         \/ /\ m \in held[s] /\ Committed(m)
            /\ \/ CommitDelivered(s) /\ messages'[m] =
                    [messages[m] EXCEPT !.status = "delivered", !.delivered_at = at[s]]
               \/ CommitRead(s) /\ messages'[m] = ReadRow(messages[m], at[s])
         \/ messages'[m] = messages[m]
<1> USE DEF Inv
<1>1. CASE CommitSend(s)
  <2>1. id[s] \in MsgIds /\ ~Committed(id[s])
    BY <1>1, NoneAssumption DEF CommitSend, TxnFits
  <2>2. messages' = [messages EXCEPT ![id[s]] = NewRow(s)]
    BY <1>1 DEF CommitSend
  <2> QED BY <1>1, <2>1, <2>2 DEF TypeOK
<1>2. CASE CommitDelivered(s)
  <2>1. req[s] \in DeliveredRequest
    BY <1>2, RequestKinds DEF CommitDelivered, RequestFits
  <2>2. held[s] = {req[s].msg}
    BY <1>2, <2>1 DEF CommitDelivered, LocksFit
  <2>3. messages' = [messages EXCEPT ![req[s].msg] =
                       [@ EXCEPT !.status = "delivered", !.delivered_at = at[s]]]
    BY <1>2 DEF CommitDelivered
  <2> QED BY <1>2, <2>2, <2>3, HeldCommitted DEF TypeOK
<1>3. CASE CommitRead(s)
  BY <1>3, HeldCommitted DEF CommitRead
<1> QED BY <1>1, <1>2, <1>3 DEF Commits

(* Rows are never deleted, and only their receipts change. *)
LEMMA RowsKept ==
  ASSUME Inv, NEW s \in Sessions, Act(s), NEW m \in MsgIds, Committed(m)
  PROVE  Committed(m)' /\ SameMessageAs(messages'[m], messages[m])
<1>1. CASE UNCHANGED store
  BY <1>1 DEF store, Committed, SameMessageAs
<1>2. CASE Commits(s)
  <2>1. messages[m] \in Row
    BY RowIsNotNone DEF Inv
  <2>2. CASE messages'[m] = messages[m]
    BY <2>2 DEF Committed, SameMessageAs
  <2>3. CASE m \in held[s] /\ messages'[m] # messages[m]
    <3>1. at[s] \in Times
      BY <1>2 DEF Commits, CommitSend, CommitDelivered, CommitRead, Inv, TxnFits
    <3>2. \/ messages'[m] = [messages[m] EXCEPT !.status = "delivered", !.delivered_at = at[s]]
          \/ messages'[m] = ReadRow(messages[m], at[s])
      BY <1>2, <2>3, CommittedRows
    <3>3. messages'[m] \in Row /\ SameMessageAs(messages'[m], messages[m])
      <4>1. CASE messages'[m] = ReadRow(messages[m], at[s])
        <5>1. /\ ReadRow(messages[m], at[s]) \in Row
              /\ SameMessageAs(ReadRow(messages[m], at[s]), messages[m])
          BY <2>1, <3>1, UpdatedRows
        <5> QED BY <4>1, <5>1
      <4>2. CASE messages'[m] =
                   [messages[m] EXCEPT !.status = "delivered", !.delivered_at = at[s]]
        BY <2>1, <3>1, <4>2 DEF Row, Status, SameMessageAs
      <4> QED BY <3>2, <4>1, <4>2
    <3> QED BY <3>3, NoneAssumption DEF Committed
  <2> QED BY <1>2, <2>2, <2>3, CommittedRows
<1> QED BY <1>1, <1>2, OnlyCommits

-----------------------------------------------------------------------------
(* A session moves along its request, which only its start and end set. *)
LEMMA RequestStep ==
  ASSUME Inv, NEW s \in Sessions, Act(s)
  PROVE  RequestFits'
<1> DEFINE Fits(p, r) == /\ p # "idle" => r \in Request
                         /\ p \in SendLabels => r \in SendRequest
                         /\ p \in DeliveredLabels => r \in DeliveredRequest
                         /\ p \in ReadLabels => r \in ReadRequest
                         /\ (r \in SendRequest /\ p \notin {"idle", "done"}) => ~Rejected(r)
<1>1. \A u \in Sessions : Fits(pc[u], req[u])
  BY DEF Inv, RequestFits
<1>2. pc \in [Sessions -> Labels] /\ req \in [Sessions -> Request \cup {None}]
  BY DEF Inv, TypeOK
<1> USE DEF SendLabels, DeliveredLabels, ReadLabels, Goto
<1>3. Fits(pc'[s], req'[s])
  <2>1. ASSUME NEW r \in Requests, Start(s, r) PROVE Fits(pc'[s], req'[s])
    <3>1. r \in Request
      BY RequestsAssumption
    <3>2. CASE StartSend(s, r)
      BY <1>2, <3>1, <3>2, RequestKinds DEF StartSend, Rejected
    <3>3. CASE StartDelivered(s, r) \/ StartRead(s, r)
      BY <1>2, <3>1, <3>3, RequestKinds DEF StartDelivered, StartRead
    <3> QED BY <2>1, <3>2, <3>3 DEF Start
  <2>2. CASE Lookup(s) \/ HeadAttachment(s) \/ InsertConversation(s)
    <3>1. req' = req /\ pc[s] \in SendLabels /\ pc'[s] \in SendLabels \cup {"done"}
      BY <1>2, <2>2 DEF Lookup, Replay, HeadAttachment, InsertConversation
    <3> QED BY <1>1, <3>1
  <2>3. CASE InsertMessage(s) \/ RollbackSend(s) \/ Relookup(s)
    <3>1. req' = req /\ pc[s] \in SendLabels /\ pc'[s] \in SendLabels \cup {"commit", "done"}
      BY <1>2, <2>3 DEF InsertMessage, RollbackSend, Relookup, Replay
    <3> QED BY <1>1, <3>1
  <2>4. CASE Commits(s)
    <3>1. req' = req /\ pc[s] = "commit" /\ pc'[s] = "reply"
      BY <1>2, <2>4 DEF Commits, CommitSend, CommitDelivered, CommitRead
    <3> QED BY <1>1, <3>1
  <2>5. CASE UpdateDelivered(s) \/ GetMessage(s)
    <3>1. req' = req /\ pc[s] \in DeliveredLabels /\ pc'[s] \in {"get", "commit", "done"}
      BY <1>2, <2>5 DEF UpdateDelivered, GetMessage
    <3>2. req[s] \notin SendRequest
      BY <1>1, <3>1, RequestKinds DEF DeliveredRequest
    <3> QED BY <1>1, <3>1, <3>2
  <2>6. CASE GetConversation(s) \/ GetAnchor(s) \/ ScanUnread(s) \/ LockRow(s) \/ FinishUpdate(s)
    <3>1. req' = req /\ pc[s] \in ReadLabels /\ pc'[s] \in ReadLabels \cup {"commit", "done"}
      BY <1>2, <2>6 DEF GetConversation, GetAnchor, ScanUnread, LockRow, FinishUpdate
    <3>2. req[s] \notin SendRequest
      BY <1>1, <3>1, RequestKinds DEF ReadRequest
    <3> QED BY <1>1, <3>1, <3>2
  <2>7. CASE Reply(s) \/ Fail(s) \/ DeadlockVictim(s)
    BY <1>1, <1>2, <2>7 DEF Reply, Fail, DeadlockVictim, Deadlocked
  <2>8. CASE Finish(s)
    BY <1>1, <1>2, <2>8, NoneAssumption DEF Finish, Request
  <2> QED
    BY <2>1, <2>2, <2>3, <2>4, <2>5, <2>6, <2>7, <2>8 DEF Act, Step, Commits
<1>4. \A u \in Sessions \ {s} : pc'[u] = pc[u] /\ req'[u] = req[u]
  BY Local DEF own, Inv
<1>5. \A u \in Sessions : Fits(pc'[u], req'[u])
  BY <1>1, <1>3, <1>4
<1> QED BY <1>5 DEF RequestFits

(* What other sessions commit leaves a transaction's computed values fit.  *)
LEMMA OthersTxn ==
  ASSUME Inv, NEW s \in Sessions, Act(s), NEW u \in Sessions \ {s}, id[u] # None
  PROVE  ~Committed(id[u])'
<1>1. id[u] \in MsgIds /\ ~Committed(id[u]) /\ id[s] # id[u] /\ id'[u] = id[u]
  BY Local DEF Inv, TypeOK, TxnFits, own
<1>2. messages'[id[u]] = messages[id[u]]
  BY <1>1, OnlyCommits, CommittedRows DEF store
<1> QED BY <1>1, <1>2 DEF Committed

(* An id is chosen among those nobody uses, and is used once. *)
LEMMA TxnStep ==
  ASSUME Inv, NEW s \in Sessions, Act(s)
  PROVE  TxnFits'
<1> DEFINE Fits(u) ==
             /\ (pc[u] = "insert" \/ (pc[u] = "commit" /\ req[u].op = "send")) => id[u] \in MsgIds
             /\ pc[u] \in {"insert", "update", "scan", "lock", "commit"} => at[u] \in Times
             /\ id[u] # None => pc[u] \in {"insert", "rollback", "commit"} /\ ~Committed(id[u])
             /\ staged[u] => pc[u] \in {"insert", "rollback", "commit"} /\ req[u] \in SendRequest
           Single == id'[s] \in {None, id[s]} \/ \A u \in Sessions : id[u] # id'[s]
<1>1. \A u \in Sessions : Fits(u)
  BY DEF Inv, TxnFits
<1>2. /\ pc \in [Sessions -> Labels] /\ req \in [Sessions -> Request \cup {None}]
      /\ staged \in [Sessions -> BOOLEAN] /\ id \in [Sessions -> MsgIds \cup {None}]
      /\ at \in [Sessions -> Times \cup {None}]
  BY DEF Inv, TypeOK
<1>3. /\ pc[s] \in SendLabels => req[s] \in SendRequest
      /\ pc[s] \in DeliveredLabels \cup ReadLabels => req[s].op # "send"
  BY RequestKinds DEF Inv, RequestFits, DeliveredRequest, ReadRequest
<1>4. Fits(s)' /\ Single
  <2> USE DEF Goto, EndTxn, store, txn, Committed
  <2>1. ASSUME NEW r \in Requests, Start(s, r) PROVE Fits(s)' /\ Single
    BY <1>1, <1>2, <2>1 DEF Start, StartSend, StartDelivered, StartRead, Utcnow
  <2>2. CASE Lookup(s) \/ HeadAttachment(s) \/ Relookup(s)
    BY <1>1, <1>2, <2>2 DEF Lookup, HeadAttachment, Relookup, Replay
  <2>3. CASE InsertConversation(s)
    BY <1>1, <1>2, <1>3, <2>3 DEF InsertConversation, FreshIds, Utcnow, SendLabels
  <2>4. CASE InsertMessage(s)
    BY <1>1, <1>2, <1>3, <2>4 DEF InsertMessage, SendLabels
  <2>5. CASE Commits(s) \/ RollbackSend(s)
    BY <1>1, <1>2, <2>5 DEF RollbackSend, Commits, CommitSend, CommitDelivered, CommitRead
  <2>6. CASE UpdateDelivered(s) \/ GetMessage(s)
    BY <1>1, <1>2, <1>3, <2>6 DEF UpdateDelivered, GetMessage, DeliveredLabels
  <2>7. CASE GetConversation(s) \/ GetAnchor(s)
    <3>1. CASE GetConversation(s)
      BY <1>1, <1>2, <3>1 DEF GetConversation
    <3>2. CASE GetAnchor(s)
      BY <1>1, <1>2, <3>2 DEF GetAnchor, Utcnow
    <3> QED BY <2>7, <3>1, <3>2
  <2>8. CASE ScanUnread(s) \/ LockRow(s) \/ FinishUpdate(s)
    BY <1>1, <1>2, <1>3, <2>8 DEF ScanUnread, LockRow, FinishUpdate, ReadLabels
  <2>9. CASE Reply(s) \/ Fail(s) \/ DeadlockVictim(s) \/ Finish(s)
    <3>1. CASE Reply(s)
      BY <1>1, <1>2, <3>1 DEF Reply
    <3>2. CASE Fail(s) \/ DeadlockVictim(s) \/ Finish(s)
      <4>1. EndTxn(s) /\ pc'[s] \in {"idle", "done"}
        BY <1>2, <3>2 DEF Fail, DeadlockVictim, Finish
      <4> QED BY <1>2, <4>1
    <3> QED BY <2>9, <3>1, <3>2
  <2> HIDE DEF Single, Fits, Goto, EndTxn, store, txn, Committed
  <2> QED BY <2>1, <2>2, <2>3, <2>4, <2>5, <2>6, <2>7, <2>8, <2>9 DEF Act, Step, Commits
<1>5. \A u \in Sessions \ {s} : own(u)' = own(u)
  BY Local DEF Inv
<1>6. \A u \in Sessions \ {s} : Fits(u)'
  BY <1>1, <1>5, OthersTxn DEF own
<1>7. \A u, v \in Sessions : (u # v /\ id'[u] # None) => id'[v] # id'[u]
  <2>1. \A u, v \in Sessions : (u # v /\ id[u] # None) => id[v] # id[u]
    BY DEF Inv, TxnFits
  <2> QED BY <1>4, <1>5, <2>1 DEF own
<1> QED BY <1>4, <1>6, <1>7 DEF TxnFits

-----------------------------------------------------------------------------
(* A step of s neither changes nor frees what another session's UPDATE has *)
(* to visit or has updated.                                                *)
LEMMA OthersLocks ==
  ASSUME Inv, NEW s \in Sessions, Act(s), NEW u \in Sessions \ {s}, NEW m \in MsgIds
  PROVE  /\ Visits(u, m) => Visits(u, m)'
         /\ (m \in held[u] /\ Holds(u, m)) => Holds(u, m)'
<1>1. pc'[u] = pc[u] /\ req'[u] = req[u]
  BY Local DEF Inv, own
<1>2. Visits(u, m) => Visits(u, m)'
  BY <1>1, RowsKept DEF Visits, SameMessageAs
<1>3. (m \in held[u] /\ Holds(u, m)) => messages'[m] = messages[m]
  <2> SUFFICES ASSUME m \in held[u], Holds(u, m) PROVE messages'[m] = messages[m]
    OBVIOUS
  <2>1. Committed(m) /\ m \notin held[s]
    BY DEF Inv, LocksFit, Holds, Visits, Deliverable
  <2> QED BY <2>1, OnlyCommits, CommittedRows DEF store
<1>4. (m \in held[u] /\ Holds(u, m)) => Holds(u, m)'
  BY <1>1, <1>2, <1>3 DEF Holds, Deliverable, Committed
<1> QED BY <1>2, <1>4

(* A row is updated by one session at a time, and what a session holds is  *)
(* what its WHERE clause asked for.                                        *)
LEMMA LocksStep ==
  ASSUME Inv, NEW s \in Sessions, Act(s)
  PROVE  LocksFit'
<1> DEFINE Fits(u) == /\ \A m \in todo[u] : pc[u] = "lock" /\ Visits(u, m)
                      /\ \A m \in held[u] : Holds(u, m)
                      /\ (pc[u] = "commit" /\ req[u] \in DeliveredRequest) => held[u] = {req[u].msg}
           Single == \A m \in held'[s] : m \in held[s] \/ Free(m, s)
<1>1. TypeOK /\ \A u \in Sessions : Fits(u)
  BY DEF Inv, LocksFit
<1>2. /\ pc[s] \in SendLabels => req[s] \in SendRequest
      /\ pc[s] \in DeliveredLabels => req[s] \in DeliveredRequest
      /\ pc[s] \in ReadLabels => req[s] \in ReadRequest
  BY DEF Inv, RequestFits
<1>3. /\ pc[s] # "lock" => todo[s] = {}
      /\ pc[s] \notin {"lock", "commit"} => held[s] = {}
  BY <1>1 DEF Holds
<1>4. Fits(s)' /\ Single
  <2> USE DEF Goto, EndTxn, TypeOK
  <2>1. ASSUME todo'[s] = {}, held'[s] = {}, pc'[s] # "commit" \/ req'[s] \in SendRequest
        PROVE  Fits(s)' /\ Single
    BY <2>1, RequestKinds DEF Request
  <2>2. ASSUME NEW r \in Requests, Start(s, r) PROVE Fits(s)' /\ Single
    BY <1>1, <1>3, <2>1, <2>2 DEF Start, StartSend, StartDelivered, StartRead, txn
  <2>3. CASE Lookup(s) \/ HeadAttachment(s) \/ InsertConversation(s) \/ Relookup(s)
    BY <1>1, <1>3, <2>1, <2>3
       DEF Lookup, HeadAttachment, InsertConversation, Relookup, Replay, txn
  <2>4. CASE InsertMessage(s)
    BY <1>1, <1>2, <1>3, <2>1, <2>4 DEF InsertMessage, SendLabels, txn
  <2>5. CASE Commits(s) \/ RollbackSend(s) \/ GetMessage(s)
    BY <1>1, <2>1, <2>5
       DEF Commits, CommitSend, CommitDelivered, CommitRead, RollbackSend, GetMessage
  <2>6. CASE UpdateDelivered(s)
    <3>1. req[s] \in DeliveredRequest /\ held[s] = {} /\ todo[s] = {}
      BY <1>2, <1>3, <2>6 DEF UpdateDelivered, DeliveredLabels
    <3>2. req' = req /\ messages' = messages /\ todo' = todo
      BY <2>6 DEF UpdateDelivered, store
    <3>3. CASE Deliverable(req[s])
      <4>1. pc'[s] = "commit" /\ held'[s] = {req[s].msg} /\ Free(req[s].msg, s)
        BY <1>1, <2>6, <3>3 DEF UpdateDelivered
      <4> QED BY <3>1, <3>2, <3>3, <4>1 DEF Holds, Deliverable, Committed
    <3>4. CASE ~Deliverable(req[s])
      BY <1>1, <2>1, <2>6, <3>1, <3>4 DEF UpdateDelivered
    <3> QED BY <3>3, <3>4
  <2>7. CASE GetConversation(s) \/ GetAnchor(s)
    <3>1. CASE GetConversation(s)
      BY <1>1, <1>3, <2>1, <3>1 DEF GetConversation, txn
    <3>2. CASE GetAnchor(s)
      BY <1>1, <1>3, <2>1, <3>2 DEF GetAnchor
    <3> QED BY <2>7, <3>1, <3>2
  <2>8. CASE ScanUnread(s)
    <3>1. pc'[s] = "lock" /\ todo'[s] = Unread(req[s]) /\ held'[s] = {}
      BY <1>1, <1>3, <2>8 DEF ScanUnread
    <3>2. req' = req /\ messages' = messages
      BY <2>8 DEF ScanUnread, store
    <3> QED BY <3>1, <3>2 DEF Unread, Visits, Committed
  <2>9. CASE LockRow(s)
    <3>1. pc[s] = "lock" /\ req[s] \in ReadRequest
      BY <1>2, <2>9 DEF LockRow, ReadLabels
    <3>2. UNCHANGED <<messages, pc, req>>
      BY <2>9 DEF LockRow, store
    <3>3. PICK m \in todo[s] : /\ Free(m, s)
                              /\ todo'[s] = todo[s] \ {m}
                              /\ held'[s] = IF messages[m].status # "read"
                                            THEN held[s] \cup {m} ELSE held[s]
      BY <1>1, <2>9 DEF LockRow
    <3>4. \A n \in held'[s] : Holds(s, n)'
      BY <1>1, <3>1, <3>2, <3>3 DEF Holds, Visits, Committed, Deliverable
    <3>5. \A n \in todo'[s] : pc'[s] = "lock" /\ Visits(s, n)'
      BY <1>1, <3>2, <3>3 DEF Visits, Committed
    <3> QED BY <3>1, <3>2, <3>3, <3>4, <3>5
  <2>10. CASE FinishUpdate(s)
    <3>1. pc[s] = "lock" /\ req[s] \in ReadRequest /\ todo[s] = {}
      BY <1>2, <2>10 DEF FinishUpdate, ReadLabels
    <3>2. CASE held[s] = {}
      BY <1>1, <2>1, <2>10, <3>2 DEF FinishUpdate
    <3>3. CASE held[s] # {}
      <4>1. pc'[s] = "commit" /\ UNCHANGED <<messages, req, todo, held>>
        BY <1>1, <2>10, <3>3 DEF FinishUpdate, store, txn
      <4>2. req[s] \notin DeliveredRequest
        BY <3>1 DEF ReadRequest, DeliveredRequest
      <4> QED BY <1>1, <3>1, <4>1, <4>2 DEF Holds, Visits, Committed
    <3> QED BY <3>2, <3>3
  <2>11. CASE Reply(s) \/ Fail(s) \/ DeadlockVictim(s) \/ Finish(s)
    BY <1>1, <1>3, <2>1, <2>11 DEF Reply, Fail, DeadlockVictim, Finish, txn
  <2> HIDE DEF Fits, Single, Goto, EndTxn, TypeOK
  <2> QED
    BY <2>2, <2>3, <2>4, <2>5, <2>6, <2>7, <2>8, <2>9, <2>10, <2>11 DEF Act, Step, Commits
<1>5. \A u \in Sessions \ {s} : own(u)' = own(u)
  BY Local DEF Inv
<1>6. \A u \in Sessions \ {s} : Fits(u)'
  BY <1>1, <1>5, OthersLocks DEF own, TypeOK
<1>7. \A u, v \in Sessions : u # v => held'[u] \cap held'[v] = {}
  <2>1. \A u, v \in Sessions : u # v => held[u] \cap held[v] = {}
    BY DEF Inv, LocksFit
  <2>2. \A u \in Sessions \ {s} : held'[s] \cap held[u] = {}
    BY <1>4, <2>1 DEF Free
  <2> QED BY <1>5, <2>1, <2>2 DEF own
<1> QED BY <1>4, <1>6, <1>7 DEF LocksFit

(* Nobody writes to himself. *)
LEMMA RowsStep ==
  ASSUME Inv, NEW s \in Sessions, Act(s)
  PROVE  Rows'
<1> SUFFICES ASSUME NEW m \in MsgIds, Committed(m)'
             PROVE  messages'[m].sender # messages'[m].recipient
  BY DEF Rows
<1>1. CASE Committed(m)
  BY <1>1, RowsKept DEF Inv, Rows, SameMessageAs
<1>2. CASE ~Committed(m)
  <2>1. CommitSend(s) /\ messages'[m] = NewRow(s)
    BY <1>2, OnlyCommits, CommittedRows DEF Committed, store
  <2>2. req[s] \in SendRequest /\ pc[s] = "commit"
    BY <2>1, RequestKinds DEF CommitSend, Inv, RequestFits
  <2> QED BY <2>1, <2>2 DEF NewRow, Inv, RequestFits, Rejected
<1> QED BY <1>1, <1>2

LEMMA InvStep == Inv /\ [Next]_vars => Inv'
<1> SUFFICES ASSUME Inv, [Next]_vars PROVE Inv'
  OBVIOUS
<1>1. TypeOK'
  BY TypeStep
<1>2. ASSUME NEW s \in Sessions, Act(s) PROVE Inv'
  BY <1>1, <1>2, RequestStep, TxnStep, LocksStep, RowsStep DEF Inv
<1>3. CASE Tick \/ UNCHANGED vars
  <2>1. UNCHANGED <<store, pc, req, txn>>
    BY <1>3 DEF Tick, vars
  <2> QED
    BY <1>1, <2>1 DEF Inv, RequestFits, TxnFits, LocksFit, Rows, Holds, Visits, Deliverable,
                      Committed, store, txn
<1> QED BY <1>2, <1>3 DEF Next, Act

(* What every session has read, computed and locked stays fit for its next *)
(* statement, and every variable has its type.                             *)
THEOREM TypeCorrect == Spec => []TypeOK
<1>1. Inv => TypeOK
  BY DEF Inv
<1> QED BY <1>1, InitInv, InvStep, PTL DEF Spec

-----------------------------------------------------------------------------
(* The unique key (sender_id, client_msg_id): an INSERT that went through  *)
(* is alone with its key, one that reported a conflict had a row to report,*)
(* and the answer given at the end stays true.                             *)
Inserted == \A s \in Sessions : (pc[s] = "commit" /\ req[s].op = "send") =>
                /\ \A m \in MsgIds : ~HasKey(m, req[s])
                /\ \A u \in Sessions \ {s} : u \notin InsertedKey(req[s])

Conflicted == \A s \in Sessions : pc[s] \in {"rollback", "relookup"} =>
                \E m \in MsgIds : HasKey(m, req[s])

Settled(s) ==
    LET m == resp[s].msg IN
    /\ resp[s].code # "conflict"
    /\ resp[s].code = "idempotency_conflict" =>
           m \in MsgIds /\ HasKey(m, req[s]) /\ ~SameMessage(m, req[s])
    /\ (req[s].op = "send" /\ resp[s].code \in {"created", "ok"}) =>
           m \in MsgIds /\ HasKey(m, req[s]) /\ SameMessage(m, req[s])

AnswersFit == \A s \in Sessions : pc[s] \in {"reply", "done"} => Settled(s)

OneRowPerKey == \A m, n \in MsgIds :
    ( /\ Committed(m) /\ Committed(n)
      /\ messages[m].sender = messages[n].sender
      /\ messages[m].cmid = messages[n].cmid ) => m = n

KeyInv == Inserted /\ Conflicted /\ AnswersFit /\ OneRowPerKey

(* A key that is taken stays taken, by the same message. *)
LEMMA KeysKept ==
  ASSUME Inv, NEW s \in Sessions, Act(s), NEW u \in Sessions, req'[u] = req[u],
         NEW m \in MsgIds, HasKey(m, req[u])
  PROVE  HasKey(m, req[u])' /\ (SameMessage(m, req[u])' <=> SameMessage(m, req[u]))
BY RowsKept DEF HasKey, SameMessage, SameMessageAs

(* Only the commit of a send takes a key: its own. *)
LEMMA NewKeys ==
  ASSUME Inv, NEW s \in Sessions, Act(s), NEW m \in MsgIds, Committed(m)', ~Committed(m)
  PROVE  /\ CommitSend(s) /\ pc[s] = "commit" /\ req[s].op = "send" /\ m = id[s]
         /\ messages'[m].sender = req[s].user /\ messages'[m].cmid = req[s].cmid
         /\ messages'[m].recipient = req[s].to /\ messages'[m].content = req[s].content
<1>1. CommitSend(s) /\ m = id[s] /\ messages'[m] = NewRow(s)
  BY OnlyCommits, CommittedRows DEF Committed, store
<1> QED BY <1>1 DEF NewRow, CommitSend

(* Only an INSERT that finds its key free goes on to commit a send. *)
LEMMA EnterCommit ==
  ASSUME Inv, NEW s \in Sessions, Act(s), pc'[s] = "commit", req'[s].op = "send"
  PROVE  InsertMessage(s) /\ req' = req /\ messages' = messages /\ ByClientMsgId(req[s]) = {}
<1> USE DEF Inv, TypeOK, Goto
<1>1. ASSUME NEW r \in Requests, Start(s, r) PROVE FALSE
  BY <1>1 DEF Start, StartSend, StartDelivered, StartRead
<1>2. CASE Lookup(s) \/ HeadAttachment(s) \/ InsertConversation(s) \/ RollbackSend(s) \/ Relookup(s)
  BY <1>2 DEF Lookup, HeadAttachment, InsertConversation, RollbackSend, Relookup, Replay
<1>3. CASE InsertMessage(s)
  BY <1>3 DEF InsertMessage, store
<1>4. CASE Commits(s) \/ GetMessage(s)
  BY <1>4 DEF Commits, CommitSend, CommitDelivered, CommitRead, GetMessage
<1>5. CASE UpdateDelivered(s)
  <2>1. req[s] \in DeliveredRequest /\ req' = req
    BY <1>5 DEF UpdateDelivered, RequestFits, DeliveredLabels
  <2> QED BY <2>1 DEF DeliveredRequest
<1>6. CASE GetConversation(s) \/ GetAnchor(s) \/ ScanUnread(s) \/ LockRow(s) \/ FinishUpdate(s)
  <2>1. req[s] \in ReadRequest /\ req' = req
    BY <1>6 DEF GetConversation, GetAnchor, ScanUnread, LockRow, FinishUpdate,
                RequestFits, ReadLabels
  <2> QED BY <2>1 DEF ReadRequest
<1>7. CASE Reply(s) \/ Fail(s) \/ DeadlockVictim(s) \/ Finish(s)
  BY <1>7 DEF Reply, Fail, DeadlockVictim, Finish
<1> HIDE DEF Inv, TypeOK, Goto
<1> QED BY <1>1, <1>2, <1>3, <1>4, <1>5, <1>6, <1>7 DEF Act, Step, Commits

(* The INSERT waits for a session with its key, so it enters alone.        *)
LEMMA InsertedStep ==
  ASSUME Inv, Inserted, NEW s \in Sessions, Act(s)
  PROVE  Inserted'
<1> SUFFICES ASSUME NEW u \in Sessions, pc'[u] = "commit", req'[u].op = "send"
             PROVE  /\ \A m \in MsgIds : ~HasKey(m, req[u])'
                    /\ \A v \in Sessions \ {u} : v \notin InsertedKey(req[u])'
  BY DEF Inserted
<1>1. \A v \in Sessions \ {s} : pc'[v] = pc[v] /\ req'[v] = req[v]
  BY Local DEF Inv, own
<1>2. CASE u = s
  <2>1. InsertMessage(s) /\ req' = req /\ messages' = messages /\ ByClientMsgId(req[s]) = {}
    BY <1>2, EnterCommit
  <2>2. \A m \in MsgIds : ~HasKey(m, req[u])'
    BY <1>2, <2>1 DEF ByClientMsgId, HasKey, Committed
  <2>3. InsertedKey(req[s]) = {}
    BY <2>1 DEF InsertMessage
  <2> QED BY <1>1, <1>2, <2>1, <2>2, <2>3 DEF InsertedKey
<1>3. CASE u # s
  <2>1. pc[u] = "commit" /\ req[u].op = "send" /\ req'[u] = req[u]
    BY <1>1, <1>3
  <2>2. /\ \A m \in MsgIds : ~HasKey(m, req[u])
        /\ \A v \in Sessions \ {u} : v \notin InsertedKey(req[u])
    BY <2>1 DEF Inserted
  <2>3. ASSUME NEW m \in MsgIds, HasKey(m, req[u])' PROVE FALSE
    <3>1. CASE Committed(m)
      <4>1. messages'[m].sender = messages[m].sender /\ messages'[m].cmid = messages[m].cmid
        BY <3>1, RowsKept DEF SameMessageAs
      <4> QED BY <2>1, <2>2, <2>3, <3>1, <4>1 DEF HasKey
    <3>2. CASE ~Committed(m)
      <4>1. Committed(m)'
        BY <2>3 DEF HasKey
      <4>2. s \in InsertedKey(req[u])
        BY <2>1, <2>3, <3>2, <4>1, NewKeys DEF HasKey, InsertedKey
      <4> QED BY <1>3, <2>2, <4>2
    <3> QED BY <3>1, <3>2
  <2>4. ASSUME NEW v \in Sessions \ {u}, v \in InsertedKey(req[u])' PROVE FALSE
    <3>1. /\ pc'[v] = "commit" /\ req'[v].op = "send"
          /\ req'[v].user = req[u].user /\ req'[v].cmid = req[u].cmid
      BY <2>1, <2>4 DEF InsertedKey
    <3>2. CASE v = s
      <4>1. InsertMessage(s) /\ req' = req
        BY <3>1, <3>2, EnterCommit
      <4>2. u \in InsertedKey(req[s])
        BY <2>1, <3>1, <3>2, <4>1 DEF InsertedKey
      <4> QED BY <4>1, <4>2 DEF InsertMessage
    <3>3. CASE v # s
      BY <1>1, <2>2, <3>1, <3>3 DEF InsertedKey
    <3> QED BY <3>2, <3>3
  <2> QED BY <2>3, <2>4
<1> QED BY <1>2, <1>3

(* The row an INSERT conflicted with is there to be looked up. *)
LEMMA ConflictedStep ==
  ASSUME Inv, Conflicted, NEW s \in Sessions, Act(s)
  PROVE  Conflicted'
<1> SUFFICES ASSUME NEW u \in Sessions, pc'[u] \in {"rollback", "relookup"}
             PROVE  \E m \in MsgIds : HasKey(m, req[u])'
  BY DEF Conflicted
<1>1. req'[u] = req[u] /\ \E m \in MsgIds : HasKey(m, req[u])
  <2>1. CASE u # s
    <3>1. pc'[u] = pc[u] /\ req'[u] = req[u]
      BY <2>1, Local DEF Inv, own
    <3> QED BY <3>1 DEF Conflicted
  <2>2. CASE u = s
    <3> USE <2>2 DEF Inv, TypeOK, Goto
    <3>1. CASE InsertMessage(s)
      BY <3>1 DEF InsertMessage, ByClientMsgId
    <3>2. CASE RollbackSend(s)
      BY <3>2 DEF RollbackSend, Conflicted
    <3>3. ASSUME NEW r \in Requests, Start(s, r) PROVE FALSE
      BY <3>3 DEF Start, StartSend, StartDelivered, StartRead
    <3>4. CASE Lookup(s) \/ HeadAttachment(s) \/ InsertConversation(s) \/ Relookup(s)
      BY <3>4 DEF Lookup, HeadAttachment, InsertConversation, Relookup, Replay
    <3>5. CASE Commits(s) \/ GetMessage(s) \/ UpdateDelivered(s)
      BY <3>5 DEF Commits, CommitSend, CommitDelivered, CommitRead, GetMessage, UpdateDelivered
    <3>6. CASE GetConversation(s) \/ GetAnchor(s)
      BY <3>6 DEF GetConversation, GetAnchor
    <3>7. CASE ScanUnread(s) \/ LockRow(s) \/ FinishUpdate(s)
      BY <3>7 DEF ScanUnread, LockRow, FinishUpdate
    <3>8. CASE Reply(s) \/ Fail(s) \/ DeadlockVictim(s) \/ Finish(s)
      BY <3>8 DEF Reply, Fail, DeadlockVictim, Finish
    <3> HIDE DEF Inv, TypeOK, Goto
    <3> QED
      BY <3>1, <3>2, <3>3, <3>4, <3>5, <3>6, <3>7, <3>8 DEF Act, Step, Commits
  <2> QED BY <2>1, <2>2
<1>2. PICK m \in MsgIds : HasKey(m, req[u])
  BY <1>1
<1>3. HasKey(m, req[u])'
  BY <1>1, <1>2, KeysKept
<1> QED BY <1>3

(* Committed rows keep their keys, and a new one has a key nobody had. *)
LEMMA UniqueStep ==
  ASSUME Inv, Inserted, OneRowPerKey, NEW s \in Sessions, Act(s)
  PROVE  OneRowPerKey'
<1> SUFFICES ASSUME NEW m \in MsgIds, NEW n \in MsgIds, Committed(m)', Committed(n)',
                    messages'[m].sender = messages'[n].sender,
                    messages'[m].cmid = messages'[n].cmid, m # n
             PROVE  FALSE
  BY DEF OneRowPerKey
<1>1. ASSUME NEW a \in MsgIds, NEW b \in MsgIds, Committed(a), ~Committed(b), Committed(b)',
             messages'[a].sender = messages'[b].sender, messages'[a].cmid = messages'[b].cmid
      PROVE  FALSE
  <2>1. messages'[a].sender = messages[a].sender /\ messages'[a].cmid = messages[a].cmid
    BY <1>1, RowsKept DEF SameMessageAs
  <2>2. /\ pc[s] = "commit" /\ req[s].op = "send"
        /\ messages'[b].sender = req[s].user /\ messages'[b].cmid = req[s].cmid
    BY <1>1, NewKeys
  <2>3. HasKey(a, req[s])
    BY <1>1, <2>1, <2>2 DEF HasKey
  <2> QED BY <2>2, <2>3 DEF Inserted
<1>2. CASE Committed(m) /\ Committed(n)
  <2>1. /\ messages'[m].sender = messages[m].sender /\ messages'[m].cmid = messages[m].cmid
        /\ messages'[n].sender = messages[n].sender /\ messages'[n].cmid = messages[n].cmid
    BY <1>2, RowsKept DEF SameMessageAs
  <2> QED BY <1>2, <2>1 DEF OneRowPerKey
<1>3. CASE ~Committed(m) /\ ~Committed(n)
  BY <1>3, NewKeys
<1> QED BY <1>1, <1>2, <1>3

(* _replay answers what the stored message deserves. *)
LEMMA ReplaySettles ==
  ASSUME Inv, NEW s \in Sessions, NEW m \in MsgIds, HasKey(m, req[s]), Replay(s, m),
         req' = req, messages' = messages
  PROVE  Settled(s)'
BY DEF Inv, TypeOK, Replay, Respond, Settled, HasKey, SameMessage, Committed

(* Whatever is answered is true of the committed rows, and stays true.     *)
LEMMA AnswersStep ==
  ASSUME Inv, Conflicted, AnswersFit, NEW s \in Sessions, Act(s)
  PROVE  AnswersFit'
<1>1. ASSUME NEW u \in Sessions \ {s}, pc'[u] \in {"reply", "done"} PROVE Settled(u)'
  <2>1. pc'[u] = pc[u] /\ req'[u] = req[u] /\ resp'[u] = resp[u]
    BY Local DEF Inv, own
  <2>2. Settled(u)
    BY <1>1, <2>1 DEF AnswersFit
  <2>3. ASSUME NEW m \in MsgIds, HasKey(m, req[u])
        PROVE  HasKey(m, req[u])' /\ (SameMessage(m, req[u])' <=> SameMessage(m, req[u]))
    BY <2>1, <2>3, KeysKept
  <2>4. resp'[u].msg \in MsgIds /\ HasKey(resp[u].msg, req[u]) =>
          /\ HasKey(resp[u].msg, req[u])'
          /\ SameMessage(resp[u].msg, req[u])' <=> SameMessage(resp[u].msg, req[u])
    BY <2>1, <2>3 DEF HasKey, SameMessage, Committed
  <2> QED BY <2>1, <2>2, <2>4 DEF Settled
<1>2. ASSUME pc'[s] \in {"reply", "done"} PROVE Settled(s)'
  <2> USE DEF Goto
  <2>1. TypeOK
    BY DEF Inv
  <2>2. ASSUME NEW c \in {"rejected", "failed"}, Respond(s, c, None) PROVE Settled(s)'
    BY <2>1, <2>2 DEF Respond, Settled, TypeOK
  <2>3. ASSUME req[s] \notin SendRequest, req[s] \in Request, req' = req,
               NEW c \in {"ok", "rejected"}, NEW m \in MsgIds \cup {None}, Respond(s, c, m)
        PROVE  Settled(s)'
    BY <2>1, <2>3, RequestKinds DEF Respond, Settled, TypeOK
  <2>4. ASSUME NEW r \in Requests, Start(s, r) PROVE Settled(s)'
    BY <1>2, <2>1, <2>2, <2>4 DEF Start, StartSend, StartDelivered, StartRead, TypeOK
  <2>5. CASE Lookup(s)
    <3>1. PICK m \in ByClientMsgId(req[s]) : Replay(s, m)
      BY <1>2, <2>1, <2>5 DEF Lookup, TypeOK
    <3>2. m \in MsgIds /\ HasKey(m, req[s]) /\ req' = req /\ messages' = messages
      BY <2>5 DEF ByClientMsgId, Lookup, store
    <3> QED BY <3>1, <3>2, ReplaySettles
  <2>6. CASE Relookup(s)
    <3>1. ByClientMsgId(req[s]) # {}
      BY <2>6 DEF Relookup, Conflicted, ByClientMsgId
    <3>2. PICK m \in ByClientMsgId(req[s]) : Replay(s, m)
      BY <2>6, <3>1 DEF Relookup
    <3>3. m \in MsgIds /\ HasKey(m, req[s]) /\ req' = req /\ messages' = messages
      BY <2>6 DEF ByClientMsgId, Relookup, store
    <3> QED BY <3>2, <3>3, ReplaySettles
  <2>7. CASE HeadAttachment(s) \/ GetConversation(s) \/ GetAnchor(s)
    BY <1>2, <2>1, <2>2, <2>7 DEF HeadAttachment, GetConversation, GetAnchor, TypeOK
  <2>8. CASE CommitSend(s)
    <3>1. id[s] \in MsgIds /\ messages'[id[s]] = NewRow(s) /\ req' = req
      BY <2>1, <2>8 DEF CommitSend, Inv, TxnFits, TypeOK
    <3>2. messages'[id[s]] # None
      <4>1. req[s] \in SendRequest /\ ~Rejected(req[s])
        BY <2>8, RequestKinds DEF CommitSend, Inv, RequestFits
      <4>2. messages' \in [MsgIds -> Row \cup {None}] /\ at[s] \in Times
        BY <2>8, TypeStep DEF Inv, TypeOK, TxnFits, CommitSend, Next, Step, Act
      <4>3. NewRow(s) \in Row
        BY <4>1, <4>2, NewRowTyped
      <4> QED BY <3>1, <4>3, NoneAssumption
    <3>3. resp'[s] = [code |-> "created", msg |-> id[s]]
      BY <2>1, <2>8 DEF CommitSend, Respond, TypeOK
    <3> QED BY <3>1, <3>2, <3>3 DEF Settled, HasKey, SameMessage, NewRow, Committed
  <2>9. CASE CommitDelivered(s) \/ GetMessage(s)
    <3>1. req[s] \in DeliveredRequest /\ req' = req
      BY <2>9, RequestKinds DEF CommitDelivered, GetMessage, Inv, RequestFits, DeliveredLabels
    <3>2. req[s].msg \in MsgIds /\ req[s] \in Request /\ req[s] \notin SendRequest
      BY <3>1 DEF DeliveredRequest, SendRequest, Request
    <3> QED BY <2>3, <2>9, <3>1, <3>2 DEF CommitDelivered, GetMessage
  <2>10. CASE CommitRead(s) \/ FinishUpdate(s)
    <3>1. req[s] \in ReadRequest /\ req' = req
      BY <2>10, RequestKinds DEF CommitRead, FinishUpdate, Inv, RequestFits, ReadLabels
    <3>2. req[s] \in Request /\ req[s] \notin SendRequest
      BY <3>1 DEF ReadRequest, SendRequest, Request
    <3>3. Respond(s, "ok", None)
      BY <1>2, <2>1, <2>10 DEF CommitRead, FinishUpdate, TypeOK
    <3> QED BY <2>3, <3>1, <3>2, <3>3
  <2>11. CASE Reply(s)
    <3>1. UNCHANGED <<req, resp, messages>> /\ Settled(s)
      BY <2>11 DEF Reply, AnswersFit, store
    <3> QED BY <3>1 DEF Settled, HasKey, SameMessage, Committed
  <2>12. CASE Fail(s) \/ DeadlockVictim(s)
    BY <2>2, <2>12 DEF Fail, DeadlockVictim
  <2>13. CASE InsertConversation(s) \/ InsertMessage(s) \/ RollbackSend(s) \/ Finish(s)
    BY <1>2, <2>1, <2>13 DEF InsertConversation, InsertMessage, RollbackSend, Finish, TypeOK
  <2>14. CASE UpdateDelivered(s) \/ ScanUnread(s) \/ LockRow(s)
    BY <1>2, <2>1, <2>14 DEF UpdateDelivered, ScanUnread, LockRow, TypeOK
  <2> HIDE DEF Goto
  <2> QED
    BY <2>4, <2>5, <2>6, <2>7, <2>8, <2>9, <2>10, <2>11, <2>12, <2>13, <2>14 DEF Act, Step
<1> QED BY <1>1, <1>2 DEF AnswersFit

LEMMA KeyStep == Inv /\ KeyInv /\ [Next]_vars => KeyInv'
<1> SUFFICES ASSUME Inv, KeyInv, [Next]_vars PROVE KeyInv'
  OBVIOUS
<1>1. ASSUME NEW s \in Sessions, Act(s) PROVE KeyInv'
  BY <1>1, InsertedStep, ConflictedStep, AnswersStep, UniqueStep DEF KeyInv
<1>2. CASE Tick \/ UNCHANGED vars
  <2>1. UNCHANGED <<messages, pc, req, resp>>
    BY <1>2 DEF Tick, vars, store
  <2> QED
    BY <2>1 DEF KeyInv, Inserted, Conflicted, AnswersFit, OneRowPerKey, InsertedKey, Settled,
                HasKey, SameMessage, Committed
<1> QED BY <1>1, <1>2 DEF Next, Act

LEMMA KeyAlways == Spec => [](Inv /\ KeyInv)
<1>1. Init => KeyInv
  BY DEF Init, KeyInv, Inserted, Conflicted, AnswersFit, OneRowPerKey, Committed
<1> QED BY <1>1, InitInv, InvStep, KeyStep, PTL DEF Spec

(* A client_msg_id names one message of its sender, whatever is retried.   *)
THEOREM KeysUnique == Spec => []OneRowPerKey
BY KeyAlways, PTL DEF KeyInv

(* A send is acknowledged only with a durable row that is what was sent.   *)
THEOREM SendsDurable == Spec => []AckedIsDurable
<1>1. KeyInv => AckedIsDurable
  BY DEF KeyInv, AnswersFit, Settled, AckedIsDurable, SameMessage
<1> QED BY <1>1, KeyAlways, PTL

(* A retry is refused only if its key really belongs to another message:   *)
(* the ConflictError of chat.py:199 is never reached.                      *)
THEOREM RetriesAnswered == Spec => []ConflictsAreReal
<1>1. KeyInv => ConflictsAreReal
  BY DEF KeyInv, AnswersFit, Settled, ConflictsAreReal
<1> QED BY <1>1, KeyAlways, PTL

-----------------------------------------------------------------------------
(* The timestamps follow the status, row by row. *)
LEMMA StampsStep ==
  ASSUME Inv, StampsMatchStatus, NEW s \in Sessions, Act(s)
  PROVE  StampsMatchStatus'
<1> SUFFICES ASSUME NEW m \in MsgIds, Committed(m)'
             PROVE  /\ messages'[m].delivered_at = None <=> messages'[m].status = "sent"
                    /\ messages'[m].read_at = None <=> messages'[m].status # "read"
  BY DEF StampsMatchStatus
<1>1. CASE messages'[m] = messages[m]
  BY <1>1 DEF StampsMatchStatus, Committed
<1>2. CASE messages'[m] # messages[m]
  <2>1. Commits(s)
    BY <1>2, OnlyCommits DEF store
  <2>2. at[s] \in Times /\ at[s] # None
    <3>1. pc[s] = "commit"
      BY <2>1 DEF Commits, CommitSend, CommitDelivered, CommitRead
    <3> QED BY <3>1, NumbersAssumption, NoneAssumption DEF Inv, TxnFits, Times
  <2>3. CASE messages'[m] = NewRow(s)
    BY <2>3 DEF NewRow
  <2>4. CASE m \in held[s] /\ Committed(m)
    <3>1. messages[m] \in Row /\ Holds(s, m)
      BY <2>4, RowIsNotNone DEF Inv, LocksFit
    <3>2. /\ messages[m].delivered_at = None <=> messages[m].status = "sent"
          /\ messages[m].read_at = None <=> messages[m].status # "read"
      BY <2>4 DEF StampsMatchStatus
    <3>3. CASE CommitDelivered(s) /\ messages'[m] =
                 [messages[m] EXCEPT !.status = "delivered", !.delivered_at = at[s]]
      <4>1. req[s] \in DeliveredRequest
        BY <3>3, RequestKinds DEF CommitDelivered, Inv, RequestFits
      <4>2. messages[m].status = "sent"
        BY <3>1, <4>1 DEF Holds, Deliverable, DeliveredRequest, ReadRequest
      <4> QED BY <2>2, <3>1, <3>2, <3>3, <4>2 DEF Row
    <3>4. CASE CommitRead(s) /\ messages'[m] = ReadRow(messages[m], at[s])
      BY <2>2, <3>1, <3>2, <3>4 DEF Row, ReadRow
    <3> QED BY <1>2, <2>1, <2>4, <3>3, <3>4, CommittedRows
  <2> QED BY <1>2, <2>1, <2>3, <2>4, CommittedRows
<1> QED BY <1>1, <1>2

(* sent -> delivered -> read, with a timestamp for each (chat.py:217,       *)
(* 260-264), whoever wins the race for a row.                              *)
THEOREM StampsCorrect == Spec => []StampsMatchStatus
<1>1. Init => StampsMatchStatus
  BY DEF Init, StampsMatchStatus, Committed
<1>2. Inv /\ StampsMatchStatus /\ [Next]_vars => StampsMatchStatus'
  <2> SUFFICES ASSUME Inv, StampsMatchStatus, [Next]_vars PROVE StampsMatchStatus'
    OBVIOUS
  <2>1. CASE Tick \/ UNCHANGED vars
    <3>1. messages' = messages
      BY <2>1 DEF Tick, vars, store
    <3> QED BY <3>1 DEF StampsMatchStatus, Committed
  <2> QED BY <2>1, StampsStep DEF Next, Act
<1> QED BY <1>1, <1>2, InitInv, InvStep, PTL DEF Spec

-----------------------------------------------------------------------------
(* What AnnouncedExactly says of message m and user u, before or after a   *)
(* step: row is m's row, n(t) how often event t was announced to u.        *)
Announcements(row, new, delivered, read, u) ==
    /\ new = IF row # None /\ u \in {row.sender, row.recipient} THEN 1 ELSE 0
    /\ read = IF row # None /\ u = row.sender /\ row.status = "read" THEN 1 ELSE 0
    /\ delivered > 0 => row # None /\ u = row.sender /\ row.status # "sent"
    /\ delivered <= 1
    /\ (row # None /\ row.status = "delivered" /\ u = row.sender) => delivered = 1

LEMMA AnnouncedByRow ==
  ASSUME TypeOK
  PROVE  AnnouncedExactly <=> \A m \in MsgIds, u \in Users :
           Announcements(messages[m], outbox[Ev("message.new", m, u)],
                         outbox[Ev("message.delivered", m, u)],
                         outbox[Ev("message.read", m, u)], u)
<1>1. \A m \in MsgIds : Committed(m) => messages[m].sender \in Users
  BY RowIsNotNone DEF Row
<1> QED BY <1>1 DEF AnnouncedExactly, Announcements, Committed

(* What a commit adds to the outbox. *)
LEMMA Enqueued ==
  ASSUME TypeOK, NEW E, Enqueue(E), NEW t \in EventTypes, NEW m \in MsgIds, NEW u \in Users
  PROVE  outbox'[Ev(t, m, u)] = outbox[Ev(t, m, u)] + (IF Ev(t, m, u) \in E THEN 1 ELSE 0)
         /\ outbox[Ev(t, m, u)] \in Nat
<1>1. Ev(t, m, u) \in Event
  BY DEF Ev, Event
<1> QED BY <1>1 DEF Enqueue, TypeOK

LEMMA SameEvent ==
  ASSUME NEW t1, NEW m1, NEW u1, NEW t2, NEW m2, NEW u2
  PROVE  Ev(t1, m1, u1) = Ev(t2, m2, u2) <=> t1 = t2 /\ m1 = m2 /\ u1 = u2
BY DEF Ev

LEMMA SendAnnounces ==
  ASSUME Inv, AnnouncedExactly, NEW s \in Sessions, CommitSend(s),
         NEW m \in MsgIds, NEW u \in Users
  PROVE  Announcements(messages'[m], outbox'[Ev("message.new", m, u)],
                       outbox'[Ev("message.delivered", m, u)],
                       outbox'[Ev("message.read", m, u)], u)
<1> DEFINE E == {Ev("message.new", id[s], req[s].to), Ev("message.new", id[s], req[s].user)}
<1>1. Enqueue(E) /\ TypeOK /\ Commits(s)
  BY DEF CommitSend, Inv, Commits
<1>2. Announcements(messages[m], outbox[Ev("message.new", m, u)],
                    outbox[Ev("message.delivered", m, u)], outbox[Ev("message.read", m, u)], u)
  BY <1>1, AnnouncedByRow
<1>3. /\ Ev("message.new", m, u) \in E <=> m = id[s] /\ u \in {req[s].to, req[s].user}
      /\ Ev("message.delivered", m, u) \notin E /\ Ev("message.read", m, u) \notin E
  BY SameEvent
<1> HIDE DEF E
<1>4. /\ outbox'[Ev("message.new", m, u)] = outbox[Ev("message.new", m, u)]
            + (IF m = id[s] /\ u \in {req[s].to, req[s].user} THEN 1 ELSE 0)
      /\ outbox'[Ev("message.delivered", m, u)] = outbox[Ev("message.delivered", m, u)]
      /\ outbox'[Ev("message.read", m, u)] = outbox[Ev("message.read", m, u)]
      /\ outbox[Ev("message.delivered", m, u)] \in Nat
  BY <1>1, <1>3, Enqueued DEF EventTypes
<1>5. id[s] \in MsgIds /\ ~Committed(id[s])
  BY NoneAssumption DEF CommitSend, Inv, TxnFits
<1>6. CASE m = id[s]
  <2>1. messages[m] = None /\ messages'[m] = NewRow(s)
    BY <1>1, <1>5, <1>6 DEF CommitSend, TypeOK, Committed
  <2>2. req[s] \in SendRequest /\ ~Rejected(req[s]) /\ at[s] \in Times
    BY RequestKinds DEF CommitSend, Inv, RequestFits, TxnFits
  <2>3. NewRow(s) \in Row
    BY <2>2, NewRowTyped
  <2>4. messages'[m] # None /\ messages'[m].status = "sent"
        /\ {messages'[m].sender, messages'[m].recipient} = {req[s].to, req[s].user}
    BY <2>1, <2>3, NoneAssumption DEF NewRow
  <2> QED BY <1>2, <1>4, <1>6, <2>1, <2>4 DEF Announcements
<1>7. CASE m # id[s]
  <2>1. messages'[m] = messages[m]
    BY <1>1, <1>7 DEF CommitSend, TypeOK
  <2> QED BY <1>2, <1>4, <1>7, <2>1 DEF Announcements
<1> QED BY <1>6, <1>7

LEMMA DeliveredAnnounces ==
  ASSUME Inv, AnnouncedExactly, NEW s \in Sessions, CommitDelivered(s),
         NEW m \in MsgIds, NEW u \in Users
  PROVE  Announcements(messages'[m], outbox'[Ev("message.new", m, u)],
                       outbox'[Ev("message.delivered", m, u)],
                       outbox'[Ev("message.read", m, u)], u)
<1> DEFINE d == req[s].msg
           E == {Ev("message.delivered", d, messages[d].sender)}
<1>1. Enqueue(E) /\ TypeOK
  BY DEF CommitDelivered, Inv
<1>2. Announcements(messages[m], outbox[Ev("message.new", m, u)],
                    outbox[Ev("message.delivered", m, u)], outbox[Ev("message.read", m, u)], u)
  BY <1>1, AnnouncedByRow
<1>3. /\ Ev("message.delivered", m, u) \in E <=> m = d /\ u = messages[d].sender
      /\ Ev("message.new", m, u) \notin E /\ Ev("message.read", m, u) \notin E
  BY SameEvent
<1> HIDE DEF E
<1>4. /\ outbox'[Ev("message.delivered", m, u)] = outbox[Ev("message.delivered", m, u)]
            + (IF m = d /\ u = messages[d].sender THEN 1 ELSE 0)
      /\ outbox'[Ev("message.new", m, u)] = outbox[Ev("message.new", m, u)]
      /\ outbox'[Ev("message.read", m, u)] = outbox[Ev("message.read", m, u)]
      /\ outbox[Ev("message.delivered", m, u)] \in Nat
  BY <1>1, <1>3, Enqueued DEF EventTypes
<1>5. req[s] \in DeliveredRequest /\ at[s] \in Times
  BY RequestKinds DEF CommitDelivered, Inv, RequestFits, TxnFits
<1>6. d \in held[s]
  BY <1>5 DEF CommitDelivered, Inv, LocksFit
<1>7. d \in MsgIds /\ messages[d] \in Row /\ messages[d].status = "sent"
  BY <1>5, <1>6, HeldCommitted DEF Inv, LocksFit, Holds, Deliverable, DeliveredRequest, ReadRequest
<1>8. CASE m = d
  <2>1. messages'[m] = [messages[m] EXCEPT !.status = "delivered", !.delivered_at = at[s]]
    BY <1>1, <1>7, <1>8 DEF CommitDelivered, TypeOK
  <2>2. messages[m] \in Row /\ at[s] \in Times
    BY <1>5, <1>7, <1>8
  <2>3. /\ messages'[m] \in Row
        /\ SameMessageAs(messages'[m], messages[m])
        /\ messages'[m].status = "delivered"
    <3> DEFINE new == [messages[m] EXCEPT !.status = "delivered", !.delivered_at = at[s]]
    <3>1. new \in Row /\ SameMessageAs(new, messages[m]) /\ new.status = "delivered"
      BY <2>2, UpdatedRows
    <3> QED BY <2>1, <3>1
  <2>4. messages[m] # None /\ messages'[m] # None
    BY <2>2, <2>3, NoneAssumption
  <2> HIDE DEF d
  <2> QED BY <1>2, <1>4, <1>7, <1>8, <2>3, <2>4 DEF Announcements, SameMessageAs
<1>9. CASE m # d
  <2>1. messages'[m] = messages[m]
    BY <1>1, <1>7, <1>9 DEF CommitDelivered, TypeOK
  <2> QED BY <1>2, <1>4, <1>9, <2>1 DEF Announcements
<1> QED BY <1>8, <1>9

LEMMA ReadAnnounces ==
  ASSUME Inv, AnnouncedExactly, NEW s \in Sessions, CommitRead(s),
         NEW m \in MsgIds, NEW u \in Users
  PROVE  Announcements(messages'[m], outbox'[Ev("message.new", m, u)],
                       outbox'[Ev("message.delivered", m, u)],
                       outbox'[Ev("message.read", m, u)], u)
<1> DEFINE E == {Ev("message.read", n, Peer(req[s])) : n \in held[s]}
<1>1. Enqueue(E) /\ TypeOK
  BY DEF CommitRead, Inv
<1>2. Announcements(messages[m], outbox[Ev("message.new", m, u)],
                    outbox[Ev("message.delivered", m, u)], outbox[Ev("message.read", m, u)], u)
  BY <1>1, AnnouncedByRow
<1>3. /\ Ev("message.read", m, u) \in E <=> m \in held[s] /\ u = Peer(req[s])
      /\ Ev("message.new", m, u) \notin E /\ Ev("message.delivered", m, u) \notin E
  BY SameEvent
<1> HIDE DEF E
<1>4. /\ outbox'[Ev("message.read", m, u)] = outbox[Ev("message.read", m, u)]
            + (IF m \in held[s] /\ u = Peer(req[s]) THEN 1 ELSE 0)
      /\ outbox'[Ev("message.new", m, u)] = outbox[Ev("message.new", m, u)]
      /\ outbox'[Ev("message.delivered", m, u)] = outbox[Ev("message.delivered", m, u)]
  BY <1>1, <1>3, Enqueued DEF EventTypes
<1>5. req[s] \in ReadRequest /\ at[s] \in Times
  BY RequestKinds DEF CommitRead, Inv, RequestFits, TxnFits
<1>6. CASE m \in held[s]
  <2>1. messages[m] \in Row /\ messages[m] # None
    BY <1>6, HeldCommitted, NoneAssumption DEF Inv
  <2>2. Visits(s, m) /\ messages[m].status # "read"
    BY <1>5, <1>6 DEF Inv, LocksFit, Holds, DeliveredRequest, ReadRequest
  <2>3. messages[m].sender = Peer(req[s])
    <3>1. /\ messages[m].sender # messages[m].recipient
          /\ messages[m].recipient = req[s].user
          /\ req[s].conv = {messages[m].sender, messages[m].recipient}
      BY <2>2 DEF Visits, Inv, Rows
    <3>2. Peer(req[s]) # req[s].user /\ req[s].conv = {Peer(req[s]), req[s].user}
      BY <1>5, <3>1, PeerIsUser
    <3> QED BY <3>1, <3>2
  <2>4. messages'[m] = ReadRow(messages[m], at[s])
    BY <1>6 DEF CommitRead
  <2>5. messages'[m] # None /\ messages'[m].status = "read"
        /\ messages'[m].sender = messages[m].sender
        /\ messages'[m].recipient = messages[m].recipient
    <3>1. LET read == ReadRow(messages[m], at[s])
          IN  read \in Row /\ SameMessageAs(read, messages[m]) /\ read.status = "read"
      BY <1>5, <2>1, UpdatedRows
    <3> QED BY <2>4, <3>1, NoneAssumption DEF SameMessageAs
  <2>6. /\ outbox[Ev("message.read", m, u)] = 0
        /\ outbox'[Ev("message.read", m, u)] = IF u = messages[m].sender THEN 1 ELSE 0
    BY <1>2, <1>4, <1>6, <2>2, <2>3 DEF Announcements
  <2>7. /\ outbox'[Ev("message.new", m, u)] = outbox[Ev("message.new", m, u)]
        /\ outbox'[Ev("message.delivered", m, u)] = outbox[Ev("message.delivered", m, u)]
    BY <1>4
  <2> QED BY <1>2, <2>1, <2>2, <2>5, <2>6, <2>7 DEF Announcements
<1>7. CASE m \notin held[s]
  <2>1. messages'[m] = messages[m]
    BY <1>7 DEF CommitRead
  <2> QED BY <1>2, <1>4, <1>7, <2>1 DEF Announcements
<1> QED BY <1>6, <1>7

(* Each change of a row is announced once, in the commit that makes it:    *)
(* chat.py:203-206, 232-239, 273-281.                                      *)
THEOREM Announced == Spec => []AnnouncedExactly
<1>1. Init => AnnouncedExactly
  <2> SUFFICES ASSUME Init PROVE AnnouncedExactly
    OBVIOUS
  <2>1. \A t \in EventTypes, m \in MsgIds, u \in Users : outbox[Ev(t, m, u)] = 0
    BY DEF Init, Ev, Event
  <2> QED BY <2>1 DEF Init, AnnouncedExactly, Committed, EventTypes
<1>2. Inv /\ AnnouncedExactly /\ [Next]_vars => AnnouncedExactly'
  <2> SUFFICES ASSUME Inv, AnnouncedExactly, [Next]_vars PROVE AnnouncedExactly'
    OBVIOUS
  <2>1. ASSUME NEW s \in Sessions, Commits(s) PROVE AnnouncedExactly'
    <3>1. \A m \in MsgIds, u \in Users :
            Announcements(messages'[m], outbox'[Ev("message.new", m, u)],
                          outbox'[Ev("message.delivered", m, u)],
                          outbox'[Ev("message.read", m, u)], u)
      BY <2>1, SendAnnounces, DeliveredAnnounces, ReadAnnounces DEF Commits
    <3>2. TypeOK'
      BY TypeStep DEF Inv
    <3>3. \A m \in MsgIds : Committed(m)' => messages'[m].sender \in Users
      BY <3>2, NoneAssumption DEF TypeOK, Committed, Row
    <3> QED BY <3>1, <3>3 DEF AnnouncedExactly, Announcements, Committed
  <2>2. CASE UNCHANGED store
    BY <2>2 DEF AnnouncedExactly, Committed, store
  <2>3. CASE Tick \/ UNCHANGED vars
    BY <2>2, <2>3 DEF Tick, vars
  <2> QED BY <2>1, <2>2, <2>3, OnlyCommits DEF Next, Act
<1> QED BY <1>1, <1>2, InitInv, InvStep, PTL DEF Spec

-----------------------------------------------------------------------------
(* The ledger sees each commit as one of its steps, and nothing else. *)
LEMMA SameOutbox ==
  ASSUME NEW E, Enqueue(E)
  PROVE  Ledger!Announce(E)
BY DEF Enqueue, Ledger!Announce, Ledger!Event, Ledger!EventTypes, Event, EventTypes

LEMMA EntryKept ==
  ASSUME NEW row \in Row
  PROVE  /\ EntryOf(row) \in Ledger!Entry /\ EntryOf(row) # None
         /\ EntryOf(row).sender = row.sender /\ EntryOf(row).recipient = row.recipient
         /\ EntryOf(row).cmid = row.cmid /\ EntryOf(row).status = row.status
<1>1. EntryOf(row) = [sender |-> row.sender, recipient |-> row.recipient,
                      cmid |-> row.cmid, content |-> row.content, status |-> row.status]
  BY NoneAssumption DEF EntryOf
<1>2. EntryOf(row) \in Ledger!Entry
  BY <1>1 DEF Row, Status, Ledger!Entry, Ledger!Status
<1> QED BY <1>1, <1>2, EntryAssumption

LEMMA LedgerEntries ==
  ASSUME TypeOK, NEW m \in MsgIds
  PROVE  /\ LedgerOf[m] = EntryOf(messages[m])
         /\ Committed(m) <=> LedgerOf[m] # None
         /\ Committed(m) => /\ LedgerOf[m].sender = messages[m].sender
                            /\ LedgerOf[m].recipient = messages[m].recipient
                            /\ LedgerOf[m].cmid = messages[m].cmid
                            /\ LedgerOf[m].status = messages[m].status
<1>1. LedgerOf[m] = EntryOf(messages[m])
  BY DEF LedgerOf
<1>2. CASE Committed(m)
  BY <1>1, <1>2, RowIsNotNone, EntryKept
<1>3. CASE ~Committed(m)
  BY <1>1, <1>3 DEF Committed, EntryOf
<1> QED BY <1>1, <1>2, <1>3

LEMMA SendAccepts ==
  ASSUME Inv, Inserted, NEW s \in Sessions, CommitSend(s)
  PROVE  Ledger!Next
<1> DEFINE e == EntryOf(NewRow(s))
<1>1. id[s] \in MsgIds /\ ~Committed(id[s])
  BY NoneAssumption DEF CommitSend, Inv, TxnFits
<1>2. req[s] \in SendRequest /\ ~Rejected(req[s]) /\ at[s] \in Times
  BY RequestKinds DEF CommitSend, Inv, RequestFits, TxnFits
<1>3. NewRow(s) \in Row
  BY <1>2, NewRowTyped
<1>4. /\ e \in Ledger!Entry /\ e.sender = req[s].user /\ e.recipient = req[s].to
      /\ e.cmid = req[s].cmid /\ e.status = "sent"
  BY <1>3, EntryKept DEF NewRow
<1> HIDE DEF e
<1>5. LedgerOf[id[s]] = None
  BY <1>1, LedgerEntries DEF Inv
<1>6. ASSUME NEW n \in MsgIds, LedgerOf[n] # None
      PROVE  <<LedgerOf[n].sender, LedgerOf[n].cmid>> # <<e.sender, e.cmid>>
  <2>1. Committed(n) /\ ~HasKey(n, req[s])
    BY <1>6, LedgerEntries DEF Inv, Inserted, CommitSend
  <2> QED BY <1>4, <2>1, LedgerEntries DEF HasKey, Inv
<1>7. LedgerOf' = [LedgerOf EXCEPT ![id[s]] = e]
  BY <1>1 DEF CommitSend, LedgerOf, e, Inv, TypeOK
<1>8. Ledger!Announce({Ledger!Ev("message.new", id[s], e.recipient),
                       Ledger!Ev("message.new", id[s], e.sender)})
  BY <1>4, SameOutbox DEF CommitSend, Ev, Ledger!Ev
<1>9. Ledger!Accept(id[s], e)
  BY <1>2, <1>4, <1>5, <1>6, <1>7, <1>8 DEF Rejected, Ledger!Accept
<1> QED BY <1>1, <1>4, <1>9 DEF Ledger!Next

LEMMA DeliveredDelivers ==
  ASSUME Inv, NEW s \in Sessions, CommitDelivered(s)
  PROVE  Ledger!Next
<1> DEFINE m == req[s].msg
           new == [messages[m] EXCEPT !.status = "delivered", !.delivered_at = at[s]]
<1>1. req[s] \in DeliveredRequest /\ at[s] \in Times
  BY RequestKinds DEF CommitDelivered, Inv, RequestFits, TxnFits
<1>2. m \in held[s]
  BY <1>1 DEF CommitDelivered, Inv, LocksFit
<1>3. m \in MsgIds /\ Committed(m) /\ messages[m] \in Row /\ messages[m].status = "sent"
  BY <1>1, <1>2, HeldCommitted DEF Inv, LocksFit, Holds, Deliverable, DeliveredRequest, ReadRequest
<1>4. new \in Row /\ SameMessageAs(new, messages[m]) /\ new.status = "delivered"
  BY <1>1, <1>3, UpdatedRows
<1>5. messages' = [messages EXCEPT ![m] = new]
  BY <1>3 DEF CommitDelivered, Inv, TypeOK
<1> HIDE DEF new
<1>6. EntryOf(new) = [EntryOf(messages[m]) EXCEPT !.status = "delivered"]
  BY <1>3, <1>4, NoneAssumption DEF EntryOf, SameMessageAs
<1>7. LedgerOf' = [LedgerOf EXCEPT ![m].status = "delivered"]
  <2>1. \A n \in MsgIds : messages'[n] = IF n = m THEN new ELSE messages[n]
    BY <1>5 DEF Inv, TypeOK
  <2>2. \A n \in MsgIds : EntryOf(messages'[n]) =
          IF n = m THEN [EntryOf(messages[m]) EXCEPT !.status = "delivered"]
                   ELSE EntryOf(messages[n])
    BY <1>6, <2>1
  <2> QED BY <1>3, <2>2 DEF LedgerOf
<1>8. LedgerOf[m] # None /\ LedgerOf[m].status = "sent"
      /\ LedgerOf[m].sender = messages[m].sender
  BY <1>3, LedgerEntries DEF Inv
<1>9. Ledger!Announce({Ledger!Ev("message.delivered", m, LedgerOf[m].sender)})
  BY <1>8, SameOutbox DEF CommitDelivered, Ev, Ledger!Ev
<1>10. Ledger!Deliver(m)
  BY <1>7, <1>8, <1>9 DEF Ledger!Deliver
<1> QED BY <1>3, <1>10 DEF Ledger!Next

LEMMA ReadReads ==
  ASSUME Inv, NEW s \in Sessions, CommitRead(s)
  PROVE  Ledger!Next \/ held[s] = {}
<1> DEFINE peer == Peer(req[s])
<1>1. req[s] \in ReadRequest /\ at[s] \in Times
  BY RequestKinds DEF CommitRead, Inv, RequestFits, TxnFits
<1>2. ASSUME NEW m \in held[s]
      PROVE  /\ m \in MsgIds /\ messages[m] \in Row /\ Committed(m)
             /\ Visits(s, m) /\ messages[m].status # "read"
             /\ req[s].user \in req[s].conv /\ messages[m].sender = peer
  <2>1. m \in MsgIds /\ messages[m] \in Row /\ Committed(m)
    BY HeldCommitted DEF Inv
  <2>2. Visits(s, m) /\ messages[m].status # "read"
    BY <1>1 DEF Inv, LocksFit, Holds, DeliveredRequest, ReadRequest
  <2>3. /\ messages[m].sender # messages[m].recipient
        /\ messages[m].recipient = req[s].user
        /\ req[s].conv = {messages[m].sender, messages[m].recipient}
    BY <2>1, <2>2 DEF Visits, Inv, Rows
  <2>4. Peer(req[s]) # req[s].user /\ req[s].conv = {Peer(req[s]), req[s].user}
    BY <1>1, <2>3, PeerIsUser
  <2>5. messages[m].sender = Peer(req[s])
    BY <2>3, <2>4
  <2> QED BY <2>1, <2>2, <2>3, <2>5
<1>3. ASSUME NEW m \in held[s]
      PROVE  EntryOf(ReadRow(messages[m], at[s])) = [EntryOf(messages[m]) EXCEPT !.status = "read"]
  <2> DEFINE new == ReadRow(messages[m], at[s])
  <2>1. new \in Row /\ SameMessageAs(new, messages[m]) /\ new.status = "read"
    BY <1>1, <1>2, UpdatedRows
  <2> HIDE DEF new
  <2>2. EntryOf(new) = [EntryOf(messages[m]) EXCEPT !.status = "read"]
    BY <1>2, <2>1, NoneAssumption DEF EntryOf, SameMessageAs
  <2> QED BY <2>2 DEF new
<1>4. \A m \in held[s] : /\ LedgerOf[m] # None /\ LedgerOf[m].sender = peer
                         /\ LedgerOf[m].recipient = req[s].user /\ LedgerOf[m].status # "read"
  BY <1>2, LedgerEntries DEF Inv, Visits
<1>5. LedgerOf' = [m \in MsgIds |-> IF m \in held[s]
                     THEN [LedgerOf[m] EXCEPT !.status = "read"] ELSE LedgerOf[m]]
  BY <1>2, <1>3 DEF CommitRead, LedgerOf
<1>6. Ledger!Announce({Ledger!Ev("message.read", m, peer) : m \in held[s]})
  BY SameOutbox DEF CommitRead, Ev, Ledger!Ev
<1> SUFFICES ASSUME held[s] # {} PROVE Ledger!Next
  OBVIOUS
<1>7. peer \in Users /\ req[s].user \in Users /\ held[s] \in SUBSET MsgIds
  BY <1>1, <1>2, PeerIsUser DEF ReadRequest
<1>8. Ledger!Read(held[s], peer, req[s].user)
  BY <1>4, <1>5, <1>6 DEF Ledger!Read
<1> QED BY <1>7, <1>8 DEF Ledger!Next

(* Sessions, their locks, conflicts and failures implement the ledger: a   *)
(* change and its announcements are one atomic step, for any requests.     *)
THEOREM Implements == Spec => LedgerSpec
<1>1. Init => Ledger!Init
  BY DEF Init, Ledger!Init, LedgerOf, EntryOf, Ledger!Event, Ledger!EventTypes, Event, EventTypes
<1>2. Inv /\ KeyInv /\ [Next]_vars => [Ledger!Next]_(Ledger!vars)
  <2> SUFFICES ASSUME Inv, KeyInv, [Next]_vars PROVE [Ledger!Next]_(Ledger!vars)
    OBVIOUS
  <2>1. UNCHANGED store => UNCHANGED Ledger!vars
    BY DEF store, Ledger!vars, LedgerOf
  <2>2. ASSUME NEW s \in Sessions, Commits(s) PROVE [Ledger!Next]_(Ledger!vars)
    <3>1. CASE CommitSend(s) \/ CommitDelivered(s)
      BY <3>1, SendAccepts, DeliveredDelivers DEF KeyInv
    <3>2. CASE CommitRead(s)
      <4>1. CASE held[s] = {}
        <5>1. messages' = messages /\ outbox' = outbox
          BY <3>2, <4>1 DEF CommitRead, Enqueue, Inv, TypeOK
        <5> QED BY <5>1 DEF Ledger!vars, LedgerOf
      <4> QED BY <3>2, <4>1, ReadReads
    <3> QED BY <2>2, <3>1, <3>2 DEF Commits
  <2>3. CASE Tick \/ UNCHANGED vars
    BY <2>1, <2>3 DEF Tick, vars
  <2> QED BY <2>1, <2>2, <2>3, OnlyCommits DEF Next, Act
<1> QED BY <1>1, <1>2, KeyAlways, PTL DEF Spec, LedgerSpec, Ledger!Spec

-----------------------------------------------------------------------------
(* What a reader has still to do about a row it saw unread. *)
ToCover(s, m) ==
    /\ pc[s] \in {"membership", "anchor", "scan"} => m \in Unread(req[s])
    /\ pc[s] = "lock" => m \in todo[s] \cup held[s]
    /\ pc[s] = "commit" => m \in held[s]
    /\ pc[s] \in {"reply", "done"} => resp[s].code # "ok"

Covering(s) == \A m \in seen[s] :
    /\ Committed(m) /\ Committed(req[s].msg)
    /\ messages[m].status = "read" \/ ToCover(s, m)

Covers == \A s \in Sessions :
    (pc[s] # "idle" /\ req[s] \in ReadRequest) => Covering(s)

(* A row that is read stays read, and one that is to be read stays so until *)
(* it is.                                                                  *)
LEMMA ReadStays ==
  ASSUME Inv, NEW s \in Sessions, Act(s), NEW m \in MsgIds, Committed(m)
  PROVE  /\ messages[m].status = "read" => messages'[m].status = "read"
         /\ \A u \in Sessions :
              (/\ req[u] \in ReadRequest /\ req'[u] = req[u]
               /\ m \in Unread(req[u]) /\ Committed(req[u].msg)) =>
                  messages'[m].status = "read" \/ m \in Unread(req[u])'
<1>1. messages[m].status = "read" => messages'[m].status = "read"
  <2> SUFFICES ASSUME messages[m].status = "read" PROVE messages'[m].status = "read"
    OBVIOUS
  <2>1. CASE messages'[m] = messages[m]
    BY <2>1
  <2>2. CASE m \in held[s] /\ Commits(s)
    <3>1. pc[s] = "commit" /\ at[s] \in Times /\ Holds(s, m) /\ messages[m] \in Row
      BY <2>2, RowIsNotNone DEF Commits, CommitSend, CommitDelivered, CommitRead, Inv, TxnFits, LocksFit
    <3>2. FALSE
      BY <3>1 DEF Holds, Deliverable
    <3> QED BY <3>2
  <2> QED BY <2>1, <2>2, OnlyCommits, CommittedRows DEF store
<1>2. ASSUME NEW u \in Sessions, req[u] \in ReadRequest, req'[u] = req[u],
             m \in Unread(req[u]), Committed(req[u].msg)
      PROVE  messages'[m].status = "read" \/ m \in Unread(req[u])'
  <2>1. req[u].msg \in MsgIds
    BY <1>2 DEF ReadRequest
  <2>2. /\ Committed(m)' /\ SameMessageAs(messages'[m], messages[m])
        /\ Committed(req[u].msg)' /\ SameMessageAs(messages'[req[u].msg], messages[req[u].msg])
    BY <1>2, <2>1, RowsKept
  <2> QED BY <1>2, <2>2 DEF Unread, KeyLeq, SameMessageAs
<1> QED BY <1>1, <1>2

(* Nothing is forgotten while the request goes on. *)
LEMMA StillToCover ==
  ASSUME Inv, Covers, NEW s \in Sessions, Act(s),
         NEW u \in Sessions, pc[u] # "idle", req[u] \in ReadRequest, req'[u] = req[u],
         NEW m \in seen[u]
  PROVE  /\ m \in MsgIds /\ Committed(m)' /\ Committed(req[u].msg)'
         /\ \/ messages'[m].status = "read"
            \/ /\ messages[m].status # "read"
               /\ ToCover(u, m)
               /\ m \in Unread(req[u]) => m \in Unread(req[u])'
<1>1. m \in MsgIds /\ req[u].msg \in MsgIds
  BY DEF Inv, TypeOK, ReadRequest
<1>2. /\ Committed(m) /\ Committed(req[u].msg)
      /\ messages[m].status = "read" \/ ToCover(u, m)
  BY DEF Covers, Covering
<1>3. Committed(m)' /\ Committed(req[u].msg)'
  BY <1>1, <1>2, RowsKept
<1> QED BY <1>1, <1>2, <1>3, ReadStays

LEMMA OthersCover ==
  ASSUME Inv, Covers, NEW s \in Sessions, Act(s), NEW u \in Sessions \ {s},
         pc'[u] # "idle", req'[u] \in ReadRequest
  PROVE  Covering(u)'
<1>1. own(u)' = own(u)
  BY Local DEF Inv
<1>2. pc[u] # "idle" /\ req[u] \in ReadRequest /\ req'[u] = req[u] /\ seen'[u] = seen[u]
  BY <1>1 DEF own
<1>3. ASSUME NEW m \in seen'[u]
      PROVE  /\ Committed(m)' /\ Committed(req[u].msg)'
             /\ messages'[m].status = "read" \/ ToCover(u, m)'
  <2>1. m \in seen[u]
    BY <1>2, <1>3
  <2>2. /\ Committed(m)' /\ Committed(req[u].msg)'
        /\ \/ messages'[m].status = "read"
           \/ /\ ToCover(u, m)
              /\ m \in Unread(req[u]) => m \in Unread(req[u])'
    BY <1>2, <2>1, StillToCover
  <2> QED BY <1>1, <2>2 DEF own, ToCover
<1> QED BY <1>3 DEF Covering

(* A reader covers its rows: they are found by the scan, then updated or   *)
(* read by someone else, and the answer comes after the commit.            *)
LEMMA OwnCover ==
  ASSUME Inv, Covers, NEW s \in Sessions, Act(s), pc'[s] # "idle", req'[s] \in ReadRequest
  PROVE  Covering(s)'
<1> DEFINE Others == /\ pc[s] # "idle" /\ req'[s] = req[s] /\ seen'[s] = seen[s]
                     /\ req[s] \in ReadRequest
<1>1. TypeOK
  BY DEF Inv
<1>2. ASSUME Others, \A m \in seen[s] :
                       (ToCover(s, m) /\ (m \in Unread(req[s]) => m \in Unread(req[s])')
                        /\ messages[m].status # "read" /\ messages'[m].status # "read")
                       => ToCover(s, m)'
      PROVE  Covering(s)'
  <2>1. ASSUME NEW m \in seen'[s]
        PROVE  /\ Committed(m)' /\ Committed(req[s].msg)'
               /\ messages'[m].status = "read" \/ ToCover(s, m)'
    BY <1>2, <2>1, StillToCover
  <2> QED BY <2>1 DEF Covering
<1> USE DEF Goto
<1>3. ASSUME NEW r \in Requests, Start(s, r) PROVE Covering(s)'
  <2>1. r \in Request /\ req'[s] = r
    BY <1>1, <1>3, RequestsAssumption DEF Start, StartSend, StartDelivered, StartRead, TypeOK
  <2>2. StartRead(s, r)
    BY <1>3, <2>1 DEF Start, StartSend, StartDelivered, ReadRequest
  <2>3. /\ pc'[s] = "membership" /\ messages' = messages
        /\ seen'[s] = IF Committed(r.msg) THEN Unread(r) ELSE {}
    BY <1>1, <2>2 DEF StartRead, TypeOK, store
  <2>4. \A m \in seen'[s] : Committed(m) /\ Committed(r.msg) /\ m \in Unread(r)
    BY <2>3 DEF Unread
  <2> QED BY <2>1, <2>3, <2>4 DEF Covering, ToCover, Unread, KeyLeq, Committed
<1>4. CASE GetConversation(s)
  <2>1. Others /\ pc[s] = "membership"
        /\ (pc'[s] = "anchor" \/ (pc'[s] = "done" /\ resp'[s].code = "rejected"))
    BY <1>1, <1>4 DEF GetConversation, TypeOK, Respond
  <2> QED BY <1>2, <2>1 DEF ToCover
<1>5. CASE GetAnchor(s)
  <2>1. Others /\ pc[s] = "anchor"
        /\ (pc'[s] = "scan" \/ (pc'[s] = "done" /\ resp'[s].code = "rejected"))
    BY <1>1, <1>5 DEF GetAnchor, TypeOK, Respond
  <2> QED BY <1>2, <2>1 DEF ToCover
<1>6. CASE ScanUnread(s)
  <2>1. Others /\ pc[s] = "scan" /\ pc'[s] = "lock" /\ todo'[s] = Unread(req[s])
    BY <1>1, <1>6 DEF ScanUnread, TypeOK
  <2> QED BY <1>2, <2>1 DEF ToCover
<1>7. CASE LockRow(s)
  <2>1. PICK n \in todo[s] : /\ todo'[s] = todo[s] \ {n}
                            /\ held'[s] = IF messages[n].status # "read"
                                          THEN held[s] \cup {n} ELSE held[s]
    BY <1>1, <1>7 DEF LockRow, TypeOK
  <2>2. Others /\ pc[s] = "lock" /\ pc' = pc
    BY <1>7 DEF LockRow
  <2> QED BY <1>2, <2>1, <2>2 DEF ToCover
<1>8. CASE FinishUpdate(s)
  <2>1. Others /\ pc[s] = "lock" /\ todo[s] = {}
        /\ \/ held[s] = {} /\ pc'[s] = "done"
           \/ pc'[s] = "commit" /\ held'[s] = held[s]
    BY <1>1, <1>8 DEF FinishUpdate, TypeOK, txn
  <2> QED BY <1>2, <2>1 DEF ToCover
<1>9. CASE CommitRead(s)
  <2>1. Others /\ pc[s] = "commit"
    BY <1>9 DEF CommitRead
  <2>2. ASSUME NEW m \in held[s] PROVE messages'[m].status = "read"
    <3>1. messages[m] \in Row /\ at[s] \in Times /\ m \in MsgIds
      BY <2>1, HeldCommitted DEF Inv, TxnFits
    <3>2. messages'[m] = ReadRow(messages[m], at[s])
      BY <1>9, <3>1 DEF CommitRead
    <3>3. ReadRow(messages[m], at[s]).status = "read"
      BY <3>1, UpdatedRows
    <3> QED BY <3>2, <3>3
  <2> QED BY <1>2, <2>1, <2>2 DEF ToCover
<1>10. CASE Reply(s)
  <2>1. Others /\ pc[s] = "reply" /\ pc'[s] = "done" /\ resp' = resp
    BY <1>1, <1>10 DEF Reply, TypeOK
  <2> QED BY <1>2, <2>1 DEF ToCover
<1>11. CASE Fail(s) \/ DeadlockVictim(s)
  <2>1. pc[s] # "idle"
    BY <1>11 DEF Fail, DeadlockVictim, Deadlocked
  <2>2. Others /\ pc'[s] = "done" /\ resp'[s].code = "failed"
    BY <1>1, <1>11, <2>1 DEF Fail, DeadlockVictim, Respond, TypeOK
  <2> QED BY <1>2, <2>2 DEF ToCover
<1>12. ASSUME \/ Lookup(s) \/ HeadAttachment(s) \/ InsertConversation(s) \/ InsertMessage(s)
              \/ RollbackSend(s) \/ Relookup(s) \/ UpdateDelivered(s) \/ GetMessage(s)
              \/ CommitSend(s) \/ CommitDelivered(s)
       PROVE  FALSE
  <2>1. CASE \/ Lookup(s) \/ HeadAttachment(s) \/ InsertConversation(s) \/ InsertMessage(s)
             \/ RollbackSend(s) \/ Relookup(s)
    <3>1. req' = req /\ pc[s] \in SendLabels
      BY <2>1 DEF Lookup, HeadAttachment, InsertConversation, InsertMessage, RollbackSend,
                  Relookup, SendLabels
    <3> QED BY <3>1 DEF Inv, RequestFits, SendRequest, ReadRequest
  <2>2. CASE UpdateDelivered(s) \/ GetMessage(s)
    <3>1. req' = req /\ pc[s] \in DeliveredLabels
      BY <2>2 DEF UpdateDelivered, GetMessage, DeliveredLabels
    <3> QED BY <3>1 DEF Inv, RequestFits, DeliveredRequest, ReadRequest
  <2>3. CASE CommitSend(s) \/ CommitDelivered(s)
    BY <2>3 DEF CommitSend, CommitDelivered, ReadRequest
  <2> QED BY <1>12, <2>1, <2>2, <2>3
<1>13. ASSUME Finish(s) PROVE FALSE
  BY <1>1, <1>13 DEF Finish, TypeOK
<1> HIDE DEF Goto, Others
<1> QED
  BY <1>3, <1>4, <1>5, <1>6, <1>7, <1>8, <1>9, <1>10, <1>11, <1>12, <1>13 DEF Act, Step

(* A read that is answered covers every message the reader could have seen *)
(* unread (chat.py:252-282), whoever else updates the same rows.           *)
THEOREM ReadsCover == Spec => []ReadCoversSeen
<1>1. Init => Covers
  BY DEF Init, Covers
<1>2. Inv /\ Covers /\ [Next]_vars => Covers'
  <2> SUFFICES ASSUME Inv, Covers, [Next]_vars PROVE Covers'
    OBVIOUS
  <2>1. ASSUME NEW s \in Sessions, Act(s) PROVE Covers'
    BY <2>1, OwnCover, OthersCover DEF Covers
  <2>2. CASE Tick \/ UNCHANGED vars
    <3>1. UNCHANGED <<messages, pc, req, todo, held, resp, seen>>
      BY <2>2 DEF Tick, vars, store, txn
    <3> QED
      BY <3>1 DEF Covers, Covering, ToCover, Unread, KeyLeq, Committed
  <2> QED BY <2>1, <2>2 DEF Next, Act
<1>3. Inv /\ Covers => ReadCoversSeen
  BY RequestKinds DEF Inv, RequestFits, Covers, Covering, ToCover, ReadCoversSeen
<1> QED BY <1>1, <1>2, <1>3, InitInv, InvStep, PTL DEF Spec

-----------------------------------------------------------------------------
(* A session that goes on to its INSERT has inserted the conversation, or  *)
(* has found it committed.                                                 *)
ConversationReady == \A s \in Sessions :
    (pc[s] = "insert" \/ (pc[s] = "commit" /\ req[s].op = "send")) =>
        staged[s] \/ ConvOf(req[s]) \in conversations

LEMMA ConversationsKept ==
  ASSUME NEW s \in Sessions, Act(s)
  PROVE  conversations \subseteq conversations'
<1>1. CASE UNCHANGED store
  BY <1>1 DEF store
<1>2. CASE Commits(s)
  BY <1>2 DEF Commits, CommitSend, CommitDelivered, CommitRead
<1> QED BY <1>1, <1>2, OnlyCommits

LEMMA EnterInsert ==
  ASSUME Inv, NEW s \in Sessions, Act(s), pc'[s] = "insert"
  PROVE  InsertConversation(s)
<1> USE DEF Inv, TypeOK, Goto
<1>1. ASSUME NEW r \in Requests, Start(s, r) PROVE FALSE
  BY <1>1 DEF Start, StartSend, StartDelivered, StartRead
<1>2. CASE Lookup(s) \/ HeadAttachment(s) \/ InsertMessage(s) \/ RollbackSend(s) \/ Relookup(s)
  BY <1>2 DEF Lookup, HeadAttachment, InsertMessage, RollbackSend, Relookup, Replay
<1>3. CASE Commits(s) \/ GetMessage(s) \/ UpdateDelivered(s)
  BY <1>3 DEF Commits, CommitSend, CommitDelivered, CommitRead, GetMessage, UpdateDelivered
<1>4. CASE GetConversation(s) \/ GetAnchor(s) \/ ScanUnread(s) \/ LockRow(s) \/ FinishUpdate(s)
  BY <1>4 DEF GetConversation, GetAnchor, ScanUnread, LockRow, FinishUpdate
<1>5. CASE Reply(s) \/ Fail(s) \/ DeadlockVictim(s) \/ Finish(s)
  BY <1>5 DEF Reply, Fail, DeadlockVictim, Finish
<1> HIDE DEF Inv, TypeOK, Goto
<1> QED BY <1>1, <1>2, <1>3, <1>4, <1>5 DEF Act, Step, Commits

LEMMA ConversationStep ==
  ASSUME Inv, ConversationReady, NEW s \in Sessions, Act(s)
  PROVE  ConversationReady'
<1> SUFFICES ASSUME NEW u \in Sessions,
                    pc'[u] = "insert" \/ (pc'[u] = "commit" /\ req'[u].op = "send")
             PROVE  staged'[u] \/ ConvOf(req'[u]) \in conversations'
  BY DEF ConversationReady, ConvOf
<1>1. CASE u # s
  <2>1. pc'[u] = pc[u] /\ req'[u] = req[u] /\ staged'[u] = staged[u]
    BY <1>1, Local DEF Inv, own
  <2>2. staged[u] \/ ConvOf(req[u]) \in conversations
    BY <2>1 DEF ConversationReady
  <2> QED BY <2>1, <2>2, ConversationsKept DEF ConvOf
<1>2. CASE u = s /\ pc'[s] = "insert"
  <2>1. InsertConversation(s)
    BY <1>2, EnterInsert
  <2> QED BY <1>2, <2>1 DEF InsertConversation, Inv, TypeOK, store, ConvOf
<1>3. CASE u = s /\ pc'[s] = "commit" /\ req'[s].op = "send"
  <2>1. InsertMessage(s) /\ req' = req
    BY <1>3, EnterCommit
  <2>2. staged' = staged /\ conversations' = conversations /\ pc[s] = "insert"
    BY <2>1 DEF InsertMessage, store, txn
  <2>3. staged[s] \/ ConvOf(req[s]) \in conversations
    BY <2>2 DEF ConversationReady
  <2> QED BY <1>3, <2>1, <2>2, <2>3 DEF ConvOf
<1> QED BY <1>1, <1>2, <1>3

LEMMA HasConversationStep ==
  ASSUME Inv, ConversationReady, HasConversation, NEW s \in Sessions, Act(s)
  PROVE  HasConversation'
<1> SUFFICES ASSUME NEW m \in MsgIds, Committed(m)'
             PROVE  {messages'[m].sender, messages'[m].recipient} \in conversations'
  BY DEF HasConversation
<1>1. CASE Committed(m)
  <2>1. /\ messages'[m].sender = messages[m].sender
        /\ messages'[m].recipient = messages[m].recipient
    BY <1>1, RowsKept DEF SameMessageAs
  <2>2. {messages[m].sender, messages[m].recipient} \in conversations
    BY <1>1 DEF HasConversation
  <2> QED BY <2>1, <2>2, ConversationsKept
<1>2. CASE ~Committed(m)
  <2>1. /\ CommitSend(s) /\ pc[s] = "commit" /\ req[s].op = "send"
        /\ messages'[m].sender = req[s].user /\ messages'[m].recipient = req[s].to
    BY <1>2, NewKeys
  <2>2. staged[s] \/ ConvOf(req[s]) \in conversations
    BY <2>1 DEF ConversationReady
  <2>3. ConvOf(req[s]) \in conversations'
    BY <2>1, <2>2 DEF CommitSend
  <2> QED BY <2>1, <2>3 DEF ConvOf
<1> QED BY <1>1, <1>2

(* Whatever sessions race to insert a conversation and fail after it, a    *)
(* committed message has its conversation.                                 *)
THEOREM ConversationsExist == Spec => []HasConversation
<1>1. Init => ConversationReady /\ HasConversation
  BY DEF Init, ConversationReady, HasConversation, Committed
<1>2. Inv /\ ConversationReady /\ HasConversation /\ [Next]_vars
        => ConversationReady' /\ HasConversation'
  <2> SUFFICES ASSUME Inv, ConversationReady, HasConversation, [Next]_vars
               PROVE  ConversationReady' /\ HasConversation'
    OBVIOUS
  <2>1. ASSUME NEW s \in Sessions, Act(s) PROVE ConversationReady' /\ HasConversation'
    BY <2>1, ConversationStep, HasConversationStep
  <2>2. CASE Tick \/ UNCHANGED vars
    BY <2>2 DEF Tick, vars, store, txn, ConversationReady, HasConversation, Committed, ConvOf
  <2> QED BY <2>1, <2>2 DEF Next, Act
<1> QED BY <1>1, <1>2, InitInv, InvStep, PTL DEF Spec

-----------------------------------------------------------------------------
(* The row an UPDATE of a receipt has waited for and locked is as its      *)
(* WHERE clause wants it when it commits, so its timestamp is still unset. *)
LEMMA ReceiptStep ==
  ASSUME Inv, StampsMatchStatus, NEW s \in Sessions, Act(s), NEW m \in MsgIds, Committed(m)
  PROVE  Stands(messages'[m], messages[m])
<1>1. CASE messages'[m] = messages[m]
  BY <1>1 DEF Stands
<1>2. messages[m] \in Row
  BY RowIsNotNone DEF Inv
<1>3. /\ (messages[m].delivered_at = None) <=> (messages[m].status = "sent")
      /\ (messages[m].read_at = None) <=> (messages[m].status # "read")
  BY DEF StampsMatchStatus
<1>4. CASE m \in held[s] /\ CommitDelivered(s) /\ messages'[m] =
             [messages[m] EXCEPT !.status = "delivered", !.delivered_at = at[s]]
  <2>1. req[s] \in DeliveredRequest /\ Holds(s, m)
    BY <1>4, RequestKinds DEF CommitDelivered, Inv, RequestFits, LocksFit
  <2>2. messages[m].status = "sent"
    BY <2>1 DEF Holds, Deliverable, DeliveredRequest, ReadRequest
  <2> QED BY <1>2, <1>3, <1>4, <2>2 DEF Stands, Row
<1>5. CASE m \in held[s] /\ CommitRead(s) /\ messages'[m] = ReadRow(messages[m], at[s])
  <2>1. req[s] \in ReadRequest /\ Holds(s, m)
    BY <1>5, RequestKinds DEF CommitRead, Inv, RequestFits, LocksFit
  <2>2. messages[m].status # "read"
    BY <2>1 DEF Holds, DeliveredRequest, ReadRequest
  <2> QED BY <1>2, <1>3, <1>5, <2>2 DEF Stands, Row, ReadRow
<1>6. \/ messages'[m] = messages[m]
      \/ /\ m \in held[s]
         /\ \/ CommitDelivered(s) /\ messages'[m] =
                  [messages[m] EXCEPT !.status = "delivered", !.delivered_at = at[s]]
            \/ CommitRead(s) /\ messages'[m] = ReadRow(messages[m], at[s])
  BY OnlyCommits, CommittedRows DEF store
<1> QED BY <1>1, <1>4, <1>5, <1>6

(* However the UPDATEs of receipts wait for each other, none deletes or    *)
(* changes a message, takes a status back, or writes a timestamp again.    *)
THEOREM ReceiptsNeverFallBack == Spec => ReceiptsStand
<1>1. Inv /\ StampsMatchStatus /\ [Next]_vars =>
        [\A m \in MsgIds : Committed(m) =>
            Committed(m)' /\ Stands(messages'[m], messages[m])]_vars
  <2> SUFFICES ASSUME Inv, StampsMatchStatus, Next, NEW m \in MsgIds, Committed(m)
               PROVE  Committed(m)' /\ Stands(messages'[m], messages[m])
    OBVIOUS
  <2>1. ASSUME NEW s \in Sessions, Act(s)
        PROVE  Committed(m)' /\ Stands(messages'[m], messages[m])
    BY <2>1, ReceiptStep, RowsKept
  <2>2. CASE Tick
    BY <2>2 DEF Tick, store, Committed, Stands
  <2> QED BY <2>1, <2>2 DEF Next, Act
<1> QED BY <1>1, InitInv, InvStep, StampsCorrect, PTL DEF Spec, ReceiptsStand

-----------------------------------------------------------------------------
(* Who is waited for has a transaction, and where it is. *)
LEMMA WaitedFor ==
  ASSUME Inv, NEW s \in Sessions, NEW u \in WaitsFor(s)
  PROVE  /\ u \in Sessions /\ pc[s] \in {"conversation", "insert", "update", "lock"}
         /\ pc[s] = "conversation" => pc[u] \in {"insert", "rollback", "commit"}
         /\ pc[s] = "insert" => pc[u] = "commit"
         /\ pc[s] \in {"update", "lock"} => pc[u] \in {"lock", "commit"}
<1>1. CASE pc[s] = "conversation"
  BY <1>1 DEF WaitsFor, InsertedConversation, Inv, TxnFits
<1>2. CASE pc[s] = "insert"
  BY <1>2 DEF WaitsFor, InsertedKey
<1>3. CASE pc[s] \in {"update", "lock"}
  <2>1. u \in Sessions /\ held[u] # {}
    BY <1>3 DEF WaitsFor
  <2>2. PICK m \in held[u] : Holds(u, m)
    BY <2>1 DEF Inv, LocksFit
  <2> QED BY <1>3, <2>1, <2>2 DEF Holds
<1> QED BY <1>1, <1>2, <1>3 DEF WaitsFor

(* Where every session of a set waits, and only for others of the set, the *)
(* mark_reads among them that wait for a row are a deadlock by themselves: *)
(* a send waits for what inserts, in the order conversation, message,      *)
(* commit, and the last of that order waits no more; a mark_delivered      *)
(* holds nothing while it waits, so nobody waits for it.                   *)
THEOREM DeadlocksOfReaders == Spec => []OnlyReadersDeadlock
<1>1. Inv => OnlyReadersDeadlock
  <2> SUFFICES ASSUME Inv PROVE OnlyReadersDeadlock
    OBVIOUS
  <2>1. \A s \in Sessions : \A u \in WaitsFor(s) :
          pc[u] \in {"insert", "rollback", "lock", "commit"}
    BY WaitedFor
  <2>2. ASSUME NEW D \in SUBSET Sessions, D # {},
               \A s \in D : WaitsFor(s) # {} /\ WaitsFor(s) \subseteq D,
               NEW R, R = {s \in D : pc[s] = "lock"}
        PROVE  R # {} /\ Deadlocked(R)
    <3>1. \A s \in D : \E u \in D : u \in WaitsFor(s)
      BY <2>2
    <3>2. \A s \in D : pc[s] \in {"conversation", "insert", "update", "lock"}
      BY <3>1, WaitedFor
    <3>3. \A s \in D : pc[s] # "insert"
      BY <3>1, <3>2, WaitedFor
    <3>4. \A s \in D : pc[s] # "conversation"
      BY <3>1, <3>2, <3>3, WaitedFor
    <3>5. \A s \in D : \A u \in WaitsFor(s) : u \in R
      BY <2>2, <3>2, <3>3, <3>4, WaitedFor
    <3>6. ASSUME NEW s \in R
          PROVE  /\ pc[s] = "lock" /\ todo[s] # {}
                 /\ todo[s] \subseteq UNION {held[u] : u \in R \ {s}}
      <4>1. s \in D /\ pc[s] = "lock"
        BY <2>2
      <4>2. PICK u \in D : u \in WaitsFor(s)
        BY <3>1, <4>1
      <4>3. todo[s] # {} /\ \A m \in todo[s] : ~Free(m, s)
        BY <4>1, <4>2 DEF WaitsFor
      <4>4. ASSUME NEW m \in todo[s] PROVE \E v \in R \ {s} : m \in held[v]
        <5>1. PICK v \in Sessions \ {s} : m \in held[v]
          BY <4>3 DEF Free
        <5>2. v \in WaitsFor(s)
          BY <4>1, <4>3, <5>1 DEF WaitsFor
        <5> QED BY <3>5, <4>1, <5>1, <5>2
      <4> QED BY <4>1, <4>3, <4>4
    <3>7. R # {}
      BY <2>2, <3>1, <3>5
    <3> QED BY <3>6, <3>7 DEF Deadlocked
  <2> QED BY <2>1, <2>2 DEF OnlyReadersDeadlock
<1> QED BY <1>1, InitInv, InvStep, PTL DEF Spec

-----------------------------------------------------------------------------
LEMMA Ranks ==
  /\ Rank["lookup"] = 8 /\ Rank["head"] = 7 /\ Rank["conversation"] = 6 /\ Rank["insert"] = 5
  /\ Rank["rollback"] = 4 /\ Rank["relookup"] = 3 /\ Rank["update"] = 5 /\ Rank["get"] = 4
  /\ Rank["membership"] = 7 /\ Rank["anchor"] = 6 /\ Rank["scan"] = 5 /\ Rank["lock"] = 4
  /\ Rank["commit"] = 3 /\ Rank["reply"] = 2 /\ Rank["done"] = 1 /\ Rank["idle"] = 0
BY DEF Rank

(* The step of a session that serves a request brings it nearer its end.   *)
LEMMA Advancing ==
  ASSUME TypeOK, NEW s \in Sessions, Act(s), pc[s] # "idle"
  PROVE  \/ Rank[pc'[s]] < Rank[pc[s]]
         \/ pc'[s] = pc[s] /\ todo'[s] \subseteq todo[s] /\ todo'[s] # todo[s]
<1> USE DEF TypeOK, Goto
<1>1. ASSUME NEW r \in Requests, Start(s, r) PROVE FALSE
  BY <1>1 DEF Start, StartSend, StartDelivered, StartRead
<1>2. CASE Lookup(s) \/ HeadAttachment(s) \/ InsertConversation(s)
  <2>1. \/ pc[s] = "lookup" /\ pc'[s] \in {"head", "conversation", "done"}
        \/ pc[s] = "head" /\ pc'[s] \in {"conversation", "done"}
        \/ pc[s] = "conversation" /\ pc'[s] = "insert"
    BY <1>2 DEF Lookup, Replay, HeadAttachment, InsertConversation
  <2> QED BY <2>1, Ranks
<1>3. CASE InsertMessage(s) \/ RollbackSend(s) \/ Relookup(s)
  <2>1. \/ pc[s] = "insert" /\ pc'[s] \in {"rollback", "commit"}
        \/ pc[s] = "rollback" /\ pc'[s] = "relookup"
        \/ pc[s] = "relookup" /\ pc'[s] = "done"
    BY <1>3 DEF InsertMessage, RollbackSend, Relookup, Replay
  <2> QED BY <2>1, Ranks
<1>4. CASE UpdateDelivered(s) \/ GetMessage(s) \/ Commits(s)
  <2>1. \/ pc[s] = "update" /\ pc'[s] \in {"get", "commit"}
        \/ pc[s] = "get" /\ pc'[s] = "done"
        \/ pc[s] = "commit" /\ pc'[s] = "reply"
    BY <1>4 DEF UpdateDelivered, GetMessage, Commits, CommitSend, CommitDelivered, CommitRead
  <2> QED BY <2>1, Ranks
<1>5. CASE GetConversation(s) \/ GetAnchor(s) \/ ScanUnread(s) \/ FinishUpdate(s)
  <2>1. \/ pc[s] = "membership" /\ pc'[s] \in {"anchor", "done"}
        \/ pc[s] = "anchor" /\ pc'[s] \in {"scan", "done"}
        \/ pc[s] = "scan" /\ pc'[s] = "lock"
        \/ pc[s] = "lock" /\ pc'[s] \in {"commit", "done"}
    BY <1>5 DEF GetConversation, GetAnchor, ScanUnread, FinishUpdate
  <2> QED BY <2>1, Ranks
<1>6. CASE LockRow(s)
  BY <1>6 DEF LockRow
<1>7. CASE Fail(s) \/ DeadlockVictim(s)
  <2>1. pc'[s] = "done" /\ pc[s] \in Labels \ {"idle", "done"}
    BY <1>7 DEF Fail, DeadlockVictim, Deadlocked
  <2> QED BY <2>1, Ranks DEF Labels
<1>8. CASE Reply(s) \/ Finish(s)
  <2>1. \/ pc[s] = "reply" /\ pc'[s] = "done"
        \/ pc[s] = "done" /\ pc'[s] = "idle"
    BY <1>8 DEF Reply, Finish
  <2> QED BY <2>1, Ranks
<1> HIDE DEF TypeOK, Goto
<1> QED
  BY <1>1, <1>2, <1>3, <1>4, <1>5, <1>6, <1>7, <1>8 DEF Act, Step, Commits

(* No request goes round in circles: each step of its session lowers the   *)
(* rank of its statement or the number of rows its UPDATE has to visit.    *)
THEOREM RequestsAdvance == Spec => Advances
<1>1. TypeOK /\ [Next]_vars =>
        [\A s \in Sessions : (pc[s] # "idle" /\ own(s)' # own(s)) =>
            \/ Rank[pc'[s]] < Rank[pc[s]]
            \/ pc'[s] = pc[s] /\ todo'[s] \subseteq todo[s] /\ todo'[s] # todo[s]]_vars
  <2> SUFFICES ASSUME TypeOK, Next, NEW s \in Sessions, pc[s] # "idle", own(s)' # own(s)
               PROVE  \/ Rank[pc'[s]] < Rank[pc[s]]
                      \/ pc'[s] = pc[s] /\ todo'[s] \subseteq todo[s] /\ todo'[s] # todo[s]
    OBVIOUS
  <2>1. ASSUME NEW u \in Sessions, Act(u) PROVE u = s
    BY <2>1, Local
  <2>2. ~Tick
    BY DEF Tick, own, txn
  <2>3. Act(s)
    BY <2>1, <2>2 DEF Next, Act
  <2> QED BY <2>3, Advancing
<1> QED BY <1>1, TypeCorrect, PTL DEF Spec, Advances
==============================================================================
