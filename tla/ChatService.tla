----------------------------- MODULE ChatService -----------------------------
(***************************************************************************)
(* app/services/chat.py: the three commands of the message flow, each run  *)
(* by a session that holds one PostgreSQL transaction at READ COMMITTED.   *)
(* A session takes one step per statement; what it has written but not     *)
(* committed is kept in staged/id/held and is invisible to the others,     *)
(* except that it makes them wait:                                         *)
(*   - an INSERT .. ON CONFLICT waits for an uncommitted row with the same *)
(*     unique key and decides once that transaction has ended;             *)
(*   - an UPDATE waits for a row another transaction has updated, and      *)
(*     tests its WHERE clause again on the committed row.                  *)
(***************************************************************************)
EXTENDS Naturals, FiniteSets

CONSTANTS
    Users, ClientIds, Contents,
    Overlong,     \* the contents whose body exceeds message_max_graphemes
    Attached,     \* the contents that carry an attachment_key
    MsgIds,       \* message ids, ordered as uuid7 values are
    Sessions,     \* requests that run at the same time, on any replica
    Requests,     \* the requests clients may make
    MaxTime,      \* bound: the clock stops here
    Skew,         \* how far a replica's clock may be from the others'
    MaxFailures,  \* bound: failed statements, lost connections, crashes
    None

VARIABLES
    conversations,  \* committed pairs of users
    messages,       \* committed rows, None where an id is unused
    outbox,         \* how often each event was committed to the outbox
    clock,          \* the time
    pc, req,        \* the next statement of a session, its request
    staged,         \* whether it inserted its conversation, uncommitted
    id, at,         \* the id of its uncommitted message, its utcnow()
    todo, held,     \* rows its UPDATE still has to visit, rows it has updated
    resp,           \* what it answers
    seen,           \* history: unread rows a reader's request must cover
    failures        \* failures so far

store == <<conversations, messages, outbox>>
txn   == <<staged, id, at, todo, held>>
vars  == <<store, clock, pc, req, txn, resp, seen, failures>>

-----------------------------------------------------------------------------
Times  == 0..MaxTime
Pairs  == {c \in SUBSET Users : \E u, v \in Users : u # v /\ c = {u, v}}
Status == {"sent", "delivered", "read"}

(* A row of messages; send_message stores none whose body is too long. *)
Row == [sender : Users, recipient : Users, cmid : ClientIds,
        content : Contents \ Overlong, status : Status, created_at : Times,
        delivered_at : Times \cup {None}, read_at : Times \cup {None}]

EventTypes == {"message.new", "message.delivered", "message.read"}
Event      == [type : EventTypes, msg : MsgIds, to : Users]
Ev(t, m, u) == [type |-> t, msg |-> m, to |-> u]

SendRequest      == [op : {"send"}, user : Users, to : Users,
                     cmid : ClientIds, content : Contents]
DeliveredRequest == [op : {"delivered"}, user : Users, msg : MsgIds]
ReadRequest      == [op : {"read"}, user : Users, conv : Pairs, msg : MsgIds]
Request          == SendRequest \cup DeliveredRequest \cup ReadRequest

Labels == {"idle", "lookup", "head", "conversation", "insert", "rollback", "relookup",
           "update", "get", "membership", "anchor", "scan", "lock", "commit",
           "reply", "done"}

Codes == {"none", "created", "ok", "rejected", "idempotency_conflict", "conflict",
          "failed"}
Answer == [code : Codes, msg : MsgIds \cup {None}]
NoAnswer == [code |-> "none", msg |-> None]

ASSUME RequestsAssumption == Requests \subseteq Request
ASSUME NumbersAssumption  == /\ MsgIds \subseteq Nat
                             /\ MaxTime \in Nat /\ Skew \in Nat /\ MaxFailures \in Nat
ASSUME NoneAssumption     == /\ None \notin Row /\ None \notin Request
                             /\ None \notin MsgIds /\ None \notin Nat
ASSUME FiniteAssumption   == /\ IsFiniteSet(Sessions) /\ IsFiniteSet(MsgIds)
                             /\ Attached \subseteq Contents /\ Overlong \subseteq Contents

-----------------------------------------------------------------------------
(* What a statement reads. *)

Committed(m) == messages[m] # None

(* utcnow() on a replica whose clock is within Skew of the time. *)
Utcnow == {t \in Times : t <= clock + Skew /\ clock <= t + Skew}

HasKey(m, r) == /\ Committed(m)
                /\ messages[m].sender = r.user
                /\ messages[m].cmid = r.cmid

ByClientMsgId(r) == {m \in MsgIds : HasKey(m, r)}

(* MUTANT: no unique constraint on (sender_id, client_msg_id) to wait on. *)
NoUniqueKey(r) == {}

(* MUTANT: a key is taken by whoever is about to insert it. *)
LockedKey(r) == {u \in Sessions : /\ pc[u] \in {"insert", "commit"}
                                  /\ req[u].op = "send"
                                  /\ req[u].user = r.user
                                  /\ req[u].cmid = r.cmid}

(* The sessions whose uncommitted message has the key of request r. *)
InsertedKey(r) == {u \in Sessions : /\ pc[u] = "commit"
                                    /\ req[u].op = "send"
                                    /\ req[u].user = r.user
                                    /\ req[u].cmid = r.cmid}

ConvOf(r) == IF r.op = "send" THEN {r.user, r.to} ELSE r.conv

InsertedConversation(c) == {u \in Sessions : staged[u] /\ ConvOf(req[u]) = c}

Free(m, s) == \A u \in Sessions \ {s} : m \notin held[u]

(* The order of messages in a conversation: (created_at, id). *)
KeyLeq(m, n) == \/ messages[m].created_at < messages[n].created_at
                \/ messages[m].created_at = messages[n].created_at /\ m <= n

(* The rows the WHERE clause of mark_read selects. *)
Unread(r) == {m \in MsgIds : /\ Committed(m)
                             /\ {messages[m].sender, messages[m].recipient} = r.conv
                             /\ messages[m].recipient = r.user
                             /\ messages[m].status # "read"
                             /\ KeyLeq(m, r.msg)}

(* MUTANT: mark_delivered without "status == sent" in its WHERE clause. *)
DeliverableAgain(r) == /\ Committed(r.msg)
                       /\ messages[r.msg].recipient = r.user

(* The row the WHERE clause of mark_delivered selects, if any. *)
Deliverable(r) == /\ Committed(r.msg)
                  /\ messages[r.msg].recipient = r.user
                  /\ messages[r.msg].status = "sent"

(* The ids uuid7() may return: used neither by a row nor by a session. *)
FreshIds == {m \in MsgIds : ~Committed(m) /\ \A u \in Sessions : id[u] # m}

-----------------------------------------------------------------------------
Init ==
    /\ conversations = {}
    /\ messages = [m \in MsgIds |-> None]
    /\ outbox = [e \in Event |-> 0]
    /\ clock = 0
    /\ pc = [s \in Sessions |-> "idle"]
    /\ req = [s \in Sessions |-> None]
    /\ staged = [s \in Sessions |-> FALSE]
    /\ id = [s \in Sessions |-> None]
    /\ at = [s \in Sessions |-> None]
    /\ todo = [s \in Sessions |-> {}]
    /\ held = [s \in Sessions |-> {}]
    /\ resp = [s \in Sessions |-> NoAnswer]
    /\ seen = [s \in Sessions |-> {}]
    /\ failures = 0

(* What most steps do: move on, answer, end the transaction. *)
Goto(s, label) == pc' = [pc EXCEPT ![s] = label]

Respond(s, code, m) == resp' = [resp EXCEPT ![s] = [code |-> code, msg |-> m]]

EndTxn(s) == /\ staged' = [staged EXCEPT ![s] = FALSE]
             /\ id' = [id EXCEPT ![s] = None]
             /\ at' = [at EXCEPT ![s] = None]
             /\ todo' = [todo EXCEPT ![s] = {}]
             /\ held' = [held EXCEPT ![s] = {}]

(* Add to the outbox the events of E, in the commit that makes them true. *)
Enqueue(E) == outbox' = [e \in Event |-> IF e \in E THEN outbox[e] + 1 ELSE outbox[e]]

-----------------------------------------------------------------------------
(* send_message *)

(* Bound: a send starts only while every send under way can find an id. *)
IdsLeft == Cardinality({m \in MsgIds : ~Committed(m)})
             > Cardinality({u \in Sessions : pc[u] # "idle" /\ req[u].op = "send"})

(* MUTANT: send_message lets a user message himself. *)
TooLong(r) == r.content \in Overlong

Rejected(r) == r.to = r.user \/ r.content \in Overlong

StartSend(s, r) ==
    /\ pc[s] = "idle"
    /\ r.op = "send"
    /\ IdsLeft
    /\ req' = [req EXCEPT ![s] = r]
    /\ IF Rejected(r)
       THEN Goto(s, "done") /\ Respond(s, "rejected", None)
       ELSE Goto(s, "lookup") /\ UNCHANGED resp
    /\ UNCHANGED <<store, clock, txn, seen, failures>>

(* MUTANT: _replay compares the recipient only. *)
SameRecipient(m, r) == messages[m].recipient = r.to

(* _replay: the stored message answers a retry, if it is the same message. *)
SameMessage(m, r) == /\ messages[m].recipient = r.to
                     /\ messages[m].content = r.content

Replay(s, m) ==
    /\ Goto(s, "done")
    /\ IF SameMessage(m, req[s])
       THEN Respond(s, "ok", m)
       ELSE Respond(s, "idempotency_conflict", m)

Lookup(s) ==
    /\ pc[s] = "lookup"
    /\ \/ \E m \in ByClientMsgId(req[s]) : Replay(s, m)
       \/ /\ ByClientMsgId(req[s]) = {}
          /\ Goto(s, IF req[s].content \in Attached THEN "head" ELSE "conversation")
          /\ UNCHANGED resp
    /\ UNCHANGED <<store, clock, req, txn, seen, failures>>

(* _check_attachment: the object store finds the object in order or not. *)
HeadAttachment(s) ==
    /\ pc[s] = "head"
    /\ \/ Goto(s, "conversation") /\ UNCHANGED resp
       \/ Goto(s, "done") /\ Respond(s, "rejected", None)
    /\ UNCHANGED <<store, clock, req, txn, seen, failures>>

(* MUTANT: the INSERT reports a conflict with a conversation that is not   *)
(* committed, and goes on without it.                                      *)
InsertConversationNoWait(s) ==
    LET c == ConvOf(req[s]) IN
    /\ pc[s] = "conversation"
    /\ staged' = [staged EXCEPT ![s] = c \notin conversations
                                        /\ InsertedConversation(c) = {}]
    /\ \E m \in FreshIds, t \in Utcnow :
          /\ id' = [id EXCEPT ![s] = m]
          /\ at' = [at EXCEPT ![s] = t]
    /\ Goto(s, "insert")
    /\ UNCHANGED <<store, clock, req, todo, held, resp, seen, failures>>

(* The conversation is inserted unless it exists, which waits for another  *)
(* session that has inserted it; the SELECT after it finds one row, since  *)
(* conversations are never deleted.  The values of the message row, its id *)
(* and created_at, are computed before its INSERT waits for anything.      *)
InsertConversation(s) ==
    LET c == ConvOf(req[s]) IN
    /\ pc[s] = "conversation"
    /\ InsertedConversation(c) \subseteq {s}
    /\ staged' = [staged EXCEPT ![s] = c \notin conversations]
    /\ \E m \in FreshIds, t \in Utcnow :
          /\ id' = [id EXCEPT ![s] = m]
          /\ at' = [at EXCEPT ![s] = t]
    /\ Goto(s, "insert")
    /\ UNCHANGED <<store, clock, req, todo, held, resp, seen, failures>>

(* MUTANT: the INSERT reports a conflict with a row that is not committed. *)
InsertNoWait(s) ==
    /\ pc[s] = "insert"
    /\ Goto(s, IF ByClientMsgId(req[s]) = {} /\ InsertedKey(req[s]) = {}
               THEN "commit" ELSE "rollback")
    /\ UNCHANGED <<store, clock, req, txn, resp, seen, failures>>

InsertMessage(s) ==
    /\ pc[s] = "insert"
    /\ InsertedKey(req[s]) = {}
    /\ Goto(s, IF ByClientMsgId(req[s]) = {} THEN "commit" ELSE "rollback")
    /\ UNCHANGED <<store, clock, req, txn, resp, seen, failures>>

(* MUTANT: after a conflict the INSERT is tried again, not looked up. *)
RollbackRetry(s) ==
    /\ pc[s] = "rollback"
    /\ EndTxn(s)
    /\ Goto(s, "conversation")
    /\ UNCHANGED <<store, clock, req, resp, seen, failures>>

RollbackSend(s) ==
    /\ pc[s] = "rollback"
    /\ EndTxn(s)
    /\ Goto(s, "relookup")
    /\ UNCHANGED <<store, clock, req, resp, seen, failures>>

Relookup(s) ==
    /\ pc[s] = "relookup"
    /\ IF ByClientMsgId(req[s]) = {}
       THEN Goto(s, "done") /\ Respond(s, "conflict", None)
       ELSE \E m \in ByClientMsgId(req[s]) : Replay(s, m)
    /\ UNCHANGED <<store, clock, req, txn, seen, failures>>

NewRow(s) == [sender |-> req[s].user, recipient |-> req[s].to, cmid |-> req[s].cmid,
              content |-> req[s].content, status |-> "sent", created_at |-> at[s],
              delivered_at |-> None, read_at |-> None]

CommitSend(s) ==
    /\ pc[s] = "commit"
    /\ req[s].op = "send"
    /\ messages' = [messages EXCEPT ![id[s]] = NewRow(s)]
    /\ conversations' = IF staged[s] THEN conversations \cup {ConvOf(req[s])}
                                     ELSE conversations
    /\ Enqueue({Ev("message.new", id[s], req[s].to), Ev("message.new", id[s], req[s].user)})
    /\ Respond(s, "created", id[s])
    /\ EndTxn(s)
    /\ Goto(s, "reply")
    /\ UNCHANGED <<clock, req, seen, failures>>

-----------------------------------------------------------------------------
(* mark_delivered *)

(* utcnow() is read before the UPDATE, and so before it waits for the row. *)
StartDelivered(s, r) ==
    /\ pc[s] = "idle"
    /\ r.op = "delivered"
    /\ req' = [req EXCEPT ![s] = r]
    /\ \E t \in Utcnow : at' = [at EXCEPT ![s] = t]
    /\ Goto(s, "update")
    /\ UNCHANGED <<store, clock, staged, id, todo, held, resp, seen, failures>>

UpdateDelivered(s) ==
    /\ pc[s] = "update"
    /\ IF Deliverable(req[s])
       THEN /\ Free(req[s].msg, s)
            /\ held' = [held EXCEPT ![s] = {req[s].msg}]
            /\ Goto(s, "commit")
       ELSE Goto(s, "get") /\ UNCHANGED held
    /\ UNCHANGED <<store, clock, req, staged, id, at, todo, resp, seen, failures>>

(* Nothing was updated: answer what the row says, to its recipient only. *)
GetMessage(s) ==
    LET m == req[s].msg IN
    /\ pc[s] = "get"
    /\ IF Committed(m) /\ messages[m].recipient = req[s].user
       THEN Respond(s, "ok", m)
       ELSE Respond(s, "rejected", None)
    /\ Goto(s, "done")
    /\ EndTxn(s)
    /\ UNCHANGED <<store, clock, req, seen, failures>>

CommitDelivered(s) ==
    LET m == req[s].msg IN
    /\ pc[s] = "commit"
    /\ req[s].op = "delivered"
    /\ messages' = [messages EXCEPT ![m].status = "delivered", ![m].delivered_at = at[s]]
    /\ Enqueue({Ev("message.delivered", m, messages[m].sender)})
    /\ Respond(s, "ok", m)
    /\ EndTxn(s)
    /\ Goto(s, "reply")
    /\ UNCHANGED <<conversations, clock, req, seen, failures>>

-----------------------------------------------------------------------------
(* mark_read *)

StartRead(s, r) ==
    /\ pc[s] = "idle"
    /\ r.op = "read"
    /\ req' = [req EXCEPT ![s] = r]
    /\ seen' = [seen EXCEPT ![s] = IF Committed(r.msg) THEN Unread(r) ELSE {}]
    /\ Goto(s, "membership")
    /\ UNCHANGED <<store, clock, txn, resp, failures>>

(* get_conversation *)
GetConversation(s) ==
    /\ pc[s] = "membership"
    /\ IF req[s].conv \in conversations /\ req[s].user \in req[s].conv
       THEN Goto(s, "anchor") /\ UNCHANGED resp
       ELSE Goto(s, "done") /\ Respond(s, "rejected", None)
    /\ UNCHANGED <<store, clock, req, txn, seen, failures>>

GetAnchor(s) ==
    LET m == req[s].msg IN
    /\ pc[s] = "anchor"
    /\ IF Committed(m) /\ {messages[m].sender, messages[m].recipient} = req[s].conv
       THEN /\ Goto(s, "scan")
            /\ \E t \in Utcnow : at' = [at EXCEPT ![s] = t]
            /\ UNCHANGED resp
       ELSE /\ Goto(s, "done")
            /\ Respond(s, "rejected", None)
            /\ UNCHANGED at
    /\ UNCHANGED <<store, clock, req, staged, id, todo, held, seen, failures>>

(* The UPDATE starts: its snapshot fixes the rows it will visit. *)
ScanUnread(s) ==
    /\ pc[s] = "scan"
    /\ todo' = [todo EXCEPT ![s] = Unread(req[s])]
    /\ Goto(s, "lock")
    /\ UNCHANGED <<store, clock, req, staged, id, at, held, resp, seen, failures>>

(* MUTANT: FOR UPDATE SKIP LOCKED: rows another session holds are left. *)
LockRowOrSkip(s) ==
    /\ pc[s] = "lock"
    /\ \E m \in todo[s] :
          /\ todo' = [todo EXCEPT ![s] = @ \ {m}]
          /\ held' = [held EXCEPT ![s] = IF Free(m, s) /\ messages[m].status # "read"
                                         THEN @ \cup {m} ELSE @]
    /\ UNCHANGED <<store, clock, pc, req, staged, id, at, resp, seen, failures>>

(* It visits them in an order the plan decides: each is locked when no     *)
(* other session holds it, and updated if it still matches.                *)
LockRow(s) ==
    /\ pc[s] = "lock"
    /\ \E m \in todo[s] :
          /\ Free(m, s)
          /\ todo' = [todo EXCEPT ![s] = @ \ {m}]
          /\ held' = [held EXCEPT ![s] = IF messages[m].status # "read" THEN @ \cup {m}
                                                                      ELSE @]
    /\ UNCHANGED <<store, clock, pc, req, staged, id, at, resp, seen, failures>>

FinishUpdate(s) ==
    /\ pc[s] = "lock"
    /\ todo[s] = {}
    /\ IF held[s] = {}
       THEN Goto(s, "done") /\ Respond(s, "ok", None) /\ EndTxn(s)
       ELSE Goto(s, "commit") /\ UNCHANGED <<resp, txn>>
    /\ UNCHANGED <<store, clock, req, seen, failures>>

(* MUTANT: no backfill of delivered_at. *)
ReadRowOnly(row, t) == [row EXCEPT !.status = "read", !.read_at = t]

(* MUTANT: delivered_at = now, also where it is set. *)
ReadRowAnew(row, t) ==
    [row EXCEPT !.status = "read", !.read_at = t, !.delivered_at = t]

(* delivered_at = coalesce(delivered_at, now) *)
ReadRow(row, t) ==
    [row EXCEPT !.status = "read", !.read_at = t,
                !.delivered_at = IF @ = None THEN t ELSE @]

(* peer_of *)
Peer(r) == CHOOSE u \in Users : u # r.user /\ r.conv = {u, r.user}

CommitRead(s) ==
    /\ pc[s] = "commit"
    /\ req[s].op = "read"
    /\ messages' = [m \in MsgIds |-> IF m \in held[s] THEN ReadRow(messages[m], at[s])
                                                      ELSE messages[m]]
    /\ Enqueue({Ev("message.read", m, Peer(req[s])) : m \in held[s]})
    /\ Respond(s, "ok", None)
    /\ EndTxn(s)
    /\ Goto(s, "reply")
    /\ UNCHANGED <<conversations, clock, req, seen, failures>>

-----------------------------------------------------------------------------
(* The end of a request *)

(* After the commit: on_commit wakes the relay and the answer goes out. *)
Reply(s) ==
    /\ pc[s] = "reply"
    /\ Goto(s, "done")
    /\ UNCHANGED <<store, clock, req, txn, resp, seen, failures>>

(* A statement, the commit or the process fails: the client gets a 503 or  *)
(* nothing.  Before the commit the transaction is rolled back; at "reply"  *)
(* the change is already durable and only the answer is lost.              *)
Fail(s) ==
    /\ pc[s] \notin {"idle", "done"}
    /\ failures < MaxFailures
    /\ failures' = failures + 1
    /\ Respond(s, "failed", None)
    /\ EndTxn(s)
    /\ Goto(s, "done")
    /\ UNCHANGED <<store, clock, req, seen>>

(* Every session of D waits for rows that only sessions of D hold. *)
Deadlocked(D) == \A s \in D :
    /\ pc[s] = "lock"
    /\ todo[s] # {}
    /\ todo[s] \subseteq UNION {held[u] : u \in D \ {s}}

(* PostgreSQL finds the deadlock and aborts one of the transactions. *)
DeadlockVictim(s) ==
    /\ \E D \in SUBSET Sessions : s \in D /\ Deadlocked(D)
    /\ Respond(s, "failed", None)
    /\ EndTxn(s)
    /\ Goto(s, "done")
    /\ UNCHANGED <<store, clock, req, seen, failures>>

Finish(s) ==
    /\ pc[s] = "done"
    /\ req' = [req EXCEPT ![s] = None]
    /\ resp' = [resp EXCEPT ![s] = NoAnswer]
    /\ seen' = [seen EXCEPT ![s] = {}]
    /\ EndTxn(s)
    /\ Goto(s, "idle")
    /\ UNCHANGED <<store, clock, failures>>

Tick ==
    /\ clock < MaxTime
    /\ clock' = clock + 1
    /\ UNCHANGED <<store, pc, req, txn, resp, seen, failures>>

Start(s, r) == StartSend(s, r) \/ StartDelivered(s, r) \/ StartRead(s, r)

Step(s) ==
    \/ Lookup(s) \/ HeadAttachment(s) \/ InsertConversation(s) \/ InsertMessage(s)
    \/ RollbackSend(s) \/ Relookup(s) \/ CommitSend(s)
    \/ UpdateDelivered(s) \/ GetMessage(s) \/ CommitDelivered(s)
    \/ GetConversation(s) \/ GetAnchor(s) \/ ScanUnread(s) \/ LockRow(s)
    \/ FinishUpdate(s) \/ CommitRead(s) \/ Reply(s) \/ Finish(s)

Next ==
    \/ Tick
    \/ \E s \in Sessions : \/ Step(s) \/ Fail(s) \/ DeadlockVictim(s)
                           \/ \E r \in Requests : Start(s, r)

Spec == Init /\ [][Next]_vars

(* A session that can go on does, and PostgreSQL resolves deadlocks.  The  *)
(* waiters of a row are woken in turn when its holder ends, so one that    *)
(* waits for a row that is released again and again gets it (SF): without  *)
(* that, deadlock victims that are retried for ever could starve it.       *)
Fairness == /\ \A s \in Sessions : WF_vars(Step(s)) /\ SF_vars(LockRow(s))
            /\ WF_vars(\E s \in Sessions : DeadlockVictim(s))

FairSpec == Spec /\ Fairness

-----------------------------------------------------------------------------
(* Properties *)

(* Every variable has its type, and a request's fields are there. *)
TypeOK ==
    /\ conversations \subseteq Pairs
    /\ messages \in [MsgIds -> Row \cup {None}]
    /\ outbox \in [Event -> Nat]
    /\ clock \in Times
    /\ pc \in [Sessions -> Labels]
    /\ req \in [Sessions -> Request \cup {None}]
    /\ staged \in [Sessions -> BOOLEAN]
    /\ id \in [Sessions -> MsgIds \cup {None}]
    /\ at \in [Sessions -> Times \cup {None}]
    /\ todo \in [Sessions -> SUBSET MsgIds]
    /\ held \in [Sessions -> SUBSET MsgIds]
    /\ resp \in [Sessions -> Answer]
    /\ seen \in [Sessions -> SUBSET MsgIds]
    /\ failures \in 0..MaxFailures

(* send_message answers 201 or 200 only with a durable message that is the *)
(* one the client asked to send: a retry never gets someone else's row.    *)
AckedIsDurable == \A s \in Sessions :
    (pc[s] = "done" /\ req[s].op = "send" /\ resp[s].code \in {"created", "ok"}) =>
        LET m == resp[s].msg IN /\ HasKey(m, req[s])
                                /\ messages[m].recipient = req[s].to
                                /\ messages[m].content = req[s].content

(* A retry is refused only for a reason: "conflict" (chat.py:199) is never *)
(* answered, and "idempotency_conflict" only when the key is really taken  *)
(* by a different durable message.                                         *)
ConflictsAreReal == \A s \in Sessions :
    pc[s] = "done" =>
        /\ resp[s].code # "conflict"
        /\ resp[s].code = "idempotency_conflict" =>
               HasKey(resp[s].msg, req[s]) /\ ~SameMessage(resp[s].msg, req[s])

(* The outbox holds exactly the announcements the committed rows call for: *)
(* each message new once to both ends, delivered at most once to its       *)
(* sender, read exactly once if it is read.                                *)
AnnouncedExactly == \A m \in MsgIds, u \in Users :
    /\ outbox[Ev("message.new", m, u)] =
           IF Committed(m) /\ u \in {messages[m].sender, messages[m].recipient} THEN 1 ELSE 0
    /\ outbox[Ev("message.read", m, u)] =
           IF Committed(m) /\ u = messages[m].sender /\ messages[m].status = "read"
           THEN 1 ELSE 0
    /\ outbox[Ev("message.delivered", m, u)] > 0 =>
           Committed(m) /\ u = messages[m].sender /\ messages[m].status # "sent"
    /\ outbox[Ev("message.delivered", m, u)] <= 1
    /\ (Committed(m) /\ messages[m].status = "delivered") =>
           outbox[Ev("message.delivered", m, messages[m].sender)] = 1

(* A read that is answered covers every message that was there, unread,    *)
(* when it was asked for, whoever else was updating the same rows.         *)
ReadCoversSeen == \A s \in Sessions :
    (pc[s] = "done" /\ req[s].op = "read" /\ resp[s].code = "ok") =>
        \A m \in seen[s] : messages[m].status = "read"

(* The sent -> delivered -> read life cycle in the timestamps: delivered_at *)
(* is set once a message is delivered or read, read_at once it is read.    *)
StampsMatchStatus == \A m \in MsgIds : Committed(m) =>
    /\ (messages[m].delivered_at = None) <=> (messages[m].status = "sent")
    /\ (messages[m].read_at = None) <=> (messages[m].status # "read")

(* No message without its conversation (chat.py:112): ON CONFLICT DO        *)
(* NOTHING passes over a conversation another session has inserted, which  *)
(* must be durable by then, although that session may fail.                *)
HasConversation == \A m \in MsgIds : Committed(m) =>
    {messages[m].sender, messages[m].recipient} \in conversations

(* What a commit may do to a row that is there. *)
Stands(new, old) ==
    /\ <<new.sender, new.recipient, new.cmid, new.content, new.created_at>>
         = <<old.sender, old.recipient, old.cmid, old.content, old.created_at>>
    /\ old.status # "sent" => new.status # "sent"
    /\ old.status = "read" => new.status = "read"
    /\ old.delivered_at # None => new.delivered_at = old.delivered_at
    /\ old.read_at # None => new.read_at = old.read_at

(* What the UPDATEs of receipts may never do, however they wait for each   *)
(* other: delete or change a message, take a status back, or write again a *)
(* timestamp that is there.                                                *)
ReceiptsStand == [][\A m \in MsgIds :
    Committed(m) => Committed(m)' /\ Stands(messages'[m], messages[m])]_vars

(* The sessions one of which must end its transaction before s goes on, if *)
(* its statement waits.                                                    *)
WaitsFor(s) == {u \in Sessions :
    \/ /\ pc[s] = "conversation"
       /\ u # s /\ u \in InsertedConversation(ConvOf(req[s]))
    \/ /\ pc[s] = "insert"
       /\ u \in InsertedKey(req[s])
    \/ /\ pc[s] = "update" /\ Deliverable(req[s])
       /\ u # s /\ req[s].msg \in held[u]
    \/ /\ pc[s] = "lock" /\ \A m \in todo[s] : ~Free(m, s)
       /\ u # s /\ todo[s] \cap held[u] # {}}

(* Sends and mark_delivered never take part in a deadlock, in whatever     *)
(* order they insert and update: who is waited for has a transaction to    *)
(* end, and where everyone waits on everyone there are UPDATEs of          *)
(* mark_read (chat.py:267) that PostgreSQL aborts one of.                  *)
OnlyReadersDeadlock ==
    /\ \A s \in Sessions : \A u \in WaitsFor(s) :
          pc[u] \in {"insert", "rollback", "lock", "commit"}
    /\ \A D \in SUBSET Sessions :
          (D # {} /\ \A s \in D : WaitsFor(s) # {} /\ WaitsFor(s) \subseteq D) =>
              LET R == {s \in D : pc[s] = "lock"} IN R # {} /\ Deadlocked(R)

(* What belongs to a session. *)
own(s) == <<pc[s], req[s], staged[s], id[s], at[s], todo[s], held[s], resp[s], seen[s]>>

(* How far a statement is from the end of its request. *)
Rank == [lookup |-> 8, head |-> 7, conversation |-> 6, insert |-> 5, rollback |-> 4,
         relookup |-> 3, update |-> 5, get |-> 4, membership |-> 7, anchor |-> 6,
         scan |-> 5, lock |-> 4, commit |-> 3, reply |-> 2, done |-> 1, idle |-> 0]

(* A request comes to its end in a bounded number of steps: no retry after *)
(* a conflict and no UPDATE goes back or visits a row twice.               *)
Advances == [][\A s \in Sessions : (pc[s] # "idle" /\ own(s)' # own(s)) =>
    \/ Rank[pc'[s]] < Rank[pc[s]]
    \/ pc'[s] = pc[s] /\ todo'[s] \subseteq todo[s] /\ todo'[s] # todo[s]]_vars

(* Sessions, locks and retries are invisible: the committed rows and the   *)
(* outbox change as the ledger's entries and announcements do.             *)
EntryOf(row) == IF row = None THEN None
                ELSE [sender |-> row.sender, recipient |-> row.recipient,
                      cmid |-> row.cmid, content |-> row.content, status |-> row.status]

LedgerOf == [m \in MsgIds |-> EntryOf(messages[m])]

Ledger == INSTANCE MessageLedger WITH ledger <- LedgerOf, announced <- outbox

ASSUME EntryAssumption == None \notin Ledger!Entry

LedgerSpec == Ledger!Spec

(* Every request is answered: no wait for a key or a row lasts for ever. *)
Answered == \A s \in Sessions : (pc[s] # "idle") ~> (pc[s] = "done")

(* README: "sent --> delivered --> read", "read implies delivered". *)
ReadNotBeforeDelivered == \A m \in MsgIds :
    (Committed(m) /\ messages[m].status = "read") =>
        messages[m].delivered_at <= messages[m].read_at
==============================================================================
