------------------------------- MODULE Delivery -------------------------------
(***************************************************************************)
(* From the commit of a message to the queues of its recipient's sockets:  *)
(* the outbox, as its relays implement it (module Outbox), publishes rows  *)
(* to Redis; the hub of one replica (module Hub) hears of them while it is *)
(* subscribed and Redis forgets them otherwise; a client whose socket has  *)
(* said hello syncs: it pages with after= from where its last sync ended   *)
(* (module Sync has that in detail).  This is the composition app/main.py  *)
(* makes in its lifespan.                                                  *)
(***************************************************************************)
EXTENDS Hub, FiniteSets

CONSTANTS
    Rows,        \* messages, as outbox rows that carry message.new; numbered
                 \* in the order of their cursors
    Topic,       \* the user whose channel a row is published on
    Limit,       \* the page size of a sync
    MaxPushes    \* bound: publications of one row

VARIABLES
    row, pushed, \* the outbox
    begun,       \* the rows whose created_at has been chosen
    before,      \* history: what was committed when it was
    carried,     \* history: the rows carried by the events Redis was given
    cursor,      \* the cursor each client syncs from, 0: before all these rows
    seen,        \* what its syncs have returned
    caughtUp     \* connections over which its client has synced to the end

outbox == <<row, pushed>>
sends  == <<begun, before>>
client == <<cursor, seen, caughtUp>>
all    == <<vars, outbox, sends, carried, client>>

O == INSTANCE Outbox

ASSUME DeliveryAssumption == /\ Rows \subseteq Nat \ {0}
                             /\ Topic \in [Rows -> Users]
                             /\ Limit \in Nat \ {0} /\ MaxPushes \in Nat \ {0}

Committed == {x \in Rows : row[x] # "absent"}

DeliveryInit == /\ Init /\ O!Init
                /\ begun = {}
                /\ before = [x \in Rows |-> {}]
                /\ carried = <<>>
                /\ cursor = [c \in Conns |-> 0]
                /\ seen = [c \in Conns |-> {}]
                /\ caughtUp = {}

(* A handler chooses a message's created_at, later than that of whatever   *)
(* has been committed, ...                                                 *)
Begin(x) == /\ x \notin begun
            /\ \A y \in Committed : y < x
            /\ begun' = begun \cup {x}
            /\ before' = [before EXCEPT ![x] = Committed]
            /\ UNCHANGED <<vars, outbox, carried, client>>

(* ... and at some time commits the message and its outbox row.            *)
Commit(x) == /\ x \in begun
             /\ O!Commit(x)
             /\ UNCHANGED <<vars, sends, carried, client>>

(* A relay hands the row to Redis, which passes it on to whoever is        *)
(* subscribed to the topic's channel at that moment.                       *)
Relay(x) == /\ pushed[x] < MaxPushes
            /\ O!Push(x)
            /\ Publish(Topic[x])
            /\ carried' = Append(carried, x)
            /\ UNCHANGED <<sends, client>>

Mark == /\ \E X \in SUBSET Rows : O!Mark(X)
        /\ UNCHANGED <<vars, sends, carried, client>>

(* What after= leaves of the rows a client's user may see. *)
After(c) == {x \in Committed : Topic[x] = UserOf[c] /\ cursor[c] < x}

(* The first rows of S, at most Limit, as ORDER BY and LIMIT return them. *)
IsPage(P, S) == /\ P \subseteq S
                /\ \A x \in P, y \in S \ P : x < y
                /\ Cardinality(P) <= Limit
                /\ P # S => Cardinality(P) = Limit

(* MUTANT: the client syncs first and connects then. *)
BeforeHello(c) == state[c] = "registering"

(* When the client syncs. *)
AfterHello(c) == state[c] = "open"

(* It asks for one page more; next_cursor is the last row's, and has_more  *)
(* tells whether another page is needed.                                   *)
CatchUp(c) ==
    /\ AfterHello(c)
    /\ \E P \in SUBSET After(c) :
       /\ IsPage(P, After(c))
       /\ \/ P = {} /\ UNCHANGED cursor
          \/ \E m \in P : (\A x \in P : x <= m) /\ cursor' = [cursor EXCEPT ![c] = m]
       /\ seen' = [seen EXCEPT ![c] = @ \cup P]
       /\ caughtUp' = IF P = After(c) THEN caughtUp \cup {c} ELSE caughtUp
    /\ UNCHANGED <<vars, outbox, sends, carried>>

(* A socket is new: its client has not synced over it. *)
Connects(c) == /\ Register(c)
               /\ caughtUp' = caughtUp \ {c}
               /\ UNCHANGED <<outbox, sends, carried, cursor, seen>>

HubStep == /\ \/ \E c \in Conns : Unregister(c) \/ Resume(c) \/ TimesOut(c)
              \/ \E u \in Users : Obey(u)
              \/ Start \/ Run \/ Lost \/ Stop
           /\ UNCHANGED <<outbox, sends, carried, client>>

DeliveryNext == \/ \E x \in Rows : Begin(x) \/ Commit(x) \/ Relay(x)
                \/ \E c \in Conns : CatchUp(c) \/ Connects(c)
                \/ Mark \/ HubStep

DeliverySpec == DeliveryInit /\ [][DeliveryNext]_all

(* What the relays and the hub each promise (OutboxRelay!KeepsPromise,     *)
(* Hub!Fairness); a client need not sync.                                  *)
DeliveryFairSpec == DeliverySpec /\ Fairness /\ O!Fairness

-----------------------------------------------------------------------------
(* Properties *)

(* The events that carried row x to a socket. *)
Sent(c, x) == {e \in due[c] : carried[e] = x}

(* What sync_gap shows: x was sent at the same time as a newer message the *)
(* client has, neither of them committed when the other one was begun.     *)
Overlapped(c, x) == \E n \in seen[c] : x < n /\ n \notin before[x] /\ x \notin before[n]

(* How far "reconnect and sync" (hub.py:63) goes.  A client that has       *)
(* synced to the end after hello has every message the outbox has done     *)
(* with: from a sync, or, if it was published over this socket, from the   *)
(* socket unless Redis dropped it.  The one other message it may lack was  *)
(* published before hello and is skipped by every sync because it          *)
(* overlapped a newer one.                                                 *)
NoHole == \A c \in caughtUp : \A x \in Rows :
    (/\ state[c] = "open" /\ c \notin closing
     /\ Topic[x] = UserOf[c] /\ row[x] = "published" /\ x \notin seen[c])
    => IF Sent(c, x) = {}
       THEN Overlapped(c, x)
       ELSE \A e \in Sent(c, x) : e \in excused \/ Member(e, wire) \/ Member(e, queued[c])

(* A message committed while its recipient's socket is open is put in the  *)
(* socket's queue, unless the socket ends or Redis drops it.               *)
Arrives == \A c \in Conns : \A x \in Rows :
    (row[x] = "pending" /\ pushed[x] = 0 /\ state[c] = "open" /\ Topic[x] = UserOf[c])
    ~> (\/ state[c] # "open"
        \/ \E e \in Sent(c, x) : e \in excused \/ Member(e, queued[c]))
===============================================================================
