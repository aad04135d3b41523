--------------------------------- MODULE Hub ---------------------------------
(***************************************************************************)
(* app/realtime/hub.py: the registry of a replica's sockets and the task   *)
(* that keeps one Redis pub/sub connection subscribed to the channels of   *)
(* the users who are connected here.  Sockets ask for subscriptions through *)
(* a queue that only the task empties; when the connection is lost it drops *)
(* the queue and subscribes anew, after a while, to a snapshot of the      *)
(* registry.  Everything runs on one event loop: an action is what happens *)
(* between two awaits.  The await of subscribe() is over when the command  *)
(* is written: Redis obeys it some time after it was begun (Obey).         *)
(***************************************************************************)
EXTENDS Naturals, Sequences

CONSTANTS
    Users, Conns,
    UserOf,        \* the user whose device a connection is
    MaxEvents,     \* bound: events published to this replica's users
    MaxFailures,   \* bound: losses of the pub/sub connection
    MaxTimeouts,   \* bound: waits for a subscription that take over 5 s
    MaxCommands,   \* bound: commands for one channel under way to Redis
    None

VARIABLES
    state,     \* where the handler of each socket is
    local,     \* _local: the registered connections of each user
    requests,  \* _requests: the queue of [op, user, waiter]
    waits,     \* connections whose handler awaits the future of a request
    closing,   \* connections the hub has closed
    serving,   \* whether start() has returned, so that sockets are accepted
    loop,      \* where _run is
    current,   \* the request it is applying
    channel,   \* of each user: whether Redis has subscribed his channel, then
               \* what each command under way will make of that, in order
    wire,      \* events Redis has sent to it and it has not dispatched
    queued,    \* the events put in each connection's queue
    published, \* history: the users of the events published so far, in order
    due,       \* history: events published since a connection said hello
    excused,   \* history: events Redis had no subscription for, or lost
    failures, timeouts

socket == <<state, local, waits, closing>>
pubsub == <<loop, current, channel>>
events == <<wire, queued, published, due, excused>>
vars   == <<serving, socket, requests, pubsub, events, failures, timeouts>>

States == {"off", "registering", "open", "leaving"}
Loops  == {"connect", "subscribing", "apply", "applying", "poll", "sleep", "stopped"}

Request == [op : {"subscribe", "unsubscribe"}, user : Users, waiter : Conns \cup {None}]

ASSUME HubAssumption == /\ UserOf \in [Conns -> Users]
                        /\ None \notin Conns /\ None \notin Request
                        /\ MaxEvents \in Nat /\ MaxFailures \in Nat /\ MaxTimeouts \in Nat
                        /\ MaxCommands \in Nat \ {0}

LocalUsers == {u \in Users : local[u] # {}}

Unsubscribed == [u \in Users |-> <<FALSE>>]

Init ==
    /\ state = [c \in Conns |-> "off"]
    /\ local = [u \in Users |-> {}]
    /\ requests = <<>>
    /\ waits = {}
    /\ closing = {}
    /\ serving = FALSE
    /\ loop = "connect"
    /\ current = None
    /\ channel = Unsubscribed
    /\ wire = <<>>
    /\ queued = [c \in Conns |-> <<>>]
    /\ published = <<>>
    /\ due = [c \in Conns |-> {}]
    /\ excused = {}
    /\ failures = 0
    /\ timeouts = 0

-----------------------------------------------------------------------------
(* The handler of a socket: register, run, unregister *)

Goto(c, s) == state' = [state EXCEPT ![c] = s]

(* _request: put it in the queue and await its future. *)
Ask(op, c) ==
    /\ requests' = Append(requests, [op |-> op, user |-> UserOf[c], waiter |-> c])
    /\ waits' = waits \cup {c}

(* uvicorn accepts sockets between the startup and the shutdown of the     *)
(* lifespan, in which main.py starts and stops the hub; register() itself  *)
(* does not ask.                                                           *)
Register(c) ==
    LET u == UserOf[c] IN
    /\ state[c] = "off"
    /\ serving /\ loop # "stopped"
    /\ local' = [local EXCEPT ![u] = @ \cup {c}]
    /\ queued' = [queued EXCEPT ![c] = <<>>]
    /\ due' = [due EXCEPT ![c] = {}]
    /\ closing' = closing \ {c}
    /\ IF local[u] = {}
       THEN Ask("subscribe", c) /\ Goto(c, "registering")
       ELSE Goto(c, "open") /\ UNCHANGED <<requests, waits>>
    /\ UNCHANGED <<serving, pubsub, wire, published, excused, failures, timeouts>>

(* MUTANT: the subscription is dropped when any device of the user leaves. *)
UnregisterAny(c) ==
    LET u == UserOf[c] IN
    /\ state[c] = "open"
    /\ local' = [local EXCEPT ![u] = @ \ {c}]
    /\ Ask("unsubscribe", c)
    /\ Goto(c, "leaving")
    /\ UNCHANGED <<serving, closing, pubsub, events, failures, timeouts>>

(* MUTANT: a connection that ends stays in the registry. *)
UnregisterNot(c) ==
    /\ state[c] = "open"
    /\ Goto(c, "off")
    /\ UNCHANGED <<serving, local, waits, closing, requests, pubsub, events, failures, timeouts>>

Unregister(c) ==
    LET u == UserOf[c] IN
    /\ state[c] = "open"
    /\ local' = [local EXCEPT ![u] = @ \ {c}]
    /\ IF local[u] = {c}
       THEN Ask("unsubscribe", c) /\ Goto(c, "leaving")
       ELSE Goto(c, "off") /\ UNCHANGED <<requests, waits>>
    /\ UNCHANGED <<serving, closing, pubsub, events, failures, timeouts>>

(* The future is done: a new socket says hello, an old one ends. *)
Resume(c) ==
    /\ state[c] \in {"registering", "leaving"}
    /\ c \notin waits
    /\ Goto(c, IF state[c] = "registering" THEN "open" ELSE "off")
    /\ UNCHANGED <<serving, local, waits, closing, requests, pubsub, events, failures, timeouts>>

Forget(c, r) == IF r # None /\ r.waiter = c THEN [r EXCEPT !.waiter = None] ELSE r

(* wait_for gives up after 5 s; the request, shielded, stays in the queue. *)
TimesOut(c) ==
    /\ c \in waits
    /\ timeouts < MaxTimeouts \/ loop = "stopped"
    /\ timeouts' = IF timeouts < MaxTimeouts THEN timeouts + 1 ELSE timeouts
    /\ waits' = waits \ {c}
    /\ requests' = [i \in DOMAIN requests |-> Forget(c, requests[i])]
    /\ current' = Forget(c, current)
    /\ UNCHANGED <<serving, state, local, closing, loop, channel, events, failures>>

-----------------------------------------------------------------------------
(* The pub/sub task *)

(* start() waits until the task has connected once, for 5 s at most. *)
Start ==
    /\ ~serving
    /\ \/ loop \in {"apply", "applying", "poll"} /\ UNCHANGED timeouts
       \/ timeouts < MaxTimeouts /\ timeouts' = timeouts + 1
    /\ serving' = TRUE
    /\ UNCHANGED <<socket, requests, pubsub, events, failures>>

(* MUTANT: after a (re)connect only the control channel is subscribed. *)
ConnectEmpty ==
    /\ loop = "connect"
    /\ channel' = Unsubscribed
    /\ loop' = "subscribing"
    /\ UNCHANGED <<serving, socket, requests, current, events, failures, timeouts>>

(* A new connection; the channels are taken from _local before the await, *)
(* and one command subscribes them all.                                    *)
Connect ==
    /\ loop = "connect"
    /\ channel' = [u \in Users |-> IF u \in LocalUsers THEN <<FALSE, TRUE>> ELSE <<FALSE>>]
    /\ loop' = "subscribing"
    /\ UNCHANGED <<serving, socket, requests, current, events, failures, timeouts>>

Subscribed ==
    /\ loop = "subscribing"
    /\ loop' = "apply"
    /\ UNCHANGED <<serving, socket, requests, current, channel, events, failures, timeouts>>

(* The next request: its command is being written to the connection. *)
TakeRequest ==
    /\ loop = "apply"
    /\ requests # <<>>
    /\ LET r == Head(requests) IN
       /\ Len(channel[r.user]) <= MaxCommands
       /\ channel' = [channel EXCEPT ![r.user] = Append(@, r.op = "subscribe")]
       /\ current' = r
    /\ requests' = Tail(requests)
    /\ loop' = "applying"
    /\ UNCHANGED <<serving, socket, events, failures, timeouts>>

(* It is written, which says nothing of Redis: the waiter may go on. *)
Applied ==
    /\ loop = "applying"
    /\ waits' = waits \ {current.waiter}
    /\ current' = None
    /\ loop' = "apply"
    /\ UNCHANGED <<serving, state, local, closing, requests, channel, events,
                   failures, timeouts>>

RequestsDone ==
    /\ loop = "apply"
    /\ requests = <<>>
    /\ loop' = "poll"
    /\ UNCHANGED <<serving, socket, requests, current, channel, events,
                   failures, timeouts>>

(* MUTANT: a wait that times out loses the event it has just read. *)
DispatchOrLose ==
    /\ loop = "poll"
    /\ wire # <<>>
    /\ LET u == published[Head(wire)] IN
       \/ queued' = [c \in Conns |-> IF c \in local[u] \ closing
                                     THEN Append(queued[c], Head(wire)) ELSE queued[c]]
       \/ UNCHANGED queued
    /\ wire' = Tail(wire)
    /\ loop' = "apply"
    /\ UNCHANGED <<serving, socket, requests, current, channel, published, due,
                   excused, failures, timeouts>>

(* get_message returns an event, which is put in the queues of the user's  *)
(* connections, or None: nothing came for 50 ms, or Redis confirmed a      *)
(* subscription.                                                           *)
Dispatch ==
    /\ loop = "poll"
    /\ wire # <<>>
    /\ LET u == published[Head(wire)] IN
       queued' = [c \in Conns |-> IF c \in local[u] \ closing
                                  THEN Append(queued[c], Head(wire)) ELSE queued[c]]
    /\ wire' = Tail(wire)
    /\ loop' = "apply"
    /\ UNCHANGED <<serving, socket, requests, current, channel, published, due,
                   excused, failures, timeouts>>

NoMessage ==
    /\ loop = "poll"
    /\ loop' = "apply"
    /\ UNCHANGED <<serving, socket, requests, current, channel, events,
                   failures, timeouts>>

(* MUTANT: only the waiters in the queue are released, not the current one *)
(* (no "finally" in _apply_requests).                                      *)
QueuedWaiters == {requests[i].waiter : i \in DOMAIN requests}

(* Whose future a request still holds. *)
Waiters == {requests[i].waiter : i \in DOMAIN requests}
           \cup {r.waiter : r \in {current} \ {None}}

(* RedisError or OSError at an await: release every waiter, back off. *)
Lost ==
    /\ loop \in {"subscribing", "applying", "poll"}
    /\ failures < MaxFailures
    /\ failures' = failures + 1
    /\ waits' = waits \ Waiters
    /\ requests' = <<>>
    /\ current' = None
    /\ channel' = Unsubscribed
    /\ excused' = excused \cup {wire[i] : i \in DOMAIN wire}
    /\ wire' = <<>>
    /\ loop' = "sleep"
    /\ UNCHANGED <<serving, state, local, closing, queued, published, due, timeouts>>

SleepDone ==
    /\ loop = "sleep"
    /\ loop' = "connect"
    /\ UNCHANGED <<serving, socket, requests, current, channel, events,
                   failures, timeouts>>

(* MUTANT: stop() only cancels the task. *)
StopSilently ==
    /\ serving /\ loop # "stopped"
    /\ loop' = "stopped"
    /\ waits' = waits \ {r.waiter : r \in {current} \ {None}}
    /\ current' = None
    /\ channel' = Unsubscribed
    /\ excused' = excused \cup {wire[i] : i \in DOMAIN wire}
    /\ wire' = <<>>
    /\ UNCHANGED <<serving, state, local, closing, requests, queued, published, due,
                   failures, timeouts>>

(* stop(): the task is cancelled, then every registered socket is closed.  *)
Stop ==
    /\ serving /\ loop # "stopped"
    /\ loop' = "stopped"
    /\ waits' = waits \ {r.waiter : r \in {current} \ {None}}
    /\ current' = None
    /\ channel' = Unsubscribed
    /\ excused' = excused \cup {wire[i] : i \in DOMAIN wire}
    /\ wire' = <<>>
    /\ closing' = closing \cup UNION {local[u] : u \in Users}
    /\ UNCHANGED <<serving, state, local, requests, queued, published, due,
                   failures, timeouts>>

-----------------------------------------------------------------------------
(* Redis *)

(* Redis obeys the oldest command for u's channel.  Commands for different *)
(* channels are not kept in order here: more can happen than in Redis.     *)
Obey(u) ==
    /\ Len(channel[u]) > 1
    /\ channel' = [channel EXCEPT ![u] = Tail(@)]
    /\ UNCHANGED <<serving, socket, requests, loop, current, events, failures, timeouts>>

(* Some relay, or a typing indicator, publishes to user u's channel. *)
Publish(u) ==
    LET e == Len(published) + 1 IN
    /\ Len(published) < MaxEvents
    /\ published' = Append(published, u)
    /\ due' = [c \in Conns |-> IF c \in local[u] /\ state[c] = "open" THEN due[c] \cup {e}
                                                                      ELSE due[c]]
    /\ IF Head(channel[u]) THEN wire' = Append(wire, e) /\ UNCHANGED excused
                           ELSE excused' = excused \cup {e} /\ UNCHANGED wire
    /\ UNCHANGED <<serving, socket, requests, pubsub, queued, failures, timeouts>>

-----------------------------------------------------------------------------
Handler(c) == Register(c) \/ Unregister(c) \/ Resume(c) \/ TimesOut(c)

Run == \/ Connect \/ Subscribed \/ TakeRequest \/ Applied \/ RequestsDone
       \/ Dispatch \/ NoMessage \/ SleepDone

Next == \/ \E c \in Conns : Handler(c)
        \/ Start \/ Run \/ Lost \/ Stop
        \/ \E u \in Users : Obey(u) \/ Publish(u)

Spec == Init /\ [][Next]_vars

(* The event loop runs what is ready, and Redis obeys what it was sent.    *)
(* Its confirmations run out, so an event that waits is read (SF).  A      *)
(* timer fires, but only after stop() does anybody need it.  A socket the  *)
(* hub has closed ends; others may stay for ever.                          *)
Fairness == /\ WF_vars(Run) /\ SF_vars(Dispatch)
            /\ \A c \in Conns : /\ WF_vars(Resume(c))
                               /\ WF_vars(loop = "stopped" /\ TimesOut(c))
                               /\ WF_vars(c \in closing /\ Unregister(c))
            /\ \A u \in Users : WF_vars(Obey(u))

FairSpec == Spec /\ Fairness

-----------------------------------------------------------------------------
(* Properties *)

(* Every variable has its type, and the registry holds exactly the sockets *)
(* between register and unregister.                                        *)
TypeOK ==
    /\ state \in [Conns -> States]
    /\ local = [u \in Users |-> {c \in Conns : UserOf[c] = u
                                   /\ state[c] \in {"registering", "open"}}]
    /\ requests \in Seq(Request)
    /\ waits \subseteq {c \in Conns : state[c] \in {"registering", "leaving"}}
    /\ closing \subseteq Conns
    /\ serving \in BOOLEAN
    /\ loop \in Loops
    /\ channel \in [Users -> Seq(BOOLEAN) \ {<<>>}]
    /\ current \in Request \cup {None}
    /\ published \in Seq(Users)
    /\ wire \in Seq(1..Len(published))
    /\ queued \in [Conns -> Seq(1..Len(published))]
    /\ due \in [Conns -> SUBSET (1..Len(published))]
    /\ excused \subseteq 1..Len(published)
    /\ failures \in 0..MaxFailures /\ timeouts \in 0..MaxTimeouts

Member(e, s) == \E i \in DOMAIN s : s[i] = e

Asked(u) == {i \in DOMAIN requests : requests[i].user = u}

(* What u's channel will be once Redis has obeyed what was sent to it. *)
Commanded(u) == channel[u][Len(channel[u])]

(* Whether it will be subscribed once what is queued is applied, too. *)
WillBeSubscribed(u) ==
    \/ \E i \in Asked(u) : requests[i].op = "subscribe" /\ \A j \in Asked(u) : j <= i
    \/ Asked(u) = {} /\ Commanded(u)

(* hub.py: "a replica subscribes to a user's channel while at least one of *)
(* that user's devices is connected to it": whatever was asked, dropped    *)
(* and resubscribed, the connection is on its way to exactly that.         *)
SubscriptionsFollow ==
    loop \in {"subscribing", "apply", "applying", "poll"} =>
        \A u \in Users : WillBeSubscribed(u) <=> local[u] # {}

(* No handler awaits a future that nobody holds: its request is queued or  *)
(* being applied, through losses of the connection and stop().             *)
WaitersServed == waits \subseteq Waiters

(* "The reconnect path resubscribes from _local": a socket that stays open *)
(* is subscribed in the end, whatever was lost.                            *)
Subscribes == \A c \in Conns :
    (state[c] = "open") ~> (\/ Head(channel[UserOf[c]]) \/ state[c] # "open"
                            \/ loop = "stopped")

(* stop() closes every socket, also one that still waits to be registered. *)
Drained == (loop = "stopped") ~> (\A c \in Conns : state[c] = "off")

(* "... so any replica can publish an event and whichever replica holds    *)
(* the recipient's socket delivers it": an open socket misses nothing.     *)
NothingMissed == \A c \in Conns : \A e \in due[c] :
    (state[c] = "open" /\ c \notin closing) =>
        Member(e, queued[c]) \/ Member(e, wire)
==============================================================================
