---------------------------- MODULE SocketSession ----------------------------
(***************************************************************************)
(* app/api/ws.py and the Connection of app/realtime/hub.py: one web socket *)
(* from register to unregister.  A reader, a writer and a heartbeat run    *)
(* until the first of them ends; whatever is for the client goes through   *)
(* the queue of the connection, and so does the request to close it.       *)
(* An action is what a task does between two awaits.                       *)
(***************************************************************************)
EXTENDS Naturals, Sequences

CONSTANTS
    MaxPending,  \* MAX_PENDING_EVENTS
    IdleBeats,   \* ws_idle_timeout_seconds / ws_heartbeat_seconds, rounded up
    MaxInbox,    \* bound: what the client has sent and nobody has read
    None

ASSUME SessionAssumption == /\ MaxPending \in Nat \ {0} /\ IdleBeats \in Nat
                            /\ MaxInbox \in Nat

VARIABLES
    main,       \* where chat_socket is
    reader, writer, heartbeat,  \* where its three tasks are
    queue,      \* the queue of the Connection: events and close requests
    closing,    \* Connection.closing
    silent,     \* heartbeats since last_seen, at most IdleBeats + 1
    client,     \* whether the client is still there
    inbox,      \* what it has sent
    told,       \* the close code it was sent
    dropped     \* history: whether an event was not queued

tasks == <<reader, writer, heartbeat>>
conn  == <<queue, closing, dropped>>
peer  == <<client, inbox>>
vars  == <<main, tasks, conn, silent, peer, told>>

(* An event is "late" if one before it was not queued. *)
Events == {"event", "late"}

(* Close codes: 1012 (stop), 1013 (slow consumer), 4408 (CLOSE_IDLE), and  *)
(* 1000 when websocket.close() is called without one.                      *)
Closes == {"restarting", "too_slow", "idle"}

(* What a client may send: something that is answered at once (a ping, or  *)
(* what is not understood), a pong, or a command for ChatService.          *)
Inputs == {"ping", "pong", "command"}

Init ==
    /\ main = "registering"
    /\ reader = "none" /\ writer = "none" /\ heartbeat = "none"
    /\ queue = <<>>
    /\ closing = FALSE
    /\ silent = 0
    /\ client = "up"
    /\ inbox = <<>>
    /\ told = None
    /\ dropped = FALSE

-----------------------------------------------------------------------------
(* Connection *)

Close(code) ==
    /\ queue' = IF closing THEN queue ELSE Append(queue, code)
    /\ closing' = TRUE

Put == queue' = Append(queue, IF dropped THEN "late" ELSE "event")

(* MUTANT: a slow consumer misses the event and goes on. *)
DropWhenFull ==
    \/ closing /\ UNCHANGED conn
    \/ ~closing /\ Len(queue) >= MaxPending /\ dropped' = TRUE /\ UNCHANGED <<queue, closing>>
    \/ ~closing /\ Len(queue) < MaxPending /\ Put /\ UNCHANGED <<closing, dropped>>

(* MUTANT: events are queued behind the close request. *)
QueueAfterClose ==
    \/ Len(queue) >= MaxPending /\ Close("too_slow") /\ dropped' = TRUE
    \/ Len(queue) < MaxPending /\ Put /\ UNCHANGED <<closing, dropped>>

SendNowait ==
    \/ closing /\ dropped' = TRUE /\ UNCHANGED <<queue, closing>>
    \/ ~closing /\ Len(queue) >= MaxPending /\ Close("too_slow") /\ dropped' = TRUE
    \/ ~closing /\ Len(queue) < MaxPending /\ Put /\ UNCHANGED <<closing, dropped>>

(* What the hub does with a connection that is registered. *)
Dispatched ==
    /\ main # "ended"
    /\ SendNowait
    /\ UNCHANGED <<main, tasks, silent, peer, told>>

HubStops ==
    /\ main # "ended"
    /\ ~closing
    /\ Close("restarting")
    /\ UNCHANGED <<main, tasks, silent, peer, told, dropped>>

-----------------------------------------------------------------------------
(* The client *)

ClientSends(i) ==
    /\ client = "up"
    /\ Len(inbox) < MaxInbox
    /\ inbox' = Append(inbox, i)
    /\ UNCHANGED <<main, tasks, conn, silent, client, told>>

ClientLeaves ==
    /\ client = "up"
    /\ client' = "gone"
    /\ UNCHANGED <<main, tasks, conn, silent, inbox, told>>

-----------------------------------------------------------------------------
(* The tasks *)

(* register has returned: hello, and the tasks start.  The heartbeat of a  *)
(* connection that is closing ends at once.                                *)
Begin ==
    /\ main = "registering"
    /\ SendNowait
    /\ main' = "running"
    /\ reader' = "receive" /\ writer' = "next"
    /\ heartbeat' = IF closing' THEN "done" ELSE "sleep"
    /\ silent' = 0
    /\ UNCHANGED <<peer, told>>

Receive ==
    /\ reader = "receive"
    /\ inbox # <<>>
    /\ inbox' = Tail(inbox)
    /\ silent' = 0
    /\ \/ Head(inbox) = "ping" /\ SendNowait /\ UNCHANGED reader
       \/ Head(inbox) = "pong" /\ UNCHANGED <<conn, reader>>
       \/ Head(inbox) = "command" /\ reader' = "handle" /\ UNCHANGED conn
    /\ UNCHANGED <<main, writer, heartbeat, client, told>>

(* The command is done; the client hears of errors only. *)
Handled ==
    /\ reader = "handle"
    /\ reader' = "receive"
    /\ SendNowait \/ UNCHANGED conn
    /\ UNCHANGED <<main, writer, heartbeat, silent, peer, told>>

(* websocket.disconnect: the client left, or the close handshake is over. *)
Disconnected ==
    /\ reader = "receive"
    /\ inbox = <<>>
    /\ client = "gone" \/ told # None
    /\ reader' = "done"
    /\ UNCHANGED <<main, writer, heartbeat, conn, silent, peer, told>>

NextEvent ==
    /\ writer = "next"
    /\ queue # <<>>
    /\ queue' = Tail(queue)
    /\ \/ Head(queue) \in Events /\ writer' = Head(queue) /\ UNCHANGED told
       \/ Head(queue) \in Closes /\ writer' = "close" /\ told' = Head(queue)
    /\ UNCHANGED <<main, reader, heartbeat, closing, dropped, silent, peer>>

(* send_text returns when the client has read enough, and raises when it   *)
(* has left.                                                               *)
Sent ==
    /\ writer \in Events
    /\ writer' = IF client = "up" THEN "next" ELSE "done"
    /\ UNCHANGED <<main, reader, heartbeat, conn, silent, peer, told>>

CloseSent ==
    /\ writer = "close"
    /\ writer' = "done"
    /\ UNCHANGED <<main, reader, heartbeat, conn, silent, peer, told>>

Beats == IF silent > IdleBeats THEN silent ELSE silent + 1

(* Sleeps add up to at least the timeout after IdleBeats of them.  Whether *)
(* more than it has passed depends on when last_seen was taken; one beat   *)
(* later it certainly has.                                                 *)
Idle == silent' >= IdleBeats
MustBeIdle == silent' > IdleBeats

(* MUTANT: while True instead of while not closing. *)
BeatForever ==
    /\ heartbeat = "sleep"
    /\ silent' = Beats
    /\ \/ Idle /\ Close("idle") /\ heartbeat' = "done" /\ UNCHANGED dropped
       \/ ~MustBeIdle /\ SendNowait /\ heartbeat' = "sleep"
    /\ UNCHANGED <<main, reader, writer, peer, told>>

Beat ==
    /\ heartbeat = "sleep"
    /\ silent' = Beats
    /\ \/ Idle /\ Close("idle") /\ heartbeat' = "done" /\ UNCHANGED dropped
       \/ ~MustBeIdle /\ SendNowait /\ heartbeat' = IF closing' THEN "done" ELSE "sleep"
    /\ UNCHANGED <<main, reader, writer, peer, told>>

-----------------------------------------------------------------------------
(* The end: the first task that ends takes the others with it. *)

AnyDone == "done" \in {reader, writer, heartbeat}

(* task.cancel() for each: all that those which run still do is to end.    *)
Cancelled(task) == IF task = "done" THEN "done" ELSE "cancelled"

Cancel ==
    /\ main = "running" /\ AnyDone
    /\ main' = "gathering"
    /\ reader' = Cancelled(reader)
    /\ writer' = Cancelled(writer)
    /\ heartbeat' = Cancelled(heartbeat)
    /\ UNCHANGED <<conn, silent, peer, told>>

(* Each in its own time: a command gives its database session back first.  *)
Unwind ==
    /\ \/ reader = "cancelled" /\ reader' = "done" /\ UNCHANGED <<writer, heartbeat>>
       \/ writer = "cancelled" /\ writer' = "done" /\ UNCHANGED <<reader, heartbeat>>
       \/ heartbeat = "cancelled" /\ heartbeat' = "done" /\ UNCHANGED <<reader, writer>>
    /\ UNCHANGED <<main, conn, silent, peer, told>>

(* MUTANT: the tasks are cancelled but nobody waits for them. *)
FinishAtOnce ==
    /\ main = "gathering"
    /\ main' = "ended"
    /\ told' = IF told = None THEN "normal" ELSE told
    /\ UNCHANGED <<tasks, conn, silent, peer>>

(* gather has them all: a socket nobody has closed is closed, and          *)
(* unregister follows.                                                     *)
Finish ==
    /\ main = "gathering"
    /\ {reader, writer, heartbeat} = {"done"}
    /\ main' = "ended"
    /\ told' = IF told = None THEN "normal" ELSE told
    /\ UNCHANGED <<tasks, conn, silent, peer>>

-----------------------------------------------------------------------------
Session == \/ Begin \/ Receive \/ Disconnected \/ NextEvent \/ CloseSent
           \/ Cancel \/ Unwind \/ Finish

Next == \/ Session \/ Handled \/ Sent \/ Beat \/ Dispatched \/ HubStops
        \/ \E i \in Inputs : ClientSends(i)
        \/ ClientLeaves

Spec == Init /\ [][Next]_vars

(* The event loop runs what is ready and timers fire.  Nothing is assumed  *)
(* of a client that does not read, nor of a command that never ends; one   *)
(* that is cancelled gets its transaction rolled back.                     *)
Fairness == /\ WF_vars(Begin) /\ WF_vars(Receive) /\ WF_vars(Disconnected)
            /\ WF_vars(Cancel) /\ WF_vars(Unwind) /\ WF_vars(Finish)
            /\ WF_vars(Beat)

FairSpec == Spec /\ Fairness

-----------------------------------------------------------------------------
(* Properties *)

(* Every variable has its type, and no task outlives its session. *)
TypeOK ==
    /\ main \in {"registering", "running", "gathering", "ended"}
    /\ reader \in {"none", "receive", "handle", "cancelled", "done"}
    /\ writer \in {"none", "next", "close", "cancelled", "done"} \cup Events
    /\ heartbeat \in {"none", "sleep", "cancelled", "done"}
    /\ queue \in Seq(Events \cup Closes)
    /\ closing \in BOOLEAN /\ dropped \in BOOLEAN
    /\ silent \in 0..(IdleBeats + 1)
    /\ client \in {"up", "gone"}
    /\ inbox \in Seq(Inputs)
    /\ told \in Closes \cup {"normal", None}
    /\ main = "ended" => {reader, writer, heartbeat} = {"done"}

(* "client too slow, reconnect and sync": a client that stays connected    *)
(* has missed nothing, since an event that is not queued closes it and no  *)
(* later one is sent.                                                      *)
NoGaps ==
    /\ dropped => closing
    /\ writer # "late"
    /\ \A i \in DOMAIN queue : queue[i] # "late"

(* "Events are queued so a slow client never blocks fan-out", and not      *)
(* without limit: the close request takes one place more, and is last.     *)
PendingBounded ==
    /\ Len(queue) <= MaxPending + 1
    /\ \A i \in DOMAIN queue : queue[i] \in Closes => i = Len(queue)

(* A connection that the hub or the heartbeat closes, or whose client is   *)
(* gone, is unregistered in the end, although its writer may be stuck in   *)
(* a send and its reader in a command.                                     *)
Ends == (closing \/ client = "gone") ~> (main = "ended")
==============================================================================
