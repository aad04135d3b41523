-------------------------- MODULE SocketSessionProofs --------------------------
(***************************************************************************)
(* The safety properties of SocketSession for any size of the queue, any   *)
(* idle timeout and any client: what a slow client misses closes it, and   *)
(* the close request is the last thing in its bounded queue.               *)
(***************************************************************************)
EXTENDS SocketSession, TLAPS

(* What can be in a queue or with the writer.                              *)
Items == {"event"} \cup Closes

CloseIsLast(q) == \A i \in DOMAIN q : q[i] \in Closes => i = Len(q)

(* Until the connection is closing nothing was dropped and the queue holds *)
(* only events, within the limit; then it may hold one close request more. *)
Queued ==
    /\ queue \in Seq(Items)
    /\ CloseIsLast(queue)
    /\ Len(queue) <= MaxPending + 1
    /\ ~closing => /\ ~dropped
                   /\ Len(queue) <= MaxPending
                   /\ \A i \in DOMAIN queue : queue[i] = "event"

(* The tasks exist while the session runs, which ends when they all have.  *)

Tasks ==
    /\ reader \in {"none", "receive", "handle", "cancelled", "done"}
    /\ writer \in {"none", "next", "event", "close", "cancelled", "done"}
    /\ heartbeat \in {"none", "sleep", "cancelled", "done"}
    /\ main = "registering" => reader = "none" /\ writer = "none" /\ heartbeat = "none"
    /\ main = "gathering" => /\ reader \in {"cancelled", "done"}
                             /\ writer \in {"cancelled", "done"}
                             /\ heartbeat \in {"cancelled", "done"}
    /\ main = "ended" => reader = "done" /\ writer = "done" /\ heartbeat = "done"

Rest ==
    /\ main \in {"registering", "running", "gathering", "ended"}
    /\ closing \in BOOLEAN /\ dropped \in BOOLEAN
    /\ silent \in 0..(IdleBeats + 1)
    /\ client \in {"up", "gone"}
    /\ inbox \in Seq(Inputs)
    /\ told \in Closes \cup {"normal", None}

Inv == Queued /\ Tasks /\ Rest

-----------------------------------------------------------------------------
(* The queue *)

LEMMA Appending ==
  ASSUME NEW q \in Seq(Items), NEW x \in Items, \A i \in DOMAIN q : q[i] = "event"
  PROVE  LET p == Append(q, x) IN
         /\ p \in Seq(Items) /\ Len(p) = Len(q) + 1
         /\ CloseIsLast(p)
         /\ x = "event" => \A i \in DOMAIN p : p[i] = "event"
<1> DEFINE p == Append(q, x)
<1>1. /\ Len(q) \in Nat /\ DOMAIN q = 1..Len(q) /\ DOMAIN p = 1..(Len(q) + 1)
      /\ p \in Seq(Items) /\ Len(p) = Len(q) + 1
      /\ p[Len(q) + 1] = x /\ \A i \in 1..Len(q) : p[i] = q[i]
  OBVIOUS
<1>2. "event" \notin Closes
  BY DEF Closes
<1> QED BY <1>1, <1>2 DEF CloseIsLast

LEMMA Taking ==
  ASSUME NEW q \in Seq(Items), q # <<>>, CloseIsLast(q)
  PROVE  /\ Head(q) \in Items
         /\ Tail(q) \in Seq(Items) /\ Len(Tail(q)) = Len(q) - 1 /\ Len(q) \in Nat
         /\ CloseIsLast(Tail(q))
         /\ (\A i \in DOMAIN q : q[i] = "event") => \A i \in DOMAIN Tail(q) : Tail(q)[i] = "event"
<1>1. /\ Len(q) \in Nat \ {0} /\ DOMAIN q = 1..Len(q) /\ DOMAIN Tail(q) = 1..(Len(q) - 1)
      /\ Tail(q) \in Seq(Items) /\ Len(Tail(q)) = Len(q) - 1 /\ Head(q) = q[1]
      /\ \A i \in 1..(Len(q) - 1) : Tail(q)[i] = q[i + 1]
  OBVIOUS
<1> QED BY <1>1 DEF CloseIsLast

LEMMA Closing ==
  ASSUME Queued, Rest, NEW code \in Closes, Close(code), dropped' \in BOOLEAN
  PROVE  Queued' /\ closing' = TRUE
<1> USE SessionAssumption DEF Queued
<1>1. code \in Items
  BY DEF Items
<1>2. CASE closing
  BY <1>2 DEF Close
<1>3. CASE ~closing
  <2>1. queue' = Append(queue, code) /\ closing' = TRUE /\ Len(queue) \in Nat
    BY <1>3 DEF Close
  <2>2. /\ Append(queue, code) \in Seq(Items) /\ CloseIsLast(Append(queue, code))
        /\ Len(Append(queue, code)) = Len(queue) + 1
    BY <1>1, <1>3, Appending
  <2>3. Len(queue) + 1 <= MaxPending + 1
    BY <1>3, <2>1
  <2> QED BY <2>1, <2>2, <2>3
<1> QED BY <1>2, <1>3

LEMMA Sending ==
  ASSUME Queued, Rest, SendNowait
  PROVE  Queued' /\ closing' \in BOOLEAN /\ dropped' \in BOOLEAN
<1> USE SessionAssumption DEF Queued, Rest
<1>1. CASE closing /\ dropped' = TRUE /\ UNCHANGED <<queue, closing>>
  BY <1>1
<1>2. CASE ~closing /\ Len(queue) >= MaxPending /\ Close("too_slow") /\ dropped' = TRUE
  BY <1>2, Closing DEF Closes
<1>3. CASE ~closing /\ Len(queue) < MaxPending /\ Put /\ UNCHANGED <<closing, dropped>>
  <2>1. queue' = Append(queue, "event") /\ Len(queue) \in Nat
    BY <1>3 DEF Put
  <2>2. /\ Append(queue, "event") \in Seq(Items) /\ CloseIsLast(Append(queue, "event"))
        /\ Len(Append(queue, "event")) = Len(queue) + 1
        /\ \A i \in DOMAIN Append(queue, "event") : Append(queue, "event")[i] = "event"
    BY <1>3, Appending DEF Items
  <2>3. Len(queue) + 1 <= MaxPending
    BY <1>3, <2>1
  <2> QED BY <1>3, <2>1, <2>2, <2>3
<1> QED BY <1>1, <1>2, <1>3 DEF SendNowait

-----------------------------------------------------------------------------
LEMMA Step == Inv /\ [Next]_vars => Inv'
<1> SUFFICES ASSUME Inv, [Next]_vars PROVE Inv'
  OBVIOUS
<1> USE SessionAssumption DEF Inv
<1>1. CASE Begin
  <2>1. SendNowait
    BY <1>1 DEF Begin
  <2>2. Queued' /\ closing' \in BOOLEAN /\ dropped' \in BOOLEAN
    BY <2>1, Sending
  <2>3. heartbeat' \in {"sleep", "done"}
    BY <1>1 DEF Begin
  <2> QED BY <1>1, <2>2, <2>3 DEF Begin, Tasks, Rest, peer
<1>2. CASE Receive
  <2>1. Queued' /\ closing' \in BOOLEAN /\ dropped' \in BOOLEAN
    BY <1>2, Sending DEF Receive, conn, Queued, Rest
  <2>2. inbox' \in Seq(Inputs)
    BY <1>2 DEF Receive, Rest
  <2> QED BY <1>2, <2>1, <2>2 DEF Receive, Tasks, Rest
<1>3. CASE Handled
  <2>1. Queued' /\ closing' \in BOOLEAN /\ dropped' \in BOOLEAN
    BY <1>3, Sending DEF Handled, conn, Queued, Rest
  <2> QED BY <1>3, <2>1 DEF Handled, Tasks, Rest, peer
<1>4. CASE Disconnected
  BY <1>4 DEF Disconnected, Queued, Tasks, Rest, conn, peer
<1>5. CASE NextEvent
  <2>1. /\ queue' = Tail(queue) /\ queue # <<>> /\ UNCHANGED <<closing, dropped>>
        /\ queue \in Seq(Items) /\ CloseIsLast(queue)
    BY <1>5 DEF NextEvent, Queued
  <2>2. /\ Tail(queue) \in Seq(Items) /\ Len(Tail(queue)) = Len(queue) - 1 /\ Len(queue) \in Nat
        /\ CloseIsLast(Tail(queue)) /\ Head(queue) \in Items
        /\ (\A i \in DOMAIN queue : queue[i] = "event")
             => \A i \in DOMAIN Tail(queue) : Tail(queue)[i] = "event"
    BY <2>1, Taking
  <2>3. Queued'
    BY <2>1, <2>2 DEF Queued
  <2>4. writer' \in {"event", "close"} /\ told' \in Closes \cup {"normal", None}
    BY <1>5, <2>2 DEF NextEvent, Items, Events, Closes, Rest
  <2> QED BY <1>5, <2>3, <2>4 DEF NextEvent, Tasks, Rest, peer
<1>6. CASE Sent \/ CloseSent
  BY <1>6 DEF Sent, CloseSent, Queued, Tasks, Rest, conn, peer, Events
<1>7. CASE Beat
  <2>1. Queued' /\ closing' \in BOOLEAN /\ dropped' \in BOOLEAN
    <3>1. CASE Close("idle") /\ UNCHANGED dropped
      BY <3>1, Closing DEF Closes, Rest
    <3>2. CASE SendNowait
      BY <3>2, Sending
    <3> QED BY <1>7, <3>1, <3>2 DEF Beat
  <2>2. silent' \in 0..(IdleBeats + 1)
    BY <1>7 DEF Beat, Beats, Rest
  <2>3. heartbeat' \in {"sleep", "done"} /\ main = "running"
    BY <1>7 DEF Beat, Tasks, Rest
  <2>4. UNCHANGED <<main, reader, writer, client, inbox, told>>
    BY <1>7 DEF Beat, peer
  <2>5. Tasks'
    BY <2>3, <2>4 DEF Tasks
  <2>6. Rest'
    BY <2>1, <2>2, <2>4 DEF Rest
  <2> QED BY <2>1, <2>5, <2>6
<1>8. CASE Cancel \/ Unwind \/ Finish
  <2>1. Queued'
    BY <1>8 DEF Cancel, Unwind, Finish, Queued, conn
  <2>2. Rest'
    BY <1>8 DEF Cancel, Unwind, Finish, Rest, conn, peer
  <2>3. CASE Cancel
    BY <2>1, <2>2, <2>3 DEF Cancel, Cancelled, Tasks
  <2>4. CASE Unwind
    BY <2>1, <2>2, <2>4 DEF Unwind, Tasks
  <2>5. CASE Finish
    BY <2>1, <2>2, <2>5 DEF Finish, Tasks, tasks
  <2> QED BY <1>8, <2>3, <2>4, <2>5
<1>9. CASE Dispatched
  <2>1. Queued' /\ closing' \in BOOLEAN /\ dropped' \in BOOLEAN
    BY <1>9, Sending DEF Dispatched
  <2> QED BY <1>9, <2>1 DEF Dispatched, Tasks, Rest, peer, tasks
<1>10. CASE HubStops
  <2>1. Queued' /\ closing' = TRUE
    BY <1>10, Closing DEF HubStops, Closes, Rest
  <2> QED BY <1>10, <2>1 DEF HubStops, Tasks, Rest, peer, tasks
<1>11. ASSUME NEW i \in Inputs, ClientSends(i) PROVE Inv'
  <2>1. inbox' \in Seq(Inputs)
    BY <1>11 DEF ClientSends, Rest
  <2> QED BY <1>11, <2>1 DEF ClientSends, Queued, Tasks, Rest, conn, tasks
<1>12. CASE ClientLeaves \/ UNCHANGED vars
  BY <1>12 DEF ClientLeaves, vars, Queued, Tasks, Rest, conn, tasks, peer
<1> QED BY <1>1, <1>2, <1>3, <1>4, <1>5, <1>6, <1>7, <1>8, <1>9, <1>10, <1>11, <1>12
        DEF Next, Session

LEMMA Always == Spec => []Inv
<1>1. Init => Inv
  <2> SUFFICES ASSUME Init PROVE Inv
    OBVIOUS
  <2>1. Queued
    BY SessionAssumption DEF Init, Queued, CloseIsLast
  <2>2. Tasks
    BY DEF Init, Tasks
  <2>3. 0 \in 0..(IdleBeats + 1)
    BY SessionAssumption
  <2>4. Rest
    <3>1. inbox \in Seq(Inputs)
      BY DEF Init
    <3>2. silent \in 0..(IdleBeats + 1)
      BY <2>3 DEF Init
    <3> QED BY <3>1, <3>2 DEF Init, Rest
  <2> QED BY <2>1, <2>2, <2>4 DEF Inv
<1> QED BY <1>1, Step, PTL DEF Spec

-----------------------------------------------------------------------------
(* The tasks, the queue and the connection are what their types say, and   *)
(* no task outlives the session.                                           *)
THEOREM TypeCorrect == Spec => []TypeOK
<1>1. Inv => TypeOK
  <2> SUFFICES ASSUME Inv PROVE TypeOK
    OBVIOUS
  <2>1. queue \in Seq(Items) /\ Items \subseteq Events \cup Closes
    BY DEF Inv, Queued, Items, Events
  <2>2. queue \in Seq(Events \cup Closes)
    BY <2>1
  <2>3. main = "ended" => {reader, writer, heartbeat} = {"done"}
    BY DEF Inv, Tasks
  <2> QED BY <2>2, <2>3 DEF Inv, Tasks, Rest, TypeOK, Events
<1> QED BY <1>1, Always, PTL

(* A client that misses an event is closed before it gets a later one.     *)
THEOREM GapsClose == Spec => []NoGaps
<1>1. Inv => NoGaps
  <2> SUFFICES ASSUME Inv PROVE NoGaps
    OBVIOUS
  <2>1. \A i \in DOMAIN queue : queue[i] \in Items
    BY DEF Inv, Queued
  <2>2. "late" \notin Items
    BY DEF Items, Closes
  <2> QED BY <2>1, <2>2 DEF Inv, Queued, Tasks, Rest, NoGaps
<1> QED BY <1>1, Always, PTL

(* The queue of a client that does not read stays within its limit and one *)
(* close request, which is the last thing it is sent.                      *)
THEOREM QueueBounded == Spec => []PendingBounded
<1>1. Inv => PendingBounded
  BY DEF Inv, Queued, CloseIsLast, PendingBounded
<1> QED BY <1>1, Always, PTL
================================================================================
