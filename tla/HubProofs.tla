------------------------------ MODULE HubProofs ------------------------------
(***************************************************************************)
(* Proofs about Hub: that no waiter is forgotten and that the connection   *)
(* to Redis always heads for the channels of the users connected here, for *)
(* any number of users, connections, losses and timeouts.                  *)
(***************************************************************************)
EXTENDS Hub, TLAPS

-----------------------------------------------------------------------------
(* Queues of requests *)

Of(q, u) == {i \in DOMAIN q : q[i].user = u}

LastSubscribes(q, u) ==
    \E i \in Of(q, u) : q[i].op = "subscribe" /\ \A j \in Of(q, u) : j <= i

(* A request that is queued is the last of its user. *)
LEMMA Queued ==
  ASSUME NEW q \in Seq(Request), NEW r \in Request, NEW u \in Users
  PROVE  LET p == Append(q, r) IN
         /\ u = r.user => Of(p, u) # {} /\ (LastSubscribes(p, u) <=> r.op = "subscribe")
         /\ u # r.user => /\ Of(p, u) = Of(q, u)
                          /\ LastSubscribes(p, u) <=> LastSubscribes(q, u)
<1> DEFINE p == Append(q, r)
           n == Len(q) + 1
<1>1. /\ Len(q) \in Nat /\ DOMAIN q = 1..Len(q)
      /\ DOMAIN p = 1..n
      /\ p[n] = r
      /\ \A i \in 1..Len(q) : p[i] = q[i]
  OBVIOUS
<1>2. CASE u = r.user
  <2>1. n \in Of(p, u) /\ \A j \in Of(p, u) : j <= n
    BY <1>1, <1>2 DEF Of
  <2>2. \A i \in Of(p, u) : (\A j \in Of(p, u) : j <= i) => i = n
    BY <2>1, <1>1 DEF Of
  <2> QED BY <1>1, <1>2, <2>1, <2>2 DEF LastSubscribes
<1>3. CASE u # r.user
  <2>1. Of(p, u) = Of(q, u)
    BY <1>1, <1>3 DEF Of
  <2>2. \A i \in Of(q, u) : p[i] = q[i]
    BY <1>1 DEF Of
  <2> QED BY <1>3, <2>1, <2>2 DEF LastSubscribes
<1> QED BY <1>2, <1>3

(* The request that is taken leaves the last of every user where it was,   *)
(* unless it is itself the last of its user.                               *)
LEMMA Taken ==
  ASSUME NEW q \in Seq(Request), q # <<>>, NEW u \in Users
  PROVE  LET p == Tail(q) IN
         /\ Of(p, u) # {} => Of(q, u) # {} /\ (LastSubscribes(p, u) <=> LastSubscribes(q, u))
         /\ Of(p, u) = {} /\ u # Head(q).user => Of(q, u) = {}
         /\ Of(p, u) = {} /\ u = Head(q).user =>
                Of(q, u) # {} /\ (LastSubscribes(q, u) <=> Head(q).op = "subscribe")
<1> DEFINE p == Tail(q)
<1>1. /\ Len(q) \in Nat \ {0} /\ DOMAIN q = 1..Len(q)
      /\ DOMAIN p = 1..(Len(q) - 1)
      /\ \A i \in 1..(Len(q) - 1) : p[i] = q[i + 1]
      /\ Head(q) = q[1]
  OBVIOUS
<1>2. \A i \in 1..(Len(q) - 1) : i \in Of(p, u) <=> i + 1 \in Of(q, u)
  BY <1>1 DEF Of
<1>3. \A i \in Of(q, u) : i = 1 \/ (i - 1 \in Of(p, u) /\ i - 1 \in 1..(Len(q) - 1))
  BY <1>1 DEF Of
<1>4. /\ Of(p, u) \subseteq 1..(Len(q) - 1)
      /\ Of(q, u) \subseteq 1..Len(q)
      /\ 1 \in Of(q, u) <=> Head(q).user = u
  BY <1>1 DEF Of
<1>5. ASSUME Of(p, u) # {}
      PROVE  Of(q, u) # {} /\ (LastSubscribes(p, u) <=> LastSubscribes(q, u))
  <2>1. PICK k \in Of(p, u) : TRUE
    BY <1>5
  <2>2. k + 1 \in Of(q, u) /\ k >= 1
    BY <1>2, <1>4
  <2>3. ASSUME NEW i \in Of(p, u), p[i].op = "subscribe", \A j \in Of(p, u) : j <= i
        PROVE  LastSubscribes(q, u)
    <3>1. i + 1 \in Of(q, u) /\ q[i + 1].op = "subscribe"
      BY <1>1, <1>2, <1>4, <2>3
    <3>2. \A j \in Of(q, u) : j <= i + 1
      BY <1>3, <1>4, <2>3
    <3> QED BY <3>1, <3>2 DEF LastSubscribes
  <2>4. ASSUME NEW i \in Of(q, u), q[i].op = "subscribe", \A j \in Of(q, u) : j <= i
        PROVE  LastSubscribes(p, u)
    <3>1. i # 1
      BY <2>2, <2>4, <1>4
    <3>2. i - 1 \in Of(p, u) /\ i - 1 \in 1..(Len(q) - 1)
      BY <3>1, <1>3
    <3>3. p[i - 1] = q[i]
      BY <3>2, <1>1, <1>4
    <3>4. \A j \in Of(p, u) : j <= i - 1
      BY <2>4, <1>2, <1>4
    <3> QED BY <3>2, <3>3, <3>4, <2>4 DEF LastSubscribes
  <2> QED BY <2>2, <2>3, <2>4 DEF LastSubscribes
<1>6. ASSUME Of(p, u) = {}
      PROVE  \A i \in Of(q, u) : i = 1
  BY <1>3, <1>6
<1>7. ASSUME Of(p, u) = {}, u = Head(q).user
      PROVE  Of(q, u) # {} /\ (LastSubscribes(q, u) <=> Head(q).op = "subscribe")
  <2>1. Of(q, u) = {1}
    BY <1>4, <1>6, <1>7
  <2> QED BY <2>1, <1>1 DEF LastSubscribes
<1> QED BY <1>4, <1>5, <1>6, <1>7

(* A waiter that gives up leaves the requests as they are. *)
LEMMA Forgotten ==
  ASSUME NEW q \in Seq(Request), NEW c \in Conns
  PROVE  LET p == [i \in DOMAIN q |-> Forget(c, q[i])] IN
         /\ p \in Seq(Request)
         /\ \A u \in Users : /\ Of(p, u) = Of(q, u)
                             /\ LastSubscribes(p, u) <=> LastSubscribes(q, u)
         /\ \A i \in DOMAIN q : q[i].waiter # c => p[i].waiter = q[i].waiter
<1> DEFINE p == [i \in DOMAIN q |-> Forget(c, q[i])]
<1>1. Len(q) \in Nat /\ DOMAIN q = 1..Len(q) /\ \A i \in DOMAIN q : q[i] \in Request
  OBVIOUS
<1>2. \A r \in Request : /\ Forget(c, r) \in Request
                         /\ Forget(c, r).op = r.op /\ Forget(c, r).user = r.user
                         /\ r.waiter # c => Forget(c, r) = r
  BY DEF Forget, Request
<1>3. /\ DOMAIN p = DOMAIN q
      /\ \A i \in DOMAIN q : /\ p[i] \in Request /\ p[i].op = q[i].op
                             /\ p[i].user = q[i].user
                             /\ q[i].waiter # c => p[i] = q[i]
  BY <1>1, <1>2
<1>4. p \in Seq(Request)
  BY <1>1, <1>3
<1>5. ASSUME NEW u \in Users
      PROVE  Of(p, u) = Of(q, u) /\ (LastSubscribes(p, u) <=> LastSubscribes(q, u))
  <2>1. Of(p, u) = Of(q, u)
    BY <1>3 DEF Of
  <2>2. \A i \in Of(q, u) : p[i].op = q[i].op
    BY <1>3 DEF Of
  <2> QED BY <2>1, <2>2 DEF LastSubscribes
<1> QED BY <1>3, <1>4, <1>5

-----------------------------------------------------------------------------
(* Types *)

(* A request is current exactly while it is applied. *)
Phases == loop = "applying" <=> current # None

Typed == TypeOK /\ Phases

(* What is in the registry follows from where the handlers are. *)
Registered(s) == [u \in Users |-> {c \in Conns : UserOf[c] = u
                                       /\ s[c] \in {"registering", "open"}}]

LEMMA Appended ==
  ASSUME NEW S, NEW s \in Seq(S), NEW x \in S
  PROVE  Append(s, x) \in Seq(S)
OBVIOUS

LEMMA Cut ==
  ASSUME NEW S, NEW s \in Seq(S), s # <<>>
  PROVE  Head(s) \in S /\ Tail(s) \in Seq(S)
OBVIOUS

(* The commands for a channel: never an empty sequence. *)
LEMMA Channels ==
  ASSUME NEW s \in Seq(BOOLEAN) \ {<<>>}
  PROVE  /\ \A b \in BOOLEAN : /\ Append(s, b) \in Seq(BOOLEAN) \ {<<>>}
                               /\ Append(s, b)[Len(Append(s, b))] = b
         /\ Len(s) > 1 => /\ Tail(s) \in Seq(BOOLEAN) \ {<<>>}
                          /\ Tail(s)[Len(Tail(s))] = s[Len(s)]
<1>1. Len(s) \in Nat /\ Len(s) > 0 /\ Len(<<>>) = 0
  OBVIOUS
<1>2. ASSUME NEW b \in BOOLEAN
      PROVE  /\ Append(s, b) \in Seq(BOOLEAN) \ {<<>>}
             /\ Append(s, b)[Len(Append(s, b))] = b
  BY <1>1
<1>3. ASSUME Len(s) > 1
      PROVE  /\ Tail(s) \in Seq(BOOLEAN) \ {<<>>}
             /\ Tail(s)[Len(Tail(s))] = s[Len(s)]
  <2>1. Tail(s) \in Seq(BOOLEAN) /\ Len(Tail(s)) = Len(s) - 1
    BY <1>1
  <2>2. Tail(s) # <<>>
    <3>1. Len(Tail(s)) # Len(<<>>)
      BY <1>1, <1>3, <2>1
    <3> QED BY <3>1
  <2>3. Tail(s)[Len(s) - 1] = s[Len(s)]
    BY <1>1, <1>3
  <2> QED BY <2>1, <2>2, <2>3
<1> QED BY <1>2, <1>3

LEMMA Unsubscribing == Unsubscribed \in [Users -> Seq(BOOLEAN) \ {<<>>}]
<1>1. <<FALSE>> \in Seq(BOOLEAN) \ {<<>>}
  <2>1. <<FALSE>> \in Seq(BOOLEAN) /\ Len(<<FALSE>>) = 1 /\ Len(<<>>) = 0
    OBVIOUS
  <2> QED BY <2>1
<1> QED BY <1>1 DEF Unsubscribed

LEMMA Widened ==
  ASSUME NEW n \in Nat, NEW s \in Seq(1..n)
  PROVE  s \in Seq(1..(n + 1))
<1>1. \A i \in 1..Len(s) : s[i] \in 1..(n + 1)
  OBVIOUS
<1>2. Len(s) \in Nat /\ s = [i \in 1..Len(s) |-> s[i]]
  OBVIOUS
<1> QED BY <1>1, <1>2

LEMMA InitTyped == Init => Typed
<1> SUFFICES ASSUME Init PROVE Typed
  OBVIOUS
<1>1. <<>> \in Seq(Request) /\ <<>> \in Seq(Users) /\ Len(<<>>) = 0
  OBVIOUS
<1>2. wire \in Seq(1..Len(published)) /\ queued \in [Conns -> Seq(1..Len(published))]
  BY DEF Init
<1>3. 0 \in 0..MaxFailures /\ 0 \in 0..MaxTimeouts
  BY HubAssumption
<1> QED BY <1>1, <1>2, <1>3, Unsubscribing DEF Init, Typed, TypeOK, Phases, States, Loops

LEMMA Asking ==
  ASSUME Typed, NEW c \in Conns, NEW op \in {"subscribe", "unsubscribe"}, Ask(op, c)
  PROVE  /\ requests' \in Seq(Request)
         /\ waits' \subseteq waits \cup {c}
         /\ requests' = Append(requests, [op |-> op, user |-> UserOf[c], waiter |-> c])
         /\ [op |-> op, user |-> UserOf[c], waiter |-> c] \in Request
<1>1. [op |-> op, user |-> UserOf[c], waiter |-> c] \in Request
  BY HubAssumption DEF Request
<1> QED BY <1>1, Appended DEF Ask, Typed, TypeOK

LEMMA TypedStep == Typed /\ [Next]_vars => Typed'
<1> SUFFICES ASSUME Typed, [Next]_vars PROVE Typed'
  OBVIOUS
<1> USE DEF Typed
<1>1. ASSUME NEW c \in Conns, Register(c) PROVE Typed'
  <2>1. state' \in [Conns -> States] /\ \A d \in Conns \ {c} : state'[d] = state[d]
    BY <1>1 DEF Register, Goto, TypeOK, States
  <2>2. state'[c] \in {"registering", "open"}
    BY <1>1 DEF Register, Goto, TypeOK
  <2>3. local' = Registered(state')
    <3>1. local' = [u \in Users |-> IF u = UserOf[c] THEN local[u] \cup {c} ELSE local[u]]
      BY <1>1, HubAssumption DEF Register, TypeOK
    <3>2. ASSUME NEW u \in Users
          PROVE  (IF u = UserOf[c] THEN local[u] \cup {c} ELSE local[u])
                     = {d \in Conns : UserOf[d] = u /\ state'[d] \in {"registering", "open"}}
      BY <2>1, <2>2 DEF TypeOK
    <3> QED BY <3>1, <3>2 DEF Registered
  <2>4. /\ requests' \in Seq(Request)
        /\ waits' \subseteq {d \in Conns : state'[d] \in {"registering", "leaving"}}
    <3>1. CASE local[UserOf[c]] = {}
      <4>1. Ask("subscribe", c) /\ state'[c] = "registering"
        BY <1>1, <3>1 DEF Register, Goto, TypeOK
      <4> QED BY <4>1, <2>1, Asking DEF TypeOK
    <3>2. CASE local[UserOf[c]] # {}
      <4>1. UNCHANGED <<requests, waits>> /\ state[c] = "off"
        BY <1>1, <3>2 DEF Register
      <4> QED BY <4>1, <2>1 DEF TypeOK
    <3> QED BY <3>1, <3>2
  <2>5. <<>> \in Seq(1..Len(published))
    OBVIOUS
  <2>6. /\ queued' \in [Conns -> Seq(1..Len(published'))]
        /\ due' \in [Conns -> SUBSET (1..Len(published'))]
    BY <1>1, <2>5 DEF Register, TypeOK
  <2> QED BY <1>1, <2>1, <2>3, <2>4, <2>6
          DEF Register, TypeOK, Phases, Registered, pubsub
<1>2. ASSUME NEW c \in Conns, Unregister(c) PROVE Typed'
  <2>1. state' \in [Conns -> States] /\ \A d \in Conns \ {c} : state'[d] = state[d]
    BY <1>2 DEF Unregister, Goto, TypeOK, States
  <2>2. state'[c] \in {"leaving", "off"}
    BY <1>2 DEF Unregister, Goto, TypeOK
  <2>3. local' = Registered(state')
    <3>1. local' = [u \in Users |-> IF u = UserOf[c] THEN local[u] \ {c} ELSE local[u]]
      BY <1>2, HubAssumption DEF Unregister, TypeOK
    <3>2. ASSUME NEW u \in Users
          PROVE  (IF u = UserOf[c] THEN local[u] \ {c} ELSE local[u])
                     = {d \in Conns : UserOf[d] = u /\ state'[d] \in {"registering", "open"}}
      BY <2>1, <2>2 DEF TypeOK
    <3> QED BY <3>1, <3>2 DEF Registered
  <2>4. /\ requests' \in Seq(Request)
        /\ waits' \subseteq {d \in Conns : state'[d] \in {"registering", "leaving"}}
    <3>1. CASE local[UserOf[c]] = {c}
      <4>1. Ask("unsubscribe", c) /\ state'[c] = "leaving"
        BY <1>2, <3>1 DEF Unregister, Goto, TypeOK
      <4> QED BY <4>1, <2>1, Asking DEF TypeOK
    <3>2. CASE local[UserOf[c]] # {c}
      <4>1. UNCHANGED <<requests, waits>> /\ state[c] = "open"
        BY <1>2, <3>2 DEF Unregister
      <4> QED BY <4>1, <2>1 DEF TypeOK
    <3> QED BY <3>1, <3>2
  <2> QED BY <1>2, <2>1, <2>3, <2>4
          DEF Unregister, TypeOK, Phases, Registered, pubsub, events
<1>3. ASSUME NEW c \in Conns, Resume(c) PROVE Typed'
  <2>1. state' \in [Conns -> States] /\ \A d \in Conns \ {c} : state'[d] = state[d]
    BY <1>3 DEF Resume, Goto, TypeOK, States
  <2>2. state'[c] \in {"registering", "open"} <=> state[c] \in {"registering", "open"}
    BY <1>3 DEF Resume, Goto, TypeOK
  <2>3. local' = Registered(state')
    BY <1>3, <2>1, <2>2 DEF Resume, TypeOK, Registered
  <2>4. waits' \subseteq {d \in Conns : state'[d] \in {"registering", "leaving"}}
    BY <1>3, <2>1 DEF Resume, TypeOK
  <2> QED BY <1>3, <2>1, <2>3, <2>4
          DEF Resume, TypeOK, Phases, Registered, pubsub, events
<1>4. ASSUME NEW c \in Conns, TimesOut(c) PROVE Typed'
  <2>1. requests' \in Seq(Request)
    BY <1>4, Forgotten DEF TimesOut, TypeOK
  <2>2. current' \in Request \cup {None} /\ (current' # None <=> current # None)
    BY <1>4, HubAssumption DEF TimesOut, TypeOK, Forget, Request
  <2>3. timeouts' \in 0..MaxTimeouts
    BY <1>4, HubAssumption DEF TimesOut, TypeOK
  <2> QED BY <1>4, <2>1, <2>2, <2>3 DEF TimesOut, TypeOK, Phases, events
<1>5. ASSUME Start PROVE Typed'
  <2>1. timeouts' \in 0..MaxTimeouts
    BY <1>5, HubAssumption DEF Start, TypeOK
  <2> QED BY <1>5, <2>1 DEF Start, TypeOK, Phases, socket, pubsub, events
<1>6. ASSUME Connect PROVE Typed'
  <2>1. /\ <<FALSE>> \in Seq(BOOLEAN) /\ <<FALSE, TRUE>> \in Seq(BOOLEAN)
        /\ Len(<<FALSE>>) = 1 /\ Len(<<FALSE, TRUE>>) = 2 /\ Len(<<>>) = 0
    OBVIOUS
  <2>2. <<FALSE>> # <<>> /\ <<FALSE, TRUE>> # <<>>
    BY <2>1
  <2>3. channel' \in [Users -> Seq(BOOLEAN) \ {<<>>}]
    BY <1>6, <2>1, <2>2 DEF Connect
  <2> QED BY <1>6, <2>3 DEF Connect, TypeOK, Phases, socket, events, Loops
<1>7. ASSUME Subscribed PROVE Typed'
  BY <1>7 DEF Subscribed, TypeOK, Phases, socket, events, Loops
<1>8. ASSUME TakeRequest PROVE Typed'
  <2>1. current' \in Request /\ requests' \in Seq(Request)
    BY <1>8, Cut DEF TakeRequest, TypeOK
  <2>2. channel' \in [Users -> Seq(BOOLEAN) \ {<<>>}]
    <3> DEFINE v == current'.user
    <3>1. v \in Users /\ (current'.op = "subscribe") \in BOOLEAN
      BY <2>1 DEF Request
    <3>2. channel' = [channel EXCEPT ![v] = Append(channel[v], current'.op = "subscribe")]
      BY <1>8 DEF TakeRequest
    <3>3. channel[v] \in Seq(BOOLEAN) \ {<<>>}
      BY <3>1 DEF TypeOK
    <3>4. Append(channel[v], current'.op = "subscribe") \in Seq(BOOLEAN) \ {<<>>}
      BY <3>1, <3>3, Channels
    <3> QED BY <3>1, <3>2, <3>4 DEF TypeOK
  <2>3. current' # None /\ loop' = "applying"
    BY <1>8, <2>1, HubAssumption DEF TakeRequest
  <2> QED BY <1>8, <2>1, <2>2, <2>3
          DEF TakeRequest, TypeOK, Phases, socket, events, Loops
<1>9. ASSUME Applied PROVE Typed'
  <2>1. waits' \subseteq waits /\ state' = state
    BY <1>9 DEF Applied
  <2> QED BY <1>9, <2>1 DEF Applied, TypeOK, Phases, events, Loops
<1>10. ASSUME RequestsDone PROVE Typed'
  BY <1>10 DEF RequestsDone, TypeOK, Phases, socket, events, Loops
<1>11. ASSUME Dispatch PROVE Typed'
  <2>1. Head(wire) \in 1..Len(published) /\ wire' \in Seq(1..Len(published))
    BY <1>11, Cut DEF Dispatch, TypeOK
  <2>2. queued' \in [Conns -> Seq(1..Len(published))]
    BY <1>11, <2>1, Appended DEF Dispatch, TypeOK
  <2> QED BY <1>11, <2>1, <2>2 DEF Dispatch, TypeOK, Phases, socket, Loops
<1>12. ASSUME NoMessage PROVE Typed'
  BY <1>12 DEF NoMessage, TypeOK, Phases, socket, events, Loops
<1>13. ASSUME SleepDone PROVE Typed'
  BY <1>13 DEF SleepDone, TypeOK, Phases, socket, events, Loops
<1>14. \A i \in DOMAIN wire : wire[i] \in 1..Len(published)
  BY DEF TypeOK
<1>15. ASSUME Lost PROVE Typed'
  <2>1. failures' \in 0..MaxFailures
    BY <1>15, HubAssumption DEF Lost, TypeOK
  <2>2. excused' \subseteq 1..Len(published)
    BY <1>14, <1>15 DEF Lost, TypeOK
  <2>4. wire' \in Seq(1..Len(published))
    BY <1>15 DEF Lost
  <2>3. requests' \in Seq(Request)
    BY <1>15 DEF Lost
  <2> QED BY <1>15, <2>1, <2>2, <2>3, <2>4, Unsubscribing DEF Lost, TypeOK, Phases, Loops
<1>16. ASSUME Stop PROVE Typed'
  <2>1. excused' \subseteq 1..Len(published) /\ wire' \in Seq(1..Len(published))
    BY <1>14, <1>16 DEF Stop, TypeOK
  <2>2. closing' \subseteq Conns
    BY <1>16 DEF Stop, TypeOK
  <2> QED BY <1>16, <2>1, <2>2, Unsubscribing DEF Stop, TypeOK, Phases, Loops
<1>17. ASSUME NEW u \in Users, Publish(u) PROVE Typed'
  <2> DEFINE n == Len(published)
  <2>1. n \in Nat /\ published' \in Seq(Users) /\ Len(published') = n + 1
    <3>1. published \in Seq(Users) /\ published' = Append(published, u)
      BY <1>17 DEF Publish, TypeOK
    <3> QED BY <3>1
  <2>2. wire \in Seq(1..(n + 1)) /\ queued' \in [Conns -> Seq(1..(n + 1))]
    BY <1>17, <2>1, Widened DEF Publish, TypeOK
  <2>3. wire' \in Seq(1..(n + 1))
    <3>1. n + 1 \in 1..(n + 1)
      BY <2>1
    <3> QED BY <1>17, <2>2, <3>1, Appended DEF Publish
  <2>4. excused' \subseteq 1..(n + 1) /\ due' \in [Conns -> SUBSET (1..(n + 1))]
    <3>1. 1..n \subseteq 1..(n + 1) /\ n + 1 \in 1..(n + 1)
      BY <2>1
    <3>2. excused' \subseteq 1..(n + 1)
      BY <1>17, <3>1 DEF Publish, TypeOK
    <3>3. due' \in [Conns -> SUBSET (1..(n + 1))]
      BY <1>17, <3>1 DEF Publish, TypeOK
    <3> QED BY <3>2, <3>3
  <2> QED BY <1>17, <2>1, <2>2, <2>3, <2>4 DEF Publish, TypeOK, Phases, socket, pubsub
<1>18. ASSUME UNCHANGED vars PROVE Typed'
  BY <1>18 DEF vars, socket, pubsub, events, TypeOK, Phases
<1>19. ASSUME NEW u \in Users, Obey(u) PROVE Typed'
  <2>1. channel[u] \in Seq(BOOLEAN) \ {<<>>} /\ Len(channel[u]) > 1
    BY <1>19 DEF Obey, TypeOK
  <2>2. Tail(channel[u]) \in Seq(BOOLEAN) \ {<<>>}
    BY <2>1, Channels
  <2> QED BY <1>19, <2>2 DEF Obey, TypeOK, Phases, socket, events
<1> QED BY <1>1, <1>2, <1>3, <1>4, <1>5, <1>6, <1>7, <1>8, <1>9, <1>10, <1>11, <1>12,
           <1>13, <1>15, <1>16, <1>17, <1>18, <1>19 DEF Next, Handler, Run

(* The types, and that the registry holds exactly the sockets between      *)
(* register and unregister, whatever is lost or given up.                  *)
THEOREM TypeCorrect == Spec => []TypeOK
<1>1. Typed => TypeOK
  BY DEF Typed
<1> QED BY <1>1, InitTyped, TypedStep, PTL DEF Spec

-----------------------------------------------------------------------------
(* Waiters *)

(* The waiter of a new request is in the queue, with all that were there.  *)
LEMMA AskingServes ==
  ASSUME Typed, WaitersServed, NEW c \in Conns,
         NEW op \in {"subscribe", "unsubscribe"}, Ask(op, c), current' = current
  PROVE  WaitersServed'
<1> DEFINE r == [op |-> op, user |-> UserOf[c], waiter |-> c]
<1>1. requests \in Seq(Request) /\ requests' = Append(requests, r) /\ r \in Request
  BY Asking DEF Typed, TypeOK
<1>2. /\ Len(requests) \in Nat
      /\ DOMAIN requests = 1..Len(requests) /\ DOMAIN requests' = 1..(Len(requests) + 1)
      /\ requests'[Len(requests) + 1] = r
      /\ \A i \in DOMAIN requests : requests'[i] = requests[i]
  BY <1>1
<1>3. DOMAIN requests \subseteq DOMAIN requests' /\ Len(requests) + 1 \in DOMAIN requests'
  BY <1>2
<1>4. Waiters \subseteq Waiters'
  BY <1>2, <1>3 DEF Waiters
<1>5. c \in Waiters'
  BY <1>2, <1>3 DEF Waiters
<1> QED BY <1>4, <1>5 DEF WaitersServed, Ask

LEMMA ServedStep == Typed /\ WaitersServed /\ [Next]_vars => WaitersServed'
<1> SUFFICES ASSUME Typed, WaitersServed, [Next]_vars PROVE WaitersServed'
  OBVIOUS
<1>1. ASSUME waits' \subseteq waits, requests' = requests, current' = current
      PROVE  WaitersServed'
  BY <1>1 DEF WaitersServed, Waiters
<1>2. ASSUME NEW c \in Conns, Register(c) PROVE WaitersServed'
  <2>1. CASE Ask("subscribe", c)
    BY <1>2, <2>1, AskingServes DEF Register, pubsub
  <2>2. CASE UNCHANGED <<requests, waits>>
    BY <1>1, <1>2, <2>2 DEF Register, pubsub
  <2> QED BY <1>2, <2>1, <2>2 DEF Register
<1>3. ASSUME NEW c \in Conns, Unregister(c) PROVE WaitersServed'
  <2>1. CASE Ask("unsubscribe", c)
    BY <1>3, <2>1, AskingServes DEF Unregister, pubsub
  <2>2. CASE UNCHANGED <<requests, waits>>
    BY <1>1, <1>3, <2>2 DEF Unregister, pubsub
  <2> QED BY <1>3, <2>1, <2>2 DEF Unregister
<1>4. ASSUME NEW c \in Conns, TimesOut(c) PROVE WaitersServed'
  <2>1. requests' = [i \in DOMAIN requests |-> Forget(c, requests[i])] /\ current' = Forget(c, current)
    BY <1>4 DEF TimesOut
  <2>2. /\ DOMAIN requests' = DOMAIN requests
        /\ \A i \in DOMAIN requests :
               requests[i].waiter # c => requests'[i].waiter = requests[i].waiter
    BY <2>1, Forgotten DEF Typed, TypeOK
  <2>3. current # None /\ current.waiter # c => current' = current
    BY <2>1 DEF Forget
  <2>4. Waiters \ {c} \subseteq Waiters'
    BY <2>2, <2>3 DEF Waiters
  <2> QED BY <1>4, <2>4 DEF WaitersServed, TimesOut
<1>5. ASSUME TakeRequest PROVE WaitersServed'
  <2>1. requests \in Seq(Request) /\ requests # <<>> /\ current = None
    BY <1>5 DEF TakeRequest, Typed, TypeOK, Phases
  <2>2. current' = requests[1] /\ current' # None
    BY <1>5, <2>1, Cut, HubAssumption DEF TakeRequest
  <2>3. \A i \in DOMAIN requests : i = 1 \/ (i - 1 \in DOMAIN requests' /\ requests'[i - 1] = requests[i])
    BY <1>5, <2>1 DEF TakeRequest
  <2>4. \A w \in Waiters : \E i \in DOMAIN requests : w = requests[i].waiter
    BY <2>1 DEF Waiters
  <2>5. Waiters \subseteq Waiters'
    BY <2>2, <2>3, <2>4 DEF Waiters
  <2> QED BY <1>5, <2>5 DEF WaitersServed, TakeRequest, socket
<1>6. ASSUME Applied \/ Stop PROVE WaitersServed'
  <2>1. requests' = requests /\ waits' \subseteq waits
    BY <1>6 DEF Applied, Stop
  <2>2. waits' \cap {r.waiter : r \in {current} \ {None}} = {}
    BY <1>6 DEF Applied, Stop
  <2> QED BY <2>1, <2>2 DEF WaitersServed, Waiters
<1>7. ASSUME Lost PROVE WaitersServed'
  BY <1>7 DEF Lost, WaitersServed
<1>8. ASSUME NEW c \in Conns, Resume(c) PROVE WaitersServed'
  BY <1>1, <1>8 DEF Resume, pubsub
<1>9. ASSUME NEW u \in Users, Publish(u) PROVE WaitersServed'
  BY <1>1, <1>9 DEF Publish, pubsub, socket
<1>11. ASSUME NEW u \in Users, Obey(u) PROVE WaitersServed'
  BY <1>1, <1>11 DEF Obey, socket
<1>10. ASSUME \/ Start \/ Connect \/ Subscribed \/ RequestsDone \/ Dispatch \/ NoMessage
             \/ SleepDone \/ UNCHANGED vars
       PROVE  WaitersServed'
  BY <1>1, <1>10 DEF Start, Connect, Subscribed, RequestsDone, Dispatch, NoMessage,
                     SleepDone, vars, pubsub, socket
<1> QED BY <1>2, <1>3, <1>4, <1>5, <1>6, <1>7, <1>8, <1>9, <1>10, <1>11
        DEF Next, Handler, Run

(* No handler awaits a future that nobody holds any more. *)
THEOREM NobodyForgotten == Spec => []WaitersServed
<1>1. Init => WaitersServed
  BY DEF Init, WaitersServed
<1> QED BY <1>1, InitTyped, TypedStep, ServedStep, PTL DEF Spec

-----------------------------------------------------------------------------
(* Subscriptions *)

Here(u) == local[u] # {}

(* The last request of a user that is queued asks for what the registry   *)
(* says, also while there is no connection; and where nothing is queued    *)
(* Redis will do as the registry says, if there is one.                    *)
Follows(u) ==
    /\ Of(requests, u) # {} => (LastSubscribes(requests, u) <=> Here(u))
    /\ (/\ Of(requests, u) = {}
        /\ loop \in {"subscribing", "apply", "applying", "poll"})
       => (Commanded(u) <=> Here(u))

Following == \A u \in Users : Follows(u)

LEMMA FollowingSuffices == Following => SubscriptionsFollow
<1>1. ASSUME NEW u \in Users
      PROVE  /\ Asked(u) = Of(requests, u)
             /\ LastSubscribes(requests, u) <=> \E i \in Asked(u) :
                    requests[i].op = "subscribe" /\ \A j \in Asked(u) : j <= i
             /\ LastSubscribes(requests, u) => Asked(u) # {}
  BY DEF Asked, Of, LastSubscribes
<1> SUFFICES ASSUME Following, loop \in {"subscribing", "apply", "applying", "poll"},
                    NEW u \in Users
             PROVE  WillBeSubscribed(u) <=> local[u] # {}
  BY DEF SubscriptionsFollow
<1>2. Follows(u)
  BY DEF Following
<1>3. CASE Asked(u) # {}
  BY <1>1, <1>2, <1>3 DEF Follows, WillBeSubscribed, Here
<1>4. CASE Asked(u) = {}
  BY <1>1, <1>2, <1>4 DEF Follows, WillBeSubscribed, Here
<1> QED BY <1>3, <1>4

(* A request that is queued when its user's first device comes or his last *)
(* one goes.                                                               *)
LEMMA AskingFollows ==
  ASSUME Typed, Following, NEW c \in Conns,
         NEW op \in {"subscribe", "unsubscribe"}, Ask(op, c), UNCHANGED pubsub,
         \A u \in Users \ {UserOf[c]} : local'[u] = local[u],
         op = "subscribe" <=> local'[UserOf[c]] # {}
  PROVE  Following'
<1> DEFINE r == [op |-> op, user |-> UserOf[c], waiter |-> c]
<1>1. requests \in Seq(Request) /\ requests' = Append(requests, r) /\ r \in Request
  <2>1. TypeOK
    BY DEF Typed
  <2>2. requests' = Append(requests, r) /\ r \in Request
    BY <2>1, Asking
  <2> QED BY <2>1, <2>2 DEF TypeOK
<1> SUFFICES ASSUME NEW u \in Users PROVE Follows(u)'
  BY DEF Following
<1>2. CASE u = UserOf[c]
  <2>1. Of(requests', u) # {} /\ (LastSubscribes(requests', u) <=> op = "subscribe")
    BY <1>1, <1>2, Queued
  <2> QED BY <1>2, <2>1 DEF Follows, Here
<1>3. CASE u # UserOf[c]
  <2>1. /\ Of(requests', u) = Of(requests, u)
        /\ LastSubscribes(requests', u) <=> LastSubscribes(requests, u)
    BY <1>1, <1>3, Queued
  <2> QED BY <1>3, <2>1 DEF Following, Follows, Here, Commanded, pubsub
<1> QED BY <1>2, <1>3

LEMMA FollowingStep == Typed /\ Following /\ [Next]_vars => Following'
<1> SUFFICES ASSUME Typed, Following, [Next]_vars PROVE Following'
  OBVIOUS
<1>0. /\ requests \in Seq(Request) /\ \A u \in Users : Here(u) <=> u \in LocalUsers
      /\ local = Registered(state) /\ state \in [Conns -> States]
  BY DEF Typed, TypeOK, Here, LocalUsers, Registered
<1>1. ASSUME requests' = requests, \A u \in Users : Here(u)' <=> Here(u), UNCHANGED pubsub
      PROVE  Following'
  BY <1>1 DEF Following, Follows, Commanded, pubsub
<1>2. ASSUME NEW c \in Conns, Register(c) PROVE Following'
  <2>1. /\ \A u \in Users \ {UserOf[c]} : local'[u] = local[u]
        /\ local'[UserOf[c]] # {}
    BY <1>0, <1>2, HubAssumption DEF Register, Registered
  <2>2. CASE Ask("subscribe", c)
    BY <1>2, <2>1, <2>2, AskingFollows DEF Register
  <2>3. CASE local[UserOf[c]] # {} /\ UNCHANGED requests
    BY <1>1, <1>2, <2>1, <2>3 DEF Register, Here
  <2> QED BY <1>2, <2>2, <2>3 DEF Register
<1>3. ASSUME NEW c \in Conns, Unregister(c) PROVE Following'
  <2>1. /\ \A u \in Users \ {UserOf[c]} : local'[u] = local[u]
        /\ local'[UserOf[c]] = local[UserOf[c]] \ {c}
        /\ c \in local[UserOf[c]]
    BY <1>0, <1>3, HubAssumption DEF Unregister, Registered
  <2>2. CASE local[UserOf[c]] = {c} /\ Ask("unsubscribe", c)
    BY <1>3, <2>1, <2>2, AskingFollows DEF Unregister
  <2>3. CASE local[UserOf[c]] # {c} /\ UNCHANGED requests
    <3>1. local'[UserOf[c]] # {}
      BY <2>1, <2>3
    <3> QED BY <1>1, <1>3, <2>1, <2>3, <3>1 DEF Unregister, Here
  <2> QED BY <1>3, <2>2, <2>3 DEF Unregister
<1>4. ASSUME NEW c \in Conns, TimesOut(c) PROVE Following'
  <2>1. \A u \in Users : /\ Of(requests', u) = Of(requests, u)
                         /\ LastSubscribes(requests', u) <=> LastSubscribes(requests, u)
    BY <1>0, <1>4, Forgotten DEF TimesOut
  <2> QED BY <1>4, <2>1 DEF TimesOut, Following, Follows, Here, Commanded
<1>5. ASSUME Connect PROVE Following'
  <2>1. ASSUME NEW u \in Users PROVE Commanded(u)' <=> Here(u)'
    <3>1. channel'[u] = IF Here(u) THEN <<FALSE, TRUE>> ELSE <<FALSE>>
      BY <1>0, <1>5 DEF Connect
    <3>2. Here(u)' <=> Here(u)
      BY <1>5 DEF Connect, socket, Here
    <3>3. CASE Here(u)
      BY <3>1, <3>2, <3>3 DEF Commanded
    <3>4. CASE ~Here(u)
      BY <3>1, <3>2, <3>4 DEF Commanded
    <3> QED BY <3>3, <3>4
  <2> QED BY <1>5, <2>1 DEF Connect, Following, Follows, Here, socket
<1>6. ASSUME Subscribed PROVE Following'
  BY <1>6 DEF Subscribed, Following, Follows, Here, Commanded, socket
<1>7. ASSUME TakeRequest PROVE Following'
  <2> DEFINE v == Head(requests).user
             b == Head(requests).op = "subscribe"
  <2>1. /\ requests # <<>> /\ requests' = Tail(requests) /\ loop = "apply" /\ loop' = "applying"
        /\ local' = local
        /\ channel' = [channel EXCEPT ![v] = Append(channel[v], b)]
    BY <1>7 DEF TakeRequest, socket
  <2> SUFFICES ASSUME NEW u \in Users PROVE Follows(u)'
    BY DEF Following
  <2>2. Follows(u) /\ (Here(u)' <=> Here(u))
    BY <2>1 DEF Following, Here
  <2>3. CASE Of(requests', u) # {}
    <3>1. Of(requests, u) # {} /\ (LastSubscribes(requests', u) <=> LastSubscribes(requests, u))
      BY <1>0, <2>1, <2>3, Taken
    <3> QED BY <2>2, <2>3, <3>1 DEF Follows
  <2>6. channel \in [Users -> Seq(BOOLEAN) \ {<<>>}]
    BY DEF Typed, TypeOK
  <2>4. CASE Of(requests', u) = {} /\ u # v
    <3>1. Of(requests, u) = {}
      BY <1>0, <2>1, <2>4, Taken
    <3>2. channel'[u] = channel[u]
      BY <2>1, <2>4, <2>6
    <3> QED BY <2>1, <2>2, <2>4, <3>1, <3>2 DEF Follows, Commanded
  <2>5. CASE Of(requests', u) = {} /\ u = v
    <3>1. Of(requests, u) # {} /\ (LastSubscribes(requests, u) <=> b)
      BY <1>0, <2>1, <2>5, Taken
    <3>2. channel'[u] = Append(channel[u], b) /\ channel[u] \in Seq(BOOLEAN) \ {<<>>}
      BY <2>1, <2>5, <2>6
    <3>3. Commanded(u)' = b
      BY <2>1, <3>2, Channels DEF Commanded
    <3> QED BY <2>2, <2>5, <3>1, <3>3 DEF Follows
  <2> QED BY <2>3, <2>4, <2>5
<1>8. ASSUME Applied PROVE Following'
  BY <1>8 DEF Applied, Following, Follows, Here, Commanded
<1>15. ASSUME NEW v \in Users, Obey(v) PROVE Following'
  <2>1. /\ channel' = [channel EXCEPT ![v] = Tail(channel[v])] /\ Len(channel[v]) > 1
        /\ UNCHANGED <<local, requests, loop>>
    BY <1>15 DEF Obey, socket
  <2>2. channel \in [Users -> Seq(BOOLEAN) \ {<<>>}]
    BY DEF Typed, TypeOK
  <2>3. ASSUME NEW u \in Users PROVE Commanded(u)' <=> Commanded(u)
    <3>1. CASE u = v
      <4>1. channel'[u] = Tail(channel[u]) /\ channel[u] \in Seq(BOOLEAN) \ {<<>>}
        BY <2>1, <2>2, <3>1
      <4> QED BY <2>1, <3>1, <4>1, Channels DEF Commanded
    <3>2. CASE u # v
      BY <2>1, <2>2, <3>2 DEF Commanded
    <3> QED BY <3>1, <3>2
  <2> QED BY <2>1, <2>3 DEF Following, Follows, Here
<1>9. ASSUME Lost PROVE Following'
  <2>1. \A u \in Users : Of(requests', u) = {}
    BY <1>9 DEF Lost, Of
  <2> QED BY <1>9, <2>1 DEF Lost, Following, Follows
<1>10. ASSUME Stop PROVE Following'
  BY <1>10 DEF Stop, Following, Follows, Here
<1>11. ASSUME RequestsDone \/ Dispatch \/ NoMessage \/ SleepDone PROVE Following'
  BY <1>11 DEF RequestsDone, Dispatch, NoMessage, SleepDone, Following, Follows,
               Commanded, Here, socket
<1>12. ASSUME NEW c \in Conns, Resume(c) PROVE Following'
  BY <1>1, <1>12 DEF Resume, Here
<1>13. ASSUME NEW u \in Users, Publish(u) PROVE Following'
  BY <1>1, <1>13 DEF Publish, socket, Here
<1>14. ASSUME Start \/ UNCHANGED vars PROVE Following'
  BY <1>1, <1>14 DEF Start, vars, socket, Here
<1> QED BY <1>2, <1>3, <1>4, <1>5, <1>6, <1>7, <1>8, <1>9, <1>10, <1>11, <1>12, <1>13,
           <1>14, <1>15 DEF Next, Handler, Run

(* Whatever is asked, dropped, timed out or subscribed anew, a connection  *)
(* to Redis is on its way to the channels of exactly the local users.      *)
THEOREM SubscriptionsCorrect == Spec => []SubscriptionsFollow
<1>1. Init => Following
  <2>1. \A u : Of(<<>>, u) = {}
    BY DEF Of
  <2> QED BY <2>1 DEF Init, Following, Follows
<1> QED BY <1>1, InitTyped, TypedStep, FollowingStep, FollowingSuffices, PTL DEF Spec
-----------------------------------------------------------------------------
(* What Redis sent to an open socket's user *)

(* An event that an open socket is due was lost, or is on the wire, or is  *)
(* in its queue; a socket that has not said hello is due nothing.          *)
DueReached == \A c \in Conns :
    /\ state[c] = "registering" => due[c] = {}
    /\ state[c] = "open" /\ c \notin closing =>
          \A e \in due[c] : /\ published[e] = UserOf[c]
                            /\ e \in excused \/ Member(e, wire) \/ Member(e, queued[c])

LEMMA MemberAppend ==
  ASSUME NEW S, NEW s \in Seq(S), NEW f \in S, NEW e
  PROVE  Member(e, Append(s, f)) <=> Member(e, s) \/ e = f
<1>1. /\ Len(s) \in Nat /\ DOMAIN s = 1..Len(s)
      /\ DOMAIN Append(s, f) = 1..(Len(s) + 1)
      /\ Append(s, f)[Len(s) + 1] = f
      /\ \A i \in 1..Len(s) : Append(s, f)[i] = s[i]
  OBVIOUS
<1> QED BY <1>1 DEF Member

LEMMA MemberTail ==
  ASSUME NEW S, NEW s \in Seq(S), s # <<>>, NEW e, Member(e, s)
  PROVE  e = Head(s) \/ Member(e, Tail(s))
<1>1. /\ Len(s) \in Nat \ {0} /\ DOMAIN s = 1..Len(s) /\ Head(s) = s[1]
      /\ DOMAIN Tail(s) = 1..(Len(s) - 1)
      /\ \A i \in 1..(Len(s) - 1) : Tail(s)[i] = s[i + 1]
  OBVIOUS
<1>2. PICK i \in 1..Len(s) : s[i] = e
  BY <1>1 DEF Member
<1>3. i # 1 => i - 1 \in 1..(Len(s) - 1) /\ Tail(s)[i - 1] = e
  BY <1>1, <1>2
<1> QED BY <1>1, <1>2, <1>3 DEF Member

LEMMA DueReachedStep == Typed /\ DueReached /\ [Next]_vars => DueReached'
<1> SUFFICES ASSUME Typed, DueReached, [Next]_vars, NEW c \in Conns
             PROVE  /\ state'[c] = "registering" => due'[c] = {}
                    /\ state'[c] = "open" /\ c \notin closing' =>
                          \A e \in due'[c] :
                             /\ published'[e] = UserOf[c]
                             /\ e \in excused' \/ Member(e, wire') \/ Member(e, queued'[c])
  BY DEF DueReached, Member
<1> DEFINE Goal == /\ state'[c] = "registering" => due'[c] = {}
                   /\ state'[c] = "open" /\ c \notin closing' =>
                          \A e \in due'[c] :
                             /\ published'[e] = UserOf[c]
                             /\ e \in excused' \/ Member(e, wire') \/ Member(e, queued'[c])
<1> USE DEF Typed
<1>1. ASSUME NEW d \in Conns, Register(d) PROVE Goal
  <2>1. CASE d = c
    BY <1>1, <2>1 DEF Register, TypeOK
  <2>2. CASE d # c
    <3>1. state'[c] = state[c] /\ due'[c] = due[c] /\ queued'[c] = queued[c]
      BY <1>1, <2>2 DEF Register, Goto, TypeOK
    <3>2. c \in closing' <=> c \in closing
      BY <1>1, <2>2 DEF Register
    <3>3. UNCHANGED <<published, excused, wire>>
      BY <1>1 DEF Register
    <3> QED BY <3>1, <3>2, <3>3 DEF DueReached
  <2> QED BY <2>1, <2>2
<1>2. ASSUME NEW d \in Conns, Unregister(d) PROVE Goal
  <2>1. state'[c] \in {"registering", "open"} => state'[c] = state[c]
    BY <1>2 DEF Unregister, Goto, TypeOK
  <2> QED BY <1>2, <2>1 DEF Unregister, events, DueReached
<1>3. ASSUME NEW d \in Conns, Resume(d) PROVE Goal
  <2>1. UNCHANGED <<due, closing, published, excused, wire, queued>>
    BY <1>3 DEF Resume, events
  <2>2. \/ state'[c] = state[c]
        \/ state[c] = "registering" /\ state'[c] = "open"
        \/ state'[c] = "off"
    <3>1. state[d] \in {"registering", "leaving"} /\ state \in [Conns -> States]
      BY <1>3 DEF Resume, TypeOK
    <3>2. state' = [state EXCEPT ![d] = IF state[d] = "registering" THEN "open" ELSE "off"]
      BY <1>3 DEF Resume, Goto
    <3>3. CASE c = d
      BY <3>1, <3>2, <3>3
    <3>4. CASE c # d
      BY <3>1, <3>2, <3>4
    <3> QED BY <3>3, <3>4
  <2> QED BY <2>1, <2>2 DEF DueReached
<1>4. ASSUME UNCHANGED <<state, due, closing, published, excused, wire, queued>> PROVE Goal
  BY <1>4 DEF DueReached
<1>5. ASSUME NEW d \in Conns, TimesOut(d)
      PROVE  UNCHANGED <<state, due, closing, published, excused, wire, queued>>
  BY <1>5 DEF TimesOut, events
<1>10. ASSUME NEW u \in Users, Obey(u)
       PROVE  UNCHANGED <<state, due, closing, published, excused, wire, queued>>
  BY <1>10 DEF Obey, socket, events
<1>6. ASSUME \/ Start \/ Connect \/ Subscribed \/ TakeRequest \/ Applied \/ RequestsDone
             \/ NoMessage \/ SleepDone \/ UNCHANGED vars
      PROVE  UNCHANGED <<state, due, closing, published, excused, wire, queued>>
  BY <1>6 DEF Start, Connect, Subscribed, TakeRequest, Applied, RequestsDone, NoMessage,
              SleepDone, vars, socket, events
<1>7. ASSUME Dispatch PROVE Goal
  <2>1. UNCHANGED <<state, due, closing, published, excused>>
    BY <1>7 DEF Dispatch, socket
  <2> SUFFICES ASSUME state[c] = "open", c \notin closing, NEW e \in due[c],
                      e \notin excused
               PROVE  Member(e, wire') \/ Member(e, queued'[c])
    BY <2>1 DEF DueReached
  <2>2. published[e] = UserOf[c] /\ (Member(e, wire) \/ Member(e, queued[c]))
    BY DEF DueReached
  <2>3. /\ wire \in Seq(1..Len(published)) /\ wire # <<>> /\ wire' = Tail(wire)
        /\ queued[c] \in Seq(1..Len(published)) /\ Head(wire) \in 1..Len(published)
    BY <1>7, Cut DEF Dispatch, TypeOK
  <2>4. CASE Member(e, queued[c])
    <3>1. queued'[c] = queued[c] \/ queued'[c] = Append(queued[c], Head(wire))
      BY <1>7 DEF Dispatch
    <3>2. Member(e, Append(queued[c], Head(wire)))
      BY <2>3, <2>4, MemberAppend
    <3> QED BY <2>4, <3>1, <3>2
  <2>5. CASE Member(e, wire) /\ e = Head(wire)
    <3>1. c \in local[published[Head(wire)]] \ closing
      BY <2>2, <2>5, HubAssumption DEF TypeOK
    <3>2. queued'[c] = Append(queued[c], Head(wire))
      BY <1>7, <3>1 DEF Dispatch
    <3>3. Member(e, Append(queued[c], Head(wire)))
      BY <2>3, <2>5, MemberAppend
    <3> QED BY <3>2, <3>3
  <2>6. CASE Member(e, wire) /\ e # Head(wire)
    BY <2>3, <2>6, MemberTail
  <2> QED BY <2>2, <2>4, <2>5, <2>6
<1>8. ASSUME Lost \/ Stop PROVE Goal
  <2>1. /\ UNCHANGED <<state, due, published, queued>>
        /\ excused' = excused \cup {wire[i] : i \in DOMAIN wire}
        /\ c \notin closing' => c \notin closing
    BY <1>8 DEF Lost, Stop
  <2>2. \A e : Member(e, wire) => e \in excused'
    BY <2>1 DEF Member
  <2> QED BY <2>1, <2>2 DEF DueReached
<1>9. ASSUME NEW u \in Users, Publish(u) PROVE Goal
  <2> DEFINE f == Len(published) + 1
  <2>1. /\ UNCHANGED <<state, closing, local, queued>>
        /\ published' = Append(published, u)
        /\ due' = [d \in Conns |-> IF d \in local[u] /\ state[d] = "open"
                                   THEN due[d] \cup {f} ELSE due[d]]
        /\ \/ wire' = Append(wire, f) /\ excused' = excused
           \/ wire' = wire /\ excused' = excused \cup {f}
    BY <1>9 DEF Publish, socket
  <2>2. CASE state[c] = "registering"
    BY <2>1, <2>2 DEF DueReached
  <2>3. ASSUME state[c] = "open", c \notin closing, NEW e \in due'[c]
        PROVE  /\ published'[e] = UserOf[c]
               /\ e \in excused' \/ Member(e, wire') \/ Member(e, queued'[c])
    <3>1. /\ published \in Seq(Users) /\ Len(published) \in Nat
          /\ wire \in Seq(1..Len(published)) /\ due[c] \subseteq 1..Len(published)
      BY DEF TypeOK
    <3>2. wire \in Seq(1..f) /\ f \in 1..f
      BY <3>1, Widened
    <3>5. Member(e, Append(wire, f)) <=> Member(e, wire) \/ e = f
      BY <3>2, MemberAppend
    <3>3. CASE e \in due[c]
      <4>1. published'[e] = published[e] /\ published[e] = UserOf[c]
        BY <2>1, <2>3, <3>1, <3>3 DEF DueReached
      <4>2. Member(e, wire) => Member(e, wire')
        BY <2>1, <3>5
      <4> QED BY <2>1, <2>3, <3>3, <4>1, <4>2 DEF DueReached
    <3>4. CASE e \notin due[c]
      <4>1. e = f /\ c \in local[u]
        BY <2>1, <2>3, <3>4
      <4>2. published'[e] = u /\ u = UserOf[c]
        BY <1>9, <2>1, <3>1, <4>1 DEF TypeOK
      <4>3. e \in excused' \/ Member(e, wire')
        BY <2>1, <3>5, <4>1
      <4> QED BY <4>2, <4>3
    <3> QED BY <3>3, <3>4
  <2> QED BY <2>1, <2>2, <2>3
<1> QED BY <1>1, <1>2, <1>3, <1>4, <1>5, <1>6, <1>7, <1>8, <1>9, <1>10 DEF Next, Handler, Run

-----------------------------------------------------------------------------
(* A user's only device *)

Alone(c) == \A d \in Conns : UserOf[d] = UserOf[c] => d = c

Undisturbed == failures = 0 /\ timeouts = 0

(* Redis has subscribed u's channel and no command for it is under way. *)
Settled(u) == Len(channel[u]) = 1 /\ Head(channel[u])

(* Whether anything is asked of the pub/sub task for a user. *)
Applying(u) == current # None /\ current.user = u

Asks(u) == Of(requests, u) # {} \/ Applying(u)

(* The future of a request is awaited by a socket of its user. *)
OwnWaiters ==
    /\ \A i \in DOMAIN requests :
          requests[i].waiter # None => UserOf[requests[i].waiter] = requests[i].user
    /\ current # None /\ current.waiter # None => UserOf[current.waiter] = current.user

(* There are sockets only between start() and stop(), and between the two  *)
(* there is a connection.                                                  *)
Serves ==
    /\ \A c \in Conns : state[c] # "off" => serving
    /\ loop = "stopped" => \A c \in Conns :
          state[c] \in {"registering", "open"} => c \in closing
    /\ Undisturbed => /\ loop # "sleep"
                      /\ serving => loop \in {"apply", "applying", "poll", "stopped"}

(* While anything is asked for the user of an only device, it is one thing, *)
(* and his handler awaits it.                                              *)
OneAtATime(c) ==
    LET u == UserOf[c] IN
    Asks(u) => /\ c \in waits
               /\ \A i, j \in Of(requests, u) : i = j
               /\ Of(requests, u) # {} => ~Applying(u)

AloneAwaits == (Undisturbed /\ loop # "stopped") =>
    \A c \in Conns : Alone(c) => OneAtATime(c)

(* What hub_gap refutes, and what losses and timeouts take away, holds of  *)
(* an only device from when Redis has obeyed its SUBSCRIBE: until it       *)
(* leaves, its channel stays subscribed and no event for it is dropped     *)
(* (hub.py:106-122, 162-172).  Before that its hello may be out already.   *)
OnlyDeviceKeeps == [][Undisturbed' => \A c \in Conns :
    (/\ Alone(c) /\ Settled(UserOf[c])
     /\ state[c] = "open" /\ state'[c] = "open" /\ c \notin closing')
    => /\ Settled(UserOf[c])'
       /\ (due'[c] \ due[c]) \cap excused' = {}]_vars

LEMMA OwnWaitersStep == Typed /\ OwnWaiters /\ [Next]_vars => OwnWaiters'
<1> SUFFICES ASSUME Typed, OwnWaiters, [Next]_vars PROVE OwnWaiters'
  OBVIOUS
<1>0. requests \in Seq(Request) /\ DOMAIN requests = 1..Len(requests) /\ Len(requests) \in Nat
  BY DEF Typed, TypeOK
<1>1. ASSUME requests' = requests, current' = current PROVE OwnWaiters'
  BY <1>1 DEF OwnWaiters
<1>2. ASSUME NEW c \in Conns, NEW op \in {"subscribe", "unsubscribe"}, Ask(op, c),
             current' = current
      PROVE  OwnWaiters'
  <2> DEFINE r == [op |-> op, user |-> UserOf[c], waiter |-> c]
  <2>1. requests' = Append(requests, r)
    BY <1>2 DEF Ask
  <2>2. /\ DOMAIN requests' = 1..(Len(requests) + 1)
        /\ requests'[Len(requests) + 1] = r
        /\ \A i \in DOMAIN requests : requests'[i] = requests[i]
    BY <1>0, <2>1
  <2>3. \A i \in DOMAIN requests' : requests'[i] = r \/ i \in DOMAIN requests
    BY <1>0, <2>2
  <2>4. r.waiter = c /\ r.user = UserOf[c]
    OBVIOUS
  <2> QED BY <1>2, <2>2, <2>3, <2>4 DEF OwnWaiters
<1>3. ASSUME NEW c \in Conns, Register(c) \/ Unregister(c) PROVE OwnWaiters'
  <2>1. current' = current
    BY <1>3 DEF Register, Unregister, pubsub
  <2>2. \/ \E op \in {"subscribe", "unsubscribe"} : Ask(op, c)
        \/ requests' = requests
    BY <1>3 DEF Register, Unregister
  <2> QED BY <1>1, <1>2, <2>1, <2>2
<1>4. ASSUME NEW c \in Conns, TimesOut(c) PROVE OwnWaiters'
  <2>1. \A r \in Request : Forget(c, r).user = r.user
                           /\ (Forget(c, r).waiter = r.waiter \/ Forget(c, r).waiter = None)
    BY DEF Forget, Request
  <2>2. \A i \in DOMAIN requests : requests[i] \in Request
    BY <1>0
  <2>3. /\ requests' = [i \in DOMAIN requests |-> Forget(c, requests[i])]
        /\ current' = Forget(c, current)
    BY <1>4 DEF TimesOut
  <2>4. current = None => current' = None
    BY <2>3 DEF Forget
  <2>5. current # None => current \in Request
    BY DEF Typed, TypeOK
  <2>6. DOMAIN requests' = DOMAIN requests
    BY <2>3
  <2>7. ASSUME NEW i \in DOMAIN requests', requests'[i].waiter # None
        PROVE  UserOf[requests'[i].waiter] = requests'[i].user
    BY <2>1, <2>2, <2>3, <2>6, <2>7 DEF OwnWaiters
  <2>8. ASSUME current' # None, current'.waiter # None
        PROVE  UserOf[current'.waiter] = current'.user
    BY <2>1, <2>3, <2>4, <2>5, <2>8 DEF OwnWaiters
  <2> QED BY <2>7, <2>8 DEF OwnWaiters
<1>5. ASSUME TakeRequest PROVE OwnWaiters'
  <2>1. requests # <<>> /\ requests' = Tail(requests) /\ current' = Head(requests)
    BY <1>5 DEF TakeRequest
  <2>2. /\ 1 \in DOMAIN requests /\ current' = requests[1]
        /\ \A i \in DOMAIN requests' : i + 1 \in DOMAIN requests /\ requests'[i] = requests[i + 1]
    BY <1>0, <2>1
  <2> QED BY <2>2 DEF OwnWaiters
<1>6. ASSUME Applied \/ Stop PROVE OwnWaiters'
  BY <1>6 DEF Applied, Stop, OwnWaiters
<1>7. ASSUME Lost PROVE OwnWaiters'
  <2>1. requests' = <<>> /\ current' = None
    BY <1>7 DEF Lost
  <2> QED BY <2>1 DEF OwnWaiters
<1>8. ASSUME NEW c \in Conns, Resume(c) PROVE OwnWaiters'
  BY <1>1, <1>8 DEF Resume, pubsub
<1>9. ASSUME NEW u \in Users, Publish(u) PROVE OwnWaiters'
  BY <1>1, <1>9 DEF Publish, pubsub
<1>11. ASSUME NEW u \in Users, Obey(u) PROVE OwnWaiters'
  BY <1>1, <1>11 DEF Obey
<1>10. ASSUME \/ Start \/ Connect \/ Subscribed \/ RequestsDone \/ Dispatch \/ NoMessage
              \/ SleepDone \/ UNCHANGED vars
       PROVE  OwnWaiters'
  BY <1>1, <1>10 DEF Start, Connect, Subscribed, RequestsDone, Dispatch, NoMessage,
                     SleepDone, vars, pubsub
<1> QED BY <1>3, <1>4, <1>5, <1>6, <1>7, <1>8, <1>9, <1>10, <1>11 DEF Next, Handler, Run

LEMMA ServesStep == Typed /\ Serves /\ [Next]_vars => Serves'
<1> SUFFICES ASSUME Typed, Serves, [Next]_vars PROVE Serves'
  OBVIOUS
<1>0. /\ state \in [Conns -> States] /\ local = Registered(state)
      /\ failures \in Nat /\ timeouts \in Nat
  BY HubAssumption DEF Typed, TypeOK, Registered
<1>1. ASSUME UNCHANGED <<state, serving, loop, closing, failures, timeouts>> PROVE Serves'
  BY <1>1 DEF Serves, Undisturbed
<1>2. ASSUME NEW c \in Conns, Register(c) PROVE Serves'
  <2>1. serving /\ loop # "stopped" /\ UNCHANGED <<serving, loop, failures, timeouts>>
    BY <1>2 DEF Register, pubsub
  <2> QED BY <2>1 DEF Serves, Undisturbed
<1>3. ASSUME NEW c \in Conns, Unregister(c) \/ Resume(c) PROVE Serves'
  <2>1. /\ state[c] # "off" /\ (state[c] = "leaving" => state'[c] = "off")
        /\ state[c] = "registering" => state'[c] = "open"
        /\ state[c] = "open" => state'[c] \in {"leaving", "off"}
        /\ \A d \in Conns \ {c} : state'[d] = state[d]
    BY <1>0, <1>3 DEF Unregister, Resume, Goto, States
  <2>2. UNCHANGED <<serving, loop, closing, failures, timeouts>>
    BY <1>3 DEF Unregister, Resume, pubsub
  <2>3. \A d \in Conns : state'[d] # "off" => state[d] # "off"
    BY <2>1
  <2>4. \A d \in Conns : state'[d] \in {"registering", "open"} =>
                             state[d] \in {"registering", "open"}
    BY <1>0, <2>1 DEF States
  <2> QED BY <2>2, <2>3, <2>4 DEF Serves, Undisturbed
<1>4. ASSUME NEW c \in Conns, TimesOut(c) PROVE Serves'
  <2>1. UNCHANGED <<state, serving, loop, closing, failures>>
    BY <1>4 DEF TimesOut
  <2>2. timeouts' = timeouts \/ timeouts' = timeouts + 1
    BY <1>4 DEF TimesOut
  <2>3. Undisturbed' => Undisturbed
    BY <1>0, <2>1, <2>2 DEF Undisturbed
  <2> QED BY <2>1, <2>3 DEF Serves
<1>5. ASSUME Start PROVE Serves'
  <2>1. serving' /\ ~serving /\ UNCHANGED <<state, loop, closing, failures>>
    BY <1>5 DEF Start, socket, pubsub
  <2>2. \/ loop \in {"apply", "applying", "poll"} /\ timeouts' = timeouts
        \/ timeouts' = timeouts + 1
    BY <1>5 DEF Start
  <2>3. Undisturbed' => Undisturbed /\ loop \in {"apply", "applying", "poll"}
    BY <1>0, <2>1, <2>2 DEF Undisturbed
  <2> QED BY <2>1, <2>3 DEF Serves
<1>6. ASSUME Connect \/ Subscribed \/ SleepDone PROVE Serves'
  <2>1. /\ loop \in {"connect", "subscribing", "sleep"} /\ loop' \in {"connect", "subscribing", "apply"}
        /\ UNCHANGED <<state, serving, failures, timeouts>>
    BY <1>6 DEF Connect, Subscribed, SleepDone, socket
  <2> QED BY <2>1 DEF Serves, Undisturbed
<1>7. ASSUME TakeRequest \/ Applied \/ RequestsDone \/ Dispatch \/ NoMessage PROVE Serves'
  <2>1. /\ loop \in {"apply", "applying", "poll"} /\ loop' \in {"apply", "applying", "poll"}
        /\ UNCHANGED <<state, serving, failures, timeouts>>
    BY <1>7 DEF TakeRequest, Applied, RequestsDone, Dispatch, NoMessage, socket
  <2> QED BY <2>1 DEF Serves, Undisturbed
<1>8. ASSUME Lost PROVE Serves'
  <2>1. failures' = failures + 1 /\ loop' = "sleep" /\ UNCHANGED <<state, serving>>
    BY <1>8 DEF Lost
  <2> QED BY <1>0, <2>1 DEF Serves, Undisturbed
<1>9. ASSUME Stop PROVE Serves'
  <2>1. /\ loop' = "stopped" /\ UNCHANGED <<state, serving, failures, timeouts>>
        /\ closing' = closing \cup UNION {local[u] : u \in Users}
    BY <1>9 DEF Stop
  <2>2. ASSUME NEW c \in Conns, state[c] \in {"registering", "open"} PROVE c \in closing'
    <3>1. UserOf[c] \in Users /\ c \in local[UserOf[c]]
      BY <1>0, <2>2, HubAssumption DEF Registered
    <3> QED BY <2>1, <3>1
  <2> QED BY <2>1, <2>2 DEF Serves, Undisturbed
<1>10. ASSUME NEW u \in Users, Publish(u) PROVE Serves'
  BY <1>1, <1>10 DEF Publish, socket, pubsub
<1>12. ASSUME NEW u \in Users, Obey(u) PROVE Serves'
  BY <1>1, <1>12 DEF Obey, socket
<1>11. ASSUME UNCHANGED vars PROVE Serves'
  BY <1>1, <1>11 DEF vars, socket, pubsub
<1> QED BY <1>2, <1>3, <1>4, <1>5, <1>6, <1>7, <1>8, <1>9, <1>10, <1>11, <1>12
        DEF Next, Handler, Run

LEMMA AwaitsStep ==
  Typed /\ OwnWaiters /\ AloneAwaits /\ [Next]_vars => AloneAwaits'
<1> SUFFICES ASSUME Typed, OwnWaiters, AloneAwaits, [Next]_vars,
                    Undisturbed', loop' # "stopped",
                    NEW c \in Conns, Alone(c)
             PROVE  OneAtATime(c)'
  BY DEF AloneAwaits, Alone
<1> DEFINE u == UserOf[c]
<1>0. /\ requests \in Seq(Request) /\ DOMAIN requests = 1..Len(requests)
      /\ Len(requests) \in Nat /\ \A i \in DOMAIN requests : requests[i] \in Request
      /\ current # None => current \in Request
      /\ failures \in Nat /\ timeouts \in Nat /\ u \in Users
      /\ state \in [Conns -> States]
      /\ waits \subseteq {d \in Conns : state[d] \in {"registering", "leaving"}}
  BY HubAssumption DEF Typed, TypeOK
<1>1. loop # "stopped"
  BY DEF Next, Handler, Run, Register, Unregister, Resume, TimesOut, Start, Connect,
         Subscribed, TakeRequest, Applied, RequestsDone, Dispatch, NoMessage, SleepDone,
         Lost, Stop, Publish, Obey, vars, pubsub
<1>2. ASSUME Undisturbed PROVE OneAtATime(c)
  BY <1>1, <1>2 DEF AloneAwaits
<1>3. ASSUME Undisturbed, UNCHANGED <<requests, waits, current>> PROVE OneAtATime(c)'
  BY <1>2, <1>3 DEF OneAtATime, Asks, Applying
<1>4. ASSUME Undisturbed, NEW d \in Conns, NEW op \in {"subscribe", "unsubscribe"},
             Ask(op, d), d \notin waits, current' = current
      PROVE  OneAtATime(c)'
  <2> DEFINE r == [op |-> op, user |-> UserOf[d], waiter |-> d]
  <2>1. /\ requests' = Append(requests, r) /\ waits' = waits \cup {d}
        /\ r \in Request /\ r.user = UserOf[d]
    BY <1>4, HubAssumption DEF Ask, Request
  <2>2. /\ DOMAIN requests' = 1..(Len(requests) + 1)
        /\ requests'[Len(requests) + 1] = r
        /\ \A i \in DOMAIN requests : requests'[i] = requests[i]
    BY <1>0, <2>1
  <2>3. CASE d = c
    <3>1. ~Asks(u)
      BY <1>2, <1>4, <2>3 DEF OneAtATime
    <3>2. Of(requests', u) = {Len(requests) + 1}
      BY <1>0, <2>1, <2>2, <2>3, <3>1 DEF Of, Asks
    <3> QED BY <1>4, <2>1, <2>3, <3>1, <3>2 DEF OneAtATime, Asks, Applying
  <2>4. CASE d # c
    <3>1. UserOf[d] # u
      BY <2>4 DEF Alone
    <3>2. Of(requests', u) = Of(requests, u)
      BY <1>0, <2>1, <3>1, Queued
    <3> QED BY <1>2, <1>4, <2>1, <3>2 DEF OneAtATime, Asks, Applying
  <2> QED BY <2>3, <2>4
<1>5. ASSUME NEW d \in Conns, Register(d) \/ Unregister(d) PROVE OneAtATime(c)'
  <2>1. UNCHANGED <<current, failures, timeouts>> /\ d \notin waits
    BY <1>0, <1>5 DEF Register, Unregister, pubsub
  <2>2. \/ \E op \in {"subscribe", "unsubscribe"} : Ask(op, d)
        \/ UNCHANGED <<requests, waits>>
    BY <1>5 DEF Register, Unregister
  <2>3. Undisturbed
    BY <2>1 DEF Undisturbed
  <2> QED BY <1>3, <1>4, <2>1, <2>2, <2>3
<1>6. ASSUME NEW d \in Conns, TimesOut(d) PROVE FALSE
  <2>1. timeouts' = timeouts + 1 \/ loop = "stopped"
    BY <1>6 DEF TimesOut
  <2> QED BY <1>0, <1>1, <2>1 DEF Undisturbed
<1>7. ASSUME Lost PROVE FALSE
  BY <1>0, <1>7 DEF Lost, Undisturbed
<1>8. ASSUME Start PROVE OneAtATime(c)'
  <2>1. UNCHANGED <<requests, waits, current, failures>>
    BY <1>8 DEF Start, socket, pubsub
  <2>2. timeouts' = timeouts \/ timeouts' = timeouts + 1
    BY <1>8 DEF Start
  <2>3. Undisturbed
    BY <1>0, <2>1, <2>2 DEF Undisturbed
  <2> QED BY <1>3, <2>1, <2>3
<1>9. ASSUME TakeRequest PROVE OneAtATime(c)'
  <2>1. /\ requests # <<>> /\ requests' = Tail(requests) /\ current' = Head(requests)
        /\ UNCHANGED <<waits, failures, timeouts>> /\ current = None
    BY <1>9 DEF TakeRequest, socket, Typed, Phases
  <2>2. /\ 1 \in DOMAIN requests /\ current' = requests[1] /\ current' # None
        /\ DOMAIN requests' = 1..(Len(requests) - 1)
        /\ \A i \in DOMAIN requests' : i + 1 \in DOMAIN requests /\ requests'[i] = requests[i + 1]
    BY <1>0, <2>1, HubAssumption
  <2>3. OneAtATime(c)
    BY <1>2, <2>1 DEF Undisturbed
  <2>4. \A i \in Of(requests', u) : i \in Nat /\ i >= 1 /\ i + 1 \in Of(requests, u)
    BY <1>0, <2>2 DEF Of
  <2>5. Applying(u)' => 1 \in Of(requests, u)
    BY <2>2 DEF Applying, Of
  <2>6. Asks(u)' => Of(requests, u) # {}
    BY <2>4, <2>5 DEF Asks
  <2>7. \A i, j \in Of(requests', u) : i = j
    <3>1. ASSUME NEW i \in Of(requests', u), NEW j \in Of(requests', u) PROVE i = j
      <4>1. i + 1 = j + 1
        BY <2>3, <2>4 DEF OneAtATime, Asks
      <4> QED BY <2>4, <4>1
    <3> QED BY <3>1
  <2>8. Of(requests', u) # {} => ~Applying(u)'
    <3>1. ASSUME NEW i \in Of(requests', u), Applying(u)' PROVE FALSE
      <4>1. i + 1 = 1
        BY <2>3, <2>4, <2>5, <3>1 DEF OneAtATime, Asks
      <4> QED BY <2>4, <4>1
    <3> QED BY <3>1
  <2> QED BY <2>1, <2>3, <2>6, <2>7, <2>8 DEF OneAtATime, Asks
<1>10. ASSUME Applied PROVE OneAtATime(c)'
  <2>1. /\ requests' = requests /\ waits' = waits \ {current.waiter} /\ current' = None
        /\ current # None /\ UNCHANGED <<failures, timeouts>>
    BY <1>10 DEF Applied, Typed, Phases
  <2>2. OneAtATime(c)
    BY <1>2, <2>1 DEF Undisturbed
  <2>3. CASE Applying(u)
    <3>1. ~Asks(u)'
      BY <2>1, <2>2, <2>3 DEF OneAtATime, Asks, Applying
    <3> QED BY <3>1 DEF OneAtATime
  <2>4. CASE ~Applying(u)
    <3>1. current.waiter # c
      BY <2>1, <2>4, HubAssumption DEF OwnWaiters, Applying
    <3> QED BY <2>1, <2>2, <2>4, <3>1 DEF OneAtATime, Asks, Applying
  <2> QED BY <2>3, <2>4
<1>11. ASSUME NEW d \in Conns, Resume(d) PROVE OneAtATime(c)'
  BY <1>3, <1>11 DEF Resume, pubsub, Undisturbed
<1>12. ASSUME NEW v \in Users, Publish(v) PROVE OneAtATime(c)'
  BY <1>3, <1>12 DEF Publish, socket, pubsub, Undisturbed
<1>15. ASSUME NEW v \in Users, Obey(v) PROVE OneAtATime(c)'
  BY <1>3, <1>15 DEF Obey, socket, Undisturbed
<1>13. ASSUME \/ Connect \/ Subscribed \/ RequestsDone \/ Dispatch \/ NoMessage
              \/ SleepDone \/ UNCHANGED vars
       PROVE  OneAtATime(c)'
  BY <1>3, <1>13 DEF Connect, Subscribed, RequestsDone, Dispatch, NoMessage,
                     SleepDone, vars, pubsub, socket, Undisturbed
<1>14. ~Stop
  BY DEF Stop
<1> QED BY <1>5, <1>6, <1>7, <1>8, <1>9, <1>10, <1>11, <1>12, <1>13, <1>14, <1>15
        DEF Next, Handler, Run

(* Nothing is asked for an only device that has said hello. *)
LEMMA AloneIsQuiet ==
  ASSUME Typed, Serves, AloneAwaits, Undisturbed,
         NEW c \in Conns, Alone(c), state[c] = "open", c \notin closing
  PROVE  loop \in {"apply", "applying", "poll"} /\ ~Asks(UserOf[c])
<1>1. loop \in {"apply", "applying", "poll"}
  BY DEF Serves
<1>2. c \notin waits
  BY DEF Typed, TypeOK
<1> QED BY <1>1, <1>2 DEF AloneAwaits, OneAtATime

LEMMA KeepsStep ==
  ASSUME Typed, Serves, AloneAwaits, [Next]_vars, Undisturbed',
         NEW c \in Conns, Alone(c), Settled(UserOf[c]),
         state[c] = "open", state'[c] = "open", c \notin closing'
  PROVE  /\ Settled(UserOf[c])'
         /\ (due'[c] \ due[c]) \cap excused' = {}
<1> DEFINE u == UserOf[c]
           Goal == Settled(u)' /\ (due'[c] \ due[c]) \cap excused' = {}
<1>0. /\ state \in [Conns -> States] /\ due \in [Conns -> SUBSET (1..Len(published))]
      /\ excused \subseteq 1..Len(published) /\ Len(published) \in Nat
      /\ failures \in Nat /\ timeouts \in Nat
      /\ u \in Users /\ c \in local[u] /\ \A v \in Users : c \in local[v] => v = u
      /\ channel \in [Users -> Seq(BOOLEAN) \ {<<>>}]
  BY HubAssumption DEF Typed, TypeOK
<1>s. Len(channel[u]) = 1
  BY Zenon DEF Settled
<1>t. Head(channel[u])
  BY Zenon DEF Settled
<1>k. ASSUME channel'[u] = channel[u] PROVE Settled(u)'
  BY Zenon, <1>k DEF Settled
<1>1. ASSUME UNCHANGED <<channel, due>> PROVE Goal
  BY <1>1, <1>k
<1>2. ASSUME NEW d \in Conns, Register(d) PROVE Goal
  <2>1. d # c /\ due' = [due EXCEPT ![d] = {}] /\ channel' = channel
    BY <1>2 DEF Register, pubsub
  <2> QED BY <1>0, <1>k, <2>1
<1>3. ASSUME NEW d \in Conns, Unregister(d) \/ Resume(d) \/ TimesOut(d) PROVE Goal
  BY <1>1, <1>3 DEF Unregister, Resume, TimesOut, events, pubsub
<1>4. ASSUME Start \/ Subscribed \/ Applied \/ RequestsDone \/ NoMessage \/ SleepDone
             \/ UNCHANGED vars
      PROVE  Goal
  BY <1>1, <1>4 DEF Start, Subscribed, Applied, RequestsDone, NoMessage, SleepDone,
                    vars, events, pubsub
<1>5. ASSUME Dispatch PROVE Goal
  BY <1>1, <1>5 DEF Dispatch
<1>6. ASSUME Connect \/ TakeRequest PROVE Goal
  <2>1. /\ UNCHANGED <<state, closing, due, failures, timeouts>>
        /\ loop = "connect" \/ TakeRequest
    BY <1>6 DEF Connect, TakeRequest, socket, events
  <2>2. Undisturbed /\ c \notin closing
    BY <2>1 DEF Undisturbed
  <2>3. loop # "connect" /\ ~Asks(u)
    BY <2>2, AloneIsQuiet
  <2>4. /\ requests \in Seq(Request) /\ requests # <<>>
        /\ channel' = [channel EXCEPT ![Head(requests).user] =
                           Append(@, Head(requests).op = "subscribe")]
    BY <2>1, <2>3 DEF TakeRequest, Typed, TypeOK
  <2>5. 1 \in DOMAIN requests /\ Head(requests) = requests[1]
    BY <2>4
  <2>6. Head(requests).user # u
    BY <2>3, <2>5 DEF Asks, Of
  <2>7. channel'[u] = channel[u]
    BY <1>0, <2>4, <2>6
  <2> QED BY <1>k, <2>1, <2>7
<1>7. ~Lost
  BY <1>0 DEF Lost, Undisturbed
<1>8. ASSUME Stop PROVE FALSE
  <2>1. closing' = closing \cup UNION {local[v] : v \in Users}
    BY <1>8 DEF Stop
  <2> QED BY <1>0, <2>1
<1>9. ASSUME NEW v \in Users, Obey(v) PROVE Goal
  <2>1. channel' = [channel EXCEPT ![v] = Tail(channel[v])] /\ due' = due
    BY <1>9 DEF Obey, events
  <2>2. v # u
    <3>1. Len(channel[v]) > 1
      BY <1>9 DEF Obey
    <3>2. v = u => 1 > 1
      BY Zenon, <1>s, <3>1
    <3> QED BY <3>2
  <2>3. u \in Users /\ DOMAIN channel = Users /\ channel = [w \in DOMAIN channel |-> channel[w]]
    BY Zenon, <1>0
  <2>4. channel' = [w \in Users |-> IF w = v THEN Tail(channel[v]) ELSE channel[w]]
    BY Zenon, <2>1, <2>3
  <2>5. channel'[u] = channel[u]
    BY Zenon, <2>2, <2>3, <2>4
  <2> QED BY <1>k, <2>1, <2>5
<1>10. ASSUME NEW v \in Users, Publish(v) PROVE Goal
  <2> DEFINE e == Len(published) + 1
  <2>1. /\ channel' = channel
        /\ due'[c] = IF c \in local[v] /\ state[c] = "open" THEN due[c] \cup {e} ELSE due[c]
        /\ Head(channel[v]) => excused' = excused
    BY <1>10 DEF Publish, pubsub
  <2>2. e \notin excused
    BY <1>0
  <2>3. CASE v = u
    <3>1. excused' = excused
      BY Zenon, <1>t, <2>1, <2>3
    <3> QED BY <1>k, <2>1, <2>2, <3>1
  <2>4. CASE v # u
    BY <1>0, <1>k, <2>1, <2>4
  <2> QED BY <2>3, <2>4
<1> QED BY <1>2, <1>3, <1>4, <1>5, <1>6, <1>7, <1>8, <1>9, <1>10 DEF Next, Handler, Run

(* A user's only device, once subscribed, misses nothing but what losses   *)
(* and timeouts take away.                                                 *)
THEOREM OnlyDeviceStaysSubscribed == Spec => OnlyDeviceKeeps
<1> DEFINE AInv == Typed /\ OwnWaiters /\ Serves /\ AloneAwaits
<1>1. Init => AInv
  <2> SUFFICES ASSUME Init PROVE AInv
    OBVIOUS
  <2>1. \A u : Of(<<>>, u) = {}
    BY DEF Of
  <2>2. OwnWaiters /\ Serves
    BY DEF Init, OwnWaiters, Serves
  <2>3. AloneAwaits
    BY <2>1 DEF Init, AloneAwaits, OneAtATime, Asks, Applying
  <2> QED BY <2>2, <2>3, InitTyped
<1>2. AInv /\ [Next]_vars => AInv'
  BY TypedStep, OwnWaitersStep, ServesStep, AwaitsStep
<1>3. AInv /\ [Next]_vars =>
        [Undisturbed' => \A c \in Conns :
            (/\ Alone(c) /\ Settled(UserOf[c])
             /\ state[c] = "open" /\ state'[c] = "open" /\ c \notin closing')
            => /\ Settled(UserOf[c])'
               /\ (due'[c] \ due[c]) \cap excused' = {}]_vars
  BY KeepsStep
<1> QED BY <1>1, <1>2, <1>3, PTL DEF Spec, OnlyDeviceKeeps

(* What Drained rests on: once the hub has stopped, every registered       *)
(* socket, also one whose register() was still waiting, has been closed.   *)
StopCloses == loop = "stopped" =>
    \A c \in Conns : state[c] \in {"registering", "open"} => c \in closing

(* stop() (hub.py:92-99) leaves no registered socket unclosed behind, and  *)
(* none registers after it.                                                *)
THEOREM StopClosesAll == Spec => []StopCloses
<1>1. Init => Serves
  BY DEF Init, Serves
<1>2. Serves => StopCloses
  BY DEF Serves, StopCloses
<1> QED BY <1>1, <1>2, InitTyped, TypedStep, ServesStep, PTL DEF Spec

-----------------------------------------------------------------------------
(* The order of events *)

Rising(s) == \A i, j \in DOMAIN s : i < j => s[i] < s[j]

Below(s, t) == \A i \in DOMAIN s : \A j \in DOMAIN t : s[i] < t[j]

(* Every device of a user is handed events in the order in which they were *)
(* published and none of them twice, whatever is lost and subscribed anew  *)
(* in between (hub.py:136-160, 181-197).                                   *)
QueuedInOrder == \A c \in Conns : Rising(queued[c])

Ordered == /\ Rising(wire)
           /\ \A c \in Conns : Rising(queued[c]) /\ Below(queued[c], wire)

LEMMA Elements ==
  ASSUME NEW n \in Nat, NEW s \in Seq(1..n), NEW x, NEW i \in DOMAIN Append(s, x)
  PROVE  Append(s, x)[i] = x \/ (i \in DOMAIN s /\ Append(s, x)[i] = s[i])
<1>1. /\ Len(s) \in Nat /\ DOMAIN s = 1..Len(s)
      /\ DOMAIN Append(s, x) = 1..(Len(s) + 1)
      /\ Append(s, x)[Len(s) + 1] = x
      /\ \A k \in 1..Len(s) : Append(s, x)[k] = s[k]
  OBVIOUS
<1>2. i = Len(s) + 1 \/ i \in 1..Len(s)
  BY <1>1
<1>3. CASE i = Len(s) + 1
  BY <1>1, <1>3
<1>4. CASE i \in 1..Len(s)
  BY <1>1, <1>4
<1> QED BY <1>2, <1>3, <1>4

LEMMA RisingAppend ==
  ASSUME NEW n \in Nat, NEW s \in Seq(1..n), NEW x \in Nat, Rising(s),
         \A i \in DOMAIN s : s[i] < x
  PROVE  Rising(Append(s, x))
<1>1. /\ Len(s) \in Nat /\ DOMAIN s = 1..Len(s)
      /\ DOMAIN Append(s, x) = 1..(Len(s) + 1)
      /\ Append(s, x)[Len(s) + 1] = x
      /\ \A i \in 1..Len(s) : Append(s, x)[i] = s[i]
  OBVIOUS
<1> QED BY <1>1 DEF Rising

LEMMA OrderedStep == Typed /\ Ordered /\ [Next]_vars => Ordered'
<1> SUFFICES ASSUME Typed, Ordered, [Next]_vars PROVE Ordered'
  OBVIOUS
<1> DEFINE n == Len(published)
<1>0. /\ n \in Nat /\ published \in Seq(Users) /\ wire \in Seq(1..n)
      /\ queued \in [Conns -> Seq(1..n)]
  BY DEF Typed, TypeOK
<1>1. ASSUME UNCHANGED <<wire, queued>> PROVE Ordered'
  BY <1>1 DEF Ordered, Rising, Below
<1>2. ASSUME NEW c \in Conns, Register(c) PROVE Ordered'
  <2>1. wire' = wire /\ queued' = [queued EXCEPT ![c] = <<>>]
    BY <1>2 DEF Register
  <2>2. \A d \in Conns : queued'[d] = queued[d] \/ queued'[d] = <<>>
    BY <1>0, <2>1
  <2> QED BY <2>1, <2>2 DEF Ordered, Rising, Below
<1>3. ASSUME Lost \/ Stop PROVE Ordered'
  <2>1. wire' = <<>> /\ queued' = queued
    BY <1>3 DEF Lost, Stop
  <2> QED BY <2>1 DEF Ordered, Rising, Below
<1>4. ASSUME Dispatch PROVE Ordered'
  <2>1. /\ wire # <<>> /\ wire' = Tail(wire)
        /\ \A c \in Conns : queued'[c] = queued[c] \/ queued'[c] = Append(queued[c], Head(wire))
    BY <1>4 DEF Dispatch
  <2>2. /\ Len(wire) \in Nat \ {0} /\ DOMAIN wire = 1..Len(wire)
        /\ Head(wire) = wire[1] /\ wire[1] \in 1..n
        /\ DOMAIN wire' = 1..(Len(wire) - 1)
        /\ \A i \in DOMAIN wire' : /\ i \in Nat /\ i + 1 \in DOMAIN wire /\ 1 < i + 1
                                   /\ wire'[i] = wire[i + 1]
    BY <1>0, <2>1
  <2>3. Rising(wire')
    BY <2>2 DEF Ordered, Rising
  <2>4. \A j \in DOMAIN wire' : wire[1] < wire'[j]
    BY <2>2 DEF Ordered, Rising
  <2>5. ASSUME NEW c \in Conns PROVE Rising(queued'[c]) /\ Below(queued'[c], wire')
    <3> DEFINE q == queued[c]
    <3>1. q \in Seq(1..n) /\ Rising(q) /\ Below(q, wire)
      BY <1>0 DEF Ordered
    <3>2. Below(q, wire')
      BY <2>2, <3>1 DEF Below
    <3>3. CASE queued'[c] = q
      BY <3>1, <3>2, <3>3
    <3>4. CASE queued'[c] = Append(q, Head(wire))
      <4>1. \A i \in DOMAIN q : q[i] < wire[1]
        BY <2>2, <3>1 DEF Below
      <4>2. Rising(Append(q, wire[1]))
        BY <1>0, <2>2, <3>1, <4>1, RisingAppend
      <4>3. \A i \in DOMAIN Append(q, wire[1]) :
               \/ Append(q, wire[1])[i] = wire[1]
               \/ i \in DOMAIN q /\ Append(q, wire[1])[i] = q[i]
        BY <1>0, <3>1, Elements
      <4>4. Below(Append(q, wire[1]), wire')
        BY <2>4, <3>2, <4>3 DEF Below
      <4> QED BY <2>2, <3>4, <4>2, <4>4
    <3> QED BY <2>1, <3>3, <3>4
  <2> QED BY <2>3, <2>5 DEF Ordered
<1>5. ASSUME NEW u \in Users, Publish(u) PROVE Ordered'
  <2>1. queued' = queued /\ (wire' = wire \/ wire' = Append(wire, n + 1))
    BY <1>5 DEF Publish
  <2>2. CASE wire' = wire
    BY <1>1, <2>1, <2>2
  <2>3. CASE wire' = Append(wire, n + 1)
    <3>1. n + 1 \in Nat /\ \A i \in DOMAIN wire : wire[i] < n + 1
      BY <1>0
    <3>2. Rising(wire')
      BY <1>0, <2>3, <3>1, RisingAppend DEF Ordered
    <3>3. \A j \in DOMAIN wire' : wire'[j] = n + 1 \/ (j \in DOMAIN wire /\ wire'[j] = wire[j])
      BY <1>0, <2>3, Elements
    <3>4. ASSUME NEW c \in Conns PROVE Below(queued[c], wire')
      <4>1. queued[c] \in Seq(1..n) /\ Below(queued[c], wire)
        BY <1>0 DEF Ordered
      <4>2. \A i \in DOMAIN queued[c] : queued[c][i] < n + 1
        BY <1>0, <4>1
      <4> QED BY <3>3, <4>1, <4>2 DEF Below
    <3> QED BY <2>1, <3>2, <3>4 DEF Ordered
  <2> QED BY <2>1, <2>2, <2>3
<1>6. ASSUME NEW c \in Conns, Unregister(c) \/ Resume(c) \/ TimesOut(c) PROVE Ordered'
  BY <1>1, <1>6 DEF Unregister, Resume, TimesOut, events
<1>8. ASSUME NEW u \in Users, Obey(u) PROVE Ordered'
  BY <1>1, <1>8 DEF Obey, events
<1>7. ASSUME \/ Start \/ Connect \/ Subscribed \/ TakeRequest \/ Applied \/ RequestsDone
             \/ NoMessage \/ SleepDone \/ UNCHANGED vars
      PROVE  Ordered'
  BY <1>1, <1>7 DEF Start, Connect, Subscribed, TakeRequest, Applied, RequestsDone,
                    NoMessage, SleepDone, vars, events
<1> QED BY <1>2, <1>3, <1>4, <1>5, <1>6, <1>7, <1>8 DEF Next, Handler, Run

(* Events stay in the order of their publication and come once.            *)
THEOREM EventsInOrder == Spec => []QueuedInOrder
<1>1. Init => Ordered
  BY DEF Init, Ordered, Rising, Below
<1>2. Ordered => QueuedInOrder
  BY DEF Ordered, QueuedInOrder
<1> QED BY <1>1, <1>2, InitTyped, TypedStep, OrderedStep, PTL DEF Spec
==============================================================================
