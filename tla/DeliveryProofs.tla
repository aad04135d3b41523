---------------------------- MODULE DeliveryProofs ----------------------------
(***************************************************************************)
(* Proofs about Delivery, for any number of users, sockets, messages,      *)
(* repeated publications, losses and timeouts: it behaves as a hub and as  *)
(* an outbox, and a client that has synced after hello misses no message   *)
(* but what Redis drops and what overlapped a newer one.                   *)
(***************************************************************************)
EXTENDS Delivery, HubProofs

(* Every step of the composition is a step of the hub, or leaves it alone. *)
LEMMA HubSteps ==
  ASSUME [DeliveryNext]_all
  PROVE  [Next]_vars
<1>1. ASSUME NEW x \in Rows, Begin(x) \/ Commit(x) PROVE UNCHANGED vars
  BY <1>1 DEF Begin, Commit
<1>2. ASSUME NEW x \in Rows, Relay(x) PROVE Next
  <2>1. Topic[x] \in Users /\ Publish(Topic[x])
    BY <1>2, DeliveryAssumption DEF Relay
  <2> QED BY <2>1 DEF Next
<1>3. ASSUME NEW c \in Conns, CatchUp(c) PROVE UNCHANGED vars
  BY <1>3 DEF CatchUp
<1>4. ASSUME NEW c \in Conns, Connects(c) PROVE Next
  BY <1>4 DEF Connects, Next, Handler
<1>5. ASSUME Mark PROVE UNCHANGED vars
  BY <1>5 DEF Mark
<1>6. ASSUME HubStep PROVE Next
  BY <1>6 DEF HubStep, Next, Handler
<1> QED BY <1>1, <1>2, <1>3, <1>4, <1>5, <1>6 DEF DeliveryNext, all

(* ... and a step of the outbox, or leaves that alone.                     *)
LEMMA OutboxSteps ==
  ASSUME [DeliveryNext]_all
  PROVE  [O!Next]_(O!vars)
<1>1. ASSUME NEW x \in Rows, Commit(x) \/ Relay(x) PROVE O!Next
  BY <1>1 DEF Commit, Relay, O!Next
<1>2. ASSUME Mark PROVE O!Next
  BY <1>2 DEF Mark, O!Next
<1>3. ASSUME \/ HubStep \/ UNCHANGED all
             \/ \E x \in Rows : Begin(x)
             \/ \E c \in Conns : CatchUp(c) \/ Connects(c)
      PROVE  UNCHANGED O!vars
  BY <1>3 DEF HubStep, Begin, CatchUp, Connects, outbox, all, O!vars
<1> QED BY <1>1, <1>2, <1>3 DEF DeliveryNext

(* The composition changes nothing about what its parts may do: what is    *)
(* proved of the hub and of the outbox holds of it.                        *)
THEOREM Composes == DeliverySpec => Spec /\ O!Spec
<1>1. DeliveryInit => Init /\ O!Init
  BY DEF DeliveryInit
<1> QED
  BY <1>1, HubSteps, OutboxSteps, PTL DEF DeliverySpec, Spec, O!Spec

(* ... for one, no handler waits for a future nobody holds, and the        *)
(* connection to Redis heads for the channels of the users connected here. *)
THEOREM HubHolds == DeliverySpec => [](TypeOK /\ WaitersServed /\ SubscriptionsFollow)
BY Composes, TypeCorrect, NobodyForgotten, SubscriptionsCorrect, PTL

-----------------------------------------------------------------------------
(* What a client has been told *)

OutboxTyped == /\ row \in [Rows -> {"absent", "pending", "published"}]
               /\ pushed \in [Rows -> Nat]
               /\ \A x \in Rows : /\ row[x] = "published" => pushed[x] >= 1
                                  /\ pushed[x] >= 1 => row[x] # "absent"

(* Each event carries a row. *)
CarriedTyped == carried \in Seq(Rows) /\ Len(carried) = Len(published)

(* A message that is begun is the newest, and later committed. *)
SendsTyped == /\ begun \subseteq Rows /\ Committed \subseteq begun
              /\ before \in [Rows -> SUBSET Committed]
              /\ \A x \in Rows : \A y \in before[x] : y < x

(* The cursor of a client is that of a message it has. *)
ClientTyped == /\ caughtUp \subseteq Conns
               /\ cursor \in [Conns -> Nat]
               /\ seen \in [Conns -> SUBSET Committed]
               /\ \A c \in Conns : cursor[c] = 0 \/ cursor[c] \in seen[c]

(* What the syncs have passed over was not committed when they did. *)
PassesOver(c, x) ==
    (x \in begun /\ Topic[x] = UserOf[c] /\ x < cursor[c] /\ x \notin seen[c])
    => Overlapped(c, x)

PassedOver == \A c \in Conns : \A x \in Rows : PassesOver(c, x)

(* A client that synced to the end over its open socket has, or was sent,  *)
(* or has passed over every row Redis was told of: before the sync it was  *)
(* committed, and after it the socket is due it.                           *)
Covers(c, x) == (Topic[x] = UserOf[c] /\ pushed[x] >= 1)
                => x \in seen[c] \/ Sent(c, x) # {} \/ x < cursor[c]

Covered == \A c \in caughtUp : /\ state[c] # "registering"
                               /\ state[c] = "open" => \A x \in Rows : Covers(c, x)

DInv == /\ Typed /\ DueReached
        /\ OutboxTyped /\ CarriedTyped /\ SendsTyped /\ ClientTyped
        /\ PassedOver /\ Covered

LEMMA OutboxStep == OutboxTyped /\ [O!Next]_(O!vars) => OutboxTyped'
<1> SUFFICES ASSUME OutboxTyped, [O!Next]_(O!vars) PROVE OutboxTyped'
  OBVIOUS
<1>1. ASSUME NEW x \in Rows, O!Commit(x) PROVE OutboxTyped'
  BY <1>1 DEF OutboxTyped, O!Commit
<1>2. ASSUME NEW x \in Rows, O!Push(x) PROVE OutboxTyped'
  BY <1>2 DEF OutboxTyped, O!Push
<1>3. ASSUME NEW X \in SUBSET Rows, O!Mark(X) PROVE OutboxTyped'
  BY <1>3 DEF OutboxTyped, O!Mark, O!Told
<1>4. CASE UNCHANGED O!vars
  BY <1>4 DEF OutboxTyped, O!vars
<1> QED BY <1>1, <1>2, <1>3, <1>4 DEF O!Next

(* What is committed stays so.                                             *)
LEMMA CommittedGrows ==
  ASSUME OutboxTyped, [O!Next]_(O!vars)
  PROVE  Committed \subseteq Committed'
<1>1. ASSUME NEW x \in Rows, O!Commit(x) PROVE Committed \subseteq Committed'
  BY <1>1 DEF OutboxTyped, O!Commit, Committed
<1>2. ASSUME NEW x \in Rows, O!Push(x) PROVE Committed \subseteq Committed'
  BY <1>2 DEF O!Push, Committed
<1>3. ASSUME NEW X \in SUBSET Rows, O!Mark(X) PROVE Committed \subseteq Committed'
  BY <1>3 DEF OutboxTyped, O!Mark, O!Told, Committed
<1>4. CASE UNCHANGED O!vars
  BY <1>4 DEF O!vars, Committed
<1> QED BY <1>1, <1>2, <1>3, <1>4 DEF O!Next

(* HubStep opens only sockets that were waiting to be, and registers none. *)
LEMMA HubStepQuiet ==
  ASSUME HubStep, Typed
  PROVE  /\ due' = due /\ published' = published
         /\ \A c \in Conns : /\ state'[c] = "open" => state[c] \in {"open", "registering"}
                             /\ state'[c] = "registering" => state[c] = "registering"
<1>1. ASSUME NEW d \in Conns, Unregister(d) \/ Resume(d) \/ TimesOut(d)
      PROVE  /\ due' = due /\ published' = published
             /\ \A c \in Conns : /\ state'[c] = "open" => state[c] \in {"open", "registering"}
                                 /\ state'[c] = "registering" => state[c] = "registering"
  <2>1. state \in [Conns -> States]
    BY DEF Typed, TypeOK
  <2>2. CASE Unregister(d)
    BY <2>1, <2>2 DEF Unregister, Goto, events
  <2>3. CASE Resume(d)
    BY <2>1, <2>3 DEF Resume, Goto, events
  <2>4. CASE TimesOut(d)
    BY <2>1, <2>4 DEF TimesOut, events
  <2> QED BY <1>1, <2>2, <2>3, <2>4
<1>2. ASSUME Start \/ Run \/ Lost \/ Stop
      PROVE  UNCHANGED <<due, published, state>>
  BY <1>2 DEF Start, Run, Lost, Stop, Connect, Subscribed, TakeRequest, Applied, RequestsDone,
              Dispatch, NoMessage, SleepDone, socket, events
<1>3. ASSUME NEW u \in Users, Obey(u) PROVE UNCHANGED <<due, published, state>>
  BY <1>3 DEF Obey, socket, events
<1> QED BY <1>1, <1>2, <1>3 DEF HubStep

(* What is published is due to the sockets that are open.                  *)
LEMMA RelayedStep ==
  ASSUME DInv, NEW x \in Rows, Relay(x)
  PROVE  CarriedTyped' /\ Covered'
<1> DEFINE f == Len(published) + 1
           u == Topic[x]
<1>1. /\ carried' = Append(carried, x) /\ published' = Append(published, u)
      /\ pushed' = [pushed EXCEPT ![x] = @ + 1] /\ state' = state
      /\ due' = [d \in Conns |-> IF d \in local[u] /\ state[d] = "open"
                                 THEN due[d] \cup {f} ELSE due[d]]
      /\ UNCHANGED <<caughtUp, seen, cursor>>
  BY DEF Relay, Publish, O!Push, client, socket
<1>2. /\ published \in Seq(Users) /\ Len(published) \in Nat /\ u \in Users
      /\ \A d \in Conns : due[d] \subseteq 1..Len(published)
      /\ carried \in Seq(Rows) /\ Len(carried) = Len(published)
  BY DeliveryAssumption DEF DInv, CarriedTyped, Typed, TypeOK
<1>3. CarriedTyped'
  BY <1>1, <1>2 DEF CarriedTyped
<1>4. carried'[f] = x /\ \A e \in 1..Len(published) : carried'[e] = carried[e]
  BY <1>1, <1>2
<1>5. ASSUME NEW c \in caughtUp, state[c] = "open", NEW y \in Rows
      PROVE  Covers(c, y)'
  <2>1. c \in Conns /\ Covers(c, y)
    BY <1>5 DEF DInv, ClientTyped, Covered
  <2>2. CASE y = x
    <3>1. SUFFICES ASSUME Topic[y] = UserOf[c] PROVE Sent(c, y)' # {}
      BY DEF Covers
    <3>2. c \in local[u]
      BY <1>2, <1>5, <2>1, <2>2, <3>1 DEF DInv, Typed, TypeOK
    <3>3. f \in due'[c]
      BY <1>1, <1>5, <2>1, <3>2
    <3> QED BY <1>4, <2>2, <3>3 DEF Sent
  <2>3. CASE y # x
    <3>1. pushed'[y] = pushed[y]
      BY <1>1, <2>3 DEF DInv, OutboxTyped
    <3>2. due[c] \subseteq due'[c]
      BY <1>1, <2>1
    <3>3. Sent(c, y) \subseteq Sent(c, y)'
      BY <1>2, <1>4, <2>1, <3>2 DEF Sent
    <3> QED BY <1>1, <2>1, <3>1, <3>3 DEF Covers
  <2> QED BY <2>2, <2>3
<1>6. Covered'
  <2>1. \A c \in caughtUp : state'[c] # "registering"
    BY <1>1 DEF DInv, Covered
  <2>2. UNCHANGED <<state, caughtUp>>
    BY <1>1
  <2> QED BY <1>5, <2>1, <2>2 DEF Covered
<1> QED BY <1>3, <1>6

(* A page leaves nothing committed before its last row to be returned.     *)
LEMMA PageStep ==
  ASSUME DInv, NEW c \in Conns, CatchUp(c)
  PROVE  ClientTyped' /\ PassedOver' /\ Covered'
<1> PICK P \in SUBSET After(c) :
       /\ IsPage(P, After(c))
       /\ \/ P = {} /\ UNCHANGED cursor
          \/ \E m \in P : (\A x \in P : x <= m) /\ cursor' = [cursor EXCEPT ![c] = m]
       /\ seen' = [seen EXCEPT ![c] = @ \cup P]
       /\ caughtUp' = IF P = After(c) THEN caughtUp \cup {c} ELSE caughtUp
  BY DEF CatchUp
<1>1. /\ UNCHANGED <<state, due, carried, row, pushed, begun, before>>
      /\ state[c] = "open"
  BY DEF CatchUp, AfterHello, vars, socket, events, outbox, sends
<1>2. Committed' = Committed /\ \A d \in Conns, x \in Rows : Sent(d, x)' = Sent(d, x)
  BY <1>1 DEF Committed, Sent
<1>3. /\ caughtUp \subseteq Conns /\ cursor \in [Conns -> Nat]
      /\ seen \in [Conns -> SUBSET Committed]
      /\ \A d \in Conns : cursor[d] = 0 \/ cursor[d] \in seen[d]
      /\ Committed \subseteq Rows /\ Rows \subseteq Nat \ {0}
      /\ Committed \subseteq begun /\ begun \subseteq Rows
      /\ before \in [Rows -> SUBSET Committed]
      /\ \A x \in Rows : \A y \in before[x] : y < x
  BY DeliveryAssumption DEF DInv, ClientTyped, SendsTyped, Committed
<1>4. After(c) = {x \in Committed : Topic[x] = UserOf[c] /\ cursor[c] < x}
  BY DEF After
<1>5. /\ seen'[c] = seen[c] \cup P
      /\ \A d \in Conns \ {c} : seen'[d] = seen[d] /\ cursor'[d] = cursor[d]
  BY <1>3
<1>6. cursor'[c] = cursor[c] \/ cursor'[c] \in P
  BY <1>3
<1>7. P \subseteq Committed /\ cursor[c] <= cursor'[c] /\ \A x \in P : x <= cursor'[c]
  <2>1. P \subseteq Committed /\ \A x \in P : x \in Nat /\ cursor[c] < x
    BY <1>3, <1>4
  <2>2. CASE P = {} /\ UNCHANGED cursor
    BY <1>3, <2>2
  <2>3. ASSUME NEW m \in P, \A x \in P : x <= m, cursor' = [cursor EXCEPT ![c] = m]
        PROVE  cursor[c] <= cursor'[c] /\ \A x \in P : x <= cursor'[c]
    <3>1. cursor'[c] = m /\ cursor[c] \in Nat
      BY <1>3, <2>3
    <3> QED BY <2>1, <2>3, <3>1
  <2> QED BY <2>1, <2>2, <2>3
<1>8. ClientTyped'
  <2>1. cursor' \in [Conns -> Nat] /\ seen' \in [Conns -> SUBSET Committed]
    BY <1>3, <1>7
  <2>2. caughtUp' \subseteq Conns
    BY <1>3
  <2> QED BY <1>2, <1>3, <1>5, <1>6, <2>1, <2>2 DEF ClientTyped
<1>9. ASSUME NEW d \in Conns, NEW x \in Rows, Overlapped(d, x)
      PROVE  Overlapped(d, x)'
  BY <1>1, <1>5, <1>9 DEF Overlapped
<1>10. ASSUME NEW x \in Rows, x \in begun, Topic[x] = UserOf[c], x < cursor'[c], x \notin seen'[c]
       PROVE  Overlapped(c, x)'
  <2>1. CASE x < cursor[c]
    BY <1>5, <1>9, <1>10, <2>1 DEF DInv, PassedOver, PassesOver
  <2>2. CASE ~(x < cursor[c])
    <3> DEFINE m == cursor'[c]
    <3>1. x \in Nat /\ x # 0 /\ x # cursor[c] /\ cursor[c] \in Nat
      BY <1>3, <1>5, <1>10
    <3>2. cursor[c] < x
      BY <2>2, <3>1
    <3>3. m # cursor[c] /\ m \in P
      BY <1>3, <1>6, <1>10, <3>1, <3>2
    <3>4. x \notin P
      BY <1>5, <1>10
    <3>5. x \notin Committed
      <4> SUFFICES ASSUME x \in Committed PROVE FALSE
        OBVIOUS
      <4>1. x \in After(c) \ P
        BY <1>4, <1>10, <3>2, <3>4
      <4>2. m < x
        BY <3>3, <4>1 DEF IsPage
      <4> QED BY <1>3, <1>7, <1>10, <3>1, <3>3, <4>2
    <3>6. m \in Rows /\ m \in Nat /\ ~(m < x)
      BY <1>3, <1>7, <1>10, <3>1, <3>3
    <3>7. m \notin before[x]
      BY <1>3, <3>6
    <3>8. x \notin before[m]
      BY <1>3, <3>5, <3>6
    <3>9. m \in seen'[c]
      BY <1>5, <3>3
    <3> QED BY <1>1, <1>10, <3>7, <3>8, <3>9 DEF Overlapped
  <2> QED BY <2>1, <2>2
<1>11. PassedOver'
  <2>1. ASSUME NEW d \in Conns, d # c, NEW x \in Rows PROVE PassesOver(d, x)'
    BY <1>1, <1>5, <1>9, <2>1 DEF DInv, PassedOver, PassesOver
  <2>2. ASSUME NEW x \in Rows PROVE PassesOver(c, x)'
    BY <1>1, <1>10 DEF PassesOver
  <2> QED BY <2>1, <2>2 DEF PassedOver
<1>12. ASSUME NEW d \in Conns, NEW x \in Rows, Covers(d, x) PROVE Covers(d, x)'
  <2>1. x < cursor[d] => x < cursor'[d]
    BY <1>3, <1>5, <1>7, <1>8 DEF ClientTyped
  <2> QED BY <1>1, <1>2, <1>5, <1>12, <2>1 DEF Covers
<1>13. ASSUME NEW x \in Rows, P = After(c), Topic[x] = UserOf[c], pushed[x] >= 1
       PROVE  x \in seen'[c] \/ x < cursor'[c]
  <2>1. x \in Committed
    BY <1>13 DEF DInv, OutboxTyped, Committed
  <2>2. CASE cursor[c] < x
    BY <1>4, <1>5, <1>13, <2>1, <2>2
  <2>3. CASE x = cursor[c]
    BY <1>3, <1>5, <2>3
  <2>4. CASE x < cursor[c]
    BY <1>3, <1>7, <1>8, <2>4 DEF ClientTyped
  <2> QED BY <1>3, <2>2, <2>3, <2>4
<1>14. Covered'
  <2>1. ASSUME NEW d \in caughtUp', d # c \/ P # After(c)
        PROVE  state'[d] # "registering" /\ (state'[d] = "open" => \A x \in Rows : Covers(d, x)')
    <3>1. d \in caughtUp /\ d \in Conns
      BY <1>3, <2>1
    <3> QED BY <1>1, <1>12, <3>1 DEF DInv, Covered
  <2>2. ASSUME P = After(c)
        PROVE  state'[c] # "registering" /\ \A x \in Rows : Covers(c, x)'
    BY <1>1, <1>13, <2>2 DEF Covers
  <2> QED BY <2>1, <2>2 DEF Covered
<1> QED BY <1>8, <1>11, <1>14

(* A message is begun above every cursor.                                  *)
LEMMA BegunStep ==
  ASSUME DInv, NEW x \in Rows, Begin(x)
  PROVE  SendsTyped' /\ PassedOver'
<1>1. /\ x \notin begun /\ \A y \in Committed : y < x
      /\ begun' = begun \cup {x} /\ before' = [before EXCEPT ![x] = Committed]
      /\ UNCHANGED <<row, cursor, seen>>
  BY DEF Begin, outbox, client
<1>2. Committed' = Committed /\ Committed \subseteq Rows /\ Rows \subseteq Nat \ {0}
  BY <1>1, DeliveryAssumption DEF Committed
<1>3. SendsTyped'
  BY <1>1, <1>2 DEF DInv, SendsTyped
<1>4. ASSUME NEW c \in Conns, NEW y \in Rows, y # x, Overlapped(c, y)
      PROVE  Overlapped(c, y)'
  <2>1. x \notin seen[c] /\ before'[y] = before[y]
    BY <1>1, <1>4 DEF DInv, ClientTyped, SendsTyped
  <2>2. \A n \in seen[c] : before'[n] = before[n]
    BY <1>1, <1>2, <2>1 DEF DInv, ClientTyped, SendsTyped
  <2> QED BY <1>1, <1>4, <2>1, <2>2 DEF Overlapped
<1>5. ASSUME NEW c \in Conns PROVE ~(x < cursor[c])
  <2>1. cursor[c] = 0 \/ cursor[c] \in Committed
    BY DEF DInv, ClientTyped
  <2>2. cursor[c] = 0 \/ cursor[c] < x
    BY <1>1, <2>1
  <2>3. x \in Nat /\ cursor[c] \in Nat
    BY <1>2 DEF DInv, ClientTyped
  <2> QED BY <2>2, <2>3
<1>6. PassedOver'
  <2> SUFFICES ASSUME NEW c \in Conns, NEW y \in Rows PROVE PassesOver(c, y)'
    BY DEF PassedOver
  <2>1. CASE y = x
    BY <1>1, <1>5, <2>1 DEF PassesOver
  <2>2. CASE y # x
    BY <1>1, <1>4, <2>2 DEF DInv, PassedOver, PassesOver
  <2> QED BY <2>1, <2>2
<1> QED BY <1>3, <1>6

(* Whatever leaves the clients and what was begun alone keeps what follows *)
(* from them.                                                              *)
LEMMA ClientKept ==
  ASSUME DInv, UNCHANGED <<begun, before, cursor, seen>>, Committed \subseteq Committed',
         caughtUp' \subseteq caughtUp, Committed' \subseteq begun
  PROVE  SendsTyped' /\ ClientTyped' /\ PassedOver'
<1>1. SendsTyped'
  BY DEF DInv, SendsTyped
<1>2. ClientTyped'
  BY DEF DInv, ClientTyped
<1>3. PassedOver'
  BY DEF DInv, PassedOver, PassesOver, Overlapped
<1> QED BY <1>1, <1>2, <1>3

LEMMA DeliversStep ==
  ASSUME DInv, [DeliveryNext]_all
  PROVE  CarriedTyped' /\ SendsTyped' /\ ClientTyped' /\ PassedOver' /\ Covered'
<1> DEFINE Goal == CarriedTyped' /\ SendsTyped' /\ ClientTyped' /\ PassedOver' /\ Covered'
<1>1. Committed \subseteq Committed' /\ Committed \subseteq begun
  BY OutboxSteps, CommittedGrows DEF DInv, SendsTyped
<1>2. ASSUME UNCHANGED row PROVE Committed' = Committed
  BY <1>2 DEF Committed
<1>3. ASSUME NEW x \in Rows, Begin(x) PROVE Goal
  <2>1. /\ UNCHANGED <<state, due, published, carried, pushed, row>>
        /\ UNCHANGED <<caughtUp, cursor, seen>>
    BY <1>3 DEF Begin, vars, socket, events, outbox, client
  <2>2. CarriedTyped' /\ Covered'
    BY <2>1 DEF DInv, CarriedTyped, Covered, Covers, Sent
  <2>3. ClientTyped'
    BY <1>2, <2>1 DEF DInv, ClientTyped
  <2> QED BY <1>3, <2>2, <2>3, BegunStep
<1>4. ASSUME NEW x \in Rows, Commit(x) PROVE Goal
  <2>1. /\ UNCHANGED <<state, due, published, carried, pushed, begun, before>>
        /\ UNCHANGED <<caughtUp, cursor, seen>>
        /\ x \in begun /\ row' = [row EXCEPT ![x] = "pending"]
    BY <1>4 DEF Commit, O!Commit, vars, socket, events, sends, client
  <2>2. CarriedTyped' /\ Covered'
    BY <2>1 DEF DInv, CarriedTyped, Covered, Covers, Sent
  <2>3. Committed' \subseteq begun
    BY <1>1, <2>1 DEF Committed
  <2> QED BY <1>1, <2>1, <2>2, <2>3, ClientKept
<1>5. ASSUME NEW x \in Rows, Relay(x) PROVE Goal
  <2>1. UNCHANGED <<row, begun, before, caughtUp, cursor, seen>>
    BY <1>5 DEF Relay, O!Push, sends, client
  <2> QED BY <1>1, <1>2, <1>5, <2>1, RelayedStep, ClientKept
<1>6. ASSUME NEW c \in Conns, CatchUp(c) PROVE Goal
  <2>1. UNCHANGED <<published, carried, row, begun, before>>
    BY <1>6 DEF CatchUp, vars, events, outbox, sends
  <2>2. CarriedTyped' /\ SendsTyped'
    BY <1>2, <2>1 DEF DInv, CarriedTyped, SendsTyped
  <2> QED BY <1>6, <2>2, PageStep
<1>7. ASSUME NEW c \in Conns, Connects(c) PROVE Goal
  <2>1. /\ UNCHANGED <<published, carried, row, pushed, begun, before, cursor, seen>>
        /\ caughtUp' = caughtUp \ {c}
        /\ \A d \in Conns \ {c} : state'[d] = state[d] /\ due'[d] = due[d]
    BY <1>7 DEF Connects, Register, Goto, outbox, sends, DInv, Typed, TypeOK
  <2>2. CarriedTyped'
    BY <2>1 DEF DInv, CarriedTyped
  <2>3. Covered'
    BY <2>1 DEF DInv, ClientTyped, Covered, Covers, Sent
  <2> QED BY <1>1, <1>2, <2>1, <2>2, <2>3, ClientKept
<1>8. ASSUME Mark PROVE Goal
  <2>1. /\ UNCHANGED <<state, due, published, carried, pushed>>
        /\ UNCHANGED <<begun, before, caughtUp, cursor, seen>>
    BY <1>8 DEF Mark, O!Mark, vars, socket, events, sends, client
  <2>2. Committed' = Committed
    BY <1>8 DEF Mark, O!Mark, O!Told, Committed, DInv, OutboxTyped
  <2>3. CarriedTyped' /\ Covered'
    BY <2>1 DEF DInv, CarriedTyped, Covered, Covers, Sent
  <2> QED BY <1>1, <2>1, <2>2, <2>3, ClientKept
<1>9. ASSUME HubStep PROVE Goal
  <2>1. /\ UNCHANGED <<due, published, carried, row, pushed>>
        /\ UNCHANGED <<begun, before, caughtUp, cursor, seen>>
    BY <1>9, HubStepQuiet DEF DInv, HubStep, outbox, sends, client
  <2>2. \A c \in caughtUp : /\ state'[c] = "open" => state[c] = "open"
                            /\ state'[c] # "registering"
    BY <1>9, HubStepQuiet DEF DInv, ClientTyped, Covered
  <2>3. CarriedTyped' /\ Covered'
    BY <2>1, <2>2 DEF DInv, CarriedTyped, Covered, Covers, Sent
  <2> QED BY <1>1, <1>2, <2>1, <2>3, ClientKept
<1>10. CASE UNCHANGED all
  <2>1. /\ UNCHANGED <<state, due, published, carried, row, pushed>>
        /\ UNCHANGED <<begun, before, caughtUp, cursor, seen>>
    BY <1>10 DEF all, vars, socket, events, outbox, sends, client
  <2>2. CarriedTyped' /\ Covered'
    BY <2>1 DEF DInv, CarriedTyped, Covered, Covers, Sent
  <2> QED BY <1>1, <1>2, <2>1, <2>2, ClientKept
<1> QED BY <1>3, <1>4, <1>5, <1>6, <1>7, <1>8, <1>9, <1>10 DEF DeliveryNext

LEMMA Delivers == DeliverySpec => []DInv
<1>1. DeliveryInit => DInv
  <2>1. ASSUME DeliveryInit PROVE DInv
    <3>1. Typed
      BY <2>1, InitTyped DEF DeliveryInit
    <3>2. <<>> \in Seq(Rows) /\ Len(<<>>) = 0
      OBVIOUS
    <3>3. Committed = {}
      BY <2>1 DEF DeliveryInit, O!Init, Committed
    <3>4. OutboxTyped /\ DueReached /\ Covered
      BY <2>1 DEF DeliveryInit, Init, O!Init, OutboxTyped, DueReached, Covered
    <3>5. CarriedTyped
      BY <2>1, <3>2 DEF DeliveryInit, Init, CarriedTyped
    <3>6. SendsTyped /\ ClientTyped /\ PassedOver
      BY <2>1, <3>3 DEF DeliveryInit, SendsTyped, ClientTyped, PassedOver, PassesOver
    <3> QED BY <3>1, <3>4, <3>5, <3>6 DEF DInv
  <2> QED BY <2>1
<1>2. DInv /\ [DeliveryNext]_all => DInv'
  BY HubSteps, OutboxSteps, TypedStep, DueReachedStep, OutboxStep, DeliversStep DEF DInv
<1> QED
  BY <1>1, <1>2, PTL DEF DeliverySpec

(* How far "reconnect and sync" (hub.py:63) goes: what a client that has   *)
(* synced after hello lacks of the messages the outbox has done with,      *)
(* Redis dropped while its socket was open, or is on the way to it, or was *)
(* passed over by its syncs because it overlapped a newer message.         *)
THEOREM NothingFallsBetween == DeliverySpec => []NoHole
<1>1. DInv => NoHole
  <2> SUFFICES ASSUME DInv, NEW c \in caughtUp, NEW x \in Rows,
                      state[c] = "open", c \notin closing,
                      Topic[x] = UserOf[c], row[x] = "published", x \notin seen[c]
               PROVE  IF Sent(c, x) = {}
                      THEN Overlapped(c, x)
                      ELSE \A e \in Sent(c, x) :
                              e \in excused \/ Member(e, wire) \/ Member(e, queued[c])
    BY DEF NoHole
  <2>1. c \in Conns /\ x \in begun
    BY DEF DInv, ClientTyped, SendsTyped, Committed
  <2>2. Sent(c, x) # {} \/ x < cursor[c]
    BY DEF DInv, OutboxTyped, Covered, Covers
  <2>3. CASE Sent(c, x) = {}
    BY <2>1, <2>2, <2>3 DEF DInv, PassedOver, PassesOver
  <2>4. CASE Sent(c, x) # {}
    BY <2>1, <2>4 DEF DInv, DueReached, Sent
  <2> QED BY <2>3, <2>4
<1> QED
  BY Delivers, <1>1, PTL
===============================================================================
