---------------------------- MODULE MessageLedger ----------------------------
(***************************************************************************)
(* What the message service promises to its clients, without sessions,     *)
(* locks, transactions or retries: a ledger of accepted messages and, in   *)
(* the same atomic step as every change of the ledger, the announcements   *)
(* of that change ("a push is emitted if and only if the change is         *)
(* durable", app/services/chat.py).  ChatService implements it.            *)
(***************************************************************************)
EXTENDS Naturals

CONSTANTS Users, ClientIds, Contents, MsgIds, None

VARIABLES
    ledger,     \* the accepted messages, None where an id is unused
    announced   \* how often each event was announced to each user

vars == <<ledger, announced>>

Status == {"sent", "delivered", "read"}

Entry == [sender : Users, recipient : Users, cmid : ClientIds,
          content : Contents, status : Status]

EventTypes == {"message.new", "message.delivered", "message.read"}

Event == [type : EventTypes, msg : MsgIds, to : Users]

Ev(t, m, u) == [type |-> t, msg |-> m, to |-> u]

(* One more announcement of each event of E. *)
Announce(E) ==
    announced' = [e \in Event |-> IF e \in E THEN announced[e] + 1 ELSE announced[e]]

Init ==
    /\ ledger = [m \in MsgIds |-> None]
    /\ announced = [e \in Event |-> 0]

(* A message is accepted once per sender and client id, and announced to   *)
(* both ends.                                                              *)
Accept(m, e) ==
    /\ ledger[m] = None
    /\ e.status = "sent"
    /\ e.sender # e.recipient
    /\ \A n \in MsgIds : ledger[n] # None =>
           <<ledger[n].sender, ledger[n].cmid>> # <<e.sender, e.cmid>>
    /\ ledger' = [ledger EXCEPT ![m] = e]
    /\ Announce({Ev("message.new", m, e.recipient), Ev("message.new", m, e.sender)})

Deliver(m) ==
    /\ ledger[m] # None
    /\ ledger[m].status = "sent"
    /\ ledger' = [ledger EXCEPT ![m].status = "delivered"]
    /\ Announce({Ev("message.delivered", m, ledger[m].sender)})

(* One reader reads some unread messages of one sender at once. *)
Read(S, sender, reader) ==
    /\ S # {}
    /\ \A m \in S : /\ ledger[m] # None
                    /\ ledger[m].sender = sender
                    /\ ledger[m].recipient = reader
                    /\ ledger[m].status # "read"
    /\ ledger' = [m \in MsgIds |->
                    IF m \in S THEN [ledger[m] EXCEPT !.status = "read"] ELSE ledger[m]]
    /\ Announce({Ev("message.read", m, sender) : m \in S})

Next ==
    \/ \E m \in MsgIds, e \in Entry : Accept(m, e)
    \/ \E m \in MsgIds : Deliver(m)
    \/ \E S \in SUBSET MsgIds, sender, reader \in Users : Read(S, sender, reader)

Spec == Init /\ [][Next]_vars
==============================================================================
