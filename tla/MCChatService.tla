---------------------------- MODULE MCChatService ----------------------------
(***************************************************************************)
(* A small instance of ChatService: alice sends bob two messages, retries  *)
(* both, once with other content under a used key and once with a body     *)
(* that is too long; bob writes to himself, and his devices confirm and    *)
(* read; alice asks for what is not hers.                                  *)
(***************************************************************************)
EXTENDS ChatService, TLC

CONSTANTS alice, bob, k1, k2, text, photo, long

Send(u, v, k, c) == [op |-> "send", user |-> u, to |-> v, cmid |-> k, content |-> c]
Delivered(u, m)  == [op |-> "delivered", user |-> u, msg |-> m]
Read(u, v, m)    == [op |-> "read", user |-> u, conv |-> {u, v}, msg |-> m]

MCRequests ==
    {Send(alice, bob, k1, text), Send(alice, bob, k1, photo), Send(alice, bob, k2, text),
     Send(alice, bob, k1, long), Send(bob, bob, k1, text)}
    \cup {Delivered(u, 1) : u \in {alice, bob}}
    \cup {Read(bob, alice, m) : m \in {1, 2}}

(* Few enough for the liveness run, with every kind of wait in it. *)
MCLiveRequests ==
    {Send(alice, bob, k, text) : k \in {k1, k2}}
    \cup {Delivered(bob, 1), Read(bob, alice, 2)}

(* One message, confirmed on one device and read on another. *)
MCReceiptRequests == {Send(alice, bob, k1, text), Delivered(bob, 1), Read(bob, alice, 1)}

Symmetry == Permutations(Sessions)
==============================================================================
