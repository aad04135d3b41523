--------------------------------- MODULE Sync ---------------------------------
(***************************************************************************)
(* list_messages of app/services/chat.py: a client pages through one       *)
(* conversation by cursor, back with before= and forward with after=,      *)
(* while send_message goes on.  The cursor of a message is its             *)
(* (created_at, id), chosen before the INSERT; the message is visible only *)
(* after the COMMIT, so messages do not appear in the order of cursors.    *)
(***************************************************************************)
EXTENDS Naturals, FiniteSets, Sequences, SequencesExt

CONSTANTS
    MsgIds,   \* message ids, ordered as uuid7 values are
    Limit,    \* the page size the client asks for
    MaxTime,  \* bound: the clock stops here
    None

ASSUME SyncAssumption == /\ MsgIds \subseteq Nat /\ IsFiniteSet(MsgIds)
                         /\ Limit \in Nat \ {0} /\ MaxTime \in Nat
                         /\ None \notin MsgIds

VARIABLES
    clock,
    stage,     \* of each message: none, inserting, committed or rolled back
    created,   \* its created_at
    before,    \* history: what was committed when its created_at was chosen
    timeline,  \* what the client has received, pages put end to end
    older,     \* the cursor it loads older messages with, None: no more
    newer,     \* the cursor it syncs with, None: it has seen no message
    caught,    \* whether its last sync said has_more = false
    visible,   \* history: what was committed when it read its first page
    base       \* history: what was committed when it last synced

rows   == <<clock, stage, created, before>>
client == <<timeline, older, newer, caught, visible, base>>
vars   == <<rows, client>>

Stages == {"none", "inserting", "committed", "undone"}

Init ==
    /\ clock = 0
    /\ stage = [m \in MsgIds |-> "none"]
    /\ created = [m \in MsgIds |-> 0]
    /\ before = [m \in MsgIds |-> {}]
    /\ timeline = <<>>
    /\ older = None
    /\ newer = None
    /\ caught = FALSE
    /\ visible = {}
    /\ base = {}

Committed == {m \in MsgIds : stage[m] = "committed"}

-----------------------------------------------------------------------------
(* send_message, as far as a reader can tell: the id and created_at are    *)
(* chosen, later the transaction ends.  It lasts longer than the           *)
(* microsecond that is the clock's resolution.                             *)

Insert(m) ==
    /\ stage[m] = "none"
    /\ stage' = [stage EXCEPT ![m] = "inserting"]
    /\ created' = [created EXCEPT ![m] = clock]
    /\ before' = [before EXCEPT ![m] = Committed]
    /\ UNCHANGED <<clock, client>>

End(m, s) ==
    /\ stage[m] = "inserting"
    /\ created[m] < clock
    /\ stage' = [stage EXCEPT ![m] = s]
    /\ UNCHANGED <<clock, created, before, client>>

Tick ==
    /\ clock < MaxTime
    /\ clock' = clock + 1
    /\ UNCHANGED <<stage, created, before, client>>

-----------------------------------------------------------------------------
(* list_messages *)

(* (created_at, id) < (created_at, id), compared as SQL compares rows. *)
KeyLess(m, n) == \/ created[m] < created[n]
                 \/ created[m] = created[n] /\ m < n

Comes(order, m, n) == IF order = "asc" THEN KeyLess(m, n) ELSE KeyLess(n, m)

(* MUTANT: _key(cursor) <= _MESSAGE_KEY *)
FromCursor(c) == {m \in Committed : m = c \/ KeyLess(c, m)}

After(c)  == {m \in Committed : KeyLess(c, m)}
Before(c) == {m \in Committed : KeyLess(m, c)}

(* q is what SELECT returns of the rows S: in order, at most n, and none   *)
(* is left out unless n others come before it.                             *)
IsResult(q, S, n, order) ==
    /\ \A i \in DOMAIN q : q[i] \in S
    /\ \A i, j \in DOMAIN q : i < j => Comes(order, q[i], q[j])
    /\ \A m \in S : \/ \E i \in DOMAIN q : q[i] = m
                    \/ Len(q) = n /\ \A i \in DOMAIN q : Comes(order, q[i], m)

Select(S, n, order) == {q \in BoundedSeq(MsgIds, n) : IsResult(q, S, n, order)}

(* MUTANT: stmt.limit(limit), so that there never are more rows than asked. *)
FullPage(S, order) ==
    {[items |-> q, has_more |-> Len(q) > Limit] : q \in Select(S, Limit, order)}

(* stmt.limit(limit + 1): one row more than asked tells has_more.  There   *)
(* is exactly one such page.                                               *)
Page(S, order) ==
    {[items    |-> SubSeq(q, 1, IF Len(q) > Limit THEN Limit ELSE Len(q)),
      has_more |-> Len(q) > Limit] : q \in Select(S, Limit + 1, order)}

(* next_cursor without after=: the oldest message of the page. *)
NextOlder(p) == IF p.has_more THEN Last(p.items) ELSE None

(* MUTANT: next_cursor as without after=, None on the last page. *)
NewerIfMore(p) == IF p.has_more THEN Last(p.items) ELSE None

(* next_cursor with after=: the newest message of the page, or as it was. *)
NextNewer(p) == IF p.items # <<>> THEN Last(p.items) ELSE newer

(* The first page: newest first, neither before= nor after=.  While the    *)
(* conversation is empty the client has no cursor and asks again.          *)
Open ==
    /\ newer = None
    /\ timeline = <<>>
    /\ \E p \in Page(Committed, "desc") :
       /\ timeline' = Reverse(p.items)
       /\ older' = NextOlder(p)
       /\ newer' = IF p.items # <<>> THEN Head(p.items) ELSE None
    /\ visible' = Committed
    /\ UNCHANGED <<rows, caught, base>>

LoadOlder ==
    /\ older # None
    /\ \E p \in Page(Before(older), "desc") :
       /\ timeline' = Reverse(p.items) \o timeline
       /\ older' = NextOlder(p)
    /\ UNCHANGED <<rows, newer, caught, visible, base>>

(* MUTANT: after= without its own order: newest first. *)
SyncDescending ==
    /\ newer # None
    /\ \E p \in Page(After(newer), "desc") :
       /\ timeline' = timeline \o Reverse(p.items)
       /\ newer' = IF p.items # <<>> THEN Head(p.items) ELSE newer
       /\ caught' = ~p.has_more
    /\ base' = Committed
    /\ UNCHANGED <<rows, older, visible>>

Sync ==
    /\ newer # None
    /\ \E p \in Page(After(newer), "asc") :
       /\ timeline' = timeline \o p.items
       /\ newer' = NextNewer(p)
       /\ caught' = ~p.has_more
    /\ base' = Committed
    /\ UNCHANGED <<rows, older, visible>>

-----------------------------------------------------------------------------
Next == \/ \E m \in MsgIds : Insert(m) \/ End(m, "committed") \/ End(m, "undone")
        \/ Tick
        \/ Open \/ LoadOlder \/ Sync

Spec == Init /\ [][Next]_vars

-----------------------------------------------------------------------------
(* Properties *)

Got == {timeline[i] : i \in DOMAIN timeline}

(* Every variable has its type, the cursors are those of the ends of what  *)
(* the client has, and it never loses the one it syncs with.               *)
TypeOK ==
    /\ clock \in 0..MaxTime
    /\ stage \in [MsgIds -> Stages]
    /\ created \in [MsgIds -> 0..MaxTime]
    /\ before \in [MsgIds -> SUBSET MsgIds]
    /\ timeline \in Seq(MsgIds)
    /\ older \in {None} \cup (IF timeline = <<>> THEN {} ELSE {Head(timeline)})
    /\ newer = (IF timeline = <<>> THEN None ELSE Last(timeline))
    /\ caught \in BOOLEAN
    /\ visible \subseteq Committed /\ base \subseteq Committed

(* "replays ... in order": pages put end to end are the conversation in    *)
(* the order of its cursors, each message once, whatever commits between   *)
(* two pages.                                                              *)
TimelineOrdered ==
    \A i, j \in DOMAIN timeline : i < j => KeyLess(timeline[i], timeline[j])

(* Paging back until has_more is false, and syncing, loads everything that *)
(* was there when the client began.                                        *)
HistoryComplete == (newer # None /\ older = None) => visible \subseteq Got

(* Whether the client has paged back as far as message m. *)
Loaded(m) == newer # None /\ (older = None \/ KeyLess(older, m))

(* What a client that has caught up lacks can only be a message whose      *)
(* transaction overlapped that of a newer one it already has: a message    *)
(* sent after the last one was committed is never skipped.                 *)
OnlyOverlapsMissed ==
    caught => \A m \in base \ Got :
        Loaded(m) => \E n \in Got :
            KeyLess(m, n) /\ n \notin before[m] /\ m \notin before[n]

(* README: "A recipient who is offline entirely misses nothing:            *)
(* GET ...?after=<cursor> replays everything committed since their         *)
(* last-seen message, in order".                                           *)
ReplaysEverything == caught => \A m \in base : Loaded(m) => m \in Got
==============================================================================
