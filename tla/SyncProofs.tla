------------------------------ MODULE SyncProofs ------------------------------
(***************************************************************************)
(* The properties of Sync for any number of messages, any page size and    *)
(* any order of commits: pages fit together, and what a catch-up passes    *)
(* over overlapped a message the client already has.                       *)
(***************************************************************************)
EXTENDS Sync, TLAPS

Has(s, m) == \E i \in DOMAIN s : s[i] = m

Ascending(s) == \A i, j \in DOMAIN s : i < j => KeyLess(s[i], s[j])

Types ==
    /\ clock \in Nat /\ clock \in 0..MaxTime
    /\ stage \in [MsgIds -> Stages]
    /\ created \in [MsgIds -> 0..MaxTime]
    /\ before \in [MsgIds -> SUBSET MsgIds]
    /\ timeline \in Seq(MsgIds)
    /\ caught \in BOOLEAN
    /\ visible \subseteq Committed /\ base \subseteq Committed
    /\ \A i \in DOMAIN timeline : timeline[i] \in Committed

(* A commit is later than its created_at, so that what was committed when  *)
(* a created_at was chosen has an earlier one.                             *)
Times ==
    /\ \A m \in Committed : created[m] < clock
    /\ \A m \in MsgIds : before[m] \subseteq Committed
    /\ \A m \in MsgIds : \A x \in before[m] : created[x] < created[m]

(* The cursors are those of the ends of the timeline.                      *)
Cursors ==
    /\ timeline = <<>> => newer = None /\ older = None /\ ~caught
    /\ timeline # <<>> => newer = timeline[Len(timeline)] /\ older \in {None, timeline[1]}

(* What was there at the first page and is not loaded is older than the    *)
(* cursor.                                                                 *)
Whole == timeline # <<>> =>
    \A m \in visible : Has(timeline, m) \/ (older # None /\ KeyLess(m, older))

(* What the client has passed over overlapped something it has.            *)
Overlaps(m) == \E i \in DOMAIN timeline :
    /\ KeyLess(m, timeline[i])
    /\ timeline[i] \notin before[m] /\ m \notin before[timeline[i]]

Skips == \A m \in Committed :
    (Loaded(m) /\ ~Has(timeline, m) /\ KeyLess(m, newer)) => Overlaps(m)

(* What it lacks after its last sync it has passed over.                   *)
CaughtUp == caught => \A m \in base : Has(timeline, m) \/ KeyLess(m, newer)

Inv == Types /\ Times /\ Cursors /\ TimelineOrdered /\ Whole /\ Skips /\ CaughtUp

-----------------------------------------------------------------------------
(* The order of the cursors, sequences and pages *)

LEMMA KeyOrder ==
  ASSUME Types
  PROVE  /\ \A a \in MsgIds : ~KeyLess(a, a)
         /\ \A a, b, c \in MsgIds : KeyLess(a, b) /\ KeyLess(b, c) => KeyLess(a, c)
         /\ \A a, b \in MsgIds : a = b \/ KeyLess(a, b) \/ KeyLess(b, a)
<1>1. \A m \in MsgIds : m \in Nat /\ created[m] \in Nat
  BY SyncAssumption DEF Types
<1> QED BY <1>1 DEF KeyLess

LEMMA PageFacts ==
  ASSUME NEW S \in SUBSET MsgIds, NEW order, NEW p \in Page(S, order)
  PROVE  /\ p.items \in Seq(MsgIds) /\ p.has_more \in BOOLEAN
         /\ \A i \in DOMAIN p.items : p.items[i] \in S
         /\ \A i, j \in DOMAIN p.items : i < j => Comes(order, p.items[i], p.items[j])
         /\ p.has_more => p.items # <<>>
         /\ \A m \in S : \/ Has(p.items, m)
                         \/ p.has_more /\ \A i \in DOMAIN p.items : Comes(order, p.items[i], m)
<1>1. PICK q \in Select(S, Limit + 1, order) :
        p = [items    |-> SubSeq(q, 1, IF Len(q) > Limit THEN Limit ELSE Len(q)),
             has_more |-> Len(q) > Limit]
  BY DEF Page
<1>2. q \in BoundedSeq(MsgIds, Limit + 1) /\ IsResult(q, S, Limit + 1, order)
  BY DEF Select
<1>3. PICK n \in 0..(Limit + 1) : q \in [1..n -> MsgIds]
  BY <1>2 DEF BoundedSeq, SeqOf
<1>4. q \in Seq(MsgIds) /\ Len(q) = n /\ DOMAIN q = 1..n /\ n \in Nat /\ Limit \in Nat \ {0}
  BY <1>3, SyncAssumption
<1> DEFINE k == IF n > Limit THEN Limit ELSE n
<1>5. p.items = SubSeq(q, 1, k) /\ p.has_more = (n > Limit)
  BY <1>1, <1>4
<1>6. k \in Nat /\ k <= n /\ (n > Limit => k = Limit /\ n = Limit + 1) /\ (~(n > Limit) => k = n)
  BY <1>3, <1>4
<1> HIDE DEF k
<1>7. p.items \in Seq(MsgIds) /\ Len(p.items) = k /\ DOMAIN p.items = 1..k
      /\ \A i \in 1..k : p.items[i] = q[i]
  BY <1>4, <1>5, <1>6
<1>8. \A m \in S : \/ Has(p.items, m)
                   \/ p.has_more /\ \A i \in DOMAIN p.items : Comes(order, p.items[i], m)
  <2> SUFFICES ASSUME NEW m \in S
               PROVE  \/ Has(p.items, m)
                      \/ p.has_more /\ \A i \in DOMAIN p.items : Comes(order, p.items[i], m)
    OBVIOUS
  <2>1. CASE \E i \in 1..n : q[i] = m
    <3>1. PICK i \in 1..n : q[i] = m
      BY <2>1
    <3>2. CASE i \in 1..k
      BY <3>1, <3>2, <1>7 DEF Has
    <3>3. CASE i \notin 1..k
      <4>1. n > Limit /\ \A j \in 1..k : j \in 1..n /\ j < i
        BY <3>3, <1>6
      <4>2. \A j \in 1..k : Comes(order, q[j], q[i])
        BY <4>1, <1>2, <1>4 DEF IsResult
      <4> QED BY <4>1, <4>2, <3>1, <1>5, <1>7
    <3> QED BY <3>2, <3>3
  <2>2. CASE ~ \E i \in 1..n : q[i] = m
    <3>1. n = Limit + 1 /\ \A i \in 1..n : Comes(order, q[i], m)
      BY <2>2, <1>2, <1>4 DEF IsResult
    <3>2. n > Limit /\ k = Limit /\ \A i \in 1..k : i \in 1..n
      BY <3>1, <1>4, <1>6
    <3>3. \A i \in 1..k : Comes(order, p.items[i], m)
      BY <3>1, <3>2, <1>7
    <3> QED BY <3>2, <3>3, <1>5, <1>7
  <2> QED BY <2>1, <2>2
<1>9. \A i \in 1..k : q[i] \in S
  BY <1>2, <1>4, <1>6 DEF IsResult
<1>10. \A i, j \in 1..k : i < j => Comes(order, q[i], q[j])
  BY <1>2, <1>4, <1>6 DEF IsResult
<1>11. p.has_more => p.items # <<>>
  BY <1>4, <1>5, <1>6, <1>7
<1> QED BY <1>5, <1>7, <1>8, <1>9, <1>10, <1>11

(* A page in descending order, turned round: what it leaves out is older   *)
(* than its first message.                                                 *)
LEMMA OlderPage ==
  ASSUME NEW S \in SUBSET MsgIds, NEW p \in Page(S, "desc")
  PROVE  LET r == Reverse(p.items) IN
         /\ r \in Seq(MsgIds) /\ Ascending(r) /\ p.has_more \in BOOLEAN
         /\ \A i \in DOMAIN r : r[i] \in S
         /\ p.has_more => r # <<>> /\ Last(p.items) = r[1]
         /\ p.items = <<>> <=> r = <<>>
         /\ r # <<>> => Head(p.items) = r[Len(r)]
         /\ \A m \in S : Has(r, m) \/ (p.has_more /\ KeyLess(m, r[1]))
<1> DEFINE q == p.items
           r == Reverse(q)
<1>1. /\ q \in Seq(MsgIds) /\ p.has_more \in BOOLEAN
      /\ \A i \in DOMAIN q : q[i] \in S
      /\ \A i, j \in DOMAIN q : i < j => KeyLess(q[j], q[i])
      /\ p.has_more => q # <<>>
      /\ \A m \in S : \/ Has(q, m)
                      \/ p.has_more /\ \A i \in DOMAIN q : KeyLess(m, q[i])
  BY PageFacts DEF Comes
<1> HIDE DEF q
<1>2. Len(q) \in Nat /\ DOMAIN q = 1..Len(q)
  BY <1>1
<1>3. r = [i \in 1..Len(q) |-> q[(Len(q) - i) + 1]]
  BY DEF Reverse
<1> HIDE DEF r
<1>4. \A i \in 1..Len(q) : r[i] = q[(Len(q) - i) + 1] /\ (Len(q) - i) + 1 \in 1..Len(q)
  BY <1>2, <1>3
<1>5. r \in Seq(MsgIds) /\ Len(r) = Len(q) /\ DOMAIN r = 1..Len(q)
  <2>1. r \in [1..Len(q) -> MsgIds]
    BY <1>1, <1>2, <1>3, <1>4
  <2> QED BY <2>1, <1>2
<1>6. Ascending(r)
  <2> SUFFICES ASSUME NEW i \in 1..Len(q), NEW j \in 1..Len(q), i < j
               PROVE  KeyLess(r[i], r[j])
    BY <1>5 DEF Ascending
  <2>1. (Len(q) - j) + 1 < (Len(q) - i) + 1
    BY <1>2
  <2> QED BY <2>1, <1>1, <1>2, <1>4
<1>7. \A i \in DOMAIN r : r[i] \in S
  BY <1>1, <1>2, <1>4, <1>5
<1>8. p.has_more => r # <<>> /\ Last(q) = r[1]
  <2> SUFFICES ASSUME p.has_more PROVE r # <<>> /\ Last(q) = r[1]
    OBVIOUS
  <2>1. q # <<>> /\ Len(q) \in Nat \ {0} /\ 1 \in 1..Len(q)
    BY <1>1, <1>2
  <2>2. r[1] = q[(Len(q) - 1) + 1] /\ (Len(q) - 1) + 1 = Len(q)
    BY <2>1, <1>4
  <2> QED BY <2>1, <2>2, <1>5 DEF Last
<1>9. q = <<>> <=> r = <<>>
  BY <1>1, <1>5
<1>10. r # <<>> => Head(q) = r[Len(r)]
  <2> SUFFICES ASSUME r # <<>> PROVE Head(q) = r[Len(r)]
    OBVIOUS
  <2>1. q # <<>> /\ Len(q) \in Nat \ {0} /\ Len(q) \in 1..Len(q)
    BY <1>1, <1>2, <1>5
  <2>2. r[Len(q)] = q[(Len(q) - Len(q)) + 1] /\ (Len(q) - Len(q)) + 1 = 1
    BY <2>1, <1>4
  <2> QED BY <2>1, <2>2, <1>1, <1>5
<1>11. \A m \in S : Has(r, m) \/ (p.has_more /\ KeyLess(m, r[1]))
  <2> SUFFICES ASSUME NEW m \in S, ~Has(r, m) PROVE p.has_more /\ KeyLess(m, r[1])
    OBVIOUS
  <2>1. ~Has(q, m)
    <3> SUFFICES ASSUME NEW i \in 1..Len(q), q[i] = m PROVE FALSE
      BY <1>2 DEF Has
    <3>1. (Len(q) - i) + 1 \in 1..Len(q) /\ (Len(q) - ((Len(q) - i) + 1)) + 1 = i
      BY <1>2
    <3>2. r[(Len(q) - i) + 1] = m
      BY <3>1, <1>4
    <3> QED BY <3>1, <3>2, <1>5 DEF Has
  <2>2. p.has_more /\ \A i \in DOMAIN q : KeyLess(m, q[i])
    BY <2>1, <1>1
  <2>3. r # <<>> /\ 1 \in DOMAIN r
    BY <2>2, <1>8, <1>5
  <2> QED BY <2>2, <2>3, <1>2, <1>4, <1>5
<1> QED BY <1>1, <1>5, <1>6, <1>7, <1>8, <1>9, <1>10, <1>11 DEF q, r

LEMMA NewerPage ==
  ASSUME NEW S \in SUBSET MsgIds, NEW p \in Page(S, "asc")
  PROVE  LET q == p.items IN
         /\ q \in Seq(MsgIds) /\ Ascending(q) /\ p.has_more \in BOOLEAN
         /\ \A i \in DOMAIN q : q[i] \in S
         /\ p.has_more => q # <<>>
         /\ \A m \in S : Has(q, m) \/ (p.has_more /\ KeyLess(q[Len(q)], m))
<1> DEFINE q == p.items
<1>1. /\ q \in Seq(MsgIds) /\ p.has_more \in BOOLEAN
      /\ \A i \in DOMAIN q : q[i] \in S
      /\ \A i, j \in DOMAIN q : i < j => KeyLess(q[i], q[j])
      /\ p.has_more => q # <<>>
      /\ \A m \in S : \/ Has(q, m)
                      \/ p.has_more /\ \A i \in DOMAIN q : KeyLess(q[i], m)
  BY PageFacts DEF Comes
<1>2. p.has_more => Len(q) \in DOMAIN q
  BY <1>1
<1> QED BY <1>1, <1>2 DEF Ascending

(* Two sequences put end to end.                                           *)
LEMMA Joined ==
  ASSUME NEW s \in Seq(MsgIds), NEW t \in Seq(MsgIds), Ascending(s), Ascending(t),
         \A i \in DOMAIN s, j \in DOMAIN t : KeyLess(s[i], t[j])
  PROVE  /\ s \o t \in Seq(MsgIds) /\ Ascending(s \o t)
         /\ \A m : Has(s \o t, m) <=> Has(s, m) \/ Has(t, m)
         /\ s # <<>> => s \o t # <<>> /\ (s \o t)[1] = s[1]
         /\ t # <<>> => s \o t # <<>> /\ (s \o t)[Len(s \o t)] = t[Len(t)]
         /\ s = <<>> => s \o t = t
         /\ t = <<>> => s \o t = s
<1> DEFINE u == s \o t
<1>1. /\ Len(s) \in Nat /\ DOMAIN s = 1..Len(s)
      /\ Len(t) \in Nat /\ DOMAIN t = 1..Len(t)
      /\ u \in Seq(MsgIds) /\ Len(u) = Len(s) + Len(t) /\ DOMAIN u = 1..(Len(s) + Len(t))
      /\ \A i \in 1..Len(s) : u[i] = s[i]
      /\ \A i \in 1..(Len(s) + Len(t)) : i > Len(s) => u[i] = t[i - Len(s)]
      /\ s = <<>> => u = t
      /\ t = <<>> => u = s
      /\ s # <<>> => Len(s) # 0
      /\ t # <<>> => Len(t) # 0
      /\ Len(u) # 0 => u # <<>>
  OBVIOUS
<1> HIDE DEF u
<1>2. Ascending(u)
  <2> SUFFICES ASSUME NEW i \in DOMAIN u, NEW j \in DOMAIN u, i < j PROVE KeyLess(u[i], u[j])
    BY DEF Ascending
  <2>1. CASE j <= Len(s)
    BY <2>1, <1>1 DEF Ascending
  <2>2. CASE i > Len(s)
    <3>1. i - Len(s) \in DOMAIN t /\ j - Len(s) \in DOMAIN t /\ i - Len(s) < j - Len(s)
      BY <2>2, <1>1
    <3>2. KeyLess(t[i - Len(s)], t[j - Len(s)])
      BY <3>1 DEF Ascending
    <3>3. i = Len(s) + (i - Len(s)) /\ j = Len(s) + (j - Len(s))
      BY <1>1
    <3>4. u[i] = t[i - Len(s)] /\ u[j] = t[j - Len(s)]
      BY <3>1, <3>3, <1>1
    <3> QED BY <3>2, <3>4
  <2>3. CASE i <= Len(s) /\ j > Len(s)
    <3>1. i \in DOMAIN s /\ j - Len(s) \in DOMAIN t
      BY <2>3, <1>1
    <3>2. u[i] = s[i] /\ u[j] = t[j - Len(s)]
      BY <2>3, <1>1
    <3> QED BY <3>1, <3>2
  <2> QED BY <2>1, <2>2, <2>3, <1>1
<1>3. ASSUME NEW m PROVE Has(u, m) <=> Has(s, m) \/ Has(t, m)
  <2>1. ASSUME NEW i \in DOMAIN u, u[i] = m PROVE Has(s, m) \/ Has(t, m)
    <3>1. CASE i <= Len(s)
      BY <2>1, <3>1, <1>1 DEF Has
    <3>2. CASE i > Len(s)
      <4>1. i - Len(s) \in DOMAIN t /\ t[i - Len(s)] = m
        BY <2>1, <3>2, <1>1
      <4> QED BY <4>1 DEF Has
    <3> QED BY <3>1, <3>2, <1>1
  <2>2. ASSUME NEW i \in DOMAIN s, s[i] = m PROVE Has(u, m)
    <3>1. i \in DOMAIN u /\ u[i] = m
      BY <2>2, <1>1
    <3> QED BY <3>1 DEF Has
  <2>3. ASSUME NEW i \in DOMAIN t, t[i] = m PROVE Has(u, m)
    <3>1. i + Len(s) \in DOMAIN u /\ i + Len(s) > Len(s) /\ (i + Len(s)) - Len(s) = i
      BY <1>1
    <3>2. u[i + Len(s)] = m
      BY <2>3, <3>1, <1>1
    <3> QED BY <3>1, <3>2 DEF Has
  <2> QED BY <2>1, <2>2, <2>3 DEF Has
<1>4. s # <<>> => u # <<>> /\ u[1] = s[1]
  BY <1>1
<1>5. t # <<>> => u # <<>> /\ u[Len(u)] = t[Len(t)]
  <2> SUFFICES ASSUME t # <<>> PROVE u # <<>> /\ u[Len(u)] = t[Len(t)]
    OBVIOUS
  <2>1. Len(u) \in 1..(Len(s) + Len(t)) /\ Len(u) > Len(s) /\ Len(u) - Len(s) = Len(t) /\ Len(u) # 0
    BY <1>1
  <2> QED BY <2>1, <1>1
<1> QED BY <1>1, <1>2, <1>3, <1>4, <1>5 DEF u

-----------------------------------------------------------------------------
(* What a sender does, as far as the client can tell                       *)

LEMMA RowStep ==
  ASSUME Inv, Types', Times', UNCHANGED client,
         \A x \in Committed : x \in Committed' /\ created'[x] = created[x] /\ before'[x] = before[x]
  PROVE  Inv'
<1> USE DEF Inv
<1>1. UNCHANGED <<timeline, older, newer, caught, visible, base>>
  BY DEF client
<1>2. timeline \in Seq(MsgIds) /\ DOMAIN timeline = 1..Len(timeline) /\ Len(timeline) \in Nat
      /\ \A i \in DOMAIN timeline : timeline[i] \in Committed
  BY DEF Types
<1>3. \A a, b \in Committed : KeyLess(a, b)' <=> KeyLess(a, b)
  BY DEF KeyLess
<1>4. timeline # <<>> => /\ Len(timeline) \in DOMAIN timeline /\ newer = timeline[Len(timeline)]
                         /\ newer \in Committed
                         /\ older # None => older \in Committed
  <2>1. timeline # <<>> => 1 \in DOMAIN timeline /\ Len(timeline) \in DOMAIN timeline
    BY <1>2
  <2> QED BY <2>1, <1>2 DEF Cursors
<1>5. Cursors'
  BY <1>1 DEF Cursors
<1>6. TimelineOrdered'
  BY <1>1, <1>2, <1>3 DEF TimelineOrdered
<1>7. Whole'
  <2> SUFFICES ASSUME timeline # <<>>, NEW m \in visible, ~Has(timeline, m)
               PROVE  older # None /\ KeyLess(m, older)'
    BY <1>1 DEF Whole, Has
  <2>1. older # None /\ KeyLess(m, older) /\ m \in Committed
    BY DEF Whole, Types
  <2> QED BY <2>1, <1>1, <1>3, <1>4
<1>8. Skips'
  <2> SUFFICES ASSUME NEW m \in Committed', Loaded(m)', ~Has(timeline, m), KeyLess(m, newer)'
               PROVE  Overlaps(m)'
    BY <1>1 DEF Skips, Has
  <2>1. timeline # <<>>
    BY <1>1 DEF Loaded, Cursors
  <2>2. CASE m \in Committed
    <3>1. Loaded(m) /\ KeyLess(m, newer)
      BY <2>1, <2>2, <1>1, <1>3, <1>4 DEF Loaded
    <3>2. PICK i \in DOMAIN timeline :
            /\ KeyLess(m, timeline[i])
            /\ timeline[i] \notin before[m] /\ m \notin before[timeline[i]]
      BY <3>1, <2>2 DEF Skips, Overlaps
    <3>3. KeyLess(m, timeline[i])' /\ timeline'[i] \notin before'[m] /\ m \notin before'[timeline[i]]
      BY <3>2, <2>2, <1>1, <1>2, <1>3
    <3> QED BY <3>3, <1>1 DEF Overlaps
  <2>3. CASE m \notin Committed
    <3>1. newer \in Committed /\ newer \in MsgIds /\ m \in MsgIds
      BY <2>1, <1>4 DEF Committed
    <3>2. m \notin before'[newer]
      BY <3>1, <2>3 DEF Times
    <3>3. newer \notin before'[m]
      <4>1. newer \in before'[m] => created'[newer] < created'[m]
        BY <3>1, <1>1 DEF Times
      <4>2. created'[newer] \in Nat /\ created'[m] \in Nat
        BY <3>1, SyncAssumption DEF Types
      <4>3. created'[m] <= created'[newer]
        BY <4>2, <1>1 DEF KeyLess
      <4> QED BY <4>1, <4>2, <4>3
    <3>4. /\ Len(timeline) \in DOMAIN timeline' /\ timeline'[Len(timeline)] = newer
      BY <2>1, <1>1, <1>4
    <3>5. KeyLess(m, timeline[Len(timeline)])'
      BY <2>1, <1>1, <1>4
    <3> QED BY <3>2, <3>3, <3>4, <3>5, <1>1 DEF Overlaps
  <2> QED BY <2>2, <2>3
<1>9. CaughtUp'
  <2> SUFFICES ASSUME caught, NEW m \in base, ~Has(timeline, m)
               PROVE  KeyLess(m, newer)'
    BY <1>1 DEF CaughtUp, Has
  <2>1. KeyLess(m, newer) /\ m \in Committed
    BY DEF CaughtUp, Types
  <2>2. timeline # <<>>
    BY DEF Cursors
  <2> QED BY <2>1, <2>2, <1>1, <1>3, <1>4
<1> QED BY <1>5, <1>6, <1>7, <1>8, <1>9

LEMMA Inserts ==
  ASSUME Inv, NEW m \in MsgIds, Insert(m)
  PROVE  Inv'
<1> USE SyncAssumption
<1>1. UNCHANGED <<clock, client>> /\ m \notin Committed
  BY DEF Insert, Committed
<1>2. stage' = [stage EXCEPT ![m] = "inserting"] /\ created' = [created EXCEPT ![m] = clock]
      /\ before' = [before EXCEPT ![m] = Committed]
  BY DEF Insert
<1>3. Committed' = Committed
  BY <1>2 DEF Inv, Types, Committed, Insert
<1>4. \A x \in MsgIds : x # m => created'[x] = created[x] /\ before'[x] = before[x]
  BY <1>2 DEF Inv, Types
<1>5. created'[m] = clock /\ before'[m] = Committed
  BY <1>2 DEF Inv, Types
<1>6. Types'
  <2>1. stage' \in [MsgIds -> Stages] /\ created' \in [MsgIds -> 0..MaxTime]
        /\ before' \in [MsgIds -> SUBSET MsgIds]
    BY <1>2 DEF Inv, Types, Stages, Committed
  <2> QED BY <2>1, <1>1, <1>3 DEF Inv, Types, client
<1>7. Times'
  <2>1. \A x \in Committed : created'[x] < clock' /\ x \in MsgIds /\ x # m
    BY <1>1, <1>4 DEF Inv, Times, Committed
  <2>2. \A y \in MsgIds : before'[y] \subseteq Committed
    BY <1>4, <1>5 DEF Inv, Times
  <2>3. ASSUME NEW y \in MsgIds, NEW x \in before'[y] PROVE created'[x] < created'[y]
    <3>1. CASE y = m
      BY <3>1, <2>1, <1>1, <1>5
    <3>2. CASE y # m
      <4>1. x \in before[y] /\ created'[y] = created[y] /\ x \in Committed /\ created'[x] = created[x]
        BY <3>2, <1>4, <2>1, <2>2
      <4> QED BY <4>1 DEF Inv, Times
    <3> QED BY <3>1, <3>2
  <2> QED BY <2>1, <2>2, <2>3, <1>3 DEF Times
<1>8. \A x \in Committed : x \in Committed' /\ created'[x] = created[x] /\ before'[x] = before[x]
  BY <1>1, <1>3, <1>4 DEF Committed
<1> QED BY <1>1, <1>6, <1>7, <1>8, RowStep

LEMMA EndsOf ==
  ASSUME Inv, NEW m \in MsgIds, NEW s \in {"committed", "undone"}, End(m, s)
  PROVE  Inv'
<1> USE SyncAssumption
<1>1. UNCHANGED <<clock, created, before, client>> /\ created[m] < clock /\ m \notin Committed
      /\ stage' = [stage EXCEPT ![m] = s]
  BY DEF End, Committed
<1>2. Committed \subseteq Committed' /\ Committed' \subseteq Committed \cup {m}
  BY <1>1 DEF Inv, Types, Committed
<1>3. Types'
  <2>1. stage' \in [MsgIds -> Stages]
    BY <1>1 DEF Inv, Types, Stages
  <2> QED BY <2>1, <1>1, <1>2 DEF Inv, Types, client
<1>4. Times'
  <2>1. \A x \in Committed' : created'[x] < clock'
    BY <1>1, <1>2 DEF Inv, Times
  <2>2. \A y \in MsgIds : before'[y] \subseteq Committed'
    BY <1>1, <1>2 DEF Inv, Times
  <2>3. \A y \in MsgIds : \A x \in before'[y] : created'[x] < created'[y]
    BY <1>1 DEF Inv, Times
  <2> QED BY <2>1, <2>2, <2>3 DEF Times
<1> QED BY <1>1, <1>2, <1>3, <1>4, RowStep

LEMMA Ticks ==
  ASSUME Inv, Tick
  PROVE  Inv'
<1> USE SyncAssumption
<1>1. UNCHANGED <<stage, created, before, client>> /\ clock' = clock + 1 /\ clock < MaxTime
  BY DEF Tick
<1>2. Committed' = Committed
  BY <1>1 DEF Committed
<1>3. Types'
  BY <1>1, <1>2 DEF Inv, Types, client
<1>4. Times'
  <2>1. \A x \in Committed : created[x] < clock /\ created[x] \in Nat /\ clock \in Nat
    BY DEF Inv, Types, Times, Committed
  <2>2. \A x \in Committed' : created'[x] < clock'
    BY <2>1, <1>1, <1>2
  <2> QED BY <2>2, <1>1, <1>2 DEF Inv, Times
<1> QED BY <1>1, <1>2, <1>3, <1>4, RowStep

-----------------------------------------------------------------------------
(* What the client does                                                    *)

LEMMA Timeline ==
  ASSUME Inv
  PROVE  /\ timeline \in Seq(MsgIds) /\ Ascending(timeline)
         /\ DOMAIN timeline = 1..Len(timeline) /\ Len(timeline) \in Nat
         /\ timeline # <<>> => 1 \in DOMAIN timeline /\ Len(timeline) \in DOMAIN timeline
         /\ \A i \in DOMAIN timeline : /\ timeline[i] \in Committed
                                       /\ i = 1 \/ KeyLess(timeline[1], timeline[i])
                                       /\ i = Len(timeline) \/ KeyLess(timeline[i], timeline[Len(timeline)])
<1>1. timeline \in Seq(MsgIds) /\ Ascending(timeline)
      /\ \A i \in DOMAIN timeline : timeline[i] \in Committed
  BY DEF Inv, Types, TimelineOrdered, Ascending
<1>2. DOMAIN timeline = 1..Len(timeline) /\ Len(timeline) \in Nat
  BY <1>1
<1>3. timeline # <<>> => 1 \in DOMAIN timeline /\ Len(timeline) \in DOMAIN timeline
  BY <1>1
<1>4. ASSUME NEW i \in DOMAIN timeline
      PROVE  /\ i = 1 \/ KeyLess(timeline[1], timeline[i])
             /\ i = Len(timeline) \/ KeyLess(timeline[i], timeline[Len(timeline)])
  <2>1. 1 \in DOMAIN timeline /\ Len(timeline) \in DOMAIN timeline /\ 1 <= i /\ i <= Len(timeline)
    BY <1>2
  <2> QED BY <2>1, <1>1, <1>2 DEF Ascending
<1> QED BY <1>1, <1>2, <1>3, <1>4

LEMMA RowsKept ==
  ASSUME Inv, UNCHANGED rows
  PROVE  /\ UNCHANGED <<clock, stage, created, before>>
         /\ Committed' = Committed /\ Times'
         /\ \A a, b : KeyLess(a, b)' <=> KeyLess(a, b)
<1>1. UNCHANGED <<clock, stage, created, before>>
  BY DEF rows
<1>2. Committed' = Committed
  BY <1>1 DEF Committed
<1> QED BY <1>1, <1>2 DEF Inv, Times, KeyLess

LEMMA Opens ==
  ASSUME Inv, Open
  PROVE  Inv'
<1> USE SyncAssumption
<1>1. PICK p \in Page(Committed, "desc") :
        /\ timeline' = Reverse(p.items)
        /\ older' = NextOlder(p)
        /\ newer' = IF p.items # <<>> THEN Head(p.items) ELSE None
  BY DEF Open
<1>2. timeline = <<>> /\ visible' = Committed /\ UNCHANGED <<rows, caught, base>> /\ ~caught
  BY DEF Open, Inv, Cursors
<1>3. Committed \in SUBSET MsgIds
  BY DEF Committed
<1>4. /\ timeline' \in Seq(MsgIds) /\ Ascending(timeline') /\ p.has_more \in BOOLEAN
      /\ \A i \in DOMAIN timeline' : timeline'[i] \in Committed
      /\ p.has_more => timeline' # <<>> /\ Last(p.items) = timeline'[1]
      /\ p.items = <<>> <=> timeline' = <<>>
      /\ timeline' # <<>> => Head(p.items) = timeline'[Len(timeline')]
      /\ \A m \in Committed : Has(timeline', m) \/ (p.has_more /\ KeyLess(m, timeline'[1]))
  BY <1>1, <1>3, OlderPage
<1>5. /\ UNCHANGED <<clock, stage, created, before>>
      /\ Committed' = Committed /\ Times'
      /\ \A a, b : KeyLess(a, b)' <=> KeyLess(a, b)
  BY <1>2, RowsKept
<1>6. Types'
  BY <1>2, <1>4, <1>5 DEF Inv, Types
<1>7. older' = IF p.has_more THEN timeline'[1] ELSE None
  BY <1>1, <1>4 DEF NextOlder
<1>8. newer' = IF timeline' # <<>> THEN timeline'[Len(timeline')] ELSE None
  BY <1>1, <1>4
<1>9. Cursors'
  BY <1>2, <1>4, <1>7, <1>8 DEF Cursors
<1>10. TimelineOrdered'
  BY <1>4, <1>5 DEF TimelineOrdered, Ascending
<1>11. p.has_more => timeline'[1] # None
  <2>1. timeline' # <<>> => 1 \in DOMAIN timeline'
    BY <1>4
  <2> QED BY <2>1, <1>3, <1>4
<1>12. Whole'
  <2> SUFFICES ASSUME NEW m \in Committed, ~Has(timeline', m)
               PROVE  older' # None /\ KeyLess(m, older)'
    BY <1>2 DEF Whole, Has
  <2>1. p.has_more /\ KeyLess(m, timeline'[1])
    BY <1>4
  <2> QED BY <2>1, <1>5, <1>7, <1>11
<1>13. Skips'
  <2> SUFFICES ASSUME NEW m \in Committed, Loaded(m)', ~Has(timeline', m)
               PROVE  FALSE
    BY <1>5 DEF Skips, Has
  <2>1. p.has_more /\ KeyLess(m, timeline'[1])
    BY <1>4
  <2>2. older' = timeline'[1] /\ older' # None
    BY <2>1, <1>7, <1>11
  <2>3. KeyLess(timeline'[1], m)
    BY <2>2, <1>5 DEF Loaded
  <2>4. timeline' # <<>> /\ m \in MsgIds /\ timeline'[1] \in MsgIds
    <3>1. timeline' # <<>> => 1 \in DOMAIN timeline'
      BY <1>4
    <3> QED BY <3>1, <2>1, <1>3, <1>4
  <2> QED BY <2>1, <2>3, <2>4, KeyOrder DEF Inv
<1>14. CaughtUp'
  BY <1>2 DEF CaughtUp
<1> QED BY <1>5, <1>6, <1>9, <1>10, <1>12, <1>13, <1>14 DEF Inv

LEMMA LoadsOlder ==
  ASSUME Inv, LoadOlder
  PROVE  Inv'
<1> USE SyncAssumption
<1>1. PICK p \in Page(Before(older), "desc") :
        timeline' = Reverse(p.items) \o timeline /\ older' = NextOlder(p)
  BY DEF LoadOlder
<1>2. older # None /\ UNCHANGED <<rows, newer, caught, visible, base>>
  BY DEF LoadOlder
<1>3. timeline # <<>> /\ older = timeline[1] /\ newer = timeline[Len(timeline)]
  BY <1>2 DEF Inv, Cursors
<1>4. Before(older) \in SUBSET MsgIds /\ \A m : m \in Before(older) <=> m \in Committed /\ KeyLess(m, older)
  BY DEF Before, Committed
<1> DEFINE r == Reverse(p.items)
<1>5. /\ r \in Seq(MsgIds) /\ Ascending(r) /\ p.has_more \in BOOLEAN
      /\ \A i \in DOMAIN r : r[i] \in Before(older)
      /\ p.has_more => r # <<>> /\ Last(p.items) = r[1]
      /\ \A m \in Before(older) : Has(r, m) \/ (p.has_more /\ KeyLess(m, r[1]))
  BY <1>4, OlderPage
<1> HIDE DEF r
<1>6. /\ UNCHANGED <<clock, stage, created, before>>
      /\ Committed' = Committed /\ Times'
      /\ \A a, b : KeyLess(a, b)' <=> KeyLess(a, b)
  BY <1>2, RowsKept
<1>7. Types /\ Committed \subseteq MsgIds
  BY DEF Inv, Committed
<1>8. \A i \in DOMAIN r, j \in DOMAIN timeline : KeyLess(r[i], timeline[j])
  <2> SUFFICES ASSUME NEW i \in DOMAIN r, NEW j \in DOMAIN timeline PROVE KeyLess(r[i], timeline[j])
    OBVIOUS
  <2>1. r[i] \in MsgIds /\ KeyLess(r[i], timeline[1])
    BY <1>3, <1>4, <1>5
  <2>2. timeline[1] \in MsgIds /\ timeline[j] \in MsgIds /\ (j = 1 \/ KeyLess(timeline[1], timeline[j]))
    BY <1>3, <1>7, Timeline
  <2> QED BY <2>1, <2>2, <1>7, KeyOrder
<1>9. /\ timeline' \in Seq(MsgIds) /\ Ascending(timeline') /\ timeline' # <<>>
      /\ \A m : Has(timeline', m) <=> Has(r, m) \/ Has(timeline, m)
      /\ r # <<>> => timeline'[1] = r[1]
      /\ timeline'[Len(timeline')] = timeline[Len(timeline)]
  <2>1. timeline \in Seq(MsgIds) /\ Ascending(timeline)
    BY Timeline
  <2>2. timeline' = r \o timeline
    BY <1>1 DEF r
  <2>3. /\ r \o timeline \in Seq(MsgIds) /\ Ascending(r \o timeline)
        /\ \A m : Has(r \o timeline, m) <=> Has(r, m) \/ Has(timeline, m)
        /\ r # <<>> => (r \o timeline)[1] = r[1]
        /\ r \o timeline # <<>> /\ (r \o timeline)[Len(r \o timeline)] = timeline[Len(timeline)]
    BY <1>3, <1>5, <1>8, <2>1, Joined
  <2> QED BY <2>2, <2>3
<1>10. \A i \in DOMAIN timeline' : timeline'[i] \in Committed
  <2> SUFFICES ASSUME NEW i \in DOMAIN timeline' PROVE timeline'[i] \in Committed
    OBVIOUS
  <2>1. Has(r, timeline'[i]) \/ Has(timeline, timeline'[i])
    BY <1>9 DEF Has
  <2> QED BY <2>1, <1>4, <1>5, Timeline DEF Has
<1>11. Types'
  BY <1>2, <1>6, <1>9, <1>10 DEF Inv, Types
<1>12. older' = IF p.has_more THEN timeline'[1] ELSE None
  BY <1>1, <1>5, <1>9 DEF NextOlder, r
<1>13. Cursors'
  BY <1>2, <1>3, <1>9, <1>12 DEF Cursors
<1>14. TimelineOrdered'
  BY <1>6, <1>9 DEF TimelineOrdered, Ascending
<1>15. timeline'[1] \in Committed /\ timeline'[1] # None
  <2>1. 1 \in DOMAIN timeline'
    BY <1>9
  <2> QED BY <2>1, <1>7, <1>10
(* What was older than the cursor is now loaded or older than the new one. *)
<1>16. ASSUME NEW m \in Committed, KeyLess(m, older), ~Has(timeline', m)
       PROVE  older' # None /\ KeyLess(m, older')
  BY <1>4, <1>5, <1>9, <1>12, <1>15, <1>16
<1>17. Whole'
  <2> SUFFICES ASSUME NEW m \in visible, ~Has(timeline', m)
               PROVE  older' # None /\ KeyLess(m, older)'
    BY <1>2 DEF Whole, Has
  <2>1. m \in Committed /\ KeyLess(m, older)
    BY <1>3, <1>9 DEF Inv, Whole, Types
  <2> QED BY <2>1, <1>6, <1>16
<1>18. Skips'
  <2> SUFFICES ASSUME NEW m \in Committed, Loaded(m)', ~Has(timeline', m), KeyLess(m, newer)
               PROVE  Overlaps(m)'
    BY <1>2, <1>6 DEF Skips, Has
  <2>1. Loaded(m)
    <3>1. m \in MsgIds /\ older \in MsgIds /\ m # older
      BY <1>3, <1>7, <1>9, Timeline DEF Has
    <3>2. CASE KeyLess(m, older)
      <4>1. older' # None /\ KeyLess(m, older') /\ KeyLess(older', m)
        BY <3>2, <1>6, <1>16 DEF Loaded
      <4>2. older' \in MsgIds
        BY <4>1, <1>7, <1>12, <1>15
      <4> QED BY <4>1, <4>2, <3>1, <1>7, KeyOrder
    <3>3. CASE KeyLess(older, m)
      BY <3>3, <1>2, <1>3, <1>7, Timeline DEF Loaded
    <3> QED BY <3>1, <3>2, <3>3, <1>7, KeyOrder
  <2>2. PICK i \in DOMAIN timeline : /\ KeyLess(m, timeline[i])
                                     /\ timeline[i] \notin before[m] /\ m \notin before[timeline[i]]
    BY <2>1, <1>9 DEF Inv, Skips, Overlaps
  <2>3. Has(timeline', timeline[i])
    BY <1>9 DEF Has
  <2>4. PICK j \in DOMAIN timeline' : timeline'[j] = timeline[i]
    BY <2>3 DEF Has
  <2> QED BY <2>2, <2>4, <1>6 DEF Overlaps
<1>19. CaughtUp'
  BY <1>2, <1>6, <1>9 DEF Inv, CaughtUp, Has
<1> QED BY <1>6, <1>11, <1>13, <1>14, <1>17, <1>18, <1>19 DEF Inv

LEMMA Syncs ==
  ASSUME Inv, Sync
  PROVE  Inv'
<1> USE SyncAssumption
<1>1. PICK p \in Page(After(newer), "asc") :
        timeline' = timeline \o p.items /\ newer' = NextNewer(p) /\ caught' = ~p.has_more
  BY DEF Sync
<1>2. newer # None /\ base' = Committed /\ UNCHANGED <<rows, older, visible>>
  BY DEF Sync
<1>3. timeline # <<>> /\ newer = timeline[Len(timeline)] /\ older \in {None, timeline[1]}
  BY <1>2 DEF Inv, Cursors
<1>4. After(newer) \in SUBSET MsgIds /\ \A m : m \in After(newer) <=> m \in Committed /\ KeyLess(newer, m)
  BY DEF After, Committed
<1> DEFINE q == p.items
<1>5. /\ q \in Seq(MsgIds) /\ Ascending(q) /\ p.has_more \in BOOLEAN
      /\ \A i \in DOMAIN q : q[i] \in After(newer)
      /\ p.has_more => q # <<>>
      /\ \A m \in After(newer) : Has(q, m) \/ (p.has_more /\ KeyLess(q[Len(q)], m))
  BY <1>4, NewerPage
<1> HIDE DEF q
<1>6. /\ UNCHANGED <<clock, stage, created, before>>
      /\ Committed' = Committed /\ Times'
      /\ \A a, b : KeyLess(a, b)' <=> KeyLess(a, b)
  BY <1>2, RowsKept
<1>7. Types /\ Committed \subseteq MsgIds /\ newer \in MsgIds /\ newer \in Committed
  BY <1>3, Timeline DEF Inv, Committed
<1>8. \A i \in DOMAIN timeline, j \in DOMAIN q : KeyLess(timeline[i], q[j])
  <2> SUFFICES ASSUME NEW i \in DOMAIN timeline, NEW j \in DOMAIN q PROVE KeyLess(timeline[i], q[j])
    OBVIOUS
  <2>1. q[j] \in MsgIds /\ KeyLess(newer, q[j])
    BY <1>4, <1>5
  <2>2. timeline[i] \in MsgIds /\ (timeline[i] = newer \/ KeyLess(timeline[i], newer))
    BY <1>3, <1>7, Timeline
  <2> QED BY <2>1, <2>2, <1>7, KeyOrder
<1>9. /\ timeline' \in Seq(MsgIds) /\ Ascending(timeline') /\ timeline' # <<>>
      /\ \A m : Has(timeline', m) <=> Has(timeline, m) \/ Has(q, m)
      /\ timeline'[1] = timeline[1]
      /\ q # <<>> => timeline'[Len(timeline')] = q[Len(q)]
      /\ q = <<>> => timeline' = timeline
  BY <1>1, <1>3, <1>5, <1>8, Timeline, Joined DEF q
<1>10. \A i \in DOMAIN timeline' : timeline'[i] \in Committed
  <2> SUFFICES ASSUME NEW i \in DOMAIN timeline' PROVE timeline'[i] \in Committed
    OBVIOUS
  <2>1. Has(q, timeline'[i]) \/ Has(timeline, timeline'[i])
    BY <1>9 DEF Has
  <2> QED BY <2>1, <1>4, <1>5, Timeline DEF Has
<1>11. Types'
  BY <1>1, <1>2, <1>5, <1>6, <1>9, <1>10 DEF Inv, Types
<1>12. newer' = IF q # <<>> THEN q[Len(q)] ELSE newer
  BY <1>1 DEF NextNewer, Last, q
<1>13. newer' = timeline'[Len(timeline')] /\ newer' \in MsgIds
  <2>1. newer' = timeline'[Len(timeline')]
    BY <1>3, <1>9, <1>12
  <2>2. Len(timeline') \in DOMAIN timeline'
    BY <1>9
  <2> QED BY <2>1, <2>2, <1>7, <1>10
<1>14. Cursors'
  BY <1>2, <1>3, <1>9, <1>13 DEF Cursors
<1>15. TimelineOrdered'
  BY <1>6, <1>9 DEF TimelineOrdered, Ascending
<1>16. Whole'
  BY <1>2, <1>3, <1>6, <1>9 DEF Inv, Whole, Has
(* What the page leaves out was passed over before, or is still to come.   *)
<1>17. ASSUME NEW m \in Committed, ~Has(timeline', m)
       PROVE  KeyLess(m, newer) \/ (p.has_more /\ KeyLess(newer', m))
  <2>1. m \in MsgIds /\ m # newer
    <3>1. Len(timeline) \in DOMAIN timeline
      BY <1>3, Timeline
    <3> QED BY <3>1, <1>3, <1>7, <1>9, <1>17 DEF Has
  <2>2. CASE KeyLess(newer, m)
    BY <2>2, <1>4, <1>5, <1>9, <1>12, <1>17
  <2> QED BY <2>1, <2>2, <1>7, KeyOrder
<1>18. Skips'
  <2> SUFFICES ASSUME NEW m \in Committed, Loaded(m)', ~Has(timeline', m), KeyLess(m, newer')
               PROVE  Overlaps(m)'
    BY <1>6 DEF Skips, Has
  <2>1. KeyLess(m, newer)
    <3>1. ~KeyLess(newer', m)
      BY <1>7, <1>13, KeyOrder
    <3> QED BY <3>1, <1>17
  <2>2. Loaded(m) /\ ~Has(timeline, m)
    BY <1>2, <1>6, <1>9 DEF Loaded
  <2>3. PICK i \in DOMAIN timeline : /\ KeyLess(m, timeline[i])
                                     /\ timeline[i] \notin before[m] /\ m \notin before[timeline[i]]
    BY <2>1, <2>2 DEF Inv, Skips, Overlaps
  <2>4. Has(timeline', timeline[i])
    BY <1>9 DEF Has
  <2>5. PICK j \in DOMAIN timeline' : timeline'[j] = timeline[i]
    BY <2>4 DEF Has
  <2> QED BY <2>3, <2>5, <1>6 DEF Overlaps
<1>19. CaughtUp'
  <2> SUFFICES ASSUME caught', NEW m \in Committed, ~Has(timeline', m)
               PROVE  KeyLess(m, newer')
    BY <1>2, <1>6 DEF CaughtUp, Has
  <2>1. KeyLess(m, newer)
    BY <1>1, <1>17
  <2>2. newer' = newer \/ KeyLess(newer, newer')
    <3>1. q # <<>> => Len(q) \in DOMAIN q
      BY <1>5
    <3> QED BY <3>1, <1>4, <1>5, <1>12
  <2> QED BY <2>1, <2>2, <1>7, <1>13, KeyOrder
<1> QED BY <1>6, <1>11, <1>14, <1>15, <1>16, <1>18, <1>19 DEF Inv

-----------------------------------------------------------------------------
LEMMA Always == Spec => []Inv
<1> USE SyncAssumption
<1>1. Init => Inv
  <2> SUFFICES ASSUME Init PROVE Inv
    OBVIOUS
  <2>1. timeline = <<>> /\ newer = None /\ older = None /\ caught = FALSE /\ visible = {} /\ base = {}
        /\ clock = 0
    BY DEF Init
  <2>2. Committed = {}
    BY DEF Init, Committed
  <2>3. stage \in [MsgIds -> Stages] /\ created \in [MsgIds -> 0..MaxTime]
        /\ before \in [MsgIds -> SUBSET MsgIds] /\ \A m \in MsgIds : before[m] = {}
    BY DEF Init, Stages
  <2>4. Types
    <3>1. timeline \in Seq(MsgIds) /\ \A i \in DOMAIN timeline : timeline[i] \in Committed
      BY <2>1
    <3>2. clock \in Nat /\ clock \in 0..MaxTime
      BY <2>1
    <3> QED BY <3>1, <3>2, <2>1, <2>3 DEF Types
  <2>5. Times
    BY <2>2, <2>3 DEF Times
  <2>6. TimelineOrdered /\ Cursors
    BY <2>1 DEF TimelineOrdered, Cursors
  <2> QED BY <2>1, <2>2, <2>4, <2>5, <2>6 DEF Inv, Whole, Skips, CaughtUp
<1>2. Inv /\ [Next]_vars => Inv'
  <2> SUFFICES ASSUME Inv, [Next]_vars PROVE Inv'
    OBVIOUS
  <2>1. CASE UNCHANGED vars
    <3>1. UNCHANGED <<clock, stage, created, before, client>> /\ UNCHANGED rows
      BY <2>1 DEF vars, rows
    <3>2. Committed' = Committed /\ Times'
      BY <3>1, RowsKept
    <3>3. Types'
      BY <3>1, <3>2 DEF Inv, Types, client
    <3> QED BY <3>1, <3>2, <3>3, RowStep
  <2> QED BY <2>1, Inserts, EndsOf, Ticks, Opens, LoadsOlder, Syncs DEF Next
<1> QED BY <1>1, <1>2, PTL DEF Spec

-----------------------------------------------------------------------------
(* Every variable has its type, the cursors are those of the two ends of   *)
(* what the client has, and it never loses the one it syncs with.          *)
THEOREM TypeCorrect == Spec => []TypeOK
<1>1. Inv => TypeOK
  <2> SUFFICES ASSUME Inv PROVE TypeOK
    OBVIOUS
  <2>1. timeline \in Seq(MsgIds) /\ (timeline # <<>> => Head(timeline) = timeline[1])
    BY DEF Inv, Types
  <2>2. older \in {None} \cup (IF timeline = <<>> THEN {} ELSE {Head(timeline)})
    BY <2>1 DEF Inv, Cursors
  <2>3. newer = (IF timeline = <<>> THEN None ELSE Last(timeline))
    BY DEF Inv, Cursors, Last
  <2> QED BY <2>1, <2>2, <2>3 DEF Inv, Types, TypeOK
<1> QED BY <1>1, Always, PTL

(* Pages put end to end are in the order of the cursors without repetition, *)
(* whatever commits between two of them.                                   *)
THEOREM PagesFit == Spec => []TimelineOrdered
<1>1. Inv => TimelineOrdered
  BY DEF Inv
<1> QED BY <1>1, Always, PTL

(* A client that has paged back to the end has all that was there when it  *)
(* began.                                                                  *)
THEOREM HistoryLoads == Spec => []HistoryComplete
<1>1. Inv => HistoryComplete
  BY DEF Inv, Cursors, Whole, HistoryComplete, Got, Has
<1> QED BY <1>1, Always, PTL

(* Whatever a client that has caught up lacks overlapped a newer message   *)
(* that it has.                                                            *)
THEOREM OnlyOverlaps == Spec => []OnlyOverlapsMissed
<1>1. Inv => OnlyOverlapsMissed
  <2> SUFFICES ASSUME Inv, caught, NEW m \in base \ Got, Loaded(m)
               PROVE  \E n \in Got : KeyLess(m, n) /\ n \notin before[m] /\ m \notin before[n]
    BY DEF OnlyOverlapsMissed
  <2>1. ~Has(timeline, m) /\ m \in Committed
    BY DEF Got, Has, Inv, Types
  <2>2. KeyLess(m, newer)
    BY <2>1 DEF Inv, CaughtUp
  <2>3. PICK i \in DOMAIN timeline : /\ KeyLess(m, timeline[i])
                                     /\ timeline[i] \notin before[m] /\ m \notin before[timeline[i]]
    BY <2>1, <2>2 DEF Inv, Skips, Overlaps
  <2> QED BY <2>3 DEF Got
<1> QED BY <1>1, Always, PTL

(* Of two messages one was committed when the other was created. *)
Serial == \A m, n \in Committed : m # n => m \in before[n] \/ n \in before[m]

(* README's "replays everything committed since their last-seen message,   *)
(* in order" holds where transactions of messages do not overlap: these    *)
(* are all that sync_gap is about.                                         *)
THEOREM SerialReplays == Spec => [](Serial => ReplaysEverything)
<1>1. Inv /\ OnlyOverlapsMissed => (Serial => ReplaysEverything)
  <2> SUFFICES ASSUME Inv, OnlyOverlapsMissed, Serial, caught, NEW m \in base, Loaded(m),
                      m \notin Got
               PROVE  FALSE
    BY DEF ReplaysEverything
  <2>1. PICK n \in Got : KeyLess(m, n) /\ n \notin before[m] /\ m \notin before[n]
    BY DEF OnlyOverlapsMissed
  <2>2. m \in Committed /\ n \in Committed
    BY DEF Got, Inv, Types
  <2>3. m # n
    BY <2>1
  <2> QED BY <2>1, <2>2, <2>3 DEF Serial
<1> QED BY <1>1, Always, OnlyOverlaps, PTL
================================================================================
