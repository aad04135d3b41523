# Specification of the realtime chat backend

TLA+ modules for the message flow of this repository: from a request to send,
confirm or read a message, over the transactional outbox, to the sockets of the
users it concerns, and back through catch-up sync. TLC checks the modules on small
instances; TLAPS proves their safety properties for every instance.

Paths are relative to `src/app/` unless they say otherwise.

## The system

| Component | State | Operations | Module |
|---|---|---|---|
| Message commands, `services/chat.py`, `models.py` | tables `conversations`, `messages`, `outbox`; one transaction per request | `send_message`, `mark_delivered`, `mark_read` | `ChatService`, abstractly `MessageLedger` |
| Queries, `services/chat.py`, `ids.py` | none; the client keeps cursors | `list_messages`, `list_conversations` | `Sync` (the former) |
| Outbox relay, `realtime/relay.py` | `outbox.published_at`, row locks, the wake event | `notify`, `publish_batch`, `_sweep`, the cycle | `OutboxRelay`, abstractly `Outbox` |
| Hub, `realtime/hub.py` | `_local`, `_requests`, the pub/sub connection and its subscriptions | `register`, `unregister`, `publish`, `_run`, `start`, `stop` | `Hub` |
| Socket session, `api/ws.py`, `Connection` in `realtime/hub.py` | the connection's queue, `closing`, `last_seen`, three tasks | reader, writer, heartbeat, `send_nowait`, `close` | `SocketSession` |
| Lifespan, `main.py`: the above put together | what they share: PostgreSQL, Redis | start, stop | `Delivery` |
| Attachments, `storage.py`, `api/v1.py`, `services/chat.py` | objects and POST policies in the store | presign, HEAD at send | `Attachments` |
| Bootstrap, `bootstrap.py`, `storage.py` | the bucket | `ensure_bucket`, its attempts | `Attachments` |
| REST API, `api/v1.py`, `errors.py` | none | one call of the service per route | the answers of `ChatService` |
| Authentication, migrations, settings, metrics, logs, health | none the chat depends on | | not modelled |

How they interact:

- A request handler (REST) or a socket's reader runs one command of `ChatService`
  in one transaction. The command writes the change and its outbox rows; after the
  commit it calls `relay.notify()`, which sets the wake event of the relay on the
  same replica.
- The relay of every replica takes committed rows with `FOR UPDATE SKIP LOCKED`,
  publishes them to the channel of the user in Redis, and marks them.
- The hub of every replica is subscribed to the channels of the users who have a
  socket there and puts what arrives into the queue of each of their connections.
- The writer of a socket empties its queue to the client. The hub and the heartbeat
  close a socket by queueing a close request.
- A client that was away pages through `list_messages` from the last cursor it has,
  after its new socket has said hello.
- A client uploads an attachment straight to the object store, with a policy the API
  has signed, and names its key in a message; the API looks at it with HEAD.

What is hard about it: requests of one user that race (retries of a send,
receipts from several devices) and meet in PostgreSQL's locks and unique indexes;
a failure between any two statements, or between a commit and the answer; several
relays over one table, crashing between PUBLISH and COMMIT; a registry that changes
at every await of the task that mirrors it to Redis; queues at their limit and
sessions that end while another task is in the middle of something; cursors in an
order that is not the order of commits; events Redis drops while nobody is subscribed;
objects that can be replaced after they were checked. `PROJECT.json` lists these hazards at
their lines with the properties that cover them.

What makes each component correct:

- Commands: a retry never creates or answers another message; an accepted message
  is durable; status only goes forward; each change is announced exactly once in the
  outbox, to the right users, and never without the change; a message has its
  conversation; a stored time stays; a read covers all it saw; only reads can deadlock, no
  request goes back a statement, and nothing waits for ever.
- Relay: a row is held by one relay; marked only after a push; pushed again only
  after a failure; first pushed in the order of ids where nothing holds a row back; no
  wakeup lost; every committed row is published in the end.
- Hub: the subscriptions converge to the local users; no waiter is forgotten; what
  Redis delivers is queued for every device, in order and once; `stop()` ends all sockets.
- Session: no event is skipped and followed by another; the queue is bounded; a
  dead, slow or closed connection is unregistered.
- Sync: pages fit together without repetition or hole.
- Delivery: what falls between the syncs of a client and the events of its socket is at
  most what Redis dropped while the socket was open and what overlapped a newer message.
- Attachments: what the store lets through the check accepts, and a message stays
  true of its attachment; pods that race to create the bucket do not fail each other.

## The modules

### MessageLedger and ChatService

`MessageLedger` is what clients are promised: a ledger of messages and, in the same
atomic step as each change of it, the announcements of that change.

`ChatService` is the code: each session holds one READ COMMITTED transaction and
takes one step per statement (`pc`). A statement sees committed rows. What a session
has written but not committed is in `staged`, `id` and `held`, invisible to others
except that it makes them wait: an `INSERT .. ON CONFLICT` waits for an uncommitted
row with its key (`InsertedKey`, `InsertedConversation`), an `UPDATE` waits for a
held row and tests its WHERE clause again on the committed one (`LockRow`, and
`UpdateDelivered`). These waits are PostgreSQL's and not in the source; they are
modelled from the statements that rely on them. `mark_read` locks its rows one at a
time, in any order, so two of them can deadlock and one becomes a `DeadlockVictim`.
`Fail` is a statement that fails, a lost connection or a crash at any step,
including the commit whose answer is lost. `utcnow()` is a time within `Skew` of
the clock. The outcome of the HEAD request for an attachment is left open, and a body is too
long or not (`Overlong`). The
`message.read` event, which carries a list of ids in the code, is one announcement
per message here, because the properties are about each of them.

The refinement maps a committed row to its entry, without timestamps, and the outbox
to the announcements; every commit is one step of the ledger and every other step a
stutter.

### OutboxRelay

Each replica's `_run` is a program counter through `clear`, SELECT, PUBLISH (row by
row: the pipeline may stop anywhere), UPDATE and COMMIT, the backlog and the sweep,
and the wait. `batch` is what its open transaction has locked. Rows are committed
by handlers of a replica (`Commit`), which owe a `notify()` that may never come: the
process may crash, and the task of a socket may be cancelled during the commit
(`NotifyLost`, `api/ws.py:93`). redis-py retries a pipeline whose connection fails, unless it is
told not to, which `main.py:39` does not: rows Redis has executed and not answered are then
pushed twice in one cycle (`Resend`). Any step of a cycle may fail; a crash loses the
process's memory and PostgreSQL drops its locks. The age a row must have for the sweep is left
open, which allows more sweeps than the code. A database connection that dies while
its relay goes on is a failure of the cycle. Ids are drawn before the commit, so `Commit`
takes rows in any order; `before` remembers which smaller ids were there first.

`Outbox` is what all this amounts to for the rest of the system: a committed row is
pushed to Redis one or more times and then marked. `OutboxRelay` implements it under
the mapping that takes a swept row for a published one (`KeepsOutbox`), and keeps its
fairness (`KeepsPromise`: each row is pushed and marked in the end, `src/README.md:60`).

### Hub

Everything runs on one event loop, so an action is the code between two awaits.
`loop` is where `_run` is; `Lost` is an exception at any of its awaits, `Stop` its
cancellation. Each connection goes `off`, `registering`, `open`, `leaving`; the two
waiting states end when the future of their request is done (`Resume`) or after 5 s
(`TimesOut`). A waiter that has given up leaves its request in the queue.

`subscribe()` and `unsubscribe()` of redis-py return when the command is written. What Redis makes
of it is a state of its own: `channel[u]` is whether Redis has subscribed the user's
channel, followed by what each command under way will make of that, and `Obey` is Redis taking the
oldest. So a socket may be open, and have said hello, before Redis has subscribed its channel;
an event published then is dropped. Commands for different channels are not ordered here, which
allows more than Redis does. Reconnections that redis-py makes by itself look like a `Lost` whose
recovery is short.

`Publish` is any publisher, a relay or a typing indicator. `Register` needs the hub to be started
and not stopped: that is not in `register()` but in the lifespan of `main.py`, between whose
startup and shutdown uvicorn accepts sockets. Payloads that do not parse, and latency metrics,
are left out.

### SocketSession

The three tasks of a session, `Connection` and its queue, for one socket between
register and unregister. Time is counted in heartbeats: `silent` is the number of
them since `last_seen`. An event that is queued after another one was dropped is
marked "late". What a command does to the database is `ChatService`'s business; here
it may take for ever. The end of a session has three parts: the tasks are cancelled (`Cancel`), each ends in
its own time, the reader perhaps after the rollback of its command (`Unwind`), and only when
`gather` has all three is the socket closed and unregistered (`Finish`). `Hub` uses what is
shown here: that a closed connection is unregistered.

### Sync

Messages get their cursor `(created_at, id)` when they are inserted and appear when
they commit; one client pages through them. Replicas share one clock here; with clocks
that disagree, `OnlyOverlapsMissed` would hold only up to their skew. A commit comes later
than its `created_at` by at least the resolution of the clock, a microsecond.

How a page is selected is stated by what SELECT, ORDER BY and LIMIT guarantee of the rows
(`IsResult`), not by a sort.

### Delivery

The composition that `main.py` makes: `Outbox` for the relays of all replicas, `Hub` for one
replica, Redis between them, and clients. `Relay` is one step of both: a push of
the row and a `Publish` on the channel of its user, which reaches whoever is subscribed at
that moment and is forgotten otherwise. Replicas other than the hub's differ only in their own
sockets, so one is enough.

A message is begun, when its `created_at` is chosen (`Begin`), and committed some time later
(`Commit`); rows are numbered in the order of their cursors. A client keeps a cursor and, once
its socket is open, as in `src/tests/test_realtime.py:98`, asks for what is `After` it, one page
at a time (`CatchUp`), with `after=` the `next_cursor` it was given last
(`schemas.py:76`, "pass back as `after` to continue syncing"). It starts before all rows of the model,
which is the sync without a cursor of that test, or from whatever it had. A page
that leaves nothing behind ends the sync, and the client is caught up over that socket.

So a message that commits late can fall below the cursor, as `sync_gap` shows, also in this
module. `NoHole` states what does follow from "reconnect and sync" (`realtime/hub.py:63`): a published
message that a client lacks, which has synced to the end after hello, was sent over its open
socket and is queued, on the way or dropped by Redis (`excused`), or it was published before
hello and overlapped a newer message the client has (`Overlapped`). Two things remain open in the program. A
socket that stays open while Redis drops an event is not told; the client finds that message with its
next sync, unless it overlapped a newer one. And a client that takes the cursor of
the last event it was sent (`schemas.py:58`) instead of `next_cursor` skips more: whatever older
message Redis dropped or a relay publishes later. Which cursor clients keep is not in this
repository, so that is a hazard without a property.

### Attachments

`Presign` signs a POST policy for a fresh key, with the normalised type. The store checks the policy
when an upload begins (`BeginUpload`), as often as the holder likes until it
expires, and has the object when the upload ends (`EndUpload`), at any later time or never. An upload
admitted just before the expiry may therefore replace an object that was checked after it; `under`
remembers which uploads were under way at a check, and `CheckedIsKept` says that no other
can. `Check` is `_check_attachment` up to its HEAD, and the message is committed
some time later (`Commit`) or not at all (`Abandon`). Sizes, types and instants are small
numbers and model values. `Bootstrap` is `ensure_bucket` inside the attempts of
`bootstrap.main`, on every pod, against a store that may fail at each call, also after it
has done what it was asked. Whether a second `create_bucket` by the same owner is an error
depends on the region, so both happen.

## What the runs show

| Run | Instance | Shows |
|---|---|---|
| `chat` | 2 sessions that serve any number of requests, 3 ids, 2 keys, 9 requests (sends with the same key and other content, with a body that is too long and to oneself, receipts of both ends, reads), 1 failure | `AckedIsDurable`, `ConflictsAreReal`, `AnnouncedExactly`, `ReadCoversSeen`, `StampsMatchStatus`, `HasConversation`, `OnlyReadersDeadlock`, `Advances` and the refinement of `MessageLedger` |
| `chat_live` | 2 ids, 2 keys, 1 failure, a clock that moves | `Answered`: no request waits for ever; `ReceiptsStand`: receipts never take back or overwrite what is stored |
| `receipt_clock` | one message, delivered and read by two devices | violates `ReadNotBeforeDelivered` |
| `relay` | 2 interchangeable replicas, 3 rows, batches of 2, 1 failure, crash or retried pipeline | `ExclusiveBatch`, `MarkedWasPushed`, `RepeatsAreFailures`, `NoLostWakeup`, `InOrder` |
| `relay_live` | 2 replicas of which one may crash for good, 2 rows, batches of 1, 2 failures | `KeepsOutbox`, `KeepsPromise`: the relays implement `Outbox` with its fairness |
| `hub` | 1 user with 2 devices, 1 event, 2 losses, 2 timeouts, 2 commands under way per channel | `SubscriptionsFollow`, `WaitersServed`, `Subscribes`, `Drained` |
| `hub_gap` | 1 user with 2 devices, 1 event, no loss or timeout | violates `NothingMissed` |
| `session` | a queue of 3, idle after 2 to 3 heartbeats, 2 unread inputs | `NoGaps`, `PendingBounded`, `Ends` |
| `sync` | 4 messages, 4 instants, pages of 2 | `TimelineOrdered`, `HistoryComplete`, `OnlyOverlapsMissed` |
| `sync_gap` | 2 messages | violates `ReplaysEverything` |
| `delivery` | 1 user with a device that comes and goes, 2 messages, pages of 1, 1 loss | `NoHole`, `Arrives` |
| `attachments` | a key of one of 2 users, 4 spellings of 3 types, 3 uploads, 2 messages, a policy of 1 instant in 3; 2 interchangeable pods with 3 attempts each | `UploadsAccepted`, `AttachmentsSound`, `CheckedIsKept`, `BootstrapSound` |

Each passing property has a mutant in `PROJECT.json`: a definition of the model
changed the way a bug would change the code, under which TLC finds it violated. The
mutated definitions stand in the modules, marked MUTANT; nothing else uses them.

Why the bounds are enough. Conflicts in `ChatService` are between pairs of
sessions: for a key, a conversation or a row; a third session would only wait
behind the second. Two keys and three ids let a retry, a rolled back insert and a
read of two messages happen in one behaviour. In `chat` the clock stands still,
and since any unused id may be taken, the order of messages is still open; the
clock moves in the two runs that are about time. Three rows and batches of two give a full
batch, a rest, and rows for the other relay. Two losses of the hub's connection give one
during the recovery from another. A queue of three is full, one short of full and
empty. In `hub` one user is enough for the
liveness: requests of several users share only the order of their queue, and safety is proved below
for any number of users. The two devices are the one that waits for its subscription and the one that
does not. In `delivery` two messages are what can overlap, be on different pages
of one sync, or be on both sides of a hello; each is pushed once, since the hub takes each event by itself
and a repeated push adds one more event for the same row; the one device leaves and comes back, and
the loss may come before, between or after the push, the sync and the subscription; a second
device is in `hub` and `hub_gap`. In `attachments` the policy is valid, expires and has been
expired for an instant; three uploads are one that is there when the message is checked, one under way
across the check and one after it; keys have nothing to do with each other. Three attempts leave
one that the other pod cost and two the store failed. The theorems below do not depend on any
of these bounds.

### Three disagreements with the documentation

- `receipt_clock`. `mark_read` takes its time before it waits for the row of a
  concurrent `mark_delivered`, which took a later one: the row ends with
  `read_at < delivered_at`, with all clocks in step. `src/README.md:134-135` says
  that a message is delivered before it is read.
- `hub_gap`. Only the first device of a user waits for the subscription. A second
  one that registers before it is applied says hello at once, and an event published
  then reaches neither, without any failure. `realtime/hub.py:4-6` says that a
  replica is subscribed while a device is connected to it. A first device has a gap of the same kind, a shorter
  one: it awaits only that SUBSCRIBE is written. `OnlyDeviceStaysSubscribed` shows that after that it takes a second
  device, a loss or a timeout.
- `sync_gap`. A message that commits after another one with a later `created_at`
  is below the cursor of a client that has already seen the latter, and no
  catch-up returns it. `src/README.md:67-68` says that a catch-up replays everything
  committed since the last-seen message. `OnlyOverlapsMissed` bounds the damage: only a
  message whose transaction overlapped the newer one's can be missed. `NoHole` says how far the socket
  and the syncs together go: a late commit published while the socket is open comes over it, one
  published while the client is away is lost to it.

## Fairness

- `ChatService`: a session that can take its next statement takes it (weak), and
  PostgreSQL ends deadlocks (weak, `DeadlockVictim`). Waiters of a row are woken in turn
  when its holder ends, so one that waits for a row that is released again and
  again gets it (strong, `LockRow`).
- `OutboxRelay`: a running relay's task goes on and its timer fires (weak, `Cycle`
  and `PollTimeout`). A crashed replica need not restart, and `notify()` need not be called.
- `Hub`: the event loop runs what is ready (weak, `Run`, `Resume`), and Redis obeys what it was sent
  (weak, `Obey`). `get_message`
  may return None for the confirmation of a subscription, but confirmations run out, so
  an event that waits is read (strong, `Dispatch`). A timer is needed only after `stop()`.
  A socket the hub has closed unregisters, which is `Ends` of `SocketSession`.
  No loss of the connection is ever forced, and there are finitely many.
- `SocketSession`: the tasks run and timers fire. Nothing is assumed of a client
  that does not read (`Sent`) nor of a command (`Handled`), except that one that is cancelled ends (`Unwind`):
  its transaction is rolled back or its connection given up.
- `Delivery`: that of the hub, and of the outbox what `KeepsPromise` shows the relays to
  provide. No client has to sync. `Arrives` is shown for one device: `_apply_requests` runs until the
  queue of requests is empty (`realtime/hub.py:163`), so an endless stream of
  users that come and go could keep it from reading events; a device that awaits each of its
  requests cannot.

## What is proved

`ChatServiceProofs`, `OutboxRelayProofs`, `HubProofs`, `DeliveryProofs`, `SocketSessionProofs`,
`SyncProofs` and `AttachmentsProofs`, checked by TLAPS, for every value of the constants: every
invariant the passing runs check, `InOrder`, and the safety part of both refinements. The
only assumptions are the named ASSUMEs of the modules: sets that are finite where they are
counted, bounds that are natural numbers, and `None` different from what it stands
beside.

**ChatService.** The invariant is `Inv`: types; the request of a session fits its
statement (`RequestFits`); what its transaction has computed is there and its id is
unused by anybody else (`TxnFits`); the rows it holds still match its WHERE clause
and nobody else holds them (`LocksFit`). `LocksFit` is what makes a commit right: what
was read before the wait is still so. It yields `TypeCorrect`, `StampsCorrect`,
`Announced` (each commit announces what it changes and nothing else does) and
`Implements`, the refinement: for each of the three commits one lemma shows the step of the
ledger. `KeyInv` adds that a session about to commit a send is the only one with
its key, that a session that lost the conflict will find the winner's row, and that
answers already given stay true. It yields `KeysUnique`, `SendsDurable` and
`RetriesAnswered`. `ReadsCover` follows from an invariant of its own: an unread row
that was there when the read was asked for is either read by now, or still to be visited, or held.
`ConversationsExist` needs that a send past `ON CONFLICT DO NOTHING` has inserted its
conversation itself or found it committed (`ConversationReady`), because it waited for whoever
else was inserting it. `ReceiptsNeverFallBack` takes from `LocksFit` that a row a commit writes
has not changed since it was read. `DeadlocksOfReaders` shows, for any number of sessions, who waits for whom
(`WaitedFor`): a send at its conversation waits for sends that come after that statement, one at its
message only for one about to commit, and receipts only for receipts that hold a row. A send can thus
wait for a send that waits for a third, but not in a circle: where everyone waits, and for each
other only, there are reads that are a deadlock by themselves, which `DeadlockVictim` breaks. `RequestsAdvance` gives each statement a
rank that every step of its session lowers, or visits one row of a finite set. These two are what
`Answered` rests on: its requests are finite, and the waits between them well founded.

**OutboxRelay.** `BatchesExclusive` from the locks. `PushesAccounted`: every push is
undone by a failure or a retry of the pipeline, or marked, or held by a relay that is about to do either; this is
stronger than what the run checks and gives `AtLeastOnce` and `RepeatsFollowFailures`.
`NoWakeupLost` from `Prompt`: while a row of its replica is pending and free, a relay is
woken or on its way to a SELECT. `Ordered` rests on `Ahead`: of the rows that came before one of a
batch, each is pushed, left behind by a failure or locked by some relay, since a batch
takes the smallest ids available. `ImplementsOutbox` maps each step: a
`Mark` of a relay is the outbox's, because all of its batch is pushed by then, and a crash
is a stutter.

**Hub and Delivery.** `Following` strengthens `SubscriptionsFollow` to the times without a
connection: the last request of a user in the queue, or the one that is being
applied, always agrees with the registry, so that both applying the queue and dropping it for
a snapshot end in the right place. `WaitersServed` is inductive with the
types. Lemmas on queues (`Queued`, `Taken`, `Forgotten`) carry both. `EventsInOrder`: what is
on the wire is above what is in any queue, and both rise. `OnlyDeviceStaysSubscribed` says where the
documentation that `hub_gap` refutes does hold: for a user with one device, from when Redis has obeyed its
SUBSCRIBE, as long as nothing is lost or times out. Such a device asks for one thing at a time and awaits
it (`AloneAwaits`, which needs that a future belongs to a socket of the request's user, `OwnWaiters`), so
no command for its channel is sent while it is open. `Serves`, that there are sockets only
while there is a connection and that `stop()` has closed them all, gives `StopClosesAll`, the
safety half of `Drained`. `Composes` projects the
composition on its parts, so that what is proved of the hub alone (`HubHolds`) and of the outbox alone
holds in it. `NothingFallsBetween` rests on `Covered`: every row of its user that was pushed a client that has
synced over its open socket has seen, or is due an event for, or has below its cursor; on
`PassedOver`: what is below the cursor and not seen overlaps a message that is, because it was
not committed when the cursor moved past it; and on `DueReached`: an event due to an open socket is queued, on
the wire or excused.

**SocketSession.** Until a connection is closing nothing was dropped and its queue holds
only events within the limit; then at most one close request more, which is last. That is
inductive, and gives `GapsClose` and `QueueBounded`.

**Sync.** `PageFacts` says what a page is: in order, within the selected rows, and what
it leaves out comes after all of it while `has_more`. The invariant puts pages end to end
(`Joined`). `OnlyOverlaps` needs two more facts: what the client passed over overlaps
something it has (`Skips`), and a message is committed later than its `created_at`, so that
what was committed when another was created has the smaller cursor (`Times`). `SerialReplays`
turns that round: where no two transactions overlap, `ReplaysEverything`, which `sync_gap` refutes, holds.

**Attachments.** What is stored or being uploaded was admitted under a policy whose type and size the check would
accept (`Admitted`); after the expiry nothing more is admitted, so what a check then finds is final but for the
uploads that were under way. `BootstrapCorrect` counts: without an
outage an attempt fails only after another pod has created the bucket, and then the next HEAD
finds it.

Only model-checked: liveness (`Answered`, `KeepsPromise`, `Subscribes`, `Arrives`,
`Drained`, `Ends`), which needs ENABLED and, for `Answered`, an induction over the ranks, which the
provers do not reach.

## Not modelled

- Authentication: a library verifies a token against a secret or a key set that it caches;
  this program keeps no state about it. A socket is authenticated once, when it opens.
- `list_conversations`: one read-only statement in its own snapshot.
- Validation of shapes, the wording of errors, and grapheme counting, of which only the
  verdict matters (`Overlong`).
- Migrations, a linear script whose unique constraints are what the INSERTs wait on, and
  settings, whose values are the constants of the modules.
- Metrics, logs, request ids and health checks, which nothing depends on. The relay's
  gauge and the hub's latency histogram are left out of their modules.
- Download URLs: links that expire and are signed anew with every answer.
- The demo client, which does not sync after it reconnects, the load test and the
  deployment files, except that every pod runs the bootstrap before it serves.
- A hub whose task dies of something other than a Redis or network error, which only a
  payload that nothing in the repository publishes would cause.
- Hosts whose clocks disagree, except for `Skew` in `ChatService`.

## Layout

| Files | What they are |
|---|---|
| `MessageLedger`, `Outbox` | abstract specifications |
| `ChatService`, `OutboxRelay`, `Hub`, `SocketSession`, `Sync`, `Attachments` | the components |
| `Delivery` | the composition; extends `Hub`, instantiates `Outbox` |
| `MC*.tla`, `MC*.cfg` | their instances for TLC |
| `*Proofs.tla` | theorems; each extends its component, `DeliveryProofs` also `HubProofs` |

Each module can be checked with TLC under the `.cfg` of its `MC` module, and each proof
module with `tlapm`.
