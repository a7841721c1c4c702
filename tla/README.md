# IMChat: models, checks and proofs

TLA+ modules that model the parts of this IM backend (Go, go-zero, NATS
JetStream, Redis, MongoDB, MySQL) in which several processes work on shared
state. Everything is translated from the Go code under `src/`; what the code
only uses (JetStream, Redis, MongoDB) is modelled by what the code relies on.
`PROJECT.json` maps every definition to its lines.

    tlc -workers 2 -config MessagePipeline_single.cfg MCMessagePipeline.tla
    tlc -workers 2 -config Delivery_parts.cfg MCDelivery.tla
    tlapm MessagePipeline_proofs.tla

## 1. Inventory

| Component | State it keeps | Operations | What is hard | What makes it correct |
|---|---|---|---|---|
| Message write path (`Message/rpc/listener`, `service/message.go`) | deliveries in worker queues, rows in MongoDB, the consumer's acknowledgements | fetch, duplicate check, allocate, append, push summary, ack / nak / dead-letter | at-least-once delivery, several instances, crashes, ambiguous database errors, a re-created consumer | nothing acknowledged is lost; nothing is stored twice; seqs unique and growing |
| Seq allocator (`internal/seq`) | last timestamp per session, 12-bit counter | Known, Observe, Alloc, prune | lost in a crash, not shared | seqs never repeat or fall back |
| SeqSyncer (`dao/seq_syncer.go`) | a channel of updates, newest summary per session, MySQL row, Redis snapshot and timelines | Push, run, batchFlush | a full channel, batches of several instances in any order, half a flush | readers see one stored message, never an older one, in the end the newest |
| Message buckets (`dao/message.go`) | capped MongoDB buckets | AppendMessages, FindByConversation, CountUnread, UpdateMessageStatusCAS | two instances appending to one session | pages neither skip nor repeat |
| Sessions and read positions (`dao/session.go`, `service/session.go`) | sessions, a cache of keys, user_session rows with read cursors | resolve or create, ensure rows, mark read | several instances create or ensure at once, ids that collide | one session per conversation, no two conversations in one; the cursor never goes back |
| Call state plane (`pkg/callstate`) | HASH per call, busy lock per user, deadline ZSET | Create, PendingFor, Accept, Terminate, ClaimExpired, Reschedule, RemoveDeadline | several keys per operation, one script each, TTLs | one call per user, every call ends once and is recorded |
| Call signalling (`dispatch/call.go`) | none of its own | invite, accept, terminate, pending, relay | snapshot before CAS, callee connecting meanwhile | invite reaches the callee; reason fits the call |
| Call sweeper (`callsweeper`) | none of its own | claim, reap | several of them, crash between claim and end | no live call ended, no dead one forgotten |
| Connections (`gateway/connection`, `transport`, `server`) | one connection per user and node | add, replace, kick, close, pumps, drain | close racing a new connection, two at once, lost notices | the map holds the live connection |
| User routing (`pkg/routing/user.go`, `gateway/router`) | user to node in Redis | register, renew, unregister, heartbeat | a route lost or taken meanwhile | the route converges on the node that serves |
| Group routing (`pkg/routing/group.go`, `Group .../route.go`) | group to member set in Redis | replace, add, remove, replay of notices | expiry, rebuilding from a list already old, replay out of order | the set is the membership |
| Idgen (`Idgen/rpc`) | segments in MySQL and memory | getNextSegment, GetNextIDs, SaveCacheState | restart, several processes | ids are given out once |
| Groups (`Group/rpc`) | members, count, applications, invitations in MySQL, a cached row | create, join, apply, invite, answer, leave, kick, dismiss, update | checks and writes in separate calls, cache against database | one membership per user, count = rows, answers stand |
| Friends (`User/rpc`) | two rows per friendship, applications | add, apply, answer, delete | two answers at once, a direct add without a transaction | friendships are mutual, answers stand |
| Auth, users, file, LLM, HTTP APIs, middleware, `cmd`, scripts | rows and keys of one request each | request handling | - | - |

How they interact: a gateway authenticates a WebSocket, registers the user's
route in Redis and publishes chat messages to the stream `WS_MESSAGES`. All
instances of the Message service pull from it through one durable consumer, store
the message, look up routes and publish it to the nodes of the receivers. Group
and User services publish notifications into the same stream, and the Message service
replays group notices onto the routing table. Calls never touch a
database until they end: the gateways' signal handlers and sweepers share
their state in Redis, and the process that ends a call publishes its record to
`WS_MESSAGES` as a chat message.

## 2. Plan

| Part | Modules | Proved |
|---|---|---|
| write path, against its abstract `MessageInbox` | `MessagePipeline`, `MCMessagePipeline` | `MessagePipeline_proofs` |
| calls, against their abstract `CallLifecycle` | `CallState`, `MCCallState` | `CallState_proofs` |
| connections and user routing; summaries and read cursor | `Connections`, `SessionSummary`, composed by `MCDelivery` | `Connections_proofs`, `SessionSummary_proofs` |
| ids, session keys, buckets, groups and their routes, friends | `IdSegments`, `SessionKeys`, `MessageLog`, `Groups`, `Friends`, composed by `MCRecords` | `IdSegments_proofs`, `Groups_proofs`, `Friends_proofs`; `Records_proofs` for the other two and the composition |

Every invariant and action property of the runs that pass is proved; what remains with TLC is at
the end of section 5. Left of the plan: proofs under weaker hypotheses than `Generous` and `OneFault`, and the
parts of section 6.

Recursion is written as functions or folds, constants carry named assumptions and each operation is
one action, so that each module can be proved about.

## 3. Modules

### MessagePipeline: the write path of a chat message

State: the stream (`last`, `sseq`), what its consumer knows (`cons`, `nd`,
`created`), per instance the fetch loop (`seen`, `refetch`), per instance
and session a worker (`queue`, `pc`, `job`, `seq`), the allocator's clock, the
SeqSyncer's buffer, the rows of each session (`log`), the session summary
and the dead letters.

| Action | Code |
|---|---|
| `Publish` | `dispatch/process.go`; also recall, group notices, call records (`Minted`) |
| `Fetch` | `runLoop`: pull, refresh of the consumer's creation time after failures, dispatch to the session's worker, wait while its queue is full |
| `Take`, `FindDuplicate`, `FindNone` | `runWorker`, `deliveryOf`, `MaybeDuplicate`, `FindBySenderAndClient` |
| `AllocSeq` | Known, MaxSeq, Observe, Alloc |
| `AppendRow`, `AppendFails` | `AppendMessages` and `pushSessionSummary`; an error may hide an append that took effect |
| `Acknowledge`, `Retry`, `Bury`, `BuryFails` | the branches of `finishMsg` and the DLQ handler |
| `LookupFails` | any read before the append that fails |
| `FlushSummary` | `SeqSyncer.run` and `batchFlush`, whose failure drops the update |
| `FetchFails` | a `Fetch` that returns an error: `runLoop` then refreshes the creation time before it dispatches |
| `RebuildConsumer(noticed)` | the durable consumer is deleted and created again; the instances in `noticed` see a fetch fail, the others (blocked at a full queue, or between two fetches) go on with the old creation time |
| `AckWaitExpires`, `Crash` | the environment |

A seq is a timestamp and a node, compared in that order like the 63-bit number.
A worker serves one session of an instance; the code hashes session keys, which decide
the session, to 8 workers, and a shared worker only removes interleavings.

`MessageInbox` is what the path promises: a published message gets copies or a dead
letter, and only then settles. `Once` names the messages that get one copy at most.
The mapping: copies are rows, settled is acknowledged. `misdated` is history: the messages an
instance takes for younger than a consumer whose re-creation it has not noticed. They are
mapped to `excused`, which the inbox may store again.

### CallState: the state plane of calls

State: the HASH of each call (`state`, `talked`, `expire`, `ttl`), the deadline
index (`due`), the busy locks (`busy`, `busyTTL`), who is on line and what each client
has been told (`online`, `asked`, `told`), how far each Create has got
(`made`), and what each process is doing (`pc`, `job`, `left`, `note`, `claimed`).

Every Redis script is one action, so that an operation is a chain of them:

| Operation | Chain |
|---|---|
| `onCallInvite` / `Create` | `Invite` (callee's lock), `LockCaller`, `IndexCall`, `CreateState`, `Deliver`; undone by `UnlockCallee`, `FreeCallee`, `FreeCaller` |
| `onCallPending` / `PendingFor` | `ReadLock`, `PendingGet`, `PendingUnlock` or `PendingCheck` |
| `onCallAccept` / `Accept` | `Accept` (its Get), `AcceptCAS`, `AcceptIndex` |
| `onCallTerminate` / `Terminate` | `HangUp` (its Get and the reason), `Terminate`, `Unindex`, `FreeCallee`, `FreeCaller`, `PublishRecord` |
| sweeper | `ClaimExpired`, `Reap`, then `Terminate` and its chain, `Reschedule` or `DropIndex` |

A step may fail with or without effect (`Mishap` branches and `StepLost`), and a
process may crash between any two. `Tick` lets a unit of time pass for every TTL.

`CallLifecycle` is what the plane promises of a call: it rings, may be answered, ends
once, is not forgotten before it ends, and has at most one record, "completed" only if it was answered. The
mapping takes `state` for the phase.

### Connections: a user's connections and route

State: per node its map entry for the user (`local`), whether it runs (`mode`), kick-off
notices on their way (`notices`), what its subscriber and heartbeat are about to do
(`kicker`, `beat`); the route in Redis; per connection the goroutine that serves it (`conn`).

| Action | Code |
|---|---|
| `Evict`, `Store` | the two steps of `AddConnection` |
| `RegisterUser`, `RegisterFails` | `Router.RegisterUser`, and the rollback in `Handle` |
| `ClientLeaves`, `KickFires`, `ReadPumpEnds` | the end of the socket; `Kick` closes a second later |
| `RemoveConnection`, `LookForNewer`, `UnregisterUser` | the deferred clean-up of `Handle`, three steps |
| `CheckNotice`, `KickNoticed` | `handleSubscribeMessage` |
| `ListUsers`, `RenewUserRoute`, `KickSuperseded` | the route heartbeat |
| `Drain`, `ProcessEnds`, `Restart`, `LoseRoute`, `LoseNotice` | `Stop`, crashes, Redis and core NATS |

Users share nothing here, so the module has one. `raced` and `late` in a connection's
record are history: which overlaps it met while it was added.

### SessionSummary: what the session list shows

A private chat's newest message in MySQL, in the Redis snapshot and in the timelines, and
one user's read cursor. `Pull` to `Finish` are the worker (`process`: ensure, store,
push), `Push` and `PushDegrades` the channel with room and without, `TakeBatch` the
SeqSyncer's loop, `Upsert`, `WriteRedis` and their failing twins the two halves of
`batchFlush`, which a worker and the loop of one instance may run at once. `EnsureUserSessions`
reads the newest seq and inserts in two steps. A message is its seq. Group chats
differ in whose timelines are written.

### SessionKeys: which session a message belongs to

`Resolve`, `ResolveCached`, `Find`, `Create`, `Confirm`, `SessionIDConflict` are the queries of
`FindOrCreateBySessionKey` under `withSessionIDRetry`, with the LRU in front. The table's
only unique index is on `session_id`, so an insert for a key that has a row
succeeds, and one with an id that is taken changes nothing but a time. Instances with
one snowflake node number propose the same ids.

### MessageLog: a session's buckets

A bucket is the set of its seqs. `AppendChunk` takes the bucket with room
and the greatest min_seq, or finds none and leaves the insert to `InsertBucket`.
`FindByConversation` is the aggregation pipeline as an operator, compared with
`Page`, the answer of a log that is one sorted array.

### IdSegments: ids in segments

`ReadSegment`, `ClaimSegment` and `RetrySegment` are `getNextSegment` under its
optimistic lock; `GetNextIDs`, `TakeIDs`, `ReturnIDs`, `GetFails` a request that may
need several segments; `SaveCacheState` the `BeforeStop` hook, after which the
process still serves until it stops. `Boot` and `CreateRow` are `InitBizTags`.

### Groups and Friends

One group with its owner as administrator: every handler is a chain of its separate
calls to MySQL, Redis and NATS (`at` says which comes next), and handlers interleave
between any two. `FoundGroup` answers from the cached row, `DropGroupCache` is the double
delete. `WriteRoute` and `ReplaceRoute` are `ensureGroupRoute` with its rebuilding,
`PublishNotice`, `SyncGroupRoute`, `SyncFails`, `AckIsLost` and `SyncAgain` the notice and its
replay by the Message service. Several instances share the consumer, each replays a notice after it has
stored and delivered it, and one that fails to store it asks for it again later: any queued
notice may be the next one replayed. `FoundNoMember` is `IsMember` as its callers use it: they
drop its error, so a member whose check fails is taken for none, and let in again.

History variables name the overlaps and faults the properties except. `crossed`: users
about whom requests overlapped. `strayed`: users the member set may be wrong about, because requests
overlapped, a write was lost or notices came out of order (`Overtaken`); the expiry of the set with nothing
under way clears it. `unchecked`: members whose check failed, until their rows are deleted.
`miscounted`, `doubled`, `admitted`, `refused`: the count was written from a wrong list or copy, or by the leave of
a user in `unchecked`; records two requests answered at once; what acceptances did.

In `Friends`, `AnswerTx` and `DeleteTx` are transactions, and the direct add is
`InsertFirst` and `InsertSecond` because it passes a plain connection for the transaction.

### MCDelivery and MCRecords

They check several parts in one run. The parts share no variable, so the first state picks the
part that moves (`focus`) and the others stay: the states add up instead of multiplying.

## 4. Runs

| Run | Checks | What it shows |
|---|---|---|
| `MessagePipeline_single` | `TypeOK`, `RowsStoredInOrder`, `ImplementsExactlyOnce` | one instance turns at-least-once delivery into one row per client message, in seq order, through one crash, one failure, one AckWait expiry and one re-created consumer, except for messages it takes for younger than a consumer whose re-creation it has not noticed |
| `MessagePipeline_pair` | `AckedIsKept`, `NodeSeqsGrow`, `SeqsUnique`, `SummaryShowsRow`, `ImplementsAtLeastOnce` | two instances lose nothing and repeat no seq, dead letters that are not confirmed and re-creations nobody notices included; a summary always points at a stored row; the path implements `MessageInbox` |
| `MessagePipeline_live` | `EveryMessageSettles` | a good and a poison message both settle |
| `CallState_one` | `TypeOK`, `InviteReaches`, `ActiveIsIndexed`, `DriftEndsNoCall`, `ImplementsCallLifecycle` | one call, one mishap, one reconnection: the plane implements the lifecycle, sweepers find every live call, the invite arrives |
| `CallState_glare` | `RingsAlone` | two users call each other |
| `CallState_live` | `IndexHeals`, `EveryCallRecorded`, `ImplementsCallLifecycle` | two sweepers that may claim the same call and one mishap: still one end and one record, the index is cleaned up, and without a mishap every call is recorded |
| `Delivery_parts` | `OrphansOnlyByOverlap`, `UnroutedOnlyByLateCleanup`, `RoutesConverge`; `SummaryIsOneMessage`, `SummaryNeverGoesBack`, `ListedIsShown`, `SnapshotAgrees`, `CursorNeverGoesBack`, `HidesOnlyUnensured`, `SummaryCatchesUp`; `DeliveryTypeOK` | the route converges on the node that serves, an unkicked connection is lost, or a live one unrouted, only in the races named; summaries are one stored message and catch up, read cursors hide nothing |
| `Records_parts` | `TwiceOnlyAfterRewind`; `KeysKeptApart`, `SplitOnlyByRace`; `PageIsExact`; `RouteIsMembership`, `CountIsRows`, `MemberOnce`, `AnswerStands`; `FriendsAreMutual`, `FriendAnswerStands`; `RecordsTypeOK` | ids, conversations, pages, memberships, routes and friendships are right, but for the races and faults each property names; group notices are replayed in any order, and membership checks fail as in the code |
| `MessagePipeline_twice` | violates `OneRowPerClientMessage` | a first delivery that outlives AckWait skips the duplicate check and is stored twice |
| `CallState_ghost` | violates `RingsAlone` | a CALL_PENDING during Create frees the callee's lock, and a second call rings |
| `SessionKeys_split` | violates `OneSessionPerKey` | two instances create two sessions of one conversation |
| `IdSegments_twice` | violates `NoIdTwice` | an instance that has saved its position serves on, and its ids come again |

The four violations are what the code does against what its comments or tests say;
`PROJECT.json` quotes the lines.

### Divergences without a run

The same states show more, which the properties except by name and which has no run of
its own.

Write path: a fetch loop that waits at a full worker queue (`listener/index.go:222`) sees no failed
fetch while the consumer is deleted and created again, although the comment at `index.go:188` says that every
instance must ("本实例必然先经历拉取失败"); it keeps the old creation time, trusts `NumDelivered == 1` and stores such
messages twice, with a single instance too (`misdated`). With two instances a smaller seq may be stored after a larger one (against
`listener/index.go:87`; `RowsStoredInOrder` is for one instance); a server-made message
(no client_id) whose Ack is lost to a crash is stored again; a notification pushes the
session summary although the comment in `PersistMessage` says it does not. With as many
partly filled or overlapping buckets as the scan has spare ones (`bucketScanPad`), a page may have gaps, although
`model/message.go:38` lets ranges overlap freely.

Calls: an accept between the sweeper's read and its terminate is undone (against
`callstate/store.go:63`); the locks of an answered call expire with the ring window, and its parties can be
called; a reason computed before the CAS (cancel, reject, missed) may be recorded for a call
that has been answered; the callee that connects a second time after the ghost
run's lost lock is never told of the call; a CAS winner that dies before it publishes leaves
a call without a record (hence the `mishaps > 0` of `EveryCallRecorded`).

Connections: a clean-up that has looked into the empty map unregisters the route of the
connection stored after the look (against `websocket.go:86`), until the heartbeat
renews it; of two connections added at once, one may be left open and unknown.

Groups: two acceptances at once insert two rows, since `group_member` has no unique
index (against `invite.go:88`). `apply.go:30`, `apply.go:132` and `invite.go:132` drop the error of `IsMember`,
which answers false on an error: one failed query inserts a second row with no overlap, and a later leave
deletes two rows and takes one from the count. `UpdateGroup` saves a stale count, or brings a dismissed
row back; a dismissal leaves the cached row; a creator who lists itself is counted
twice; `LeaveGroup` takes one from the count whatever it deletes. Notices are replayed out of order, by
two instances or after a NAK, and redelivered after later ones (against `group_events.go:40`,
"所有操作均幂等，无副作用"): a JOIN after a later LEAVE puts a user back who has left, until the set expires. A direct write or replay that fails
behind an older notice is not put right. `UpdateApplyStatusWithHandler` names a column
`remark` that `model.GroupApply` does not have when there is a reject reason.
`NewProvider` leaves its `groupRpc` nil, so that an expired member set is read through it.

### Bounds

`MaxCrashes`, `MaxFaults`, `MaxTimeouts`, `MaxRebuilds` (pipeline), `MaxMishaps`,
`MaxConnects`, `MaxSignals` (calls), `MaxFaults`, `MaxStops` (connections), `SumFaults`, `SumCrashes`,
`MaxSaves`, `MaxGroupRequests`, `MaxGroupFaults`, `MaxFriendRequests` and `MaxFriendFaults` cap what the environment does; `MaxDeliver` and
`QueueCap` are the code's 5 and 128 made small (2, and 1 or 2) so that the dead letter
and a full queue happen. Two messages of one session and two instances are enough for
overtaking, double storage and clock loss; each trouble happens at any step. In the pair run
`TroublesApart` stops a behaviour after a crash and a failed call, after two failed calls or after a re-created consumer
(the step after is still checked): enough for a second delivery whose dead letter is not confirmed.
`MessagePipeline_single` has a crash, a failed call, an expiry and a re-creation in one behaviour.

A tick of `CallState` is 30 s: `RingTTL` 2 (60 s), `ClaimVisibilityTTL` 1 (30 s).
`EndedLingerTTL` is 3, not 2 (60 s), because a model operation may last a whole tick
where a real one lasts seconds: with 2, one failed sweep stretched over a tick would
outlive the state, which takes two failed sweeps in the code. `MaxCallDuration` (4 h) is 2 or 3, so
that a call outlives its locks. An operation crosses at most one tick (its Redis
calls have timeouts of seconds), and an idle sweeper polls between any two ticks (it
polls every 2 s); `RingTTL > 1` says that a ring window is longer than an operation.

`InviteReaches` speaks of behaviours with at most one reconnection, because a second one
breaks it (see the ghost run's cause). `CallState_one` has two signals, so that a cancel
or a hang-up races an accept; `CallState_live` has one signal and two sweepers, whose
claims overlap because a claim becomes visible again after a tick.

`Delivery_parts`: two nodes and two connections, one fault and one stop give every overlap of an
old connection with its successor, on one node or two; two messages,
two instances and a channel of one fill the channel and let batches cross.
`Records_parts`: ids 1..4 in segments of two let a request need two segments and exhaust
the range; two ids for three keys collide until an instance gives up; seven messages in buckets of two
make more buckets than a page of three scans; four group requests and
faults (one more when the last request's own check fails) are an admission or dismissal against any other with one failure; five friend requests
answer and delete what they add. `h1` and `h2` are the two actors of each part there, occur
nowhere else and are never compared, and all properties of that run are invariants: they are a
symmetry set. No other run uses symmetry.

Deadlock is not checked: every budget may be spent and everything done, and then the
system really has nothing to do.

### Fairness

Pipeline: weak fairness of the fetch loop, of each worker, of each SeqSyncer and
of the server's AckWait timer: each is a loop or a timer that never
stops while its process runs. `Fetch` is fair for the instances together, since
the consumer gives a message to any of them. Nothing obliges anyone to publish, crash or fail.

Calls: weak fairness of each process's `Step` and of `Tick`: what a handler has begun goes on, sweepers poll, time
passes. Nobody has to call, answer or hang up, and clients may vanish.

Connections: weak fairness of each connection's `Handle` and each node's `Heartbeat`.
Notices owe nothing, they may be lost; so do clients, faults and nodes.

SessionSummary: weak fairness of each worker with the flush it runs itself, and of
each SeqSyncer's loop. The other parts have no liveness property and no fairness.

## 5. Proofs

Every theorem holds for any number of instances, connections, sessions, keys or people and any
bounds, from the named assumption of its module and, where the text says so, one of the
hypotheses `OneInstance`, `Generous` and `OneFault`. Each inductive invariant below was a TLC
invariant first. What it adds to the property is what makes it inductive.

`MessagePipeline_proofs` (distinct node numbers, positive limits):

* `TypeCorrect`: `Spec => []TypeOK`.
* `NoSilentLoss`: `Spec => []AckedIsKept`. A worker at
  "ok" will acknowledge, so `KeptInv` adds that such a worker's message is stored or
  buried (`OkIsKept`), and that a worker holds only messages of its session
  (`JobsInSession`). `KeptStays` says that rows and dead letters never go away.
* `SeqsGrowPerNode`: `Spec => []NodeSeqsGrow`, and `SeqsAreUnique`: `Spec =>
  []SeqsUnique`. `SeqInv` adds that an instance's clock, when it has one, is not
  below any row its node has stored, and that a seq in hand is above them and not
  above the clock. A crash resets the clock to 0, and the next allocation seeds
  it from the log (`SeqAlloc`). Uniqueness follows, since seqs of
  different nodes differ in their node.
* `SummariesShowRows`: `Spec => []SummaryShowsRow`. `ShownInv` adds that a SeqSyncer's buffer
  shows rows too.
* `WritePathIsAnInbox`: `Spec => ImplementsAtLeastOnce`. `InboxInv` adds to `KeptInv` that
  what a worker holds was published; then an append or a burial is a step of `MessageInbox`
  and everything else a stutter.
* `OneInstanceStoresInOrder`: rows are in seq order, and `OneInstanceStoresOnce`:
  `ImplementsExactlyOnce`, both under `OneInstance`. With several instances both fail:
  seqs of two nodes may cross, and run `pipeline_twice` stores a message twice. `OnceInv`
  says why one instance is enough: a delivery taken by a worker is counted by the stream, one counted as
  the first after the consumer was created anew predates it unless it is misdated, a later one is looked up
  before it is stored, and a message about to be stored without a look has no row. What an instance
  has not noticed is in `misdated` from the re-creation on, and the inbox is excused for it.

`SessionSummary_proofs`:

* `SummariesAreOneMessage` (`SummaryIsOneMessage`): `OneMessageInv` adds that a flush in hand
  and an entry on its way carry a message that is stored.
* `SummaryOnlyAdvances` (`SummaryNeverGoesBack`) and `CursorOnlyAdvances` (`CursorNeverGoesBack`), the
  action properties: whatever order flushes and reads arrive in.
* `ListedSessionsAreShown` (`ListedIsShown`): `ListedInv` adds what is true of the row and of the
  snapshot a list is made from. `SnapshotsAgree` (`SnapshotAgrees`): `RowLeads` adds that, without failures, a snapshot
  behind its row has a flush that brings it up.
* `OnlyUnensuredAreHidden` (`HidesOnlyUnensured`): `EnsuredOrMarked` adds that a message past the
  ensuring has the row, or is marked as one whose ensuring failed.
* `DeliveryTypes` (`DeliveryTypeOK`): the types of both parts of `MCDelivery`, by way of
  `DeliveryIsItsParts`, that each part of a behaviour of the composition is one of its own.

`CallState_proofs`:

* `CallTypes` (`TypeOK`), `LiveCallsAreIndexed` (`ActiveIsIndexed`, with what is true of a call whose
  creation is half done) and `DriftHarmsNoCall` (`DriftEndsNoCall`).
* `StatePlaneIsALifecycle`: `ImplementsCallLifecycle`, under `Generous`: a sweeper exists, the ring TTL and
  the claim's visibility are not above the longest call, and the linger of an ended call is at least
  `3 + MaxMishaps * (ClaimVisibilityTTL + 2)` ticks. An ended call must still be there when its
  end is recorded, however often the claim on it is lost; `TimeInv` relates the time left of an ended call to what
  remains to be done. In ticks of 5 s the code's ring TTL, linger, claim and longest call of
  60 s, 60 s, 30 s and 4 h are 12, 12, 6 and 2880, and one mishap asks for a linger of 11. The
  run of `CallState_one.cfg` has a tighter linger, which only TLC covers.
* `InvitesReach`: `Spec => []InviteReaches`, no invite is missed while nobody has connected anew more
  than once. `ReachInv` adds that who places a call has not offered it yet, that who ends one finds it
  over, that a connection which asks was used, and how long the callee's lock lasts: until
  the offer is delivered as long as the creator's time, and afterwards as long as the call.
* `LocksKeepCallsApart` (`RingsAlone`), as long as nobody has connected anew: of two calls whose Create has
  succeeded, whatever crashes or fails, and of any two if nothing does (a HASH that was written by a Create
  which then failed rings without its locks). `AloneInv` adds to `ReachInv` that a created call
  that rings holds both locks for at least as long as it rings, and its creator the caller's lock from
  `LockCaller` on. That includes all of `CallState_glare`; `CallState_ghost` has the reconnection.

`Connections_proofs`:

* `OrphansNeedOverlap`, `Spec => []OrphansOnlyByOverlap`. `OrphanInv` adds that a
  connection that is handled has a node whose process runs (`Placed`), and that while one is
  about to be stored, every open one of its node that is being stored too, or is kept and
  not kicked, knows of an overlap (`OverlapNoticed`): Store then hides only a connection
  that has raced.
* `RoutesSparedByTheLook`, `Spec => UnroutedOnlyByLateCleanup`. `LateInv` adds that who is in a node's map
  is placed there, and that a cleanup which would remove the route of a stored
  connection is known to be late.

`IdSegments_proofs`: `IdsTwiceOnlyAfterRewind`. `IdInv` says that what was claimed lies
below the row unless a save took it back, that what instances hold was claimed, and that
no id is held or given twice, those put back aside.

`Groups_proofs` (finitely many people):

* `OneRowEach` (`MemberOnce`): `MemberInv` says that a handler acts on a person alone, unless that person is
  both in `crossed` and in `strayed`, and that one about to insert a row finds none, unless the person is in
  `crossed` or `unchecked`.
* `CountsAreRows` (`CountIsRows`): the count of a group is the number of its rows, unless requests
  about one user overlapped, a stale copy was saved or a user left whom a failed check had let in again. `CountInv`
  adds to `MemberInv` that who leaves has one row, unless in `crossed` or `unchecked`. The sum over the people is reasoned about with a smallest counterexample, taken from the
  library's `WFMin`.
* `GroupAnswersStand` (`AnswerStands`): an application that is being asked is new, handlers of one
  record agree on its answer, and who was admitted was accepted.
* `RouteShowsMembers` (`RouteIsMembership`), under `OneFault`. `RouteInv` follows a row
  from its change through the notice in the stream to the route: what each of the row, the notices and the
  replay knows is current, or a newer one is on its way, for every user not in `strayed`. `RoutePopped` is the
  replay of any queued notice: one that overtakes an older notice about a user puts that user into `strayed`. With two faults, a failed write of the route
  followed by a failed publish of the notice, TLC violates it: the code repairs either, not both.

* `GroupTypes` (`GroupsTypeOK`): rows of a user have no fixed bound, but each was paid for by a request,
  `RowsPaid`.

`Friends_proofs`: `FriendshipsMutual` and `AnswersStand`. `FriendInv` adds that a
handler at its second insert has the first row or the pair is torn, that one handler files a
record, and that two handlers answering one record make it contested.

`Records_proofs`:

* `ConversationsKeptApart` and `SplitNeedsRace` of `SessionKeys`. `SkInv` says that caches and messages
  know only rows of the table, whose ids differ, and that a second row of a key, or a row of a key
  someone is about to create, is the trace of a race.
* `EveryPageIsExact` (`PageIsExact` of `MessageLog`): for every finite set of seqs, bucket size, page limit and
  number of spare buckets, a page and whether there is more are those of a sorted array, as long as fewer
  buckets are partly filled or overlap another than the scan has spare ones. `LogInv` adds that a message is
  in one bucket, and that no bucket is empty or over `BucketSize`. Then a bucket the scan does not reach
  lies beyond `BucketLimit` scanned ones; all of these but fewer than `BucketScanPad` are full and lie
  wholly before it, and all but one of those within the range asked for, which is a page and one message more.
  That so many full buckets hold so many messages (`UnionOfFull`) is again a smallest counterexample.
* `RecordsAreTheirParts`: each part of a behaviour of `MCRecords` is one of its own, so that what is proved of
  a part holds in the composition; `RecordsTypes` (`RecordsTypeOK`) is the types of all five.

Only model-checked: the liveness properties (`EveryMessageSettles`, `IndexHeals`, `EveryCallRecorded`,
`RoutesConverge`, `SummaryCatchesUp`) and the violations, which are counterexamples and not theorems
(`OneRowPerClientMessage`, `RingsAlone` with a reconnection, `OneSessionPerKey`, `NoIdTwice`). Liveness under
fairness and ENABLED are beyond the prover, and so are the library's induction theorems that take an operator as
a parameter; no module uses RECURSIVE operators. Outside the hypotheses of a theorem, as for the linger of
`CallState_one`, only TLC speaks.

## 6. Not modelled

In the pipeline: an envelope that cannot be decoded before it reaches a worker
(the fetch loop itself buries it as poison; `Poison` is buried by the worker), a batch that
is fetched but not dispatched when the process dies (AckWait returns it, as for a
queued one), the stream's MaxAge, resends outside the duplicate window, the hash
that may give two hosts one node number (`NodeOf` is injective by assumption),
the seed read and the allocation as two steps, a database write that arrives after the
crash of its sender, pruning of the allocator and its 12-bit counter (timestamps of a session
grow strictly in an instance), and delivery to receivers.

In calls: one signal at a time per connection, as its read loop handles them;
a client connects anew only when its earlier handler is done; a route may
outlive its connection (then a push leads nowhere), so only the connection itself is
modelled; missed and peer-offline are one reason; the relay of SDP and ICE, the
CALL_END notifications and clients' own timers.

In connections: frames and their queues, pings. In summaries: group chats' timelines and
settings. In the log: unread counts, the status of a message, an append with an unknown
outcome (the pipeline has it). In session keys: `GetOrCreatePrivateSession`, `RegisterGroupSession` and the
inserts of user_session rows that have no caller. In ids: tags without a configured range. In
groups: roles, nicknames, mutes, batches of several members, more than one group. In friends:
remarks.

Users, tokens, file upload, LLM, HTTP APIs, middleware, the runner and generated code have no module, for the
reasons in `PROJECT.json`: each request of theirs changes one row or key, or only
forwards. They, and the generated protocol code with its tens of thousands of lines, are
most of the repository, which is why the mapped lines are a small share of it.
