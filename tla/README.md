# TLA+ models of rust-redis

These modules describe the concurrent core of `src/`: the store task, the client
tasks that talk to it, the blocking commands and their timers, transactions and
their optimistic lock, streams, the replication of writes, what a restart brings
back, connections with authentication and published messages, and the bounded
channels between all of them. Two of the sequential parts, the sorted sets and the
RDB entries, are modelled as data. TLC checks the concurrent modules on small
instances; TLAPS proves the properties that matter most for every value of the
constants. Line numbers refer to `src/src/`.

## 1. The system

One tokio task, the **store task** (`run_store`, main.rs:1202-1357), owns all data.
Everyone else sends it an `Envelope` on one bounded channel (capacity 1024,
main.rs:1689), and a command that wants an answer brings a `oneshot` channel.

    peer --TCP--> client task --Envelope--> inbox (FIFO) --> store task
                      ^   ^                                   |  |   |
                      |   +------- oneshot: Resp -------------+  |   +-- spawns timer tasks,
                      +----------- mpsc: StorePush --------------+       which send Timeout*
    master <--TCP--> run_replica_server --Envelope::Replicate--> inbox of the replica

| Component | State | Operations | What is hard about it |
|---|---|---|---|
| Store task, main.rs | `Store`, the inbox | one arm per envelope | it never awaits inside a command, but replies it sends are seen by other threads before it has finished; it does await room in push channels |
| Client task (`handle_client`) | mode, `oneshot`, socket | read, dispatch, await reply, forward pushes, unregister | while it awaits a reply it neither reads its socket nor forwards pushes; it panics if a reply's sender is dropped |
| Client modes, client.rs | `ClientRunMode` | MULTI, queueing, EXEC, DISCARD, (un)subscribe | split between this task and the store |
| Lists and BLPOP | `data`, `list_blpop_waiters` | RPUSH, LPUSH, LPOP, BLPOP, timeout | a push serves many waiters in hash-map order; timers race pushes; peers leave while blocked |
| Streams and XREAD | `data`, `stream_xread_waiters` | XADD, XREAD, timeout | ids generated from a clock, `$`, waiters on several streams, reads that must join up |
| Transactions | `watched_keys`, the queue | WATCH, UNWATCH, EXEC, any write | conflicts are encoded as set membership and taken out by cleanups |
| Replication, master | `clients`, `replica_acks`, `master_ack`, `wait_waiters` | PSYNC, SET, ACK, WAIT, timeout | snapshot against stream, byte offsets on two sides, acknowledgements against timeouts |
| Replication, replica | offset, socket | handshake, apply, GETACK | acknowledges what it passed on, not what was executed |
| Append-only file, aof.rs | one file | append, replay | appended before execution; a crash may cut a command; relative expiry |
| Strings and expiry | `data` | SET, GET, INCR | expiry is lazy: nothing ever removes a key |
| Publish/subscribe | `subscriptions` | SUBSCRIBE, UNSUBSCRIBE, PUBLISH | subscriptions outlive connections; a full channel drops messages |
| Authentication | `users` | AUTH, ACL | decided once, at registration |
| Sorted sets, sorted_sets.rs | per key a B-tree of (score, member) | ZADD, ZREM, ZRANK, ZRANGE, ZCARD, ZSCORE, GEOADD | the tree is indexed by the pair, the commands name a member |
| RDB, rdb.rs | none shared | pure functions | length prefixes that change shape, panics at the end of the input |
| RESP, parsers, geo | none shared | pure functions | numeric boundaries |
| Configuration and startup | `Config` | arguments | none |

What makes them correct:

* *Blocking commands*: whoever awaits a reply is owed exactly one; nobody stays
  blocked on something that is there; a bounded wait ends; no element is lost or
  handed out twice; the commands are linearizable.
* *Streams*: they grow only at the end; a reader that goes on from where it was
  misses nothing.
* *Transactions*: EXEC commits only if no watched key was changed, and aborts only
  if one was.
* *Replication*: snapshot and stream together are the writes, each once and in
  order; WAIT counts replicas that have the writes, and ends.
* *Restarts*: what a client has been told of is there afterwards, in the order of
  execution; a key lives no shorter than its SET said; the server comes back.
* *Connections*: nobody who must authenticate gets in; a message reaches each
  subscriber once and in order, or there is a reason; nobody waits for ever.
* *Sorted sets* are maps from members to scores; *RDB entries* are read back as they
  were written.

## 2. The modules

| Module | What it is |
|---|---|
| `ListData` | list values and list commands as data, shared by the next two |
| `LinearLists` | the abstract specification: every list command takes effect at one instant between call and reply |
| `BlockingLists` | the detailed one: inbox, store task, waiters, timers, client tasks, peers that leave |
| `BlockingListsProofs` | theorems about `BlockingLists`, the refinement of `LinearLists` among them |
| `Transactions` | `ClientRunMode` and `watched_keys` |
| `TransactionsProofs` | theorems about `Transactions` |
| `Streams` | XADD, XREAD, the blocked readers, clients that follow streams |
| `StreamsProofs` | theorems about `Streams` |
| `Replication` | master, replica connections, replicas, WAIT |
| `ReplicationProofs` | theorems about its streams, its acknowledgements and WAIT |
| `Persistence` | SET, INCR and GET with deadlines, the append-only file, starts and crashes |
| `PersistenceProofs` | theorems about `Persistence` |
| `Sessions` | the life of a connection: registration, AUTH, `ClientRunMode`, publish/subscribe |
| `SessionsProofs` | theorems about `Sessions` |
| `EventLoop` | the store, replicas' client tasks and timers with channels that fill |
| `ScoreMaps` | the abstract specification of the sorted set commands: maps |
| `SortedSets` | the detailed one: trees of pairs; also the index arithmetic of LRANGE and ZRANGE |
| `SortedSetsProofs` | theorems about `SortedSets`, the refinement of `ScoreMaps` among them |
| `RdbCodec` | the bytes of an RDB entry, written and read |
| `RdbCodecProofs` | theorems about `RdbCodec` |
| `MCBlockingLists`, `MCTransactions`, `MCStreams`, `MCReplication`, `MCPersistence`, `MCSessions`, `MCEventLoop` | the instances TLC checks |

The concurrent modules have the same shape. `inbox` is the channel to the store, a
sequence. `Receive(...)` takes its head, and each arm of `run_store` and
`try_execute` is one action that starts with it; their disjunction is `StoreStep`.
`oneshot[c]` is the reply channel of the one command that client `c` may have under
way, `task[c]` says whether its task awaits it. A waiter table is a set of records,
`timers` the ids of the sleeping timeout tasks. Variables under "history" are read
by no action; the properties are stated with them.

**BlockingLists.** RPUSH and LPUSH are split: `StartPush` changes the list and
collects the ids of the waiters on the key (main.rs:341-348), each turn of the loop
is `ServeWaiter` or `SkipWaiter` in any order (the table is a hash map), and
`FinishPush` answers the pusher. The replies sent on the way can be seen by the
client tasks in between, so the steps are separate; the inbox waits (`StoreIdle`).
BLPOP either pops at once (`ExecBlpop`) or registers (`BlockBlpop`), with a timer
unless its timeout is 0, which the code turns into `u64::MAX` ms. A peer may leave
at any time (`Disconnect`); its task notices only when it is back at its `select!`
(`CloseTask`), and what it is answered after it left is `lost`, as in the code. An
element is a number used once, so that the properties can follow each of them.

**Transactions.** The client task's half (`RunNormal`, `RunMulti`, `RunQueued`,
`RunExec`, `RunDiscard`) is client.rs:48-84; the store's half is `ExecWatch`,
`ExecWrite`, `ExecUnwatch`, `AbortTx`, `CommitTx` and, on a replica,
`ExecReplicated`. Values are left out; a write is of a kind that `modified_keys`
names ("set") or of one it does not ("zadd"). `conflicts` is what a lock should
know: the changes by others to keys a client watches. `unsettled` is the part of it
that the lock's encoding still shows: writes whose writer has not cleaned up since.

**Streams.** An entry is its id. `NextStreamId` and `Acceptable` are
command.rs:47-86 and main.rs:809-829, with sequence numbers that wrap at `SeqLimit`
(2^64 in a release build). `Tick` lets the wall clock show anything, earlier times
included. The wake-up of all readers of a stream is one step with the XADD: each
reply goes to another channel and none depends on another. `start`, `cursor` and
`seen` are a client that reads on from the last id it was given.

**Replication.** A write is the number of a SET in the order the master executes
them. `link[r]` is the connection of a replica; `ReplicaDies` breaks it, and the
client task then either reads the end of the stream (`NoticeEnd`) or panics when it
writes a push (`PanicOnWrite`), in which case nothing unregisters the replica.
Offsets are bytes with the real lengths of a small SET and of GETACK (27 and 37).

**Persistence.** `server` is where the process is in `main`: down, loading the RDB
file, replaying, serving, or dead, which is the store task panicked in a process
that stays up and goes on accepting connections. `AppendSet` and `ExecSet` are two
steps of one arm of `run_store`, with an await between them where a crash, a failed
write or a lost machine can come. A value is the number of its SET, its increments
and its deadline. `Crash` kills the process and leaves the file; `PowerLoss` may cut
it anywhere, since nothing ever asks for an fsync (`appendfsync` is parsed and not
used), and may leave a piece of a command (`Torn`). The model follows the code in
what it logs: a SET that is a command of its own, and no other (SETs inside EXEC,
INCR, pushes, XADD and ZADD are in memory alone; history `volatile` sets them apart).
The program reads an RDB file and never writes one.

A failed write, too, may leave a piece, and the store goes on appending behind it.
What a start makes of a piece depends on bytes. `parse_bulk_string` takes as many as
a length announces, whatever they are, and `parse_rdb_file` takes them without a CRLF
(resp.rs:138-151), so that a length at the end of a piece may take in the beginning
of what follows. Then either the parse ends in a panic, or the piece and one or more
whole commands behind it read as *one* SET that nobody sent: of the piece's own key
and a `Garbled` value, or of a garbled key (`OtherKey`, which stands for every key
that no client uses). It has a deadline only if the piece was of a SET with one, and
then the deadline of a command that it took in. `Misread` is this second outcome: it
rewrites the entries of the file to what they are known to read as
(`ReadAsOne`). Acknowledged SETs may be among what is taken in, or be overwritten by
the garbled value at the replay; this is what the code does, and `NothingSeenIsLost`
takes these SETs, and no others, out of its promise (`StillPromised`). Which of the
two outcomes comes about is left open, so that a file may be a panic at one start and
misread at the next; the code's choice depends on lengths that the model does not
have, and is one of the two. A piece at the end of the file has nothing to take in and
is always a panic, but for a SET without options that lacks only its last CRLF: the
fallback to the RDB form of a string takes it, and it counts as whole (resp.rs:196).
The account assumes that keys and values contain no text of the protocol, that no key
is named EX or PX, and that clients send integers as values. INCR of a garbled value
counts from the digits that it begins with or answers an error (`Incremented`).

**Sessions.** The client task registers, is told once whether it must authenticate,
and from then on alternates between its peer and its push channel. `RunMode` is
`ClientRunMode::run`: the next mode, the next queue and what the store is to
execute. A step of `TryExecute` executes one command, the first that is left in the
envelope at the head of the inbox, and `Answer` sends the reply when none is left,
as `InternalExecuteTx` does: the client tasks see the messages of a PUBLISH inside a
transaction before the transaction is over. `verdict` is the part of the reply that
matters, whether every AUTH was right. Messages are numbers in the order of
publication, so that each can be followed (`meant`, `got`, `missed`). As in the code, UNSUBSCRIBE from the
last channel leaves the client in the mode of subscribers, subscriptions outlive
connections, and a task that panics stays registered.

**EventLoop.** The three kinds of `await` for room in a channel: a client or a timer
at the inbox, a replica's client task at the inbox with an acknowledgement in hand
(`holding`), and the store at that task's push channel in the middle of an envelope
(`pushing`, `owed`). What the acknowledgements say is left to `Replication`.

**SortedSets.** A tree is a set of pairs; walking it is choosing by `Before`
(`SafeFloat` under `total_cmp`, then the member). `FirstPair` is the pair at which
the loops over the tree stop. `ScoreMap` is the map a tree stands for. Scores are
integers and members numbers: only their order is used. A GEOADD is a ZADD.

**RdbCodec.** `EncodeSize` and `ParseSize`/`ParseBytes` are `le_encode_size`,
`le_integer` and `le_bytes`, with `Panic` where an `assert!` or an index fails.
`Serialize` and `ParseEntry` are the entry with its deadline.

## 3. The runs

| Run | Configuration | Shows |
|---|---|---|
| `blocking_lists` | `MCBlockingLists.cfg` | types; `NoStrandedWaiter`; `OwedExactlyOnce`; `ElementsConserved`; `AnsweredInTime` (liveness); `Linearizable`: `BlockingLists` implements `LinearLists` |
| `transactions` | `MCTransactions.cfg` | types; what the lock does guarantee: `WatchesRecorded`, `UnsettledRecorded`, `UnsettledConflictAborts` |
| `tx_missed_conflict` | `MCTransactionsConflict.cfg` | violation of `ConflictAborts` |
| `tx_false_conflict` | `MCTransactionsAbort.cfg` | violation of `AbortMeansConflict` |
| `streams` | `MCStreams.cfg` | types; `FollowersMissNothing`; `NoStrandedReader`; `OwedExactlyOnce`; `EntriesAppended`; `AnsweredInTime` (liveness) |
| `empty_wakeup` | `MCStreamsWoken.cfg` | violation of `WokenReadersGetEntries` |
| `replication` | `MCReplication.cfg` | types; `StreamComplete`; `GetAckCoversWrites`; `NoStrandedWait`; `AcksNeverGoBack`; `EveryCommandAnswered` (liveness) |
| `wait_overcount` | `MCReplicationWait.cfg` | violation of `WaitCountsCaughtUp` |
| `replica_contents` | `MCReplicationContents.cfg` | violation of `ReplicaHasContents` |
| `persistence` | `MCPersistence.cfg` | types; `NothingSeenIsLost`, also behind misread pieces; `LivesItsTtl`; `NothingRevives`; `NobodyHangs` and `ComesBack` (liveness) |
| `sessions` | `MCSessions.cfg` | types; `StrangersKeptOut`; `MessagesAccountedFor`; `ConfirmedFirst`; `DroppedForCause`; `MailArrives` and `EveryCallAnswered` (liveness) |
| `deadlock` | `MCEventLoop.cfg` | violation of `WaitTimesOut` |

**Refinement.** `LinearLists` knows no channels: a call is idle, called, or its
reply is decided. `BlockingLists` maps onto it by `call`: a client is "called"
until its reply is on its channel or its push has changed the list. A step of the
inbox, of a timer or of a connection is a stutter; `ServeWaiter` is the abstract
`Blpop` of the *waiter*, in the middle of somebody else's push; a timeout is
`GiveUp`, which the abstract specification allows only while all the lists are
empty. That last guard is what makes the race of a timer with a push a question.

**Bounds, and why they are enough.**

* `blocking_lists`: three clients, two keys, three commands, six shapes of command.
  Two waiters that compete for `b`, one of which may also be served from `a`, and a
  push of two elements that can serve both need three clients and three commands.
  `InboxCap` is 2, so a full inbox holds up senders and timers. One peer may leave.
* `transactions`: two clients, two keys, one queued command; histories of any
  length. Each property relates a watcher and a writer on a key, and a third id is
  there as the master's link. The sets a client may WATCH at once include both keys,
  so that an EXEC, a cleanup and a write meet across keys. Clients and keys are
  symmetric: no property or action tells them apart, and there is no liveness.
* `streams`: two clients, two streams, four commands out of nine shapes: an entry, a
  read, an entry behind it and a read that goes on is the shortest history in which
  a follower can miss anything. Two clock values and sequence numbers that wrap
  at 3 make ids collide, step back and wrap.
* `replication`: two clients, two replicas (one mortal), two SETs, two WAITs for two
  replicas: a snapshot before, between or after the writes, a WAIT that needs both
  acknowledgements, and one that never gets the second.
* `persistence`: two clients, one key, two SETs (each its own or in a transaction,
  with or without a deadline), one INCR, any number of GETs, three moments, two
  faults. Two faults let a start crash again during its replay, or a torn file meet a
  second start; a write that fails, a second SET behind its piece, and a restart that
  misreads both as one need two SETs and two faults (about 448,000 states in all); a key already expired in the RDB file meets INCR at the first
  moment. Keys do not meet in this module: no command names two. The clock never
  steps back.
* `sessions`: the publisher sends three commands and the follower four (SUBSCRIBE,
  also in a transaction, and AUTH with right and wrong passwords); a push channel
  with room for one message is full at the second. One peer may leave. Channels do
  not meet except in the client's mode, which counts none.
* `deadlock`: both capacities are 1 in place of 1024, three clients and one replica.
  The store, the replica's task and a sender need one place each; a bigger channel
  needs more SETs and more senders to fill and no other step.
* The violation runs use the smallest instance that shows the counterexample.

Commands are budgeted in the guard of `Send` (`MaxCmds`, `MaxSets`, `MaxWaits`,
`MaxCalls`), so behaviours end there; that, and in `Persistence` a server that nobody
starts again, is the only reason for `CHECK_DEADLOCK FALSE`.

**Fairness**, common to all: the store task takes its next envelope
(`WF(StoreStep)`: tokio schedules a ready task, and the store arm never blocks in
the modelled commands), a client task whose reply is there takes it
(`WF(WriteReply)`), and a sleeping timeout task wakes and sends
(`WF(TimerFires)`; a full inbox drains because the store is fair). Nothing is
assumed of peers and replicas: they need not send, read, leave or acknowledge.
A full inbox disables `TimerFires` for a while; the queue for room in a tokio channel
is first come, first served, which would justify strong fairness, but the models
assume only the weak form: commands are finitely many, so the inbox has room for
good in the end. Three modules assume more, or less:

* `Sessions` has SF for `ForwardPush`: `select!` polls its branches from a random
  one, so a task whose peer keeps sending still gets to its pushes.
* `EventLoop` has SF for `TimerFires` and `ForwardAck`, where an inbox that empties
  and fills again and again is the question: whoever waits for room in a tokio
  channel is served in turn. The deadlock is found in spite of it.
* `Persistence` does not assume that anybody starts a server that is down, nor that
  the clock moves.

## 4. Findings

1. `ConflictAborts` (main.rs:742). The lock encodes a conflict as the writer's id in
   `watched_keys[key]`. The cleanup at the end of the writer's own EXEC, UNWATCH or
   DISCARD takes that id out again, and the watcher's EXEC then commits over the
   change. In particular the writes *inside* a transaction never conflict with
   anything. LPOP, BLPOP, ZADD, ZREM and GEOADD leave no mark at all.
2. `AbortMeansConflict` (main.rs:718). The lock counts ids, and WATCH enters one just
   as a write does: two clients that only watch a key abort each other. The ids of
   clients that left, and id 0 of a master's link, stay for good.
3. `WaitCountsCaughtUp` (main.rs:1600). A replica's offset includes the GETACKs it
   read, the master's does not. After two of them the replica is a SET ahead, and
   WAIT counts it for a SET it has not received.
4. `ReplicaHasContents` (main.rs:1542). The replica throws the snapshot away: what
   the master held before it joined never reaches it.
5. `WokenReadersGetEntries` (main.rs:316). An XADD answers every reader blocked on
   the key, also one whose id is ahead of the new entry, which is answered with no
   entry at all.

6. `WaitTimesOut` (main.rs:1246). The store awaits room in a replica's push channel
   while that replica's client task awaits room in the store's inbox
   (main.rs:1410). With both full, neither moves again, and no timeout is handled.

What holds in spite of 1 and 2 is stated and proved: `UnsettledConflictAborts`.

## 5. The proofs

All theorems are for any values of the constants under the named assumptions of the
modules: the sets of clients, keys and replicas, the menus of commands, the bounds,
the clock. They are about `Spec`, without fairness.

* **`BlockingListsProofs`**, the largest. Each result adds to one invariant.
  - `TypeCorrect` and `NoWaiterStranded`: between two envelopes nobody is blocked on a
    list that has an element. The property is not inductive: during the loop of a
    push, waiters *are* blocked on a list with elements. `WaitInv` says which ones: a
    waiter that could be served is among those the loop has yet to visit
    (`OnlyTodoCanBeServed`), and ids are unique and at most `waiter_id`
    (`WaiterIdsUnique`), so that visiting an id visits one waiter. A turn of the loop
    only shrinks lists, so that what could not be served stays so
    (`HasElementShrinks`); when the loop ends, `todo` is empty.
  - `RepliesOwedOnce`: whoever awaits a reply is owed exactly one. `DebtInv` says by
    whom: an envelope, a waiter, the running push or the full channel, and these
    exclude each other (`OneDebt`), with one envelope and one waiter per client
    (`OneAsked`, `OneWaiter`). Each step hands a debt on, or pays it.
  - `ListsAreLinearizable`: `BlockingLists` implements `LinearLists`. The mapping
    `call` needs to know that a reply answers *this* call. `CallInv` says so: an
    envelope holds what its client last asked (`EnvelopeFits`), a waiter the keys of
    its client's BLPOP (`WaiterFits`), and a timer, asleep or in the inbox, belongs to
    a BLPOP with a timeout or to nobody any more (`TimerFits`); the last is why a late
    timer answers nobody else. With `WaitInv`, a timeout finds all the lists empty,
    which the guard of the abstract `GiveUp` demands. `RefinedStoreStep` maps the
    steps of the store one by one, `RefinedStep` the others, which are stutters or
    calls.
  - `ElementsAreConserved`: each element sent is in exactly one place. `ShareInv` is
    the invariant: the elements sent so far are shared out among boxes (commands under
    way, lists, replies, peers, lost, overwritten), no box shares one with another
    (`SharedOut`), and no sequence holds one twice. Every step that changes anything
    moves elements from one box to another (`MovesBetween`), so one lemma carries all
    of them. A box and an element then determine one place (`OnePlaceInBox`).
* **`TransactionsProofs`**. `TypeCorrect`, `WatchesAreRecorded`,
  `ConflictsAreRecorded`, and `UnsettledConflictsAbort`: a transaction never commits
  over a conflict whose writer has not cleaned up. `LockInv` joins the two recorded
  facts with `UnsettledWatched` (an unsettled conflict is about a watched key), so
  that the watcher and the writer are two elements of one entry and the lock's count
  exceeds one (`TwoElements`, which is where the set of clients must be finite).
* **`StreamsProofs`**. `TypeCorrect`, `EntriesGrowAtTheEnd`, `ReadersNotStranded`,
  `FollowersAreComplete` and `RepliesOwedOnce`. `StreamInv` adds to the properties: a
  stream is all that was ever added to its key, or hidden for good, and has a greatest
  entry (`EntriesAreAdded`); a cursor is at an entry or where it began
  (`CursorsAreEntries`); and a reply under way is a *run*: all entries from its bound
  to its last (`RepliesAreRuns`). A new id is after all others
  (`AcceptableIsGreatest`), so no run, no cursor and no follower is passed by it;
  taking a reply joins two runs. Even type correctness needs the greatest entry, since
  `Latest` chooses it. `RepliesOwedOnce` rests on a `DebtInv` like the one of lists;
  here an XADD answers all its readers in one step, so the waiters' ids must be unique
  for a timeout to answer one of them.
* **`ReplicationProofs`**. `TypeCorrect`, `StreamsAreComplete`, `WritesAreCovered`,
  `NoWaitIsStranded` and `NoAckGoesBack`. `LinkInv` ties the two sides of a
  connection: an announcement in the inbox agrees with the link (`Announced`), the one
  of a join is there once (`AnnouncedOnce`), before it is taken nothing is on the
  stream (`NotYetJoined`), and afterwards the replica is registered for as long as the
  connection is not closed (`Connected`). From it, a push reaches every connected
  replica and a snapshot meets an empty stream; what is due is then counted along the
  stream (`PushedSet`, `TakenSet`). `WritesAreCovered` needs the same: the step that
  clears the flag has just asked every connected replica. `NoWaitIsStranded` rests on
  two facts about counting: an acknowledgement removes what it completes, and one that
  is forgotten makes no other count greater (`FewerAcked`). `NoAckGoesBack` rests on
  `AckInv`: the acknowledgements of a replica, from the store through the inbox and
  the wire to its offset, never decrease; that is why `ForwardAck` and the inbox have
  to be in order.
* **`PersistenceProofs`**. `TypeCorrect`, `SeenSurvives`, `KeysLiveTheirTtl` and
  `ExpiredStaysExpired`. What a server shows now says nothing of what it will show
  after a crash, so `RecoveryInv` relates both to the file. `OrderInv`: SETs are
  numbered as they were sent, and the file, what was executed and the inbox are in
  that order, except for the head of the inbox, which may be in the file already
  (`LogBeforeInbox`); so a replay ends with the greatest number of a key that no
  garbled SET follows. `ShownInv`: whatever is in the data, in a reply or known to a
  client is given by the file (`Gives`), or known not to be logged (`Recoverable`,
  `Shown`), and a replay has brought back what it has read (`BroughtBack`). The promise
  is about logged SETs. When a power loss cuts the file, or a piece is misread, it
  shrinks to the latest SET of the key that is still in the file and that no garbled
  SET of the key follows (`StillPromised`), so nothing is claimed of what was cut off,
  taken in or overwritten, and everything of the rest. `DeadlineInv` says of each
  logged SET that a replay *now* gives it no earlier deadline than it first had
  (`LogFits`), which holds because the clock of the model does not step back.
* **`SessionsProofs`**. `TypeCorrect`, `StrangersStayOut`, `NothingUnannounced`,
  `NoMessageUnaccounted` and `NoMessageDroppedInVain`. `RequestInv` says that each
  client has at most one envelope in the inbox and waits for it. `AuthInv` is about
  the order of events: a password that was announced is set (`PasswordIsSet`) or is in
  the inbox ahead of whoever asks later (`PasswordOnItsWay`), so a client that
  connects after it is told to authenticate, and until it has, it can ask for nothing
  but AUTH, is in no mode and subscribes to nothing (`Stranger`). `SubscriptionsKnown`
  says that what the store knows of a subscription the client was told of, or awaits
  in the reply it has to write before it may forward a push. `MailInv` adds to the
  account of messages that nothing is meant for anybody before it is published, so
  that the number of a new message is above all numbers in a mailbox.
* **`SortedSetsProofs`**. `SortedSetsAreMaps`: the trees implement `ScoreMaps`, for
  any keys, scores, members and histories; `MembersAreUnique` is the invariant it
  rests on (`Inv`: each tree is a finite set of pairs, one per member). ZADD takes out
  the pair that its walk met first; with uniqueness that is the only one (`OnlyPair`),
  so that the new tree is the others' pairs and the new one (`AddedPairs`), and its
  map differs at that member alone. That ranks agree needs a bijection between pairs
  and members. `RangeIsOrdered` and `RankIsIndex` are about the places in a tree:
  counting the pairs before a pair numbers a finite set of pairs from 1 without gaps
  (`PlacesAscend`, `PairAtPlace`), because the order is total. `IndicesInBounds` and
  `CutAnywhere` are about the indices alone.
* **`RdbCodecProofs`**. `SizeRoundTrip`, `StringRoundTrip` and `EntryRoundTrip`: what
  is written is read back with nothing behind it touched, for every length below 2^32,
  every string shorter than that and every deadline of 64 (or 32) bits. The proofs go
  over the three shapes of a length (`SizeProperties`) and cut the input at the end of
  the first part (`ConcatParts`, `EndOfFirst`).

`SortedSets` and `RdbCodec` have no run: names range over all numbers, and the widths
of the codec are beyond TLC's integers. They have no fairness and no assumptions on
constants.

The invariants were checked by TLC on the instances of section 3 before they were
proved. Every invariant and every action property of the passing runs is a theorem,
and so is the refinement. Only model-checked are the liveness properties
(`AnsweredInTime`, `EveryCommandAnswered`, `NobodyHangs`, `ComesBack`,
`EveryCallAnswered`, `MailArrives`),
which need fairness and ENABLED, out of the prover's reach; and the violations,
`EventLoop` among them, where a counterexample is the result. What a recursive
definition computes for every input would be an induction over data, which the
installed provers cannot instantiate: that a file of many RDB entries is read back is
not proved. Where a greatest or a least element has to exist (`GreatestExists`,
`LeastNatural`), the proofs use that the natural numbers are well-founded.

## 6. What is not modelled

Listed with their reasons in `PROJECT.json`. In short:

* BLPOP, XREAD, WAIT and pushes queued in a transaction are left out of the models of
  those commands.
* Each question about full channels is asked where it is the question: the push
  channels never fill in `Replication`, the inbox never fills in `Sessions`.
* A replica whose client task panicked stays registered and WAIT goes on counting it.
  `Replication` has the step (`PanicOnWrite`); no property forbids it, since no document
  says that WAIT counts live replicas only.
* The writes that leave no mark for a transaction's lock (ZADD and the like) are in
  `Transactions` as "zadd" and not in the menu of its runs: `ConflictAborts` is
  violated without them.
* A file with a piece that is a panic is outside `ComesBack`: the server does not come
  back, and the clients are told (`NobodyHangs`).
* The clock of `Persistence` never steps back; the one of `Streams` may.
* In `Sessions` a write to a peer that is connected completes: a peer that stops
  reading until its socket is full is not modelled.
* The replica's own store: an acknowledgement is compared with what was received,
  not with what was executed.
* The framing of reads (at most 1024 bytes, each parsed alone), RESP and the parser
  combinators are functions on bytes. Of rdb.rs the entries are modelled and the
  frame of sections around them is not: that a file of many entries is read back
  would be an induction over data, which the provers cannot do.
* The geo encoding is floating point. Scores are ordered like floats under
  `total_cmp`, which is all that the commands use; how they are printed is left out.
* Counts in the replies of SUBSCRIBE, UNSUBSCRIBE and PUBLISH. The last counts
  subscriptions of clients that have gone.
* INCR of a value that is no integer, and KEYS, TYPE, XRANGE and LLEN, which only
  read. Configuration and startup beyond the order in which files are loaded.

## 7. Plan

1. The replica's own store behind `Replication`, so that an acknowledgement can be
   compared with what was executed, and its theorem.
2. The framing of reads, as a composition of a socket that cuts anywhere with a
   parser that sees each piece alone.
3. Proofs: `EventLoop`'s type correctness and what it does guarantee while the push
   channels have room; the abstract specification of what a restart brings back, with
   `Persistence` as its implementation; `Streams` as an implementation of a stream that
   only grows.
