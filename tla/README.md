# TLA+ models of CRDT-sync

CRDT-sync keeps a shared state on many nodes: each node has a store of
last-writer-wins registers, observed-remove sets and sequences, applies its own
operations at once and those of the others when they arrive, and catches up by
merging snapshots. This directory models the stores, the CRDTs they are made
of, the clocks, the programs' interfaces to a store, the client that connects a
store to a relay, both relays, and the system they make up together; TLC checks
the models on small instances and TLAPS proves the main results for all of them.

Paths below are relative to the repository: `src/` is its Rust crate,
`packages/` its TypeScript packages, `server-rs/` its Rust relay.

## 1. Inventory

| Part | State | Operations | Correct when |
|---|---|---|---|
| `LamportClock` `src/lamport_clock.rs` | `time` | `tick`, `update` | a timestamp is later than all it depends on |
| `LWWRegister` `src/lww_register.rs` | the winning (value, timestamp, node) | `set`, `apply`, `merge` | replicas that saw the same writes agree |
| `ORSet` `src/or_set.rs` | value -> live tokens | `add`, `remove`, `apply`, `merge`, `prune_empties` | an unobserved add survives; same operations, same set |
| `RGA` `src/rga.rs` | counter, list with tombstones, buffered inserts | `insert_op`, `delete_op`, `apply`, `merge`, `prune_tombstones` | one order of the elements everywhere; nothing lost or held back |
| `StateStore` `src/state_store.rs` | a clock and named registers, sets, sequences | one operation per CRDT operation, `apply_envelope`, `merge`, `prune_tombstones` | each named CRDT behaves like one alone; clock ahead of all it contains |
| `VectorClock` `src/vector_clock.rs` | node -> counter | `increment`, `update`, `happened_before`, `concurrent_with` | the order of timestamps is causality |
| `StateProxy`, `crdt_state!` `src/proxy.rs`, `src/macros.rs` | queue of envelopes | one store operation and a push | nothing queued is lost |
| `CrdtStateProxy`, `WebSocketManager` `packages/core/src` | pending batch, flush timer, offline queue, snapshot flag | write, flush, open, message, close, disconnect | writes reach the socket once, in order, after the SNAPSHOT |
| TypeScript relay `packages/server/src/relay.ts` | rooms: log, clients, their clocks, tombstones, load in progress | connect, message, close, prune, load, save | a client has the log and everything after it; no PRUNE too early |
| Rust relay `server-rs/src/main.rs` | rooms with an authoritative store, bounded channels, SQLite | connect, receive, cleanup, periodic save | the same, and what was acknowledged is saved |
| React hook `packages/react/src` | proxy, status | effect, cleanup | the status tells the connection's state |
| WASM bindings `src/wasm.rs` | a store | one call each | conversions only |

How they interact. A write through a proxy calls one operation of the store,
which returns an envelope (timestamp, node, operation). The manager collects
envelopes and sends them in batches to a relay, after it has received the
relay's SNAPSHOT. The TypeScript relay appends them to a log that later joiners
are sent whole; the Rust relay applies them to a store of its own and sends that
store. Both forward a batch as UPDATE to the other clients and, when the least
timestamp of their clients has passed that of a delete, broadcast PRUNE. Each
client applies envelopes with `apply_envelope`, snapshots with `merge`.

What is hard. Operations that overtake each other, arrive twice or never;
snapshots merged late; concurrent inserts at one place; two counters (store and
sequence) whose values are compared; tombstones dropped on the word of
timestamps; the interleaving of writes, timers and connection events at the
client; awaits and lock regions in the relays. `PROJECT.json` lists the hazards
line by line.

## 2. Modules

| Module | Models |
|---|---|
| `LamportClock`, `LWWRegister`, `ORSet`, `RGA` | the data types, as operators on values |
| `StateStore` | stores on many nodes: every public operation is an action; envelopes and snapshots |
| `RGAReplicas`, `ORSetReplicas` | the abstract specifications: replicas of one sequence, of one set |
| `SetRefinement`, `StoreRefinement` | the store implements these, key by key |
| `PruningRoom` | the stores of a room's clients, with the relay that prunes them while envelopes are on their way; extends `StateStore` |
| `VectorClock` | nodes that stamp events and messages |
| `ClientApi` | `StateProxy`, the types of `crdt_state!` and the WASM bindings, on top of `StateStore` |
| `WebSocketManager` | the client's outgoing path |
| `Relay` (`MCRelay`: its bounds) | the TypeScript relay, seen from one room id |
| `ServerRs` (`MCServerRs`: its bounds) | the Rust relay, seen from one room id |
| `SyncSystem` | programs, stores, connections and either relay together; extends `ClientApi` |
| `ORSetProofs`, `RGAProofs`, `VectorClockProofs`, `WebSocketManagerProofs`, `RelayProofs`, `ServerRsProofs`, `SyncSystemProofs` | theorems and proofs about the module of that name (`ORSetReplicas`, `RGAReplicas`); those about `StateStore` are the first part of `SyncSystemProofs` |
| `DataLemmas` | lemmas on numbers, sequences, folds, the operations of `RGA` and the document order that these use |

State and code. The maps of `StateStore` are total functions from the keys: an
absent key answers every query like an empty CRDT, and every writing operation
creates it. `TakeSnapshot` is a clone or a serialisation of a store, held in
`snapshot` for any length of time; `MergeSnapshot` is `merge_snapshot`. `net`
has every envelope ever produced, and `Receive` may take any of them any number
of times: this is loss (never taken), duplication and reordering. `known` and
`past` are history variables, which no action's guard in `Next` reads: what a
replica's state reflects, and what the producer's state reflected when it made
an envelope.

What is abstracted. An element of a sequence is its id, since its value decides
nothing. A token `"<node>-<uuid>"` is any unused token, or in the store the pair
of node and timestamp. An `ORSet` is its set of live (value, token) pairs; entries whose
token set is empty, which no query tells from absent ones, are left out, and with them
the effect of `prune_empties`. Node ids are numbers, compared as the strings are. Counters
are natural numbers: a u64 is not exhausted. Invalid indexes, where `insert_op`
panics, are not called. An envelope's signature is a matter of `ServerRs` only.

Delivery. Operations arrive in any order, any number of times, or never, and
copies are merged at any time. `RGAReplicas` and `ORSetReplicas` have a
constant `Orderly`, the replicas whose transport keeps causal order: they get an
operation at most once and after everything its producer knew, and merge only
copies of each other (a set only as the start, to catch up). The other replicas,
whose operations the orderly ones receive too, keep to no order. Strong convergence, which the docs
promise of everybody, is stated for `Orderly`; the relays do not guarantee causal order, and the
violation runs show what happens without it. The properties that do not need
order are stated for all replicas of the same run. Which order the relays really
give is the subject of `SyncSystem`.

Pruning. `Prune` is an action of `StateStore`: a client that is sent a PRUNE
drops tombstones up to the timestamp of some Delete or Remove, whatever else it
has or has not got. So `StoreRefinement` allows any prune of a sequence, and
`PruneLosesNothing` says what holds of any: a store drops only elements whose
deletion it has got. When the relay asks for a prune is the subject of the relays'
modules. `PruningRoom` puts the two together for the TypeScript relay: the
clients of one room, that all came before the first write and stay, FIFO streams in both
directions, and the handler that tracks deletions, raises the sender's clock,
broadcasts and prunes. Nothing in it waits until everybody has everything, since
nothing in the code does.

`WebSocketManager`: one action per handler (JavaScript runs a task to its end).
The socket may be closed and reopened at any moment; it fires `onmessage` only
while open, as a browser's does. UPDATE and PRUNE messages reach the store only
and change nothing the module keeps.

`Relay`: a handler is one action, except the connection handler, which is two:
`Connect` up to its `await`, `LoadEnds` for the rest of every handler that awaits
the same load; these run one after the other before any other event. The `Room`
objects are numbered in `heap`; `current` is what the map `rooms` has under the
id and `room[c]` what the handlers of connection `c` hold, since a handler keeps
its `Room` when the map drops it. An envelope is its timestamp, the connection it
came over and whether it deletes. `Drop` is the moment a socket leaves the state
OPEN, after which nothing is sent over it, and `CloseEvent` the later event. The
persistence adapter is the caller's: a load settles at any time with what the
adapter then has, or rejects; saves are stored in the order they were called, or
reject. An adapter that answers a load with an older log, or throws instead of
rejecting, is left out, and so are invalid frames, which are answered and change
nothing. `received` is a history variable.

`ServerRs`: a region under the lock of the room map is one action; each
connection has its handler (`handler`), its receive task (`task`, with what it
still has to broadcast in `todo`), its send task (`Forward`) and its bounded
`channel`. `Receive` is the locked region of a message, `SendUpdate` one
`try_send` of the loop that follows it without the lock, `BroadcastPrune` the
second locked region. `TaskEnds` is a close that was read, or `abort()`, which
takes effect where the task awaits: before a message and before the second lock,
never inside the `try_send` loop. `Register` holds the lock across the load, as
the code does, and a load that fails (`DbError`) is taken for one that finds
nothing. `PersistCollect`, `DbSaveRoom` and `SaveFails` are the task that saves
every 10 s; `Crash` ends the process and starts it again with the database only.
The store of a room is the set of the envelopes applied to it: what a store
makes of them is `StateStore`'s subject. Signature and ACL checks are verdicts
on an envelope, with the two registries built from the environment. `shown`,
`greeted`, `received` and `overflow` are history: what was sent over a socket, the part of it
that its SNAPSHOT held, what arrived over it, and what a full channel dropped.

`ClientApi`: a program in Rust uses its store through a `StateProxy`, which
exists for a while (`proxied`), borrows the store for that time, and queues the
envelopes of its calls until `drain_pending`; dropped before, it takes them with
it. A browser calls the bindings, whose envelopes the manager collects. What
programs see is `View`, built from the read operations of the interface they use.

`SyncSystem`: each client has an `uplink` and a `downlink`, FIFO streams that are
lost when the connection drops. The "ts" relay is a log and handles a message in
one step; the "rust" relay has a store, a node of `StateStore` like any client,
and broadcasts after the step that applied the message, peer by peer. A client
that connects is sent the log or the store, replays or merges it, and only then
sends what it has written. Rooms that end, bounded channels and PRUNE are left to
the modules of the relays, the places an envelope is queued in to
`WebSocketManager`. `lost`, `disordered` and `overwritten` are history: the
writes nobody will send again, the replicas that got an envelope before its
past, and the clients that hydrated over a removal one of the two sides lacked.

## 3. Runs

Deadlock checking is off everywhere: the behaviours end at their bounds.

| Run | Bounds | Shows |
|---|---|---|
| `store` | 2 stores, 1 register, 1 set, 2 sequences, 1 value, 2 operations, clock 4 | `LamportCausality`, `UniqueStamps`, `RegisterConvergence`, `SequenceClockBound`, `PruneLosesNothing`, `ImplementsRGA`, `ImplementsORSet`, `TypeOK`; snapshots and pruning included |
| `rga_replicas` | 3 replicas, 2 of them orderly, 3 operations, 2 buffered | `SequenceOrder`, `CausalBuffering`, `UniqueIds`, `TombstonesStay`, `TypeOK` of all; `VisibleConvergence` of the orderly |
| `orset_replicas` | 3 replicas, 2 of them orderly, 2 values, 2 tokens, 4 operations | `AddWins` of all; `SetConvergence` of the orderly |
| `vector_clock` | 3 nodes, 5 events | `StampsCharacterise` |
| `websocket_manager` | 5 writes, 4 connections | `NothingLost`, `SnapshotFirst`, `FlushArmed`, `EverythingSent` |
| `relay` | 3 connections, 5 connections and envelopes together, timestamps to 3 without an adapter, to 2 with one, which may fail | `PruneAfterDeletions`, `PruneAfterEveryClient`, `DeletionsTracked`, `WatermarkCovers`, `EveryoneServed`, `TypeOK`; `ExactRelay` without an adapter |
| `server_rs` | channels of 1, timestamps to 2; 3 connections and 2 envelopes before the first save, or 2 and 3 before it, or 2 and 2 with saves, failures, crashes and envelopes that are not accepted; one client must sign and is restricted | `RoomLifetime`, `NothingMissed`, `PruneAfterEveryClient`, `EveryoneHears`, `EventuallySaved`, `TypeOK` |
| `sync_system` | an agent, a browser, either relay; a typed register, a set, a sequence; 3 calls, 3 connections, 5 of both together | `WritesAccounted`, `CaughtUp`, `CausalDelivery`, `SameWritesSameView`, `EventuallySameView` |

Why the bounds are enough to be interesting. Three replicas and three
operations are the least for an insert, a concurrent insert at its anchor and a
third replica that gets them in the other order, for two inserts buffered in the
order opposite to their anchors, and for an insert, its delete and a replay of
the first. Clock 4 lets timestamps of two nodes tie and be told apart by the
node. Four operations let a set
have two adds of one value, a remove of one of them and a remove of both. Two
sequences in one store show operations of one leaving the other alone while its
counter lags behind the store's clock. Four connections and five writes let
every queue be non-empty at every event. Three connections are the least for one
that waits while another leaves and a third finds a new `Room`; three timestamps
leave one below a prune, one at it and one above; with an adapter, whose answers
interleave with everything else, two are enough for a deletion to be passed. In the Rust relay three
connections are the least for one to be told what two others send, or to join
while one sends and another leaves; a channel of 1 is full at the second message;
two timestamps let a deletion be passed, which is what a PRUNE needs; three
envelopes of two clients let it be decided while a client's own UPDATEs still wait. Loads and
crashes need only one or two connections, so the three cases have bounds of their
own. Three calls and two connections, or two and three, let a client write, lose its connection,
write again and come back while the other removes what it has seen. Registers of
more than two stores, and more operations, are covered by the theorems. For each
property a mutant of the code, kept beside the definition it changes, is found by
its run.

Fairness. In `websocket_manager` only `DoFlush` is fair (weakly): the event loop
fires a timer that was set and not cancelled. Nothing is assumed of the network:
the property says that if the connection stays up and hydrated, everything
written is sent. In `relay` only `LoadSettles` is fair (weakly): the adapter
settles every load, with a log or with an error. `EveryoneServed` asks nothing
for a socket that closes; since connections are bounded, that again and again
nobody waits means that nobody waits for ever. In `server_rs` the runtime goes on with tasks that can
(`Deliver`, weakly: the SNAPSHOT, the broadcast loop, the send tasks; written
with `Delivering` for its `ENABLED`, which TLC has compared with it on every
state of the run), the
interval ticks (`PersistCollect`, weakly), and a save that is tried again and
again succeeds once (`DbSaveRoom`, strongly, since every failed save disables it).
No client has to send, and nothing has to stay connected. In `sync_system` each
client's `Works` is weakly fair: programs drain and drop their proxies, timers
and sockets deliver, the relay handles what arrives. It is written with
`Busy(c)` for `ENABLED Works(c)`, which TLC has compared state by state on the
instance with two calls, because that is much cheaper to check. Calls,
connections and disconnections are not fair, and `EventuallySameView` asks
nothing of a client that is offline in the end.

## 4. Where the code does less than it says

Runs that TLC refutes, each a place where the code does less than a doc or a
comment of it says:

| Run | Bounds | Doc | What happens |
|---|---|---|---|
| `relay_one_room` | 3 connections, 4 connections and envelopes together, an adapter that never fails | `relay.ts:12-14`, `relay.ts:242` | the last client leaves while another connection awaits the load of the `Room`: the map forgets a `Room` that is then joined, and the id has two |
| `sync_offline_remove` | Rust relay, 2 browsers, a set, 2 calls, 3 connections | `README.md:39`, `main.rs:14-15` | a Remove reaches the relay while the other client is away; its SNAPSHOT is a store without the element, merging it is a union, and the element stays at that client for ever |
| `prune_in_flight` | TypeScript relay, 2 clients, a sequence, 5 operations | `rga.rs:306-308`, `relay.ts:205-206`, `README.md:39` | a client drops a tombstone on which an insert hangs that is still on its way to it: the insert waits for ever, and the lists differ |
| `sync_update_order` | Rust relay, 3 browsers, a set, 2 calls | `README.md:39` | two tasks broadcast outside the lock: the third client gets the Remove before its Add and keeps the element for ever |

The two runs of `SyncSystem` check `QuietSameView`: when nothing is on its way and
nothing was lost, all see the same. `SameWritesSameView` and `EventuallySameView`
hold because they except just these two causes and one more, which needs the
"ts" relay: a client that has removed an element and not yet sent the Remove
replays the log, whose Add brings it back (`WebSocketManager.ts:183`).

`prune_in_flight`, step by step: node 1 inserts a (timestamp 1), deletes it (2) and inserts b
(3, the second id of the sequence), and node 2, which has got all this, deletes b (5). The relay
has now heard 3 and 5, so it prunes up to the deletion at 2. That timestamp is
compared with ids: at node 2 it takes a and also b, the second insertion,
whose deletion is the one at 5 and which node 1 still shows. Node 1 has inserted c after b
meanwhile; c arrives at node 2 and has no anchor there. The comparison of two
counters is not needed for this: a client's own writes let its clock pass a deletion that
has not reached it yet, and what it then inserts after the element is on its
way when the others prune. What does hold of every prune is
`PruneLosesNothing`, and of the relays' decisions the properties of `Relay` and `ServerRs`.

Seen while modelling, and not the subject of a run.

- Connections. What was handed to a socket that drops before it arrives is lost
  without notice, in both directions: the manager keeps no copy after `ws.send`
  (`WebSocketManager.ts:267`), and neither relay acknowledges anything. `README.md:10-12` promises
  "no data loss" when "the network drops for a moment". `WritesAccounted` counts these writes
  in `lost`; those to a client are made up for by the next SNAPSHOT, as far as it goes.

- Data types. A Delete that arrives before its Insert is dropped (`rga.rs:279`,
  against `rga.rs:15`); an Add replayed after its Remove brings the element back
  (`or_set.rs:132`, against `or_set.rs:10-11` and `state_store.rs:318`). `merge`
  carries the inserts that `other` buffers in neither direction and drains those
  of `self`, so it is not commutative on replicas with buffered inserts
  (`rga.rs:320`).
- TypeScript relay. A `Room` left and joined again before its save is stored is
  loaded without what was saved last, and the next save drops that from the store
  (`relay.ts:389`); a load is started by every connection that finds the log
  empty, not once (`relay.ts:278`); a socket that closes during the await joins
  its `Room` for ever and holds back its prunes (`relay.ts:408`); the deletions in
  a log that was loaded are not tracked again (`relay.ts:285-289`), so no PRUNE is
  sent for them.
- Rust relay. The room is dropped with the last client, saved or not
  (`main.rs:624`). A load that fails starts an empty room, which the next save
  writes over the record (`main.rs:416`). A save under way when its room is left
  and loaded again is stored after the load, so the new room lacks it and the save
  after next drops it. A message handled after its sender's cleanup leaves a clock
  behind that nobody removes (`main.rs:564`); it holds back prunes and no more. The PRUNE
  is sent after the lock was released and taken again: it may overtake the UPDATE
  of a deletion, reach the clients of a later room of the id, or die with an
  aborted task, its tombstones already forgotten. Watermark and tombstones are not
  rebuilt when a room is restored, and the relay never prunes its own store.

## 5. Proofs

`SyncSystemProofs`, first part: the stores alone, for any set of nodes, keys, values and
any bounds, under `Spec`, with every operation of the store:

- `TimestampsFollowCausality`, `StampsIdentify`: `Spec => []LamportCausality`,
  `Spec => []UniqueStamps`. Neither is inductive. The strengthening `HInv`
  says that a store's clock is at least the timestamp of every envelope its
  state reflects, that the same holds of the snapshot under way, that a node
  knows every envelope it produced, and that the pasts are of produced
  envelopes. A new envelope is stamped `clock + 1`, above all of those.
- `RegistersConverge`: `Spec => []RegisterConvergence`, from `HInv` and `RInv`, which
  says the same of the registers in the snapshot. It rests on lemmas that the
  order on (timestamp, node) is transitive, total on different stamps, and
  that `RegApply` and `RegMerge` return the greater write.

- `StoreImplementsSets`: `Spec => ImplementsORSet`, the refinement of `ORSetReplicas` by every
  set of the store, step by step. `SetsInv` adds to `HInv` that the token of an Add is the producer and the
  timestamp of its envelope, so that a new token is fresh, and that the network is finite, so
  that no key has more operations than the network.

- `ClocksBoundSequences`: `Spec => []SequenceClockBound`. `SeqInv` adds to `HInv` that a
  sequence, in a store or a snapshot, has ids no greater than its counter and a
  counter no greater than the clock beside it, and that the id of an
  operation is at most the timestamp of its envelope: the store's clock moves past
  a timestamp before the sequence sees the ids. `StoreTypes`: `Spec => []TypeOK`, from
  the four invariants together.
- `NothingLivePruned`: `Spec => []PruneLosesNothing`, for any prune at any time. `KeptInv` adds to
  `SeqInv` that each tombstone, in a store or the snapshot, has its Delete among what is
  reflected (`Buried`), and that each reflected insert is in the list, or waits, or has its Delete
  there too (`Placed`). A prune may take only what is buried, so it moves an insert from the first
  case to the last; a snapshot, which has no waiting inserts, does not count them.

`ORSetProofs`, for any nodes, any `Orderly` among them, values, tokens and
bounds, under `Spec`:

- `AddsAreNotLost`: `Spec => []AddWins`. The inductive invariant `WInv` adds that the copy
  under way satisfies the two bounds that `AddWins` puts on a replica.
- `CausalConvergence`: `Spec => []SetConvergence`. The inductive invariant `IInv` adds to
  `WInv` that the tokens of a Remove were added in its past (`NetOK`; a
  disorderly producer too has no token it does not know was added, which is
  half of `AddWins`), that a token belongs to one Add (`UniqueTokens`), and that an
  orderly replica, or a copy of one, which reflects a Remove reflects the Adds
  of its tokens (`OrderlyExact`). So an Add never arrives there after a Remove
  that observed it.

`RGAProofs`, for any nodes, any `Orderly` among them and any bounds, under `Spec`:

- `TypesKept`, `IdsAreUnique`, `DeletedStays`: `Spec => []TypeOK`, `Spec => []UniqueIds`,
  `Spec => TombstonesStay`. `RInv` bounds every counter by the number of
  operations, says that a replica's counter is as high as the ids in its list and the
  ids it has given (so a new id is new, although the ids of others move the counter), and
  that each tombstone, in the copy too, has its Delete among what is reflected.
- `BufferedCausally`: `Spec => []CausalBuffering`. `CInv` says that an insert's anchor
  was made before it and that each list is closed under anchors, has whatever
  could be placed, and leaves the rest in pending. That the drain loop leaves nothing that could be
  placed is `DrainDrains`: a pass that makes no progress changes nothing, any other leaves fewer.
  A path, which is a recursive function of the ids, exists because anchors are older
  (`PathExists`), so a closed list has exactly the ids whose whole path is known.
- `ListsInDocumentOrder`: `Spec => []SequenceOrder`. `OInv` says it of every list, also of the
  copy. The document order is total (`DocumentOrders`); between an anchor and what is
  placed after it stand only greater ids (`AfterAnchor`), so the position where the
  code stops is the one in that order (`PlaceInOrder`). A merge places a node after the nearest one
  before it in the other list, which need not be its anchor: it stands
  between the anchor and the node, which `PlaceInOrder` allows (`LinksInOrder`). These lemmas, which name no
  replica, are in `DataLemmas`, for the store's sequences too.
- `Convergence`: `Spec => []VisibleConvergence`, and `NothingWaits`: an orderly replica
  buffers nothing. `VInv` says that an operation builds on what its producer knew, and that an
  orderly replica, or a copy of one, has placed every insert and done every delete
  it reflects. So it shows the inserts it reflects less the deletes; with the
  document order, what it shows is determined (`SortedIsUnique`), and
  merging two of them shows the same in both directions.

`ServerRsProofs`, for any number of connections and envelopes, any channel bound
and any configuration, under `Spec`, with every action of the relay:

- `RoomLives`: `Spec => []RoomLifetime`. The inductive invariant `LifetimeInv`
  adds the shapes of the variables the argument reads: that the handler of a
  connection is at one of its five stages, and that a live room is a record with a set of
  clients and a clock function. The step that matters is that `AfterBatch` and
  `AfterPrune` never touch `clients`, although a task may run after its
  connection's cleanup and enter a clock.
- `NothingIsMissed`: `Spec => []NothingMissed`. It is far from inductive. `MissInv`
  adds to `LifetimeInv` that channels are sequences and work items records
  (`Shapes`), that a task has peers left only while it sends, that it starts after the SNAPSHOT
  is sent, that nothing is owed to a connection before it registers (`TaskInv`), and
  that a record in the database, or under way to it, holds accepted
  envelopes only (`Sound`). `NothingMissed` is restated for one client and one
  envelope (`Owed`), so that each action is a case on what it moves: from `todo` to
  a channel or to `overflow`, from a channel to `shown`. `RoomLifetime` is used
  for it: while a client listens its room is the one it was registered in.

- `TypesKept`: `Spec => []TypeOK`, which bounds every channel and says that a task has
  at most one broadcast to finish.
- `PruneFollowsEveryClient`: `Spec => []PruneAfterEveryClient`. The invariant `Typed` is
  `TypeOK` part by part and `WatermarkOK`: the watermark of a room is above the clocks of its
  clients and is 0 or the timestamp of an envelope in its store. `ClocksShown` says that the clock of
  a client in the room is 0 or the timestamp of an accepted envelope which that client has sent or
  which its SNAPSHOT held: it starts at the watermark, which is in the store, and
  the store is the SNAPSHOT; after that only its own messages raise it. A message handled
  after its sender's cleanup moves the sender's clock only, and the sender is no client any more.

`WebSocketManagerProofs`, for any number of writes and connections, has one
invariant, `MInv`, for its three theorems: sent, queued and collected envelopes in
this order are all writes, a collected envelope has a timer, and over an open
connection whose flag is set the SNAPSHOT came and has let out the queue.

`RelayProofs`, for any number of connections, timestamps and Room objects, with and
without an adapter, has one invariant, `RInv`, for five of its six theorems: the shapes of the variables;
who holds which Room, in which phase (`Placed`); that the log of a sender's Room has what it
sent and that nothing else comes back from the disk (`Logged`); that the watermark of each Room,
also of one the map has forgotten, bounds its log and its clients' clocks and is a
timestamp of that log (`RoomOK`); that each client has shown the timestamp its clock
has, by sending it or in its SNAPSHOT (`ClocksShown`), and has been told of all its Room received from
others (`EveryoneTold`); and `DeletionsTracked`. The two action properties follow from it at
`Message` and `CloseEvent`, where the code prunes. The sixth, `RelayedExactly` (`ExactRelay`,
each socket was sent what the others wrote, once and in the order of the log), adds
`OneRoomInv` for relays without an adapter: no handler waits, whoever is connected holds the
Room of the map, which stays there as long as it has clients, and each of them was sent its
log less its own envelopes. Its steps are that `FromOthers` and `EnvelopesIn` follow
concatenation, from the filtering and flattening lemmas of `DataLemmas`.

`SyncSystemProofs`, for any clients, programs, calls and either relay, under `SyncSpec`:

- `NoWriteUnaccounted`: `SyncSpec => []WritesAccounted`. The invariant `SInv` contains
  `HInv` of the stores, the wiring (`Wired`: the streams hold produced envelopes of their client, only the stream of
  a connected client has anything on its way down) and `Accounted`: the
  line of a client, its uplink followed by pending batch and queue, repeats nothing
  and shares nothing with the relay or with what is lost. Every handler moves a
  prefix of that line or cuts it.
- `LogKeepsCausalOrder`: `SyncSpec => []CausalDelivery`, from `Logs`: the log is in causal
  order, each line continues it, and what a client has and what is on the way to it,
  frame after frame, continues to be in that order.
- `NothingBetweenLogAndUpdates`: behind the log relay a hydrated client whose stream
  is empty has everything that is in the log, writes lost or not (`CaughtUpWithLog`).
- `NothingBetweenSnapshotAndUpdates`: `SyncSpec => []CaughtUp`, of either relay. The Rust
  relay's SNAPSHOT leaves out the inserts its lists buffer, so the argument needs that they
  buffer none while no write is lost. `TInv` says of each list which envelopes it reflects: it
  has no id and no tombstone that they did not make (`Follows`), and, in a replica that got them in
  causal order, every insert is in place and every delete done (`Reflected`); this holds because
  an operation refers only to what its producer knew (`Grounded`). `Stores` says that what a client has
  or is sent is the relay's or its own (`StoreCovers`) and, while nothing is lost, that the lines reach the
  relay in causal order and that a connected client knows what the relay knows,
  or it is in its stream, or a task has yet to send it (`StoreReaches`).
- `SameWritesReadTheSame`: `SyncSpec => []SameWritesSameView`, either relay and either API. The
  inductive invariant is `ViewInv`, the conjunction of all of these parts. For lists and registers
  causal order hardly matters: by `ListsInv` every list, of a
  store or of a SNAPSHOT under way, is in the one document order of the inserts ever made,
  and with `TInv` its ids are the inserts it reflects, so equal knowledge is an equal list
  (`SameLists`); by `RegistersInv` a register holds the greatest write. Sets are the hard part, since
  applying an Add again after its Remove, or merging with a store that has not seen the
  Remove, brings the element back. `ExactInv` says that a set holds what was added and not
  removed, *but for the Removes in the part of a log that the client has yet to
  replay* (`Undone`), so it holds in the middle of a replay and is exact at its end. It needs
  that every entry is an Add's and that who has an envelope has its past (`EntriesInv`: so
  nobody takes an Add before it comes, `NobodyTakes`), that nothing is applied twice
  outside a replay (`FreshInv`: what a task has yet to send, what is on the way and what a client
  knows do not overlap), and that a log, also the rest of one, has each Add before the
  Removes that take it, lost writes or not (`SortedInv`). The two exceptions of
  the property are where the proof breaks without them: `disordered` at
  `NobodyTakes`, `overwritten` at the two merges (`UndoneBegin`, `ExactMerge`).
- `DeliveredProgramsAgree`: `SyncSpec => []QuietAgreement`. When nothing is on its way and nothing was
  lost, every client has every write (`QuietHasAll`, from `CaughtUp` and `Accounted`), so
  all that are not excepted see the same: what `QuietSameView` says without
  the exceptions, and the two refuting runs of section 4 show the need for them. Behind the
  log relay only `overwritten` remains, by `LogKeepsCausalOrder`.

`VectorClockProofs`, for any nodes and any number of events and messages, under `Spec`:

- `ClocksCharacteriseCausality`: `Spec => []StampsCharacterise`. That a later event has a
  greater stamp is immediate; that a greater stamp means a later event is not. `VInv`
  says that the entry of a node in any clock is never above the events of that node
  (`Owned`), and that a stamp, or a clock, which covers an event's own entry
  covers its whole past (`PastIsLess`).

`DataLemmas` has what these need about community operators. Induction over numbers
is done without the library's operator parameters through `Least`: a set of naturals
that is not empty has a least member, here the set of counterexamples. So the
folds of the community modules (`FlattenSeq`, `FoldLeft`) and the drain loop, a recursive function,
can be reasoned about: `RecursionExists` and `FoldExists` give a fold its steps. For every operation of `RGA` there is one
lemma that says what it does (`Applied`, `Merged`, `VisibleShowsInOrder`,
`PruneDrops`), which is all that `RGAProofs` and `SyncSystemProofs` know of it, and for apply
and merge one that carries any property of lists that placing and marking
keep (`ApplyKeepsList`, `MergeKeepsList`), and one that keeps a list in the document order of any
set of inserts with closed anchors (`AppliedInOrder`, `MergedInOrder`).

The only assumptions are the named ones on the constants (`NodeAssumption`,
`OrderlyAssumption`, `BoundAssumption`, `OptionAssumption`, ...), which TLC evaluates in
the runs.

Model-checked only: `ImplementsRGA` (the prover cannot read that `INSTANCE`, with a parameter, of a
module built on sequences), and everything about liveness, which is out of the prover's
reach: `EverythingSent`, `EveryoneServed`, `EveryoneHears`, `EventuallySaved`,
`EventuallySameView`.

## 6. Not modelled, and what could follow

- The React hook builds a proxy and a manager in an effect and keeps a status:
  what would be modelled is React's order of renders and effects. Two facts its
  code shows are among the hazards (`useCrdtState.ts:76`, `useCrdtState.ts:88`).
- Parsing and encoding, the HTTP upgrade and the command lines, the generated
  WASM glue, tests and build files. A frame or an argument that does not parse
  changes no state; the error replies of the TypeScript relay are left out.
- In `SyncSystem`, PRUNE and rooms that end: with them, an instance in which a
  deletion is pruned, a client leaves and another comes is beyond TLC's reach, and
  the parts are checked in `Relay`, `ServerRs` and `PruningRoom`.
- What could follow: which programs are never among the `overwritten`, as a property of
  the calls they make before they are hydrated.
