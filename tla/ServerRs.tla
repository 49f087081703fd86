------------------------------- MODULE ServerRs -------------------------------
(***************************************************************************)
(* The Rust relay of src/server-rs/src/main.rs, seen from one room id.     *)
(* Every connection runs three tokio tasks: its handler, a receive task    *)
(* (`task`) and a send task, which empties the connection's bounded        *)
(* channel.  A region under the lock of the room map is one step; what     *)
(* happens between two regions interleaves with the other tasks.  One more *)
(* task saves the room every 10 s, and the process may crash.              *)
(*                                                                         *)
(* The room's store is the set of the envelopes applied to it.  A          *)
(* connection that is made again is another connection.                    *)
(***************************************************************************)
EXTENDS Naturals, Sequences, SequencesExt, FiniteSetsExt

CONSTANTS
    MaxConns,     \* bound: connections made in a behaviour
    Capacity,     \* the bound of a connection's channel, 64 in the code
    DbFails,      \* whether a load or a save may fail
    Env,          \* the variables CRDT_KEY_<node> and CRDT_ACL_<node> that are
                  \* set, and what kind of value they have
    MaxTimestamp, \* bound: timestamps
    Bounds        \* bounds, of which a behaviour keeps to one: the connections
                  \* made, the envelopes sent, and whether it lasts until the
                  \* first tick of the interval

ASSUME BoundAssumption ==
    /\ MaxConns \in Nat /\ MaxTimestamp \in Nat
    /\ Bounds \subseteq [conns : 0..MaxConns, envelopes : Nat, saves : BOOLEAN]
    /\ Capacity \in Nat \ {0}

Conn == 1..MaxConns  \* client ids, in the order next_client_id gives them

ASSUME OptionAssumption ==
    /\ DbFails \in BOOLEAN
    /\ Env \subseteq [name : {"CRDT_KEY", "CRDT_ACL"}, conn : Conn,
                      value : {"64 hex digits", "prefixes", "blank", "other"}]

Envelope == [ts : 1..MaxTimestamp, conn : Conn, deletes : BOOLEAN,
             signed : BOOLEAN, permitted : BOOLEAN]

VARIABLES
    room,      \* the Room under the id, or NoRoom
    handler,   \* how far the handler of a connection is
    task,      \* how far its receive task is
    todo,      \* what the receive task still has to broadcast
    channel,   \* its channel
    shown,     \* the envelopes sent over its socket, the SNAPSHOT's included
    db,        \* the store in the database, or NoRecord
    saving,    \* the store a save under way will write, or NoRecord
    received,  \* history: the envelopes received over a connection
    greeted,   \* history: the store in a connection's SNAPSHOT
    overflow,  \* history: the envelopes its full channel has dropped
    bound,     \* the bound of this behaviour
    produced   \* the number of envelopes sent so far

tasks   == <<handler, task, todo, channel, shown, overflow>>
durable == <<db, saving>>
limit   == <<bound, produced>>
heard   == <<received, greeted>>
vars    == <<room, tasks, durable, heard, limit>>

NoRoom   == [live |-> FALSE]
NoRecord == [live |-> FALSE]
DbError  == [live |-> FALSE, failed |-> TRUE]
\* A row of the table that open_db creates.
Record(envelopes) == [live |-> TRUE, store |-> envelopes]
Idle     == [update |-> {}, peers |-> {}, prune |-> 0]

UpdateMessage(batch) == [type |-> "UPDATE", data |-> batch]
Prune(ts)     == [type |-> "PRUNE", data |-> ts]

Init ==
    /\ room     = NoRoom
    /\ handler  = [c \in Conn |-> "new"]
    /\ task     = [c \in Conn |-> "none"]
    /\ todo     = [c \in Conn |-> Idle]
    /\ channel  = [c \in Conn |-> <<>>]
    /\ shown    = [c \in Conn |-> {}]
    /\ db       = NoRecord
    /\ saving   = NoRecord
    /\ received = [c \in Conn |-> {}]
    /\ greeted  = [c \in Conn |-> {}]
    /\ overflow = [c \in Conn |-> {}]
    /\ bound    \in Bounds
    /\ produced = 0

\* A client that can still be sent to: its channel has a receiver.
Listening == {c \in Conn : handler[c] \in {"greeting", "serving"}}

-----------------------------------------------------------------------------
(* Connecting.                                                             *)

NewRoom(envelopes) ==
    [live |-> TRUE, store |-> envelopes, clients |-> {},
     clientClocks |-> [c \in {} |-> 0], tombstones |-> {}, highWatermark |-> 0]

\* db_load_room: the row, or none; or an error.
DbLoadRoom == {db} \cup (IF DbFails THEN {DbError} ELSE {})

\* A load that fails counts as one that finds nothing.
TryLoadRoomFromDb == {IF result = DbError THEN NoRecord ELSE result : result \in DbLoadRoom}

\* The store of a new room.
RestoredFrom(record) == IF record.live THEN record.store ELSE {}

WithClock(clocks, c, ts) == [d \in DOMAIN clocks \cup {c} |-> IF d = c THEN ts ELSE clocks[d]]

AddClient(rm, c) ==
    [rm EXCEPT !.clients = @ \cup {c},
               !.clientClocks = WithClock(@, c, rm.highWatermark)]

\* The first region of handle_socket.  The lock is held across the load.  The
\* SNAPSHOT, made here, is the first thing sent.
Register(c) ==
    /\ c <= bound.conns
    /\ handler[c] = "new" /\ \A d \in 1..(c - 1) : handler[d] # "new"
    /\ IF room.live THEN room' = AddClient(room, c)
       ELSE \E record \in TryLoadRoomFromDb : room' = AddClient(NewRoom(RestoredFrom(record)), c)
    /\ handler' = [handler EXCEPT ![c] = "greeting"]
    /\ shown' = [shown EXCEPT ![c] = room'.store]
    /\ greeted' = [greeted EXCEPT ![c] = room'.store]
    /\ UNCHANGED <<task, todo, channel, durable, received, overflow, limit>>

\* The SNAPSHOT is sent; the two tasks of the connection start.
Greet(c) ==
    /\ handler[c] = "greeting"
    /\ handler' = [handler EXCEPT ![c] = "serving"]
    /\ task' = [task EXCEPT ![c] = "reading"]
    /\ UNCHANGED <<room, todo, channel, shown, durable, heard, overflow, limit>>

-----------------------------------------------------------------------------
(* The receive task.                                                       *)

HexDecode32(value) == value = "64 hex digits"

\* build_key_registry_from_env: a value that is no key is passed over.
KeyRegistry == {v.conn : v \in {x \in Env : x.name = "CRDT_KEY" /\ HexDecode32(x.value)}}

\* build_acl_from_env: a list without a prefix restricts nothing.
Acl == {v.conn : v \in {x \in Env : x.name = "CRDT_ACL" /\ x.value # "blank"}}

VerifyEnvelopeSignature(e) == e.conn \in KeyRegistry => e.signed
AclAllows(e) == e.conn \in Acl => e.permitted
Accepted(e) == VerifyEnvelopeSignature(e) /\ AclAllows(e)

\* The room after a batch: its tombstones tracked, its store and the sender's
\* clock raised by what is accepted.
AfterBatch(rm, c, batch) ==
    LET accepted == {e \in batch : Accepted(e)}
        old == IF c \in DOMAIN rm.clientClocks THEN rm.clientClocks[c] ELSE 0
        maxTs == Max({0} \cup {e.ts : e \in accepted})
    IN  [rm EXCEPT !.store = @ \cup accepted,
                   !.tombstones = @ \cup {e.ts : e \in {x \in accepted : x.deletes}},
                   !.clientClocks = IF maxTs = 0 THEN @ ELSE WithClock(@, c, Max({old, maxTs})),
                   !.highWatermark = Max({@, maxTs})]

\* Mutant of PruneTs: the sender's clock decides.
PruneTsOfWatermark(rm) ==
    LET stale == {t \in rm.tombstones : t < rm.highWatermark}
    IN  IF stale = {} THEN 0 ELSE Max(stale)

\* The timestamp check_and_prune puts in a PRUNE, or 0.
PruneTs(rm) ==
    LET clocks == {rm.clientClocks[c] : c \in DOMAIN rm.clientClocks}
        stale  == {t \in rm.tombstones : t < Min(clocks)}
    IN  IF \/ rm.clients = {}
           \/ Cardinality(DOMAIN rm.clientClocks) < Cardinality(rm.clients)
           \/ stale = {}
        THEN 0 ELSE Max(stale)

\* check_and_prune's effect on the tracking list.
AfterPrune(rm) == [rm EXCEPT !.tombstones = {t \in @ : t > PruneTs(rm)}]

\* Mutant of Peers: a client that has not been sent its SNAPSHOT is left out.
PeersServed(rm, c) == {d \in rm.clients \ {c} : handler[d] # "greeting"}

\* Who gets the UPDATE.
Peers(rm, c) == rm.clients \ {c}

\* Where the task is once it has this much left to do.
Stage(work) ==
    IF work.peers # {} THEN "sending"
    ELSE IF work.prune # 0 THEN "pruning" ELSE "reading"

\* A frame arrives; the region under the lock.  The UPDATE is the frame as it
\* came, what was not accepted included.  A room that is gone ends the task.
Receive(c, batch) ==
    LET rm == AfterBatch(room, c, batch)
        work == [update |-> batch, peers |-> Peers(rm, c), prune |-> PruneTs(rm)]
    IN  /\ task[c] = "reading"
        /\ IF ~room.live
           THEN /\ task' = [task EXCEPT ![c] = "ended"]
                /\ received' = [received EXCEPT ![c] = {}]
                /\ UNCHANGED <<room, todo, limit>>
           ELSE /\ room' = AfterPrune(rm)
                /\ todo' = [todo EXCEPT ![c] = IF Stage(work) = "reading" THEN Idle ELSE work]
                /\ task' = [task EXCEPT ![c] = Stage(work)]
                /\ received' = [received EXCEPT ![c] = @ \cup batch]
                /\ produced' = produced + Cardinality(batch)
                /\ UNCHANGED bound
        /\ UNCHANGED <<handler, channel, shown, durable, greeted, overflow>>

\* What a client sends: one or two envelopes, later than those it has sent.
\* Bound: a deletion at MaxTimestamp, which no clock could pass, is left out;
\* so is an envelope that both checks would reject, or, before the first tick of
\* the interval, either of them.
ClientSends(c) ==
    LET fresh == {e \in Envelope : /\ e.conn = c /\ \A f \in received[c] : e.ts > f.ts
                                   /\ e.deletes => e.ts < MaxTimestamp
                                   /\ e.signed => c \in KeyRegistry
                                   /\ e.permitted => c \in Acl
                                   /\ VerifyEnvelopeSignature(e) \/ AclAllows(e)
                                   /\ bound.saves \/ Accepted(e)}
    IN  /\ task[c] = "reading" /\ produced < bound.envelopes
        /\ \E e, f \in fresh :
                /\ e = f \/ e.ts < f.ts
                /\ produced + Cardinality({e, f}) <= bound.envelopes
                /\ Receive(c, {e, f})

\* Mutant of TrySend: the message is queued although the channel is full.
TrySendUnbounded(ds, message, envelopes) ==
    /\ channel' = [d \in Conn |->
            IF d \in ds \cap Listening THEN Append(channel[d], message) ELSE channel[d]]
    /\ UNCHANGED overflow

\* try_send: a full channel drops the message, a closed one ignores it.
TrySend(ds, message, envelopes) ==
    LET fits == {d \in ds \cap Listening : Len(channel[d]) < Capacity}
    IN  /\ channel' = [d \in Conn |->
                IF d \in fits THEN Append(channel[d], message) ELSE channel[d]]
        /\ overflow' = [d \in Conn |->
                IF d \in (ds \cap Listening) \ fits THEN overflow[d] \cup envelopes
                                                    ELSE overflow[d]]

\* The UPDATE to one peer, in any order, outside the lock.  There is no await
\* in this loop: the task cannot be aborted here.
SendUpdate(c) ==
    /\ task[c] = "sending"
    /\ \E d \in todo[c].peers :
        LET left == [todo[c] EXCEPT !.peers = @ \ {d}]
        IN  /\ TrySend({d}, UpdateMessage(todo[c].update), todo[c].update)
            /\ todo' = [todo EXCEPT ![c] = IF Stage(left) = "reading" THEN Idle ELSE left]
            /\ task' = [task EXCEPT ![c] = Stage(left)]
    /\ UNCHANGED <<room, handler, shown, durable, heard, limit>>

\* The PRUNE, to whoever is in the room once the lock is held again.
BroadcastPrune(c) ==
    /\ task[c] = "pruning"
    /\ TrySend(IF room.live THEN room.clients ELSE {}, Prune(todo[c].prune), {})
    /\ todo' = [todo EXCEPT ![c] = Idle]
    /\ task' = [task EXCEPT ![c] = "reading"]
    /\ UNCHANGED <<room, handler, shown, durable, heard, limit>>

-----------------------------------------------------------------------------
(* The send task, and leaving.                                             *)

\* Mutant of Forward: the send task takes a message and what waits behind it.
ForwardDrains(c) ==
    /\ handler[c] = "serving" /\ channel[c] # <<>>
    /\ channel' = [channel EXCEPT ![c] = <<>>]
    /\ UNCHANGED <<room, handler, task, todo, shown, durable, heard, overflow, limit>>

\* The send task writes one message to the socket.
Forward(c) ==
    /\ handler[c] = "serving" /\ channel[c] # <<>>
    /\ channel' = [channel EXCEPT ![c] = Tail(@)]
    /\ shown' = [shown EXCEPT ![c] =
            IF Head(channel[c]).type = "UPDATE" THEN @ \cup Head(channel[c]).data ELSE @]
    /\ UNCHANGED <<room, handler, task, todo, durable, heard, overflow, limit>>

\* The SNAPSHOT cannot be sent, the send task ends, or the receive task reads a
\* close or an error: the handler goes on to cleanup.
Leave(c) ==
    /\ c \in Listening
    /\ handler' = [handler EXCEPT ![c] = "leaving"]
    /\ channel' = [channel EXCEPT ![c] = <<>>]
    /\ shown' = [shown EXCEPT ![c] = {}]
    /\ overflow' = [overflow EXCEPT ![c] = {}]
    /\ UNCHANGED <<room, task, todo, durable, heard, limit>>

\* The receive task has read the close, or is aborted.  abort() stops it where
\* it awaits; if it is running, it goes on until an await suspends it.
TaskEnds(c) ==
    /\ handler[c] \in {"leaving", "gone"} /\ task[c] \in {"reading", "pruning"}
    /\ task' = [task EXCEPT ![c] = "ended"]
    /\ todo' = [todo EXCEPT ![c] = Idle]
    /\ received' = IF handler[c] = "gone" THEN [received EXCEPT ![c] = {}] ELSE received
    /\ UNCHANGED <<room, handler, channel, shown, durable, greeted, overflow, limit>>

\* Mutant of WithoutClient: the room stays while it has a client's clock.
WithoutClientByClocks(rm, c) ==
    IF DOMAIN rm.clientClocks \subseteq {c} THEN NoRoom
    ELSE [rm EXCEPT !.clients = @ \ {c},
                    !.clientClocks = [d \in DOMAIN @ \ {c} |-> @[d]]]

WithoutClient(rm, c) ==
    IF rm.clients \subseteq {c} THEN NoRoom
    ELSE [rm EXCEPT !.clients = @ \ {c},
                    !.clientClocks = [d \in DOMAIN @ \ {c} |-> @[d]]]

\* cleanup
Cleanup(c) ==
    /\ handler[c] = "leaving"
    /\ handler' = [handler EXCEPT ![c] = "gone"]
    /\ room' = IF room.live THEN WithoutClient(room, c) ELSE room
    /\ received' = IF task[c] \in {"none", "ended"} THEN [received EXCEPT ![c] = {}] ELSE received
    /\ greeted' = [greeted EXCEPT ![c] = {}]
    /\ UNCHANGED <<task, todo, channel, shown, durable, overflow, limit>>

-----------------------------------------------------------------------------
(* Persistence.                                                            *)

\* The region of persist_all_rooms.  The loop of main waits for the save.  (A
\* save that would write what is stored already is left out.)
PersistCollect ==
    /\ bound.saves /\ room.live /\ ~saving.live /\ db # Record(room.store)
    /\ saving' = Record(room.store)
    /\ UNCHANGED <<room, tasks, db, heard, limit>>

\* Mutant of DbSaveRoom: the insert has no ON CONFLICT clause.
DbSaveRoomOnce ==
    /\ saving.live
    /\ db' = IF db.live THEN db ELSE saving
    /\ saving' = NoRecord
    /\ UNCHANGED <<room, tasks, heard, limit>>

DbSaveRoom ==
    /\ saving.live
    /\ db' = saving
    /\ saving' = NoRecord
    /\ UNCHANGED <<room, tasks, heard, limit>>

\* The error is logged; the next tick tries again.
SaveFails ==
    /\ DbFails /\ saving.live
    /\ saving' = NoRecord
    /\ UNCHANGED <<room, tasks, db, heard, limit>>

\* The process ends and is started again: main keeps nothing but the database.
\* (Before the first tick of the interval that is no more than everyone leaving.)
Crash ==
    /\ bound.saves /\ room.live
    /\ room' = NoRoom
    /\ handler' = [c \in Conn |-> IF handler[c] = "new" THEN "new" ELSE "gone"]
    /\ task'    = [c \in Conn |-> IF handler[c] = "new" THEN "none" ELSE "ended"]
    /\ todo'    = [c \in Conn |-> Idle]
    /\ channel' = [c \in Conn |-> <<>>]
    /\ shown'   = [c \in Conn |-> {}]
    /\ overflow' = [c \in Conn |-> {}]
    /\ received' = [c \in Conn |-> {}]
    /\ greeted' = [c \in Conn |-> {}]
    /\ saving' = NoRecord
    /\ UNCHANGED <<db, limit>>

Deliver(c) == Greet(c) \/ SendUpdate(c) \/ Forward(c)

Next ==
    \/ \E c \in Conn :
        \/ Register(c) \/ ClientSends(c) \/ Deliver(c) \/ BroadcastPrune(c)
        \/ Leave(c) \/ TaskEnds(c) \/ Cleanup(c)
    \/ PersistCollect \/ DbSaveRoom \/ SaveFails
    \/ Crash

Spec == Init /\ [][Next]_vars

\* When a Deliver(c) is enabled.
Delivering ==
    \E c \in Conn : \/ handler[c] = "greeting"
                    \/ task[c] = "sending"
                    \/ handler[c] = "serving" /\ channel[c] # <<>>

\* The runtime runs the tasks that can go on, WF_vars(\E c \in Conn : Deliver(c))
\* with its ENABLED as Delivering; the interval ticks, and a save that is tried
\* again and again succeeds once.
FairSpec ==
    /\ Spec
    /\ \/ []<>~Delivering
       \/ []<><<\E c \in Conn : Deliver(c)>>_vars
    /\ WF_vars(PersistCollect)
    /\ SF_vars(DbSaveRoom)

-----------------------------------------------------------------------------
(* Properties.                                                             *)

\* What a client has been sent, is being sent, or lost to a full channel.
Reaches(c) ==
    shown[c] \cup overflow[c]
        \cup (UNION {m.data : m \in {x \in ToSet(channel[c]) : x.type = "UPDATE"}})
        \cup (UNION {todo[d].update : d \in {x \in Conn : c \in todo[x].peers}})

Timestamp == 1..MaxTimestamp
Room ==
    [live : {TRUE}, store : SUBSET Envelope, clients : SUBSET Conn,
     clientClocks : UNION {[D -> 0..MaxTimestamp] : D \in SUBSET Conn},
     tombstones : SUBSET Timestamp, highWatermark : 0..MaxTimestamp]
ServerMessage == [type : {"UPDATE"}, data : SUBSET Envelope] \cup [type : {"PRUNE"}, data : Timestamp]

\* Every variable keeps its type; a channel never holds more than its bound.
TypeOK ==
    /\ room \in {NoRoom} \cup Room
    /\ handler \in [Conn -> {"new", "greeting", "serving", "leaving", "gone"}]
    /\ task \in [Conn -> {"none", "reading", "sending", "pruning", "ended"}]
    /\ todo \in [Conn -> [update : SUBSET Envelope, peers : SUBSET Conn,
                          prune : 0..MaxTimestamp]]
    /\ channel \in [Conn -> Seq(ServerMessage)] /\ \A c \in Conn : Len(channel[c]) <= Capacity
    /\ shown \in [Conn -> SUBSET Envelope] /\ overflow \in [Conn -> SUBSET Envelope]
    /\ {db, saving} \subseteq {NoRecord} \cup [live : {TRUE}, store : SUBSET Envelope]

\* The connections that have been registered and not cleaned up.
Present == {c \in Conn : handler[c] \in {"greeting", "serving", "leaving"}}

\* A room lives exactly as long as a connection that has not been cleaned up
\* (main.rs:440-458, 618-627): no handler finds its room gone or another's in its
\* place, although loads, saves, aborts and cleanups interleave.
RoomLifetime ==
    IF Present = {} THEN room = NoRoom
    ELSE room.live /\ room.clients = Present /\ Present \subseteq DOMAIN room.clientClocks

\* There is no gap between the SNAPSHOT and the UPDATEs (main.rs:460-470,
\* 573-595): the room's store is made of what a client sent itself, what its
\* SNAPSHOT held and what was broadcast since, whoever is between unlocking
\* and sending.  What is missing was dropped by a full channel.
NothingMissed ==
    \A c \in Listening :
        {e \in Reaches(c) \cup received[c] : Accepted(e)} = room.store

\* A PRUNE up to t is decided only when every client of the room, also one whose
\* UPDATEs are still in a task or a channel, has itself shown a later timestamp
\* (main.rs:18-20): the relay has accepted one from it, or its SNAPSHOT held one.
PruneAfterEveryClient ==
    [][\A c \in Conn :
          (todo[c].prune = 0 /\ todo'[c].prune # 0) =>
              \A d \in room.clients :
                  \E e \in received'[d] \cup greeted[d] :
                      Accepted(e) /\ e.ts > todo'[c].prune]_vars

\* What a listening client is owed, it is sent, unless its channel was full.
\* (Inputs are bounded, so a backlog that comes back for ever is one that is
\* not sent.)
EveryoneHears ==
    []<>(\A c \in Listening : room.store \subseteq shown[c] \cup received[c] \cup overflow[c])

\* A room that stays in memory is saved as it is (main.rs:36-37), despite
\* saves that fail, and the database never stays behind it.
EventuallySaved == bound.saves => []<>(room.live => db.live /\ room.store \subseteq db.store)
=============================================================================
