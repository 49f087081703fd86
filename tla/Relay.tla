-------------------------------- MODULE Relay --------------------------------
(***************************************************************************)
(* The relay of src/packages/server/src/relay.ts, seen from one room id.   *)
(* JavaScript runs one task at a time: a handler is one action, except the *)
(* connection handler, which may wait for the room's log to be loaded.     *)
(* Its Room object is allocated when the id is not in the map, and the     *)
(* handlers keep it even when the map has forgotten it, so there may be    *)
(* several: room objects are numbered in `heap`.                           *)
(*                                                                         *)
(* A connection is one WebSocket; a client that reconnects is another.  An *)
(* envelope is its timestamp, the connection it came over, and whether it  *)
(* is a Delete or a Remove.                                                *)
(***************************************************************************)
EXTENDS Naturals, Sequences, SequencesExt, FiniteSetsExt

CONSTANTS
    MaxConns,      \* bound: connections made in a behaviour
    Persistence,   \* subset of BOOLEAN: whether an adapter is given
    AdapterFails,  \* whether the adapter may reject a load or a save
    MaxTimestamp,  \* bound: timestamps, with an adapter and without
    MaxInputs      \* bound: connections and envelopes together

ASSUME OptionAssumption == Persistence \subseteq BOOLEAN /\ AdapterFails \in BOOLEAN
ASSUME BoundAssumption ==
    MaxConns \in Nat /\ MaxTimestamp \in [BOOLEAN -> Nat] /\ MaxInputs \in Nat

Conn == 1..MaxConns  \* connections, in the order they are made

VARIABLES
    persistence,  \* options.persistence is given
    heap,         \* the Room objects, in the order of their creation
    current,      \* rooms.get(roomId), or 0
    room,         \* the Room object a connection's handler holds, or 0
    phase,        \* how far that handler is
    socket,       \* the state of the WebSocket, and its close event
    sent,         \* what the relay has sent over each connection
    disk,         \* the log the adapter has stored
    saving,       \* the saves under way, oldest first
    received      \* history: every envelope received, and in which Room

conns   == <<room, phase, socket, sent>>
adapter == <<persistence, disk, saving>>
vars == <<persistence, heap, current, room, phase, socket, sent, disk, saving, received>>

NewRoom ==
    [envelopes |-> <<>>, clients |-> {}, loading |-> FALSE,
     clientClocks |-> [c \in {} |-> 0], highWatermark |-> 0, tombstones |-> {}]

Init ==
    /\ persistence \in Persistence
    /\ heap     = <<>>
    /\ current  = 0
    /\ room     = [c \in Conn |-> 0]
    /\ phase    = [c \in Conn |-> "new"]
    /\ socket   = [c \in Conn |-> "open"]
    /\ sent     = [c \in Conn |-> <<>>]
    /\ disk     = <<>>
    /\ saving   = <<>>
    /\ received = {}

-----------------------------------------------------------------------------
(* Connecting.                                                             *)

Timestamps(log) == {e.ts : e \in ToSet(log)}

\* The rest of the connection handler for the connections `cs` of a room: the
\* clients are added and their clocks seeded at the high watermark ...
Join(rm, cs) ==
    [rm EXCEPT !.clients = @ \cup cs,
               !.clientClocks = [c \in DOMAIN @ \cup cs |->
                                    IF c \in cs THEN rm.highWatermark ELSE @[c]]]

\* ... and they are sent the log.  A socket that is not open sends nothing.
SendSnapshot(rm, cs) ==
    sent' = [c \in Conn |->
                IF c \in cs /\ socket[c] = "open"
                THEN Append(sent[c], [type |-> "SNAPSHOT", data |-> rm.envelopes])
                ELSE sent[c]]

Inputs == Cardinality({c \in Conn : phase[c] # "new"}) + Cardinality(received)

\* The connection handler up to its await, or to its end if there is none.
Connect(c) ==
    LET r == IF current = 0 THEN Len(heap) + 1 ELSE current
        objects == IF current = 0 THEN Append(heap, NewRoom) ELSE heap
        load == objects[r].loading \/ (persistence /\ objects[r].envelopes = <<>>)
    IN  /\ Inputs < MaxInputs
        /\ phase[c] = "new" /\ \A d \in 1..(c - 1) : phase[d] # "new"
        /\ current' = r
        /\ room' = [room EXCEPT ![c] = r]
        /\ phase' = [phase EXCEPT ![c] = IF load THEN "waiting" ELSE "joined"]
        /\ IF load
           THEN /\ heap' = [objects EXCEPT ![r].loading = TRUE]
                /\ UNCHANGED sent
           ELSE /\ heap' = [objects EXCEPT ![r] = Join(@, {c})]
                /\ SendSnapshot(objects[r], {c})
        /\ UNCHANGED <<socket, adapter, received>>

Waiting(r) == {c \in Conn : phase[c] = "waiting" /\ room[c] = r}

\* Mutant of Loaded: the watermark is not rebuilt.
LoadedKeepsWatermark(rm, saved) ==
    [rm EXCEPT !.envelopes = @ \o saved, !.loading = FALSE]

Loaded(rm, saved) ==
    [rm EXCEPT !.envelopes = @ \o saved,
               !.highWatermark = Max({@} \cup Timestamps(saved)),
               !.loading = FALSE]

\* The load of a room settles; the handlers that wait for it run to their end
\* before any other event.
LoadEnds(r, saved) ==
    LET loaded == Loaded(heap[r], saved)
    IN  /\ heap[r].loading
        /\ heap' = [heap EXCEPT ![r] = Join(loaded, Waiting(r))]
        /\ phase' = [c \in Conn |-> IF c \in Waiting(r) THEN "joined" ELSE phase[c]]
        /\ SendSnapshot(loaded, Waiting(r))
        /\ UNCHANGED <<current, room, socket, adapter, received>>

LoadDone(r) == LoadEnds(r, disk)

\* Mutant of LoadFails: the error is not caught, and ends the handlers.
LoadFailsUncaught(r) ==
    /\ AdapterFails
    /\ heap[r].loading
    /\ heap' = [heap EXCEPT ![r].loading = FALSE]
    /\ UNCHANGED <<current, conns, adapter, received>>

\* A rejected load counts as an empty one.
LoadFails(r) == AdapterFails /\ LoadEnds(r, <<>>)

-----------------------------------------------------------------------------
(* Messages.                                                               *)

\* The room after a batch: its deletions tracked, the sender's clock and the
\* watermark raised, the log extended.
AfterBatch(rm, c, batch) ==
    LET ts == Max(Timestamps(batch))
    IN  [rm EXCEPT !.tombstones = @ \cup {e.ts : e \in {x \in ToSet(batch) : x.deletes}},
                   !.clientClocks[c] = Max({@, ts}),
                   !.highWatermark = Max({@, ts}),
                   !.envelopes = @ \o batch]

\* Mutant of PruneTs: the greatest clock decides.
PruneTsOfMax(rm) ==
    LET stale == {t \in rm.tombstones : t < Max({rm.clientClocks[c] : c \in rm.clients})}
    IN  IF stale = {} THEN 0 ELSE Max(stale)

\* The timestamp tryPrune broadcasts, or 0.
PruneTs(rm) ==
    LET clocks == {rm.clientClocks[c] : c \in DOMAIN rm.clientClocks}
        stale == {t \in rm.tombstones : t < Min(clocks)}
    IN  IF \/ rm.clients = {}
           \/ Cardinality(DOMAIN rm.clientClocks) < Cardinality(rm.clients)
           \/ stale = {}
        THEN 0 ELSE Max(stale)

\* Mutant of AfterPrune: everything tracked is forgotten.
AfterPruneForgets(rm) == IF PruneTs(rm) = 0 THEN rm ELSE [rm EXCEPT !.tombstones = {}]

AfterPrune(rm) == [rm EXCEPT !.tombstones = {t \in @ : t > PruneTs(rm)}]

\* Mutant of Broadcast: the PRUNE goes out before the UPDATE.
BroadcastPruneFirst(rm, c, batch) ==
    sent' = [d \in Conn |->
                IF d \notin rm.clients \/ socket[d] # "open" THEN sent[d]
                ELSE sent[d]
                     \o (IF PruneTs(rm) = 0 THEN <<>>
                         ELSE <<[type |-> "PRUNE", data |-> PruneTs(rm)]>>)
                     \o (IF d = c THEN <<>> ELSE <<[type |-> "UPDATE", data |-> batch]>>)]

\* UPDATE to the other clients, then PRUNE to all if there is one to send.
Broadcast(rm, c, batch) ==
    sent' = [d \in Conn |->
                IF d \notin rm.clients \/ socket[d] # "open" THEN sent[d]
                ELSE sent[d]
                     \o (IF d = c THEN <<>> ELSE <<[type |-> "UPDATE", data |-> batch]>>)
                     \o (IF PruneTs(rm) = 0 THEN <<>>
                         ELSE <<[type |-> "PRUNE", data |-> PruneTs(rm)]>>)]

\* The message handler, attached once the client has joined.
Message(c, batch) ==
    LET r == room[c]
        rm == AfterBatch(heap[r], c, batch)
    IN  /\ phase[c] = "joined" /\ socket[c] = "open"
        /\ heap' = [heap EXCEPT ![r] = AfterPrune(rm)]
        /\ saving' = IF persistence THEN Append(saving, rm.envelopes) ELSE saving
        /\ Broadcast(rm, c, batch)
        /\ received' = received \cup ToSet(batch)
        /\ UNCHANGED <<persistence, current, room, phase, socket, disk>>

LastTimestamp == MaxTimestamp[persistence]

\* What a client sends: envelopes later than those it has sent on the
\* connection, written there or queued while it was offline.  Bound: a deletion
\* at LastTimestamp, which no clock could pass, is left out.
ClientSends(c) ==
    LET last == Max({0} \cup {e.ts : e \in {x \in received : x.conn = c}})
    IN  \E n \in 1..LastTimestamp :
        \E times \in [1..n -> (last + 1)..LastTimestamp], deletes \in [1..n -> BOOLEAN] :
            /\ Inputs + n <= MaxInputs
            /\ \A i \in 1..n : \A j \in 1..(i - 1) : times[j] < times[i]
            /\ \A i \in 1..n : deletes[i] => times[i] < LastTimestamp
            /\ Message(c, [i \in 1..n |-> [ts |-> times[i], conn |-> c, deletes |-> deletes[i]]])

-----------------------------------------------------------------------------
(* Closing, and the adapter.                                               *)

\* The socket leaves the state OPEN; its close event is still to come.
Drop(c) ==
    /\ phase[c] # "new" /\ socket[c] = "open"
    /\ socket' = [socket EXCEPT ![c] = "closing"]
    /\ UNCHANGED <<heap, current, room, phase, sent, adapter, received>>

\* Mutant of Leave: the room goes with any client that leaves.
LeaveDeletesRoom(c) ==
    LET r == room[c]
        left == [heap[r] EXCEPT
                    !.clients = @ \ {c},
                    !.clientClocks = [d \in DOMAIN @ \ {c} |-> @[d]]]
    IN  /\ heap' = [heap EXCEPT ![r] = left]
        /\ current' = 0

\* Mutant of Leave: the clock of the client that leaves is kept.
LeaveKeepsClock(c) ==
    LET r == room[c]
        left == [heap[r] EXCEPT !.clients = @ \ {c}]
    IN  /\ heap' = [heap EXCEPT ![r] = left]
        /\ current' = IF left.clients = {} THEN 0 ELSE current

\* The close handler: the last client to leave a Room takes the id, whatever
\* Room it stands for, out of the map.
Leave(c) ==
    LET r == room[c]
        left == [heap[r] EXCEPT
                    !.clients = @ \ {c},
                    !.clientClocks = [d \in DOMAIN @ \ {c} |-> @[d]]]
    IN  /\ heap' = [heap EXCEPT ![r] = left]
        /\ current' = IF left.clients = {} THEN 0 ELSE current

\* The close event.  Nobody listens for it before the client has joined.
CloseEvent(c) ==
    /\ socket[c] = "closing"
    /\ socket' = [socket EXCEPT ![c] = "closed"]
    /\ IF phase[c] = "joined" THEN Leave(c) ELSE UNCHANGED <<heap, current>>
    /\ UNCHANGED <<room, phase, sent, adapter, received>>

\* The adapter stores logs in the order of the calls.
SaveDone ==
    /\ saving # <<>>
    /\ disk' = Head(saving)
    /\ saving' = Tail(saving)
    /\ UNCHANGED <<persistence, heap, current, conns, received>>

SaveFails ==
    /\ AdapterFails /\ saving # <<>>
    /\ saving' = Tail(saving)
    /\ UNCHANGED <<persistence, disk, heap, current, conns, received>>

LoadSettles == \E r \in DOMAIN heap : LoadDone(r) \/ LoadFails(r)

Next ==
    \/ \E c \in Conn : Connect(c) \/ ClientSends(c) \/ Drop(c) \/ CloseEvent(c)
    \/ LoadSettles
    \/ SaveDone
    \/ SaveFails

Spec == Init /\ [][Next]_vars

\* The adapter settles every load.
FairSpec == Spec /\ WF_vars(LoadSettles)

-----------------------------------------------------------------------------
(* Properties.                                                             *)

Clients == {c \in Conn : phase[c] = "joined" /\ socket[c] = "open"}

\* The envelopes in some messages to a client, in order.
EnvelopesIn(messages) ==
    FlattenSeq([i \in DOMAIN messages |->
        IF messages[i].type = "PRUNE" THEN <<>> ELSE messages[i].data])

EnvelopeType == [ts : 1..LastTimestamp, conn : Conn, deletes : BOOLEAN]

\* Every variable keeps its type, and a Room knows the clock of each of its
\* clients.
TypeOK ==
    /\ persistence \in Persistence
    /\ current \in 0..Len(heap)
    /\ \A r \in DOMAIN heap :
          /\ heap[r].envelopes \in Seq(EnvelopeType)
          /\ heap[r].clients \subseteq {c \in Conn : room[c] = r /\ phase[c] = "joined"}
          /\ heap[r].clientClocks \in [heap[r].clients -> 0..LastTimestamp]
    /\ received \subseteq EnvelopeType

\* A PRUNE never overtakes what it is about (relay.ts:181-188): a client that
\* is told to prune up to t has been sent, or has sent, every deletion up to t
\* that its Room has received, through its SNAPSHOT or an UPDATE.
PruneAfterDeletions ==
    [][\A c \in Conn : \A i \in (Len(sent[c]) + 1)..Len(sent'[c]) :
          sent'[c][i].type = "PRUNE" =>
              \A e \in received' :
                  (e.deletes /\ e.ts <= sent'[c][i].data /\ room[e.conn] = room[c])
                      => \/ e.conn = c
                         \/ e \in ToSet(EnvelopesIn(SubSeq(sent'[c], 1, i - 1)))]_vars

\* A Room tells its clients to prune up to t only when each of them has shown a
\* later timestamp: it has sent one over this connection, or it was sent one
\* in its SNAPSHOT (relay.ts:192-202).
PruneAfterEveryClient ==
    [][\A c \in Conn :
          (Len(sent'[c]) > Len(sent[c]) /\ Last(sent'[c]).type = "PRUNE") =>
              \A d \in Clients : room[d] = room[c] =>
                  \E e \in received' :
                      /\ e.ts > Last(sent'[c]).data
                      /\ e.conn = d \/ e \in ToSet(Head(sent[d]).data)]_vars

\* No deletion is forgotten (relay.ts:137-141): what a Room has received is
\* tracked until a PRUNE up to it has been sent.
DeletionsTracked ==
    \A e \in received :
        e.deletes =>
            \/ e.ts \in heap[room[e.conn]].tombstones
            \/ \E c \in Conn : /\ room[c] = room[e.conn]
                               /\ \E m \in ToSet(sent[c]) :
                                     m.type = "PRUNE" /\ m.data >= e.ts

\* The high watermark covers the log and the clocks of the clients
\* (relay.ts:132-136), the part that was loaded included.
WatermarkCovers ==
    \A r \in DOMAIN heap :
        /\ \A t \in Timestamps(heap[r].envelopes) : t <= heap[r].highWatermark
        /\ \A c \in heap[r].clients : heap[r].clientClocks[c] <= heap[r].highWatermark

\* One Room for one id: what a client sends is broadcast to every other client
\* that is connected under the id (relay.ts:12-14, 394).
OneRoom == \A c, d \in Clients : room[c] = room[d]

\* The envelopes of a log that others than c have sent, in order.
FromOthers(log, c) ==
    FoldLeft(LAMBDA part, e : IF e.conn # c THEN Append(part, e) ELSE part, <<>>, log)

\* Without an adapter nothing interleaves with a join, so there is one Room,
\* it lives while it has clients (relay.ts:242), and each of them has
\* received its log, in order, less what it sent itself.
ExactRelay ==
    ~persistence =>
        /\ \A c \in Clients : room[c] = current
        /\ current # 0 => heap[current].clients # {}
        /\ \A c \in Clients :
              EnvelopesIn(sent[c]) = FromOthers(heap[room[c]].envelopes, c)

\* Whoever waits for a load gets the SNAPSHOT, if it stays connected: none waits
\* for ever.  (Connections are bounded, so new ones cannot hide an old one.)
EveryoneServed == []<>(\A c \in Conn : phase[c] = "waiting" => socket[c] # "open")
=============================================================================
