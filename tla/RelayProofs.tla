----------------------------- MODULE RelayProofs -----------------------------
(***************************************************************************)
(* Proofs about Relay, for any number of connections and of timestamps,    *)
(* with and without an adapter.                                            *)
(***************************************************************************)
EXTENDS Relay, DataLemmas

Times == 0..LastTimestamp

Clocks == UNION {[D -> Times] : D \in SUBSET Conn}

RoomType ==
    [envelopes : Seq(EnvelopeType), clients : SUBSET Conn, loading : BOOLEAN,
     clientClocks : Clocks,
     highWatermark : Times, tombstones : SUBSET Times]

MessageType ==
    [type : {"SNAPSHOT", "UPDATE"}, data : Seq(EnvelopeType)]
        \cup [type : {"PRUNE"}, data : Times]

Types ==
    /\ persistence \in Persistence
    /\ heap \in Seq(RoomType)
    /\ current \in 0..Len(heap)
    /\ room \in [Conn -> 0..Len(heap)]
    /\ phase \in [Conn -> {"new", "waiting", "joined"}]
    /\ socket \in [Conn -> {"open", "closing", "closed"}]
    /\ sent \in [Conn -> Seq(MessageType)]
    /\ received \in SUBSET EnvelopeType

\* A connection whose handler has started holds a Room; one that has joined is
\* a client of that Room until it closes, and has been sent something.
Placed ==
    /\ \A c \in Conn :
          /\ phase[c] # "new" => room[c] \in DOMAIN heap
          /\ (phase[c] = "joined" /\ socket[c] # "closed") => c \in heap[room[c]].clients
          /\ (phase[c] = "joined" /\ socket[c] = "open") => sent[c] # <<>>
          /\ phase[c] # "joined" => sent[c] = <<>>
    /\ \A r \in DOMAIN heap :
          heap[r].clients \subseteq {c \in Conn : room[c] = r /\ phase[c] = "joined"}

\* What was received is in the log of the Room of its sender, and nothing else
\* is on its way to the disk and back.
Logged ==
    /\ \A e \in received : phase[e.conn] = "joined" /\ e \in ToSet(heap[room[e.conn]].envelopes)
    /\ disk \in Seq(received)
    /\ saving \in Seq(Seq(received))

\* A Room knows the clock of each of its clients, its log was received, and its
\* watermark bounds both and is a timestamp of the log.
RoomOK(rm) ==
    /\ DOMAIN rm.clientClocks = rm.clients
    /\ ToSet(rm.envelopes) \subseteq received
    /\ \A t \in Timestamps(rm.envelopes) : t <= rm.highWatermark
    /\ \A c \in rm.clients : rm.clientClocks[c] <= rm.highWatermark
    /\ rm.highWatermark = 0 \/ rm.highWatermark \in Timestamps(rm.envelopes)

\* A client has shown what its clock says: it has sent as late an envelope, or
\* was sent one in its SNAPSHOT.
Shown(c, t, log) == \E e \in received : e.ts >= t /\ (e.conn = c \/ e \in ToSet(log))
ClocksShown ==
    \A c \in Clients :
        LET t == heap[room[c]].clientClocks[c] IN t = 0 \/ Shown(c, t, Head(sent[c]).data)

\* A client has been told of everything that its Room has received from others.
Told(c, e) == \E i \in DOMAIN sent[c] : sent[c][i].type # "PRUNE" /\ e \in ToSet(sent[c][i].data)
EveryoneTold ==
    \A c \in Clients : \A e \in received :
        room[e.conn] = room[c] => e.conn = c \/ Told(c, e)

\* The inductive invariant.
RInv ==
    /\ Types /\ Placed /\ Logged
    /\ \A r \in DOMAIN heap : RoomOK(heap[r])
    /\ ClocksShown /\ EveryoneTold /\ DeletionsTracked

-----------------------------------------------------------------------------
(* The types.                                                              *)

LEMMA ClocksAre ==
    /\ \A D \in SUBSET Conn : \A f \in [D -> Times] : f \in Clocks
    /\ \A f \in Clocks : DOMAIN f \in SUBSET Conn /\ f \in [DOMAIN f -> Times]
BY DEF Clocks

\* The option never changes, nor do the timestamps that go with it.
LEMMA TypesStay ==
    ASSUME Types
    PROVE  /\ LastTimestamp \in Nat
           /\ Conn \subseteq Nat
           /\ \A e \in EnvelopeType : e.ts \in 1..LastTimestamp /\ e.conn \in Conn
           /\ \A log \in Seq(EnvelopeType) : Timestamps(log) \subseteq 1..LastTimestamp
           /\ persistence' = persistence =>
                 /\ LastTimestamp' = LastTimestamp /\ Times' = Times
                 /\ EnvelopeType' = EnvelopeType /\ Clocks' = Clocks
                 /\ RoomType' = RoomType /\ MessageType' = MessageType
<1>1. LastTimestamp \in Nat
  BY OptionAssumption, BoundAssumption DEF Types, LastTimestamp
<1>2. Conn \subseteq Nat
  BY BoundAssumption DEF Conn
<1>3. \A e \in EnvelopeType : e.ts \in 1..LastTimestamp /\ e.conn \in Conn
  BY DEF EnvelopeType
<1>4. \A log \in Seq(EnvelopeType) : \A e \in ToSet(log) : e \in EnvelopeType
  BY DEF ToSet
<1>5. \A log \in Seq(EnvelopeType) : Timestamps(log) \subseteq 1..LastTimestamp
  BY <1>3, <1>4 DEF Timestamps
<1>6. ASSUME persistence' = persistence
      PROVE  LastTimestamp' = LastTimestamp /\ Times' = Times
             /\ EnvelopeType' = EnvelopeType /\ Clocks' = Clocks
             /\ RoomType' = RoomType /\ MessageType' = MessageType
  BY <1>6 DEF LastTimestamp, Times, EnvelopeType, Clocks, RoomType, MessageType
<1> QED BY <1>1, <1>2, <1>3, <1>5, <1>6

\* Connections that join a Room have the watermark for a clock.
LEMMA JoinedRoom ==
    ASSUME NEW rm \in RoomType, RoomOK(rm), NEW cs \in SUBSET Conn
    PROVE  /\ Join(rm, cs) \in RoomType
           /\ RoomOK(Join(rm, cs))
           /\ Join(rm, cs).clients = rm.clients \cup cs
           /\ Join(rm, cs).envelopes = rm.envelopes
           /\ Join(rm, cs).tombstones = rm.tombstones
           /\ cs = {} => Join(rm, cs) = rm
           /\ \A c \in cs : Join(rm, cs).clientClocks[c] = rm.highWatermark
           /\ \A c \in rm.clients \ cs : Join(rm, cs).clientClocks[c] = rm.clientClocks[c]
<1> DEFINE D == rm.clients \cup cs
           clocks == [c \in D |-> IF c \in cs THEN rm.highWatermark ELSE rm.clientClocks[c]]
<1>1. /\ rm.clientClocks \in [rm.clients -> Times]
      /\ rm.highWatermark \in Times
      /\ D \in SUBSET Conn
  BY ClocksAre DEF RoomType, RoomOK
<1>2. Join(rm, cs) = [rm EXCEPT !.clients = D, !.clientClocks = clocks]
  BY <1>1 DEF Join
<1>3. clocks \in [D -> Times]
  BY <1>1
<1>4. clocks \in Clocks
  BY <1>1, <1>3, ClocksAre
<1> HIDE DEF D, clocks
<1>5. /\ Join(rm, cs) \in RoomType
      /\ Join(rm, cs).clients = D /\ Join(rm, cs).clientClocks = clocks
      /\ Join(rm, cs).envelopes = rm.envelopes
      /\ Join(rm, cs).tombstones = rm.tombstones
      /\ Join(rm, cs).highWatermark = rm.highWatermark
  BY <1>1, <1>2, <1>4 DEF RoomType
<1>6. \A c \in D : clocks[c] <= rm.highWatermark
  BY <1>1 DEF RoomOK, D, clocks, Times
<1>7. ASSUME cs = {} PROVE Join(rm, cs) = rm
  <2>1. D = rm.clients /\ clocks = rm.clientClocks
    BY <1>1, <1>7 DEF D, clocks
  <2>2. [rm EXCEPT !.clients = rm.clients, !.clientClocks = rm.clientClocks] = rm
    BY DEF RoomType
  <2> QED BY <1>2, <2>1, <2>2
<1> QED BY <1>3, <1>5, <1>6, <1>7 DEF RoomOK, D, clocks

-----------------------------------------------------------------------------
(* The steps.                                                              *)

\* The connections `cs`, whose handlers hold Room r and have not joined, join
\* it and are sent its log, which is `rm`'s; others may start to wait for it.
LEMMA JoinStep ==
    ASSUME RInv,
           NEW objects \in Seq(RoomType), Len(heap) <= Len(objects),
           \A q \in DOMAIN objects : objects[q] = IF q \in DOMAIN heap THEN heap[q] ELSE NewRoom,
           NEW r \in DOMAIN objects, NEW rm \in RoomType, RoomOK(rm),
           rm.clients = objects[r].clients, rm.tombstones = objects[r].tombstones,
           rm.clientClocks = objects[r].clientClocks,
           ToSet(objects[r].envelopes) \subseteq ToSet(rm.envelopes),
           NEW cs \in SUBSET Conn,
           \A c \in cs : phase[c] # "joined" /\ room'[c] = r,
           room' \in [Conn -> 0..Len(objects)],
           \A c \in Conn : phase[c] # "new" => room'[c] = room[c],
           heap' = [objects EXCEPT ![r] = Join(rm, cs)],
           phase' \in [Conn -> {"new", "waiting", "joined"}],
           \A c \in cs : phase'[c] = "joined",
           \A c \in Conn \ cs :
               \/ phase'[c] = phase[c]
               \/ phase[c] = "new" /\ phase'[c] = "waiting" /\ room'[c] = r,
           SendSnapshot(rm, cs),
           current' \in 0..Len(objects),
           UNCHANGED <<socket, adapter, received>>
    PROVE  RInv'
<1> DEFINE joined == Join(rm, cs)
<1>1. /\ joined \in RoomType /\ RoomOK(joined)
      /\ joined.clients = rm.clients \cup cs
      /\ joined.envelopes = rm.envelopes /\ joined.tombstones = rm.tombstones
      /\ \A c \in cs : joined.clientClocks[c] = rm.highWatermark
      /\ \A c \in rm.clients \ cs : joined.clientClocks[c] = rm.clientClocks[c]
  BY JoinedRoom
<1>2. /\ persistence' = persistence /\ disk' = disk /\ saving' = saving
      /\ socket' = socket /\ received' = received
      /\ LastTimestamp' = LastTimestamp
      /\ EnvelopeType' = EnvelopeType
      /\ RoomType' = RoomType /\ MessageType' = MessageType
  BY TypesStay DEF RInv, adapter
<1>3. /\ heap' \in Seq(RoomType) /\ Len(heap') = Len(objects)
      /\ DOMAIN heap' = DOMAIN objects /\ DOMAIN objects = 1..Len(objects)
      /\ heap'[r] = joined /\ \A q \in DOMAIN objects : q # r => heap'[q] = objects[q]
  BY <1>1
<1>4. DOMAIN heap = 1..Len(heap) /\ DOMAIN heap \subseteq DOMAIN objects
  BY <1>3 DEF RInv, Types
<1>5. /\ NewRoom.clients = {} /\ NewRoom.envelopes = <<>> /\ NewRoom.tombstones = {}
      /\ RoomOK(NewRoom)
  BY DEF NewRoom, RoomOK, Timestamps, ToSet
<1> DEFINE message == [type |-> "SNAPSHOT", data |-> rm.envelopes]
<1>6. message \in MessageType
  BY DEF MessageType, RoomType
<1>7. \A c \in Conn : sent'[c] = IF c \in cs /\ socket[c] = "open"
                                 THEN Append(sent[c], message) ELSE sent[c]
  BY DEF SendSnapshot
<1>8. \A c \in cs : sent[c] = <<>>
  BY DEF RInv, Placed
<1>9. /\ \A c \in cs : socket[c] = "open" => sent'[c] = <<message>>
      /\ \A c \in cs : socket[c] # "open" => sent'[c] = <<>>
      /\ \A c \in Conn \ cs : sent'[c] = sent[c]
  <2>1. Append(<<>>, message) = <<message>>
    OBVIOUS
  <2> HIDE DEF message
  <2> QED BY ZenonT(40), <1>7, <1>8, <2>1
<1> HIDE DEF joined, message
<1>10. Types'
  <2>1. sent' \in [Conn -> Seq(MessageType)]
    <3>1. ASSUME NEW c \in Conn PROVE sent'[c] \in Seq(MessageType)
      <4>1. sent[c] \in Seq(MessageType)
        BY DEF RInv, Types
      <4>2. Append(sent[c], message) \in Seq(MessageType)
        BY <1>6, <4>1
      <4> QED BY <1>7, <4>1, <4>2
    <3> QED BY <3>1 DEF SendSnapshot
  <2> QED BY <1>2, <1>3, <2>1 DEF RInv, Types
<1>11. Placed'
  <2>1. ASSUME NEW c \in Conn
        PROVE  /\ phase'[c] # "new" => room'[c] \in DOMAIN heap'
               /\ (phase'[c] = "joined" /\ socket'[c] # "closed") => c \in heap'[room'[c]].clients
               /\ (phase'[c] = "joined" /\ socket'[c] = "open") => sent'[c] # <<>>
               /\ phase'[c] # "joined" => sent'[c] = <<>>
    <3>1. CASE c \in cs
      <4>1. room'[c] = r /\ c \in heap'[r].clients /\ phase'[c] = "joined"
        BY <1>1, <1>3, <3>1
      <4>2. socket'[c] = "open" => sent'[c] # <<>>
        <5>1. <<message>> # <<>>
          OBVIOUS
        <5> QED BY <1>2, <1>9, <3>1, <5>1
      <4> QED BY <1>3, <4>1, <4>2
    <3>2. CASE c \notin cs
      <4>1. sent'[c] = sent[c] /\ socket'[c] = socket[c]
        BY <1>2, <1>9, <3>2
      <4>2. phase[c] # "joined" => sent[c] = <<>>
        BY DEF RInv, Placed
      <4>3. CASE phase[c] = "new"
        BY <1>3, <3>2, <4>1, <4>2, <4>3
      <4>4. CASE phase[c] # "new"
        <5>1. room'[c] = room[c] /\ room[c] \in DOMAIN heap
          BY <4>4 DEF RInv, Placed
        <5>2. objects[room[c]] = heap[room[c]] /\ room[c] \in DOMAIN objects
          BY <1>4, <5>1
        <5>3. heap[room[c]].clients \subseteq heap'[room[c]].clients
          BY <1>1, <1>3, <5>2
        <5> QED BY <1>3, <3>2, <4>1, <4>2, <4>4, <5>1, <5>2, <5>3 DEF RInv, Placed
      <4> QED BY <4>3, <4>4
    <3> QED BY <3>1, <3>2
  <2>2. ASSUME NEW q \in DOMAIN heap'
        PROVE  heap'[q].clients \subseteq {c \in Conn : room'[c] = q /\ phase'[c] = "joined"}
    <3>1. objects[q].clients \subseteq {c \in Conn : room'[c] = q /\ phase'[c] = "joined"}
      <4>1. CASE q \in DOMAIN heap
        <5>1. heap[q].clients \subseteq {c \in Conn : room[c] = q /\ phase[c] = "joined"}
          BY <4>1 DEF RInv, Placed
        <5> QED BY <1>3, <4>1, <5>1
      <4>2. CASE q \notin DOMAIN heap
        BY <1>3, <1>5, <4>2
      <4> QED BY <4>1, <4>2
    <3>2. CASE q = r
      BY <1>1, <1>3, <3>1, <3>2
    <3>3. CASE q # r
      BY <1>3, <3>1, <3>3
    <3> QED BY <3>2, <3>3
  <2> QED BY <2>1, <2>2 DEF Placed
<1>12. ASSUME NEW e \in received
       PROVE  /\ phase[e.conn] = "joined" /\ e.conn \in Conn /\ e.conn \notin cs
              /\ room'[e.conn] = room[e.conn] /\ room[e.conn] \in DOMAIN heap
              /\ phase'[e.conn] = "joined"
              /\ e \in ToSet(heap'[room'[e.conn]].envelopes)
              /\ heap'[room'[e.conn]].tombstones = heap[room[e.conn]].tombstones
  <2>1. e \in EnvelopeType /\ e.conn \in Conn
    BY TypesStay DEF RInv, Types
  <2>2. phase[e.conn] = "joined" /\ e \in ToSet(heap[room[e.conn]].envelopes)
    BY DEF RInv, Logged
  <2>3. /\ e.conn \notin cs /\ room'[e.conn] = room[e.conn]
        /\ room[e.conn] \in DOMAIN heap /\ phase'[e.conn] = "joined"
    BY <2>1, <2>2 DEF RInv, Placed
  <2>4. objects[room[e.conn]] = heap[room[e.conn]]
    BY <1>4, <2>3
  <2> QED BY <1>1, <1>3, <1>4, <2>1, <2>2, <2>3, <2>4
<1>13. Logged'
  BY <1>2, <1>12 DEF RInv, Logged
<1>14. \A q \in DOMAIN heap' : RoomOK(heap[q])'
  <2>1. \A q \in DOMAIN heap' : RoomOK(heap'[q])
    BY <1>1, <1>3, <1>4, <1>5 DEF RInv
  <2> QED BY <1>2, <2>1 DEF RoomOK
<1>15. ASSUME NEW c \in Clients', c \in cs
       PROVE  /\ heap'[room'[c]].clientClocks[c] = rm.highWatermark
              /\ sent'[c] = <<message>> /\ room'[c] = r
  BY <1>1, <1>2, <1>3, <1>9, <1>15 DEF Clients
<1>16. ASSUME NEW c \in Clients', c \notin cs
       PROVE  /\ c \in Clients /\ room'[c] = room[c] /\ sent'[c] = sent[c]
              /\ heap'[room'[c]].clientClocks[c] = heap[room[c]].clientClocks[c]
  <2>1. c \in Clients /\ room'[c] = room[c] /\ sent'[c] = sent[c]
    BY <1>2, <1>9, <1>16 DEF Clients
  <2>2. room[c] \in DOMAIN heap /\ c \in heap[room[c]].clients
    BY <2>1 DEF RInv, Placed, Clients
  <2>3. objects[room[c]] = heap[room[c]]
    BY <1>4, <2>2
  <2> QED BY <1>1, <1>3, <1>4, <1>16, <2>1, <2>2, <2>3
<1>17. ClocksShown'
  <2> SUFFICES ASSUME NEW c \in Clients', heap'[room'[c]].clientClocks[c] # 0
               PROVE  Shown(c, heap[room[c]].clientClocks[c], Head(sent[c]).data)'
    BY DEF ClocksShown
  <2>1. CASE c \in cs
    <3>1. rm.highWatermark \in Timestamps(rm.envelopes)
      BY <1>15, <2>1 DEF RoomOK
    <3>2. PICK e \in ToSet(rm.envelopes) : e.ts = rm.highWatermark
      BY <3>1 DEF Timestamps
    <3>3. e \in received /\ e.ts \in Nat
      BY <3>2, TypesStay DEF RoomOK, RInv, Types
    <3>4. Head(sent'[c]).data = rm.envelopes
      BY <1>15, <2>1 DEF message
    <3> QED BY <1>2, <1>15, <2>1, <3>2, <3>3, <3>4 DEF Shown
  <2>2. CASE c \notin cs
    BY <1>2, <1>16, <2>2 DEF RInv, ClocksShown, Shown
  <2> QED BY <2>1, <2>2
<1>18. EveryoneTold'
  <2> SUFFICES ASSUME NEW c \in Clients', NEW e \in received, room'[e.conn] = room'[c]
               PROVE  e.conn = c \/ Told(c, e)'
    BY <1>2 DEF EveryoneTold
  <2>1. CASE c \in cs
    <3>1. e \in ToSet(rm.envelopes)
      BY <1>1, <1>3, <1>12, <1>15, <2>1
    <3>2. 1 \in DOMAIN sent'[c] /\ sent'[c][1].type = "SNAPSHOT" /\ sent'[c][1].data = rm.envelopes
      BY <1>15, <2>1 DEF message
    <3> QED BY <3>1, <3>2 DEF Told
  <2>2. CASE c \notin cs
    <3>1. c \in Clients /\ sent'[c] = sent[c] /\ room[e.conn] = room[c]
      BY <1>12, <1>16, <2>2
    <3>2. e.conn = c \/ Told(c, e)
      BY <3>1 DEF RInv, EveryoneTold
    <3> QED BY <3>1, <3>2 DEF Told
  <2> QED BY <2>1, <2>2
<1>19. DeletionsTracked'
  <2> SUFFICES ASSUME NEW e \in received, e.deletes
               PROVE  \/ e.ts \in heap'[room'[e.conn]].tombstones
                      \/ \E c \in Conn : /\ room'[c] = room'[e.conn]
                                         /\ \E m \in ToSet(sent'[c]) :
                                               m.type = "PRUNE" /\ m.data >= e.ts
    BY <1>2 DEF DeletionsTracked
  <2>1. CASE e.ts \in heap[room[e.conn]].tombstones
    BY <1>12, <2>1
  <2>2. ASSUME NEW c \in Conn, room[c] = room[e.conn],
               \E m \in ToSet(sent[c]) : m.type = "PRUNE" /\ m.data >= e.ts
        PROVE  room'[c] = room'[e.conn] /\ sent'[c] = sent[c]
    <3>1. sent[c] # <<>>
      BY <2>2 DEF ToSet
    <3>2. phase[c] = "joined" /\ c \notin cs
      BY <3>1 DEF RInv, Placed
    <3> QED BY <1>9, <1>12, <2>2, <3>2
  <2> QED BY <2>1, <2>2 DEF RInv, DeletionsTracked
<1> QED BY <1>10, <1>11, <1>13, <1>14, <1>17, <1>18, <1>19 DEF RInv

LEMMA ConnectStep ==
    ASSUME RInv, NEW c \in Conn, Connect(c)
    PROVE  RInv'
<1> DEFINE r == IF current = 0 THEN Len(heap) + 1 ELSE current
           objects == IF current = 0 THEN Append(heap, NewRoom) ELSE heap
           load == objects[r].loading \/ (persistence /\ objects[r].envelopes = <<>>)
           waits == [objects[r] EXCEPT !.loading = TRUE]
<1>1. NewRoom \in RoomType /\ RoomOK(NewRoom)
  <2>1. [d \in {} |-> 0] \in [{} -> Times]
    OBVIOUS
  <2>2. [d \in {} |-> 0] \in Clocks
    BY <2>1, ClocksAre
  <2>3. <<>> \in Seq(EnvelopeType) /\ 0 \in Times
    BY TypesStay DEF RInv, Times
  <2> QED BY <2>2, <2>3 DEF NewRoom, RoomType, RoomOK, Timestamps, ToSet
<1>2. /\ objects \in Seq(RoomType) /\ Len(heap) <= Len(objects)
      /\ DOMAIN objects = 1..Len(objects) /\ DOMAIN heap = 1..Len(heap)
      /\ r \in DOMAIN objects
      /\ \A q \in DOMAIN objects : objects[q] = IF q \in DOMAIN heap THEN heap[q] ELSE NewRoom
  BY <1>1 DEF RInv, Types
<1>3. objects[r] \in RoomType /\ RoomOK(objects[r])
  BY <1>1, <1>2 DEF RInv
<1>4. /\ phase[c] = "new" /\ current' = r
      /\ room' = [room EXCEPT ![c] = r]
      /\ phase' = [phase EXCEPT ![c] = IF load THEN "waiting" ELSE "joined"]
      /\ IF load
         THEN heap' = [objects EXCEPT ![r].loading = TRUE] /\ sent' = sent
         ELSE heap' = [objects EXCEPT ![r] = Join(@, {c})] /\ SendSnapshot(objects[r], {c})
      /\ UNCHANGED <<socket, adapter, received>>
  BY DEF Connect
<1> HIDE DEF objects, r, load
<1>5. /\ room' \in [Conn -> 0..Len(objects)] /\ room'[c] = r
      /\ \A d \in Conn : d # c => room'[d] = room[d] /\ phase'[d] = phase[d]
      /\ phase' \in [Conn -> {"new", "waiting", "joined"}]
      /\ current' \in 0..Len(objects)
  BY <1>2, <1>4 DEF RInv, Types
<1>6. CASE load
  <2>1. /\ waits \in RoomType /\ RoomOK(waits)
        /\ waits.clients = objects[r].clients /\ waits.clientClocks = objects[r].clientClocks
        /\ waits.tombstones = objects[r].tombstones
        /\ waits.envelopes = objects[r].envelopes
    BY <1>3 DEF RoomType, RoomOK
  <2>2. Join(waits, {}) = waits
    BY <2>1, JoinedRoom
  <2>3. heap' = [objects EXCEPT ![r] = Join(waits, {})]
    BY <1>4, <1>6, <2>2
  <2>4. SendSnapshot(waits, {})
    BY <1>4, <1>6 DEF SendSnapshot, RInv, Types
  <2>5. phase'[c] = "waiting"
    BY <1>4, <1>6 DEF RInv, Types
  <2> HIDE DEF waits
  <2> QED BY ZenonT(40), <1>2, <1>3, <1>4, <1>5, <2>1, <2>3, <2>4, <2>5, JoinStep
<1>7. CASE ~load
  <2>1. phase'[c] = "joined"
    BY <1>4, <1>7 DEF RInv, Types
  <2> DEFINE found == objects[r]
             cs == {c}
  <2>2. /\ found \in RoomType /\ RoomOK(found)
        /\ found.clients = objects[r].clients /\ found.clientClocks = objects[r].clientClocks
        /\ found.tombstones = objects[r].tombstones /\ found.envelopes = objects[r].envelopes
        /\ heap' = [objects EXCEPT ![r] = Join(found, cs)] /\ SendSnapshot(found, cs)
    BY <1>3, <1>4, <1>7
  <2>3. /\ \A d \in cs : phase[d] # "joined" /\ room'[d] = r /\ phase'[d] = "joined"
        /\ cs \in SUBSET Conn
        /\ \A d \in Conn : phase[d] # "new" => room'[d] = room[d]
        /\ \A d \in Conn \ cs : phase'[d] = phase[d]
    BY <1>4, <1>5, <2>1
  <2>4. UNCHANGED <<socket, adapter, received>>
    BY <1>4
  <2> HIDE DEF found, cs
  <2>5. /\ ToSet(objects[r].envelopes) \subseteq ToSet(found.envelopes)
        /\ \A d \in cs : phase[d] # "joined" /\ room'[d] = r
        /\ \A d \in cs : phase'[d] = "joined"
        /\ \A d \in Conn \ cs :
               \/ phase'[d] = phase[d]
               \/ phase[d] = "new" /\ phase'[d] = "waiting" /\ room'[d] = r
    BY <2>2, <2>3
  <2> QED BY ZenonT(40), <1>2, <1>5, <2>2, <2>3, <2>4, <2>5, JoinStep
<1> QED BY <1>6, <1>7

\* What is loaded is the log on the disk, or nothing.
LEMMA LoadStep ==
    ASSUME RInv, NEW r \in DOMAIN heap, NEW saved \in Seq(received), LoadEnds(r, saved)
    PROVE  RInv'
<1> DEFINE rm == heap[r]
           loaded == Loaded(rm, saved)
           top == Max({rm.highWatermark} \cup Timestamps(saved))
           cs == Waiting(r)
<1>1. /\ rm \in RoomType /\ RoomOK(rm) /\ DOMAIN heap = 1..Len(heap)
      /\ rm.highWatermark \in Times /\ rm.envelopes \in Seq(EnvelopeType)
      /\ received \subseteq EnvelopeType
  <2>1. rm \in RoomType /\ DOMAIN heap = 1..Len(heap) /\ received \subseteq EnvelopeType
    BY DEF RInv, Types
  <2>2. RoomOK(rm)
    BY DEF RInv
  <2> HIDE DEF rm
  <2> QED BY <2>1, <2>2 DEF RoomType
<1>2. saved \in Seq(EnvelopeType) /\ ToSet(saved) \subseteq received
  BY <1>1 DEF ToSet
<1>3. /\ top \in {rm.highWatermark} \cup Timestamps(saved) /\ top \in Times
      /\ rm.highWatermark <= top /\ \A t \in Timestamps(saved) : t <= top
  <2> DEFINE S == {rm.highWatermark} \cup Timestamps(saved)
  <2>1. LastTimestamp \in Nat /\ Timestamps(saved) \subseteq 1..LastTimestamp
    BY <1>2, TypesStay DEF RInv
  <2>2. S \in SUBSET (0..LastTimestamp) /\ S # {}
    BY <1>1, <2>1 DEF Times
  <2>3. Max(S) \in S /\ \A y \in S : y <= Max(S)
    BY <2>1, <2>2, MaxIsGreatest
  <2> QED BY <2>2, <2>3 DEF Times
<1>4. /\ ToSet(rm.envelopes \o saved) = ToSet(rm.envelopes) \cup ToSet(saved)
      /\ rm.envelopes \o saved \in Seq(EnvelopeType)
  BY <1>1, <1>2, MembersOfConcat
<1>5. /\ loaded \in RoomType
      /\ loaded.envelopes = rm.envelopes \o saved /\ loaded.highWatermark = top
      /\ loaded.clients = rm.clients /\ loaded.clientClocks = rm.clientClocks
      /\ loaded.tombstones = rm.tombstones
  <2> HIDE DEF top
  <2>1. loaded = [rm EXCEPT !.envelopes = rm.envelopes \o saved,
                            !.highWatermark = top, !.loading = FALSE]
    BY DEF Loaded, top
  <2> HIDE DEF loaded
  <2> QED BY <1>1, <1>3, <1>4, <2>1 DEF RoomType
<1> HIDE DEF loaded, top
<1>6. RoomOK(loaded)
  <2>1. \A c \in rm.clients : rm.clientClocks[c] \in Nat
    BY <1>1, ClocksAre DEF RoomType, RoomOK, Times
  <2>2. \A t \in Timestamps(loaded.envelopes) : t \in Timestamps(rm.envelopes) \cup Timestamps(saved)
    BY <1>4, <1>5 DEF Timestamps
  <2>3. \A t \in Timestamps(rm.envelopes) \cup Timestamps(saved) :
            t \in Nat /\ t \in Timestamps(loaded.envelopes)
    <3>1. \A t \in Timestamps(rm.envelopes) \cup Timestamps(saved) : t \in Nat
      BY <1>1, <1>2, TypesStay DEF RInv
    <3> QED BY <1>4, <1>5, <3>1 DEF Timestamps
  <2>4. \A t \in Timestamps(loaded.envelopes) : t <= top
    BY <1>1, <1>3, <2>2, <2>3 DEF RoomOK, Times
  <2> QED BY <1>1, <1>2, <1>3, <1>4, <1>5, <2>1, <2>3, <2>4 DEF RoomOK, Times
<1>7. /\ heap' = [heap EXCEPT ![r] = Join(loaded, cs)]
      /\ phase' = [c \in Conn |-> IF c \in cs THEN "joined" ELSE phase[c]]
      /\ SendSnapshot(loaded, cs)
      /\ UNCHANGED <<current, room, socket, adapter, received>>
  BY DEF LoadEnds, loaded
<1>8. cs \in SUBSET Conn /\ \A c \in cs : phase[c] # "joined" /\ room'[c] = r
  BY <1>7 DEF Waiting
<1>9. phase' \in [Conn -> {"new", "waiting", "joined"}]
  BY <1>7 DEF RInv, Types
<1>10. /\ heap \in Seq(RoomType) /\ Len(heap) <= Len(heap)
       /\ \A q \in DOMAIN heap : heap[q] = IF q \in DOMAIN heap THEN heap[q] ELSE NewRoom
       /\ room' \in [Conn -> 0..Len(heap)] /\ current' \in 0..Len(heap)
       /\ \A c \in Conn : phase[c] # "new" => room'[c] = room[c]
       /\ \A c \in cs : phase'[c] = "joined"
       /\ \A c \in Conn \ cs : phase'[c] = phase[c]
       /\ ToSet(heap[r].envelopes) \subseteq ToSet(loaded.envelopes)
  <2>1. heap \in Seq(RoomType) /\ room \in [Conn -> 0..Len(heap)] /\ current \in 0..Len(heap)
    BY DEF RInv, Types
  <2>2. ToSet(heap[r].envelopes) \subseteq ToSet(loaded.envelopes)
    BY <1>4, <1>5
  <2>3. \A c \in Conn : phase'[c] = IF c \in cs THEN "joined" ELSE phase[c]
    BY <1>7
  <2> HIDE DEF cs
  <2> QED BY <1>7, <1>8, <2>1, <2>2, <2>3
<1> HIDE DEF cs
<1> QED BY <1>5, <1>6, <1>7, <1>8, <1>9, <1>10, JoinStep

\* A batch raises the clock of its sender, and the watermark, to its latest
\* timestamp.
LEMMA BatchRoom ==
    ASSUME RInv, NEW rm \in RoomType, RoomOK(rm), NEW c \in rm.clients,
           NEW batch \in Seq(EnvelopeType), batch # <<>>
    PROVE  LET after == AfterBatch(rm, c, batch)
               last == Max(Timestamps(batch))
           IN  /\ after \in RoomType
               /\ after.clients = rm.clients
               /\ after.envelopes \in Seq(EnvelopeType)
               /\ after.envelopes = rm.envelopes \o batch
               /\ ToSet(after.envelopes) = ToSet(rm.envelopes) \cup ToSet(batch)
               /\ after.tombstones
                    = rm.tombstones \cup {e.ts : e \in {x \in ToSet(batch) : x.deletes}}
               /\ \E e \in ToSet(batch) : e.ts = last
               /\ after.clientClocks \in [rm.clients -> Times]
               /\ after.clientClocks[c] \in {rm.clientClocks[c], last}
               /\ \A d \in rm.clients \ {c} : after.clientClocks[d] = rm.clientClocks[d]
               /\ \A t \in Timestamps(after.envelopes) : t <= after.highWatermark
               /\ \A d \in rm.clients : after.clientClocks[d] <= after.highWatermark
               /\ \/ after.highWatermark = 0
                  \/ after.highWatermark \in Timestamps(after.envelopes)
<1> DEFINE last == Max(Timestamps(batch))
           clock == Max({rm.clientClocks[c], last})
           mark == Max({rm.highWatermark, last})
           clocks == [rm.clientClocks EXCEPT ![c] = clock]
           deleted == {e.ts : e \in {x \in ToSet(batch) : x.deletes}}
           log == rm.envelopes \o batch
           after == AfterBatch(rm, c, batch)
<1>1. LastTimestamp \in Nat /\ Times \in SUBSET Nat /\ Times = 0..LastTimestamp
  BY TypesStay DEF RInv, Times
<1>2. /\ rm.clientClocks \in [rm.clients -> Times] /\ rm.clients \in SUBSET Conn
      /\ rm.highWatermark \in Times /\ rm.envelopes \in Seq(EnvelopeType)
      /\ rm.tombstones \in SUBSET Times
  BY ClocksAre DEF RoomType, RoomOK
<1>3. /\ last \in Timestamps(batch) /\ \A t \in Timestamps(batch) : t <= last
      /\ Timestamps(batch) \subseteq Times /\ last \in Times
  <2>1. Timestamps(batch) \subseteq 1..LastTimestamp
    BY TypesStay DEF RInv
  <2>2. batch[1] \in ToSet(batch)
    BY DEF ToSet
  <2>3. Timestamps(batch) \in SUBSET (0..LastTimestamp) /\ Timestamps(batch) # {}
    BY <2>1, <2>2 DEF Timestamps
  <2> QED BY <1>1, <2>3, MaxIsGreatest
<1> HIDE DEF last
<1>4. \A s, t \in Times : /\ Max({s, t}) \in {s, t}
                          /\ s <= Max({s, t}) /\ t <= Max({s, t})
  BY <1>1, MaxIsGreatest
<1>5. /\ clock \in {rm.clientClocks[c], last} /\ rm.clientClocks[c] <= clock /\ last <= clock
      /\ mark \in {rm.highWatermark, last} /\ rm.highWatermark <= mark /\ last <= mark
      /\ clock \in Times /\ mark \in Times
  <2>1. rm.clientClocks[c] \in Times
    BY <1>2
  <2>2. /\ clock \in {rm.clientClocks[c], last}
        /\ rm.clientClocks[c] <= clock /\ last <= clock
    BY <1>3, <1>4, <2>1
  <2>3. /\ mark \in {rm.highWatermark, last}
        /\ rm.highWatermark <= mark /\ last <= mark
    BY <1>2, <1>3, <1>4
  <2> HIDE DEF clock, mark
  <2> QED BY <1>2, <1>3, <2>1, <2>2, <2>3
<1> HIDE DEF clock, mark
<1>6. /\ clocks \in [rm.clients -> Times] /\ clocks \in Clocks
      /\ clocks[c] = clock /\ \A d \in rm.clients \ {c} : clocks[d] = rm.clientClocks[d]
  BY <1>2, <1>5, ClocksAre
<1>7. deleted \in SUBSET Times
  BY <1>3 DEF Timestamps
<1>8. /\ log \in Seq(EnvelopeType) /\ ToSet(log) = ToSet(rm.envelopes) \cup ToSet(batch)
      /\ Timestamps(log) = Timestamps(rm.envelopes) \cup Timestamps(batch)
  <2>1. log \in Seq(EnvelopeType) /\ ToSet(log) = ToSet(rm.envelopes) \cup ToSet(batch)
    BY <1>2, MembersOfConcat
  <2> QED BY <2>1 DEF Timestamps
<1>9. after = [rm EXCEPT !.tombstones = rm.tombstones \cup deleted, !.clientClocks = clocks,
                         !.highWatermark = mark, !.envelopes = log]
  BY DEF AfterBatch, last, clock, mark
<1> HIDE DEF clocks, deleted, log, after
<1>10. /\ after \in RoomType /\ after.clients = rm.clients /\ after.envelopes = log
       /\ after.tombstones = rm.tombstones \cup deleted
       /\ after.clientClocks = clocks /\ after.highWatermark = mark
  BY <1>2, <1>5, <1>6, <1>7, <1>8, <1>9 DEF RoomType
<1>11. \A t \in Timestamps(log) : t <= mark
  <2>1. Timestamps(rm.envelopes) \subseteq Times
    BY <1>1, <1>2, TypesStay DEF RInv
  <2> QED BY <1>1, <1>2, <1>3, <1>5, <1>8, <2>1 DEF RoomOK
<1>12. ASSUME NEW d \in rm.clients PROVE clocks[d] <= mark
  <2>1. /\ rm.clientClocks[d] \in Nat /\ rm.highWatermark \in Nat /\ mark \in Nat
        /\ rm.clientClocks[d] <= rm.highWatermark
    <3>1. rm.clientClocks[d] \in Times /\ rm.highWatermark \in Times /\ mark \in Times
      BY <1>2, <1>5
    <3> QED BY <1>1, <3>1 DEF RoomOK
  <2>2. rm.highWatermark <= mark /\ last <= mark
    BY <1>5
  <2>3. rm.clientClocks[d] <= mark
    BY ONLY <2>1, <2>2
  <2>4. clocks[d] = rm.clientClocks[d] \/ clocks[d] = last
    BY <1>5, <1>6
  <2> QED BY ONLY <2>2, <2>3, <2>4
<1>13. mark = 0 \/ mark \in Timestamps(log)
  BY <1>3, <1>5, <1>8 DEF RoomOK
<1>14. \E e \in ToSet(batch) : e.ts = last
  BY <1>3 DEF Timestamps
<1> QED BY <1>5, <1>6, <1>8, <1>10, <1>11, <1>12, <1>13, <1>14 DEF after, log, deleted, last

\* A PRUNE is below the clock of every client of the Room.
LEMMA PrunedRoom ==
    ASSUME RInv, NEW rm \in RoomType, DOMAIN rm.clientClocks = rm.clients
    PROVE  /\ PruneTs(rm) \in Times
           /\ PruneTs(rm) # 0 => \A d \in rm.clients : PruneTs(rm) < rm.clientClocks[d]
           /\ AfterPrune(rm) \in RoomType
           /\ AfterPrune(rm).tombstones = {t \in rm.tombstones : t > PruneTs(rm)}
           /\ AfterPrune(rm).clients = rm.clients
           /\ AfterPrune(rm).clientClocks = rm.clientClocks
           /\ AfterPrune(rm).envelopes = rm.envelopes
           /\ AfterPrune(rm).highWatermark = rm.highWatermark
<1> DEFINE clocks == {rm.clientClocks[c] : c \in DOMAIN rm.clientClocks}
           stale == {t \in rm.tombstones : t < Min(clocks)}
<1>1. LastTimestamp \in Nat /\ Times \in SUBSET Nat /\ Times = 0..LastTimestamp
  BY TypesStay DEF RInv, Times
<1>2. rm.clientClocks \in [rm.clients -> Times] /\ rm.tombstones \in SUBSET Times
  BY ClocksAre DEF RoomType
<1>3. stale \in SUBSET (0..LastTimestamp)
  BY <1>1, <1>2
<1>4. ASSUME PruneTs(rm) = 0 PROVE PruneTs(rm) \in Times
  BY <1>1, <1>4
<1>5. ASSUME PruneTs(rm) # 0
      PROVE  PruneTs(rm) \in Times /\ \A d \in rm.clients : PruneTs(rm) < rm.clientClocks[d]
  <2>1. rm.clients # {} /\ stale # {} /\ PruneTs(rm) = Max(stale)
    BY <1>5 DEF PruneTs
  <2>2. clocks \in SUBSET Nat /\ clocks # {}
    BY <1>1, <1>2, <2>1
  <2>3. \A t \in clocks : Min(clocks) <= t
    BY <2>2, MinIsLeast
  <2>4. Max(stale) \in stale
    BY <1>1, <1>3, <2>1, MaxIsGreatest
  <2>5. Min(clocks) \in Nat
    BY <2>2, MinIsLeast
  <2> HIDE DEF clocks
  <2>6. PruneTs(rm) \in Times /\ PruneTs(rm) < Min(clocks)
    BY <1>2, <2>1, <2>4
  <2>7. \A d \in rm.clients : rm.clientClocks[d] \in clocks /\ rm.clientClocks[d] \in Nat
    BY <1>1, <1>2 DEF clocks
  <2> QED BY <1>1, <2>3, <2>5, <2>6, <2>7
<1>6. PruneTs(rm) \in Times
  BY <1>4, <1>5
<1> DEFINE kept == {t \in rm.tombstones : t > PruneTs(rm)}
<1>7. AfterPrune(rm) = [rm EXCEPT !.tombstones = kept] /\ kept \in SUBSET Times
  BY <1>2 DEF AfterPrune
<1> HIDE DEF kept
<1>8. /\ AfterPrune(rm) \in RoomType /\ AfterPrune(rm).tombstones = kept
      /\ AfterPrune(rm).clients = rm.clients
      /\ AfterPrune(rm).clientClocks = rm.clientClocks
      /\ AfterPrune(rm).envelopes = rm.envelopes
      /\ AfterPrune(rm).highWatermark = rm.highWatermark
  BY <1>7 DEF RoomType
<1>9. AfterPrune(rm).tombstones = {t \in rm.tombstones : t > PruneTs(rm)}
  BY <1>8 DEF kept
<1>10. PruneTs(rm) # 0 => \A d \in rm.clients : PruneTs(rm) < rm.clientClocks[d]
  BY <1>5
<1> QED BY <1>6, <1>8, <1>9, <1>10

\* What a client sends: envelopes of its own, at least one.
Sends(c, batch) ==
    /\ batch \in Seq(EnvelopeType) /\ batch # <<>>
    /\ \A e \in ToSet(batch) : e.conn = c
    /\ Message(c, batch)

LEMMA ABatch ==
    ASSUME RInv, NEW c \in Conn, ClientSends(c)
    PROVE  \E batch : Sends(c, batch)
<1> DEFINE own == {e.ts : e \in {x \in received : x.conn = c}}
           last == Max({0} \cup own)
<1>1. PICK n \in 1..LastTimestamp :
        \E times \in [1..n -> (last + 1)..LastTimestamp], deletes \in [1..n -> BOOLEAN] :
            Message(c, [i \in 1..n |-> [ts |-> times[i], conn |-> c, deletes |-> deletes[i]]])
  BY DEF ClientSends
<1>2. PICK times \in [1..n -> (last + 1)..LastTimestamp], deletes \in [1..n -> BOOLEAN] :
        Message(c, [i \in 1..n |-> [ts |-> times[i], conn |-> c, deletes |-> deletes[i]]])
  BY <1>1
<1> DEFINE batch == [i \in 1..n |-> [ts |-> times[i], conn |-> c, deletes |-> deletes[i]]]
<1>3. LastTimestamp \in Nat /\ last \in Nat
  <2>1. LastTimestamp \in Nat /\ \A e \in received : e.ts \in 1..LastTimestamp
    BY TypesStay DEF RInv, Types
  <2>2. {0} \cup own \in SUBSET (0..LastTimestamp) /\ {0} \cup own # {}
    BY <2>1
  <2> HIDE DEF own
  <2>3. last \in {0} \cup own
    BY <2>1, <2>2, MaxIsGreatest
  <2> HIDE DEF last
  <2> QED BY <2>1, <2>2, <2>3
<1> HIDE DEF last
<1>4. \A i \in 1..n : batch[i] \in EnvelopeType /\ batch[i].conn = c
  BY <1>3 DEF EnvelopeType
<1>5. n \in Nat /\ n > 0 /\ DOMAIN batch = 1..n /\ batch = [i \in 1..n |-> batch[i]]
  BY <1>3
<1>6. Message(c, batch)
  BY <1>2
<1> HIDE DEF batch
<1>7. batch \in Seq(EnvelopeType)
  BY <1>4, <1>5
<1>8. batch # <<>>
  BY <1>5
<1> QED BY <1>4, <1>5, <1>6, <1>7, <1>8 DEF Sends, ToSet

\* The clients that a message reaches.
Hearing(r) == {d \in heap[r].clients : socket[d] = "open"}

Prune(t) == [type |-> "PRUNE", data |-> t]
UpdateMessage(batch) == [type |-> "UPDATE", data |-> batch]

\* A message extends the log of the Room of its sender; whoever hears of it is
\* sent the UPDATE and then the PRUNE.
LEMMA MessageEffect ==
    ASSUME RInv, NEW c \in Conn, NEW batch, Sends(c, batch)
    PROVE  LET r == room[c]
               rm == AfterBatch(heap[r], c, batch)
               t == PruneTs(rm)
           IN  /\ r \in DOMAIN heap /\ c \in Hearing(r)
               /\ heap' = [heap EXCEPT ![r] = AfterPrune(rm)]
               /\ sent' \in [Conn -> Seq(MessageType)]
               /\ \A d \in Conn \ Hearing(r) : sent'[d] = sent[d]
               /\ \A d \in Conn : \A i \in DOMAIN sent[d] :
                     i \in DOMAIN sent'[d] /\ sent'[d][i] = sent[d][i]
               /\ \A d \in Conn : \A i \in (Len(sent[d]) + 1)..Len(sent'[d]) :
                     sent'[d][i] = Prune(t) \/ sent'[d][i] = UpdateMessage(batch)
               /\ \A d \in Hearing(r) \ {c} :
                     /\ Len(sent[d]) + 1 \in DOMAIN sent'[d]
                     /\ sent'[d][Len(sent[d]) + 1] = UpdateMessage(batch)
               /\ t # 0 => \A d \in Hearing(r) : \E i \in DOMAIN sent'[d] : sent'[d][i] = Prune(t)
               /\ t = 0 => \A d \in Conn : \A i \in (Len(sent[d]) + 1)..Len(sent'[d]) :
                     sent'[d][i] = UpdateMessage(batch)
<1> DEFINE r == room[c]
           rm == AfterBatch(heap[r], c, batch)
           t == PruneTs(rm)
           update == UpdateMessage(batch)
           prune == Prune(t)
           out(d) == (IF d = c THEN <<>> ELSE <<update>>) \o (IF t = 0 THEN <<>> ELSE <<prune>>)
<1>1. r \in DOMAIN heap /\ c \in Hearing(r)
  BY DEF Sends, Message, Hearing, RInv, Placed
<1>2. heap[r] \in RoomType /\ RoomOK(heap[r])
  BY <1>1 DEF RInv, Types
<1>3. rm \in RoomType /\ rm.clients = heap[r].clients /\ DOMAIN rm.clientClocks = rm.clients
  BY <1>1, <1>2, BatchRoom DEF Sends, Hearing
<1>4. t \in Times
  BY <1>3, PrunedRoom
<1>5. update \in MessageType /\ prune \in MessageType
  BY <1>4 DEF UpdateMessage, Prune, MessageType, Sends
<1>6. heap' = [heap EXCEPT ![r] = AfterPrune(rm)] /\ Broadcast(rm, c, batch)
  BY DEF Sends, Message
<1> HIDE DEF rm, t
<1>7. \A d \in Conn : sent[d] \in Seq(MessageType)
  BY DEF RInv, Types
<1>8. \A d \in Conn : sent'[d] = IF d \in Hearing(r)
                                 THEN sent[d] \o (IF d = c THEN <<>> ELSE <<update>>)
                                              \o (IF t = 0 THEN <<>> ELSE <<prune>>)
                                 ELSE sent[d]
  BY <1>3, <1>6 DEF Broadcast, Hearing, UpdateMessage, Prune, t
<1> HIDE DEF r, update, prune
<1>0. \A s \in Seq(MessageType) : /\ s \o <<>> = s
                                  /\ \A m \in MessageType : s \o <<m>> = Append(s, m)
  BY ConcatEmptySeq, AppendIsConcat
<1>9. ASSUME NEW d \in Conn
      PROVE  /\ sent'[d] \in Seq(MessageType)
             /\ d \notin Hearing(r) => sent'[d] = sent[d]
             /\ \A i \in DOMAIN sent[d] : i \in DOMAIN sent'[d] /\ sent'[d][i] = sent[d][i]
             /\ \A i \in (Len(sent[d]) + 1)..Len(sent'[d]) :
                     sent'[d][i] = prune \/ sent'[d][i] = update
             /\ d \in Hearing(r) \ {c} =>
                     /\ Len(sent[d]) + 1 \in DOMAIN sent'[d]
                     /\ sent'[d][Len(sent[d]) + 1] = update
             /\ (t # 0 /\ d \in Hearing(r)) => \E i \in DOMAIN sent'[d] : sent'[d][i] = prune
             /\ t = 0 => \A i \in (Len(sent[d]) + 1)..Len(sent'[d]) : sent'[d][i] = update
  <2> DEFINE s == sent[d]
  <2>1. s \in Seq(MessageType) /\ Len(s) \in Nat /\ DOMAIN s = 1..Len(s)
    BY <1>7
  <2>2. CASE d \notin Hearing(r)
    <3>1. sent'[d] = s
      BY <1>8, <2>2
    <3> QED BY <2>1, <2>2, <3>1
  <2>3. CASE d \in Hearing(r) /\ d = c /\ t = 0
    <3>1. sent'[d] = s
      BY <1>0, <1>8, <2>1, <2>3
    <3> QED BY <2>1, <2>3, <3>1
  <2>4. CASE d \in Hearing(r) /\ d = c /\ t # 0
    <3>1. sent'[d] = Append(s, prune)
      BY <1>0, <1>5, <1>8, <2>1, <2>4
    <3> HIDE DEF s
    <3>2. /\ sent'[d] \in Seq(MessageType) /\ Len(sent'[d]) = Len(s) + 1
          /\ DOMAIN sent'[d] = 1..(Len(s) + 1) /\ sent'[d][Len(s) + 1] = prune
          /\ \A i \in 1..Len(s) : sent'[d][i] = s[i]
      BY <1>5, <2>1, <3>1
    <3> QED BY <2>1, <2>4, <3>2 DEF s
  <2>5. CASE d \in Hearing(r) /\ d # c /\ t = 0
    <3>0. s \o <<update>> = Append(s, update) /\ Append(s, update) \in Seq(MessageType)
      BY <1>0, <1>5, <2>1
    <3>1. sent'[d] = Append(s, update)
      BY <3>0, <1>0, <1>5, <1>8, <2>1, <2>5
    <3> HIDE DEF s
    <3>2. /\ sent'[d] \in Seq(MessageType) /\ Len(sent'[d]) = Len(s) + 1
          /\ DOMAIN sent'[d] = 1..(Len(s) + 1) /\ sent'[d][Len(s) + 1] = update
          /\ \A i \in 1..Len(s) : sent'[d][i] = s[i]
      BY <1>5, <2>1, <3>1
    <3> QED BY <2>1, <2>5, <3>2 DEF s
  <2>6. CASE d \in Hearing(r) /\ d # c /\ t # 0
    <3>0. s \o <<update>> = Append(s, update) /\ Append(s, update) \in Seq(MessageType)
      BY <1>0, <1>5, <2>1
    <3>1. sent'[d] = Append(Append(s, update), prune)
      BY <3>0, <1>0, <1>5, <1>8, <2>1, <2>6
    <3> HIDE DEF s
    <3>2. /\ sent'[d] \in Seq(MessageType) /\ Len(sent'[d]) = Len(s) + 2
          /\ DOMAIN sent'[d] = 1..(Len(s) + 2)
          /\ sent'[d][Len(s) + 1] = update /\ sent'[d][Len(s) + 2] = prune
          /\ \A i \in 1..Len(s) : sent'[d][i] = s[i]
      BY <1>5, <2>1, <3>1
    <3>3. \A i \in (Len(s) + 1)..(Len(s) + 2) : sent'[d][i] = prune \/ sent'[d][i] = update
      BY <2>1, <3>2
    <3>4. /\ \A i \in DOMAIN s : i \in DOMAIN sent'[d] /\ sent'[d][i] = s[i]
          /\ \A i \in (Len(s) + 1)..Len(sent'[d]) : sent'[d][i] = prune \/ sent'[d][i] = update
          /\ Len(s) + 1 \in DOMAIN sent'[d]
      BY <2>1, <3>2, <3>3
    <3> QED BY <2>6, <3>2, <3>4 DEF s
  <2> QED BY <2>2, <2>3, <2>4, <2>5, <2>6
<1>10. sent' \in [Conn -> Seq(MessageType)]
  BY <1>6, <1>9 DEF Broadcast
<1>11. Hearing(r) \subseteq Conn
  BY <1>2 DEF Hearing, RoomType
<1> QED BY <1>1, <1>6, <1>9, <1>10, <1>11 DEF r, rm, t, update, prune

LEMMA MessageStep ==
    ASSUME RInv, NEW c \in Conn, NEW batch, Sends(c, batch)
    PROVE  RInv'
<1> DEFINE r == room[c]
           rm == AfterBatch(heap[r], c, batch)
           t == PruneTs(rm)
           after == AfterPrune(rm)
<1>1. /\ r \in DOMAIN heap /\ c \in Hearing(r)
      /\ heap' = [heap EXCEPT ![r] = after]
      /\ sent' \in [Conn -> Seq(MessageType)]
      /\ \A d \in Conn \ Hearing(r) : sent'[d] = sent[d]
      /\ \A d \in Conn : \A i \in DOMAIN sent[d] : i \in DOMAIN sent'[d] /\ sent'[d][i] = sent[d][i]
      /\ \A d \in Hearing(r) \ {c} :
            /\ Len(sent[d]) + 1 \in DOMAIN sent'[d]
            /\ sent'[d][Len(sent[d]) + 1] = UpdateMessage(batch)
      /\ t # 0 => \A d \in Hearing(r) : \E i \in DOMAIN sent'[d] : sent'[d][i] = Prune(t)
  BY MessageEffect
<1>2. /\ persistence' = persistence /\ current' = current /\ room' = room /\ phase' = phase
      /\ socket' = socket /\ disk' = disk
      /\ saving' = IF persistence THEN Append(saving, rm.envelopes) ELSE saving
      /\ received' = received \cup ToSet(batch)
      /\ phase[c] = "joined" /\ socket[c] = "open"
      /\ batch \in Seq(EnvelopeType) /\ batch # <<>> /\ \A e \in ToSet(batch) : e.conn = c
  BY DEF Sends, Message
<1>3. heap[r] \in RoomType /\ RoomOK(heap[r]) /\ c \in heap[r].clients
  BY <1>1 DEF RInv, Types, Hearing
<1>4. /\ rm \in RoomType
      /\ rm.clients = heap[r].clients
      /\ rm.envelopes \in Seq(EnvelopeType)
      /\ rm.envelopes = heap[r].envelopes \o batch
      /\ ToSet(rm.envelopes) = ToSet(heap[r].envelopes) \cup ToSet(batch)
      /\ rm.tombstones = heap[r].tombstones \cup {e.ts : e \in {x \in ToSet(batch) : x.deletes}}
      /\ \E e \in ToSet(batch) : e.ts = Max(Timestamps(batch))
      /\ rm.clientClocks \in [rm.clients -> Times]
      /\ rm.clientClocks[c] \in {heap[r].clientClocks[c], Max(Timestamps(batch))}
      /\ \A d \in rm.clients \ {c} : rm.clientClocks[d] = heap[r].clientClocks[d]
      /\ \A s \in Timestamps(rm.envelopes) : s <= rm.highWatermark
      /\ \A d \in rm.clients : rm.clientClocks[d] <= rm.highWatermark
      /\ rm.highWatermark = 0 \/ rm.highWatermark \in Timestamps(rm.envelopes)
  <2> DEFINE old == heap[r]
  <2>1. old \in RoomType /\ RoomOK(old) /\ c \in old.clients
    BY <1>3
  <2>2. rm = AfterBatch(old, c, batch)
    OBVIOUS
  <2> HIDE DEF rm, old
  <2>3. /\ rm \in RoomType
        /\ rm.clients = old.clients
        /\ rm.envelopes \in Seq(EnvelopeType)
        /\ rm.envelopes = old.envelopes \o batch
        /\ ToSet(rm.envelopes) = ToSet(old.envelopes) \cup ToSet(batch)
        /\ rm.tombstones = old.tombstones \cup {e.ts : e \in {x \in ToSet(batch) : x.deletes}}
        /\ \E e \in ToSet(batch) : e.ts = Max(Timestamps(batch))
        /\ rm.clientClocks \in [rm.clients -> Times]
        /\ rm.clientClocks[c] \in {old.clientClocks[c], Max(Timestamps(batch))}
        /\ \A d \in rm.clients \ {c} : rm.clientClocks[d] = old.clientClocks[d]
        /\ \A s \in Timestamps(rm.envelopes) : s <= rm.highWatermark
        /\ \A d \in rm.clients : rm.clientClocks[d] <= rm.highWatermark
        /\ rm.highWatermark = 0 \/ rm.highWatermark \in Timestamps(rm.envelopes)
    BY SMTT(30), <1>2, <2>1, <2>2, BatchRoom
  <2> QED BY <2>3 DEF old
<1> HIDE DEF rm
<1>5. /\ t \in Times /\ after \in RoomType
      /\ after.tombstones = {s \in rm.tombstones : s > t}
      /\ after.clients = rm.clients /\ after.clientClocks = rm.clientClocks
      /\ after.envelopes = rm.envelopes /\ after.highWatermark = rm.highWatermark
  BY <1>4, PrunedRoom
<1> HIDE DEF r, t, after
<1>6. /\ LastTimestamp' = LastTimestamp /\ EnvelopeType' = EnvelopeType
      /\ RoomType' = RoomType /\ MessageType' = MessageType
      /\ LastTimestamp \in Nat /\ Conn \subseteq Nat
      /\ \A e \in EnvelopeType : e.ts \in 1..LastTimestamp /\ e.conn \in Conn
      /\ ToSet(batch) \subseteq EnvelopeType
  <2>1. ToSet(batch) \subseteq EnvelopeType
    BY <1>2 DEF ToSet
  <2> QED BY <1>2, <2>1, TypesStay DEF RInv
<1>7. /\ heap' \in Seq(RoomType) /\ Len(heap') = Len(heap) /\ DOMAIN heap' = DOMAIN heap
      /\ heap'[r] = after /\ \A q \in DOMAIN heap : q # r => heap'[q] = heap[q]
  BY <1>1, <1>5 DEF RInv, Types
<1>8. Types'
  <2>1. received' \in SUBSET EnvelopeType
    BY <1>2, <1>6 DEF RInv, Types
  <2> QED BY <1>1, <1>2, <1>6, <1>7, <2>1 DEF RInv, Types
<1>9. \A q \in DOMAIN heap : heap'[q].clients = heap[q].clients
  BY <1>4, <1>5, <1>7
<1>10. Placed'
  <2>1. ASSUME NEW d \in Conn
        PROVE  /\ (phase[d] = "joined" /\ socket[d] = "open") => sent'[d] # <<>>
               /\ phase[d] # "joined" => sent'[d] = <<>>
    <3>1. (phase[d] = "joined" /\ socket[d] = "open") => sent[d] # <<>>
      BY DEF RInv, Placed
    <3>2. sent[d] # <<>> => 1 \in DOMAIN sent[d]
      BY DEF RInv, Types
    <3>3. sent[d] # <<>> => sent'[d] # <<>>
      BY <1>1, <3>2
    <3>4. phase[d] # "joined" => d \notin Hearing(r)
      BY <1>1 DEF RInv, Placed, Hearing
    <3>5. phase[d] # "joined" => sent'[d] = sent[d] /\ sent[d] = <<>>
      BY <1>1, <3>4 DEF RInv, Placed
    <3> QED BY <3>1, <3>3, <3>5
  <2> QED BY <1>2, <1>7, <1>9, <2>1 DEF RInv, Placed
<1>11. \A q \in DOMAIN heap : ToSet(heap[q].envelopes) \subseteq ToSet(heap'[q].envelopes)
  BY <1>4, <1>5, <1>7
<1>12. ASSUME NEW e \in received'
       PROVE  /\ e.conn \in Conn /\ phase[e.conn] = "joined" /\ room[e.conn] \in DOMAIN heap
              /\ e \in ToSet(heap'[room[e.conn]].envelopes)
  <2>1. CASE e \in received
    <3>1. phase[e.conn] = "joined" /\ e \in ToSet(heap[room[e.conn]].envelopes) /\ e.conn \in Conn
      BY <1>6, <2>1 DEF RInv, Logged, Types
    <3>2. room[e.conn] \in DOMAIN heap
      BY <3>1 DEF RInv, Placed
    <3> QED BY <1>11, <3>1, <3>2
  <2>2. CASE e \in ToSet(batch)
    BY <1>1, <1>2, <1>4, <1>5, <1>7, <2>2 DEF r
  <2> QED BY <1>2, <2>1, <2>2
<1>13. Logged'
  <2>1. ToSet(rm.envelopes) \subseteq received'
    BY <1>2, <1>3, <1>4 DEF RoomOK
  <2>2. rm.envelopes \in Seq(received')
    <3>1. \A i \in DOMAIN rm.envelopes : rm.envelopes[i] \in received'
      BY <2>1 DEF ToSet
    <3> DEFINE log == rm.envelopes
    <3>2. log \in Seq(EnvelopeType) /\ \A i \in DOMAIN log : log[i] \in received'
      BY <1>4, <3>1
    <3> HIDE DEF log
    <3>3. log \in Seq(received')
      BY <3>2
    <3> QED BY <3>3 DEF log
  <2>3. \A s \in Seq(received) : s \in Seq(received')
    BY <1>2
  <2>4. disk \in Seq(received') /\ saving \in Seq(Seq(received'))
    BY <2>3 DEF RInv, Logged
  <2>5. saving' \in Seq(Seq(received'))
    BY <1>2, <2>2, <2>4
  <2> QED BY <1>2, <1>12, <2>4, <2>5 DEF Logged
<1>14. \A q \in DOMAIN heap' : RoomOK(heap[q])'
  <2>1. ASSUME NEW q \in DOMAIN heap, q # r PROVE RoomOK(heap[q])'
    <3>1. RoomOK(heap[q])
      BY DEF RInv
    <3> QED BY <1>2, <1>7, <2>1, <3>1 DEF RoomOK
  <2>2. ASSUME NEW q \in DOMAIN heap, q = r PROVE RoomOK(heap[q])'
    <3>1. ToSet(rm.envelopes) \subseteq received'
      BY <1>2, <1>3, <1>4 DEF RoomOK
    <3> QED BY <1>4, <1>5, <1>7, <2>2, <3>1 DEF RoomOK
  <2> QED BY <1>7, <2>1, <2>2
<1>15. Clients' = Clients
  BY <1>2 DEF Clients
<1>16. ASSUME NEW d \in Clients
       PROVE  /\ room[d] \in DOMAIN heap /\ d \in heap[room[d]].clients
              /\ sent[d] \in Seq(MessageType) /\ sent[d] # <<>>
              /\ Head(sent'[d]) = Head(sent[d]) /\ d \in Conn
              /\ room[d] = r => d \in Hearing(r)
  <2>1. /\ room[d] \in DOMAIN heap /\ d \in heap[room[d]].clients
        /\ sent[d] # <<>> /\ sent[d] \in Seq(MessageType) /\ d \in Conn
    BY DEF Clients, RInv, Placed, Types
  <2>2. 1 \in DOMAIN sent[d] /\ sent'[d][1] = sent[d][1] /\ 1 \in DOMAIN sent'[d]
    BY <1>1, <2>1
  <2>3. sent'[d] \in Seq(MessageType) /\ sent'[d] # <<>>
    BY <1>1, <2>1, <2>2
  <2>4. room[d] = r => d \in Hearing(r)
    BY <2>1 DEF Hearing, Clients
  <2> QED BY <2>1, <2>2, <2>3, <2>4
<1>17. ClocksShown'
  <2> SUFFICES ASSUME NEW d \in Clients, heap'[room[d]].clientClocks[d] # 0
               PROVE  \E e \in received' : /\ e.ts >= heap'[room[d]].clientClocks[d]
                                           /\ e.conn = d \/ e \in ToSet(Head(sent[d]).data)
    BY <1>2, <1>15, <1>16 DEF ClocksShown, Shown
  <2>1. CASE heap'[room[d]].clientClocks[d] = heap[room[d]].clientClocks[d]
    <3>1. Shown(d, heap[room[d]].clientClocks[d], Head(sent[d]).data)
      BY <2>1 DEF RInv, ClocksShown
    <3>2. received \subseteq received'
      BY <1>2
    <3> QED BY <2>1, <3>1, <3>2 DEF Shown
  <2>2. CASE heap'[room[d]].clientClocks[d] # heap[room[d]].clientClocks[d]
    <3>1. d = c /\ room[d] = r
      BY <1>4, <1>5, <1>7, <1>16, <2>2 DEF r
    <3>2. PICK e \in ToSet(batch) : e.ts = heap'[room[d]].clientClocks[d]
      BY <1>4, <1>5, <1>7, <2>2, <3>1
    <3>3. e.conn = d /\ e \in received' /\ e.ts \in Nat
      BY <1>2, <1>6, <3>1
    <3> QED BY <3>2, <3>3
  <2> QED BY <2>1, <2>2
<1>18. EveryoneTold'
  <2> SUFFICES ASSUME NEW d \in Clients, NEW e \in received', room[e.conn] = room[d], e.conn # d
               PROVE  Told(d, e)'
    BY <1>2, <1>15 DEF EveryoneTold
  <2>1. CASE e \in received
    <3>1. Told(d, e)
      BY <2>1 DEF RInv, EveryoneTold
    <3> QED BY <1>1, <1>16, <3>1 DEF Told
  <2>2. CASE e \in ToSet(batch)
    <3>1. d \in Hearing(r) /\ d # c
      BY <1>2, <1>16, <2>2 DEF r
    <3>2. Len(sent[d]) + 1 \in DOMAIN sent'[d] /\ sent'[d][Len(sent[d]) + 1] = UpdateMessage(batch)
      BY <1>1, <3>1
    <3> QED BY <2>2, <3>2 DEF Told, UpdateMessage
  <2> QED BY <1>2, <2>1, <2>2
<1>19. DeletionsTracked'
  <2> SUFFICES ASSUME NEW e \in received', e.deletes
               PROVE  \/ e.ts \in heap'[room[e.conn]].tombstones
                      \/ \E d \in Conn : /\ room[d] = room[e.conn]
                                         /\ \E m \in ToSet(sent'[d]) :
                                               m.type = "PRUNE" /\ m.data >= e.ts
    BY <1>2 DEF DeletionsTracked
  <2>1. ASSUME NEW d \in Conn, room[d] = room[e.conn],
               NEW m \in ToSet(sent[d]), m.type = "PRUNE", m.data >= e.ts
        PROVE  m \in ToSet(sent'[d])
    BY <1>1 DEF ToSet
  <2>2. CASE e \in received /\ e.ts \notin heap[room[e.conn]].tombstones
    BY <2>1, <2>2 DEF RInv, DeletionsTracked
  <2>3. CASE e \in received /\ e.ts \in heap[room[e.conn]].tombstones /\ room[e.conn] # r
    BY <1>7, <1>12, <2>3
  <2>4. CASE room[e.conn] = r /\ e.ts \in rm.tombstones
    <3>1. CASE e.ts > t
      BY <1>5, <1>7, <2>4, <3>1
    <3>2. CASE e.ts <= t
      <4>1. t # 0 /\ e.ts \in Nat
        BY <1>5, <1>6, <1>8, <3>2 DEF Types, Times
      <4>2. PICK i \in DOMAIN sent'[c] : sent'[c][i] = Prune(t)
        BY <1>1, <4>1
      <4>3. Prune(t) \in ToSet(sent'[c]) /\ Prune(t).type = "PRUNE" /\ Prune(t).data = t
        BY <4>2 DEF ToSet, Prune
      <4>4. t >= e.ts
        BY <1>5, <1>6, <3>2, <4>1 DEF Times
      <4> QED BY <2>4, <4>3, <4>4 DEF r
    <3>3. t \in Nat /\ e.ts \in Nat
      BY <1>5, <1>6, <1>8 DEF Types, Times
    <3> QED BY <3>1, <3>2, <3>3
  <2>5. e \in ToSet(batch) => room[e.conn] = r /\ e.ts \in rm.tombstones
    BY <1>2, <1>4 DEF r
  <2>6. (e \in received /\ e.ts \in heap[room[e.conn]].tombstones /\ room[e.conn] = r)
            => e.ts \in rm.tombstones
    BY <1>4
  <2> QED BY <1>2, <2>2, <2>3, <2>4, <2>5, <2>6
<1> QED BY <1>8, <1>10, <1>13, <1>14, <1>17, <1>18, <1>19 DEF RInv

\* A client that closes leaves its Room, with its clock.
LEMMA LeaveStep ==
    ASSUME RInv, NEW c \in Conn, CloseEvent(c), phase[c] = "joined"
    PROVE  RInv'
<1> DEFINE r == room[c]
           rm == heap[r]
           rest == rm.clients \ {c}
           clocks == [d \in DOMAIN rm.clientClocks \ {c} |-> rm.clientClocks[d]]
           left == [rm EXCEPT !.clients = rest, !.clientClocks = clocks]
<1>1. /\ socket[c] = "closing" /\ socket' = [socket EXCEPT ![c] = "closed"]
      /\ heap' = [heap EXCEPT ![r] = left]
      /\ current' = IF left.clients = {} THEN 0 ELSE current
      /\ UNCHANGED <<room, phase, sent, persistence, disk, saving, received>>
  BY DEF CloseEvent, Leave, adapter
<1>2. r \in DOMAIN heap /\ rm \in RoomType /\ RoomOK(rm) /\ c \in rm.clients
  BY <1>1 DEF RInv, Types, Placed
<1> HIDE DEF rm
<1>3. /\ rm.clientClocks \in [rm.clients -> Times] /\ rm.clients \in SUBSET Conn
      /\ clocks \in [rest -> Times] /\ clocks \in Clocks
      /\ \A d \in rest : clocks[d] = rm.clientClocks[d]
  <2>1. rm.clientClocks \in [rm.clients -> Times] /\ rm.clients \in SUBSET Conn
    BY <1>2, ClocksAre DEF RoomType, RoomOK
  <2>2. clocks \in [rest -> Times] /\ rest \in SUBSET Conn
    BY <2>1
  <2>3. clocks \in Clocks
    BY <2>2, ClocksAre
  <2> QED BY <2>1, <2>2, <2>3
<1> HIDE DEF clocks
<1>4. /\ left \in RoomType /\ left.clients = rest /\ left.clientClocks = clocks
      /\ left.envelopes = rm.envelopes /\ left.tombstones = rm.tombstones
      /\ left.highWatermark = rm.highWatermark
  BY <1>2, <1>3 DEF RoomType
<1> HIDE DEF left, r
<1>5. /\ heap' \in Seq(RoomType) /\ Len(heap') = Len(heap) /\ DOMAIN heap' = DOMAIN heap
      /\ heap'[r] = left /\ \A q \in DOMAIN heap : q # r => heap'[q] = heap[q]
      /\ heap[r] = rm
  BY <1>1, <1>2, <1>4 DEF RInv, Types, rm
<1>6. /\ LastTimestamp' = LastTimestamp /\ EnvelopeType' = EnvelopeType
      /\ RoomType' = RoomType /\ MessageType' = MessageType
  BY <1>1, TypesStay DEF RInv
<1>7. \A q \in DOMAIN heap : /\ heap'[q].envelopes = heap[q].envelopes
                             /\ heap'[q].tombstones = heap[q].tombstones
                             /\ heap'[q].clients \subseteq heap[q].clients
                             /\ heap[q].clients \ {c} \subseteq heap'[q].clients
                             /\ \A d \in heap'[q].clients :
                                   heap'[q].clientClocks[d] = heap[q].clientClocks[d]
  BY <1>3, <1>4, <1>5
<1>8. Types'
  BY <1>1, <1>5, <1>6 DEF RInv, Types
<1>9. ASSUME NEW d \in Conn, socket'[d] # "closed" PROVE d # c /\ socket'[d] = socket[d]
  BY <1>1, <1>9 DEF RInv, Types
<1>10. Placed'
  BY <1>1, <1>5, <1>7, <1>9 DEF RInv, Placed
<1>11. \A e \in received : e.conn \in Conn /\ room[e.conn] \in DOMAIN heap
  BY TypesStay DEF RInv, Types, Logged, Placed
<1>12. Logged'
  BY <1>1, <1>7, <1>11 DEF RInv, Logged
<1>13. \A q \in DOMAIN heap' : RoomOK(heap[q])'
  <2>1. ASSUME NEW q \in DOMAIN heap, q # r PROVE RoomOK(heap[q])'
    BY <1>1, <1>5, <2>1 DEF RoomOK, RInv
  <2>2. ASSUME NEW q \in DOMAIN heap, q = r PROVE RoomOK(heap[q])'
    BY <1>1, <1>2, <1>3, <1>4, <1>5, <2>2 DEF RoomOK
  <2> QED BY <1>5, <2>1, <2>2
<1>14. ASSUME NEW d \in Clients'
       PROVE  /\ d \in Clients /\ room'[d] = room[d] /\ sent'[d] = sent[d]
              /\ heap'[room[d]].clientClocks[d] = heap[room[d]].clientClocks[d]
  <2>1. d \in Conn /\ d \in Clients /\ socket'[d] = "open" /\ phase'[d] = "joined" /\ d # c
    BY <1>1, <1>9 DEF Clients
  <2>2. room[d] \in DOMAIN heap /\ d \in heap[room[d]].clients
    BY <2>1 DEF RInv, Placed, Clients
  <2> QED BY <1>1, <1>7, <2>1, <2>2
<1>15. ClocksShown'
  BY <1>1, <1>14 DEF RInv, ClocksShown, Shown
<1>16. EveryoneTold'
  BY <1>1, <1>14 DEF RInv, EveryoneTold, Told
<1>17. DeletionsTracked'
  BY <1>1, <1>7, <1>11 DEF RInv, DeletionsTracked
<1> QED BY <1>8, <1>10, <1>12, <1>13, <1>15, <1>16, <1>17 DEF RInv

\* The other steps touch no Room and send nothing.
LEMMA OtherStep ==
    ASSUME RInv,
           \/ \E c \in Conn : Drop(c) \/ (CloseEvent(c) /\ phase[c] # "joined")
           \/ SaveDone \/ SaveFails \/ UNCHANGED vars
    PROVE  RInv'
<1>1. /\ UNCHANGED <<heap, current, room, phase, sent, persistence, received>>
      /\ socket' \in [Conn -> {"open", "closing", "closed"}]
      /\ \A c \in Conn : /\ socket'[c] = "open" => socket[c] = "open"
                         /\ phase[c] = "joined" => (socket[c] = "closed" <=> socket'[c] = "closed")
      /\ disk' \in Seq(received) /\ saving' \in Seq(Seq(received))
  <2>1. /\ socket \in [Conn -> {"open", "closing", "closed"}]
        /\ disk \in Seq(received) /\ saving \in Seq(Seq(received))
    BY DEF RInv, Types, Logged
  <2>2. ASSUME NEW c \in Conn, Drop(c) PROVE <1>1!:
    BY <2>1, <2>2 DEF Drop, adapter
  <2>3. ASSUME NEW c \in Conn, CloseEvent(c), phase[c] # "joined" PROVE <1>1!:
    <3>1. /\ UNCHANGED <<heap, current, room, phase, sent, persistence, received>>
          /\ socket' = [socket EXCEPT ![c] = "closed"] /\ disk' = disk /\ saving' = saving
      BY <2>3 DEF CloseEvent, adapter
    <3>2. \A d \in Conn : socket'[d] = IF d = c THEN "closed" ELSE socket[d]
      BY <2>1, <3>1
    <3>3. \A d \in Conn : socket'[d] = "open" => socket[d] = "open"
      BY <3>2
    <3>4. \A d \in Conn : phase[d] = "joined" => (socket[d] = "closed" <=> socket'[d] = "closed")
      BY <2>3, <3>2
    <3>5. socket' \in [Conn -> {"open", "closing", "closed"}]
      BY <2>1, <3>1
    <3> QED BY <2>1, <3>1, <3>3, <3>4, <3>5
  <2>4. ASSUME SaveDone \/ SaveFails PROVE <1>1!:
    <3>1. Head(saving) \in Seq(received) /\ Tail(saving) \in Seq(Seq(received))
      BY <2>1, <2>4, HeadTailProperties DEF SaveDone, SaveFails
    <3> QED BY <2>1, <2>4, <3>1 DEF SaveDone, SaveFails, conns
  <2>5. ASSUME UNCHANGED vars PROVE <1>1!:
    BY <2>1, <2>5 DEF vars
  <2> QED BY <2>2, <2>3, <2>4, <2>5
<1>2. /\ LastTimestamp' = LastTimestamp /\ EnvelopeType' = EnvelopeType
      /\ RoomType' = RoomType /\ MessageType' = MessageType
  BY <1>1, TypesStay DEF RInv
<1>3. Types' /\ Logged'
  BY <1>1, <1>2 DEF RInv, Types, Logged
<1>4. Placed'
  BY <1>1 DEF RInv, Placed
<1>5. \A r \in DOMAIN heap' : RoomOK(heap[r])'
  BY <1>1 DEF RInv, RoomOK
<1>6. Clients' \subseteq Clients
  BY <1>1 DEF Clients
<1>7. ClocksShown' /\ EveryoneTold' /\ DeletionsTracked'
  BY <1>1, <1>6 DEF RInv, ClocksShown, Shown, EveryoneTold, Told, DeletionsTracked
<1> QED BY <1>3, <1>4, <1>5, <1>7 DEF RInv

LEMMA RInit == Init => RInv
<1> SUFFICES ASSUME Init PROVE RInv
  OBVIOUS
<1>1. Types
  BY DEF Init, Types
<1>2. Clients = {}
  BY DEF Clients, Init
<1> QED BY <1>1, <1>2 DEF Init, RInv, Placed, Logged, ClocksShown, EveryoneTold, DeletionsTracked

LEMMA RStep == RInv /\ [Next]_vars => RInv'
<1> SUFFICES ASSUME RInv, [Next]_vars PROVE RInv'
  OBVIOUS
<1>1. ASSUME NEW c \in Conn, Connect(c) PROVE RInv'
  BY <1>1, ConnectStep
<1>2. ASSUME NEW c \in Conn, ClientSends(c) PROVE RInv'
  BY <1>2, ABatch, MessageStep
<1>3. ASSUME NEW c \in Conn, CloseEvent(c) PROVE RInv'
  BY <1>3, LeaveStep, OtherStep
<1>4. ASSUME LoadSettles PROVE RInv'
  <2>1. disk \in Seq(received) /\ <<>> \in Seq(received)
    BY DEF RInv, Logged
  <2> QED BY <1>4, <2>1, LoadStep DEF LoadSettles, LoadDone, LoadFails
<1>5. ASSUME \/ \E c \in Conn : Drop(c)
             \/ SaveDone \/ SaveFails \/ UNCHANGED vars
      PROVE  RInv'
  BY <1>5, OtherStep
<1> QED BY <1>1, <1>2, <1>3, <1>4, <1>5 DEF Next

-----------------------------------------------------------------------------
(* The theorems.                                                           *)

\* Every variable keeps its type, and a Room knows the clock of each of its
\* clients, whatever the order of connections, loads, messages and closes.
THEOREM Typed == Spec => []TypeOK
<1>1. RInv => TypeOK
  <2> SUFFICES ASSUME RInv PROVE TypeOK
    OBVIOUS
  <2>1. ASSUME NEW r \in DOMAIN heap
        PROVE  /\ heap[r].envelopes \in Seq(EnvelopeType)
               /\ heap[r].clients \subseteq {c \in Conn : room[c] = r /\ phase[c] = "joined"}
               /\ heap[r].clientClocks \in [heap[r].clients -> 0..LastTimestamp]
    <3>1. heap[r] \in RoomType /\ DOMAIN heap[r].clientClocks = heap[r].clients
      BY DEF RInv, Types, RoomOK
    <3> QED BY <3>1, ClocksAre DEF RInv, Placed, RoomType, Times
  <2> QED BY <2>1 DEF TypeOK, RInv, Types
<1> QED BY RInit, RStep, <1>1, PTL DEF Spec

\* The watermark covers the log, the part that was loaded included, and the
\* clock of every client.
THEOREM WatermarkHolds == Spec => []WatermarkCovers
<1>1. RInv => WatermarkCovers
  BY DEF RInv, RoomOK, WatermarkCovers
<1> QED BY RInit, RStep, <1>1, PTL DEF Spec

\* A deletion is tracked by its Room until a PRUNE up to it has been sent.
THEOREM DeletionsAreTracked == Spec => []DeletionsTracked
<1>1. RInv => DeletionsTracked
  BY DEF RInv
<1> QED BY RInit, RStep, <1>1, PTL DEF Spec

\* Whatever is sent, except when a client sends a batch, is a SNAPSHOT.
LEMMA OnlyBatchesPrune ==
    ASSUME RInv, [Next]_vars, NEW c \in Conn,
           NEW i \in (Len(sent[c]) + 1)..Len(sent'[c]), sent'[c][i].type = "PRUNE"
    PROVE  \E d \in Conn : \E batch : Sends(d, batch)
<1>1. sent[c] \in Seq(MessageType)
  BY DEF RInv, Types
<1>2. ASSUME UNCHANGED sent PROVE FALSE
  BY <1>1, <1>2
<1>3. ASSUME NEW rm, NEW cs, SendSnapshot(rm, cs) PROVE FALSE
  <2> DEFINE message == [type |-> "SNAPSHOT", data |-> rm.envelopes]
  <2>1. sent'[c] = sent[c] \/ sent'[c] = Append(sent[c], message)
    BY <1>3 DEF SendSnapshot
  <2>2. message.type = "SNAPSHOT"
    OBVIOUS
  <2> HIDE DEF message
  <2>3. sent'[c] = Append(sent[c], message) => sent'[c][i] = message
    BY <1>1
  <2> QED BY <1>1, <2>1, <2>2, <2>3
<1>4. ASSUME NEW d \in Conn, Connect(d) PROVE FALSE
  BY <1>2, <1>3, <1>4 DEF Connect
<1>5. ASSUME NEW d \in Conn, Drop(d) \/ CloseEvent(d) PROVE FALSE
  BY <1>2, <1>5 DEF Drop, CloseEvent
<1>6. ASSUME LoadSettles PROVE FALSE
  BY <1>3, <1>6 DEF LoadSettles, LoadDone, LoadFails, LoadEnds
<1>7. ASSUME SaveDone \/ SaveFails \/ UNCHANGED vars PROVE FALSE
  BY <1>2, <1>7 DEF SaveDone, SaveFails, conns, vars
<1>8. ASSUME NEW d \in Conn, ClientSends(d) PROVE \E batch : Sends(d, batch)
  BY <1>8, ABatch
<1> QED BY <1>4, <1>5, <1>6, <1>7, <1>8 DEF Next

\* A client that is told to prune up to t has been sent, or has sent, every
\* deletion up to t that its Room has received.
THEOREM PruneFollowsDeletions == Spec => PruneAfterDeletions
<1> DEFINE Step == \A c \in Conn : \A i \in (Len(sent[c]) + 1)..Len(sent'[c]) :
          sent'[c][i].type = "PRUNE" =>
              \A e \in received' :
                  (e.deletes /\ e.ts <= sent'[c][i].data /\ room[e.conn] = room[c])
                      => \/ e.conn = c
                         \/ e \in ToSet(EnvelopesIn(SubSeq(sent'[c], 1, i - 1)))
<1>1. ASSUME RInv, [Next]_vars PROVE Step
  <2> SUFFICES ASSUME NEW c \in Conn, NEW i \in (Len(sent[c]) + 1)..Len(sent'[c]),
                      sent'[c][i].type = "PRUNE",
                      NEW e \in received', room[e.conn] = room[c], e.conn # c
               PROVE  e \in ToSet(EnvelopesIn(SubSeq(sent'[c], 1, i - 1)))
    OBVIOUS
  <2>0. PICK d \in Conn : \E batch : Sends(d, batch)
    BY <1>1, OnlyBatchesPrune
  <2>1. PICK batch : Sends(d, batch)
    BY <2>0
  <2> DEFINE r == room[d]
             t == PruneTs(AfterBatch(heap[r], d, batch))
  <2>2. /\ sent' \in [Conn -> Seq(MessageType)]
        /\ \A b \in Conn \ Hearing(r) : sent'[b] = sent[b]
        /\ \A j \in DOMAIN sent[c] : j \in DOMAIN sent'[c] /\ sent'[c][j] = sent[c][j]
        /\ \A b \in Hearing(r) \ {d} :
              /\ Len(sent[b]) + 1 \in DOMAIN sent'[b]
              /\ sent'[b][Len(sent[b]) + 1] = UpdateMessage(batch)
    BY <1>1, <2>1, MessageEffect
  <2> HIDE DEF r, t
  <2>3. sent[c] \in Seq(MessageType) /\ sent'[c] \in Seq(MessageType)
    BY <1>1, <2>2 DEF RInv, Types
  <2>4. c \in Hearing(r) /\ c \in Clients
    <3>1. c \in Hearing(r)
      BY <2>2, <2>3
    <3>2. r \in DOMAIN heap
      BY <1>1, <2>1 DEF Sends, Message, RInv, Placed, r
    <3> QED BY <1>1, <3>1, <3>2 DEF Hearing, Clients, RInv, Placed
  <2>5. \E j \in 1..(i - 1) : /\ j \in DOMAIN sent'[c] /\ sent'[c][j].type # "PRUNE"
                              /\ e \in ToSet(sent'[c][j].data)
    <3>1. CASE e \in received
      <4>1. Told(c, e)
        BY <1>1, <2>4, <3>1 DEF RInv, EveryoneTold
      <4>2. PICK j \in DOMAIN sent[c] : sent[c][j].type # "PRUNE" /\ e \in ToSet(sent[c][j].data)
        BY <4>1 DEF Told
      <4>3. j \in 1..(i - 1)
        BY <2>3
      <4>4. j \in DOMAIN sent'[c] /\ sent'[c][j] = sent[c][j]
        BY <2>2
      <4> QED BY <4>2, <4>3, <4>4
    <3>2. CASE e \in ToSet(batch)
      <4>1. e.conn = d /\ c # d
        BY <2>1, <3>2 DEF Sends
      <4>2. Len(sent[c]) + 1 \in DOMAIN sent'[c] /\ sent'[c][Len(sent[c]) + 1] = UpdateMessage(batch)
        BY <2>2, <2>4, <4>1
      <4>3. i # Len(sent[c]) + 1
        BY <4>2 DEF UpdateMessage
      <4>4. Len(sent[c]) + 1 \in 1..(i - 1)
        BY <2>3, <4>3
      <4>5. UpdateMessage(batch).type # "PRUNE" /\ UpdateMessage(batch).data = batch
        BY DEF UpdateMessage
      <4> QED BY <3>2, <4>2, <4>4, <4>5
    <3>3. received' = received \cup ToSet(batch)
      BY <2>1 DEF Sends, Message
    <3> QED BY <3>1, <3>2, <3>3
  <2>6. PICK j \in 1..(i - 1) : /\ j \in DOMAIN sent'[c] /\ sent'[c][j].type # "PRUNE"
                                /\ e \in ToSet(sent'[c][j].data)
    BY <2>5
  <2> DEFINE before == SubSeq(sent'[c], 1, i - 1)
             parts == [k \in DOMAIN before |->
                          IF before[k].type = "PRUNE" THEN <<>> ELSE before[k].data]
  <2>7. /\ before \in Seq(MessageType) /\ Len(before) = i - 1 /\ DOMAIN before = 1..(i - 1)
        /\ \A k \in 1..(i - 1) : before[k] = sent'[c][k]
    BY <2>3
  <2> HIDE DEF before
  <2>8. \A k \in DOMAIN before : parts[k] \in Seq(EnvelopeType)
    BY <2>7 DEF MessageType
  <2>9. parts \in Seq(Seq(EnvelopeType)) /\ DOMAIN parts = 1..(i - 1) /\ parts[j] = sent'[c][j].data
    <3>1. i - 1 \in Nat /\ DOMAIN parts = 1..(i - 1)
      BY <2>3, <2>7
    <3>2. parts[j] = sent'[c][j].data
      BY <2>6, <2>7
    <3> HIDE DEF parts
    <3>3. PICK n \in Nat : n = i - 1
      BY <3>1
    <3>4. parts = [k \in 1..n |-> parts[k]] /\ \A k \in 1..n : parts[k] \in Seq(EnvelopeType)
      BY <2>7, <2>8, <3>3 DEF parts
    <3>5. parts \in Seq(Seq(EnvelopeType))
      BY <3>4
    <3> QED BY <3>1, <3>2, <3>5
  <2>10. EnvelopesIn(before) = FlattenSeq(parts)
    BY DEF EnvelopesIn
  <2> HIDE DEF parts
  <2> QED BY <2>6, <2>9, <2>10, FlattenKeeps DEF before
<1> QED BY RInit, RStep, <1>1, PTL DEF Spec, PruneAfterDeletions

\* A Room tells its clients to prune up to t only when each of them has shown a
\* later timestamp over this connection or was sent one in its SNAPSHOT.
THEOREM PruneFollowsEveryClient == Spec => PruneAfterEveryClient
<1> DEFINE Step == \A c \in Conn :
          (Len(sent'[c]) > Len(sent[c]) /\ Last(sent'[c]).type = "PRUNE") =>
              \A d \in Clients : room[d] = room[c] =>
                  \E e \in received' :
                      /\ e.ts > Last(sent'[c]).data
                      /\ e.conn = d \/ e \in ToSet(Head(sent[d]).data)
<1>1. ASSUME RInv, [Next]_vars PROVE Step
  <2> SUFFICES ASSUME NEW c \in Conn, Len(sent'[c]) > Len(sent[c]), Last(sent'[c]).type = "PRUNE",
                      NEW d \in Clients, room[d] = room[c]
               PROVE  \E e \in received' : /\ e.ts > Last(sent'[c]).data
                                           /\ e.conn = d \/ e \in ToSet(Head(sent[d]).data)
    OBVIOUS
  <2> DEFINE i == Len(sent'[c])
  <2>1. sent[c] \in Seq(MessageType) /\ sent'[c] \in Seq(MessageType')
    BY <1>1, RStep DEF RInv, Types
  <2>2. i \in (Len(sent[c]) + 1)..Len(sent'[c]) /\ Last(sent'[c]) = sent'[c][i]
    BY <2>1 DEF Last
  <2>0. PICK b \in Conn : \E batch : Sends(b, batch)
    BY <1>1, <2>2, OnlyBatchesPrune
  <2>3. PICK batch : Sends(b, batch)
    BY <2>0
  <2> DEFINE r == room[b]
             rm == AfterBatch(heap[r], b, batch)
             t == PruneTs(rm)
  <2>4. /\ r \in DOMAIN heap /\ b \in Hearing(r)
        /\ c \notin Hearing(r) => sent'[c] = sent[c]
        /\ sent'[c][i] = Prune(t) \/ sent'[c][i] = UpdateMessage(batch)
        /\ t = 0 => sent'[c][i] = UpdateMessage(batch)
    BY <1>1, <2>2, <2>3, MessageEffect
  <2>5. t # 0 /\ Last(sent'[c]).data = t /\ c \in Hearing(r)
    BY <2>1, <2>2, <2>4 DEF Prune, UpdateMessage
  <2>6. /\ batch \in Seq(EnvelopeType) /\ batch # <<>> /\ \A e \in ToSet(batch) : e.conn = b
        /\ received' = received \cup ToSet(batch)
    BY <2>3 DEF Sends, Message
  <2> DEFINE old == heap[r]
  <2>7. old \in RoomType /\ RoomOK(old) /\ b \in old.clients
    BY <1>1, <2>4 DEF RInv, Types, Hearing
  <2>8. rm = AfterBatch(old, b, batch)
    OBVIOUS
  <2> HIDE DEF rm, old
  <2>9. /\ rm \in RoomType /\ rm.clients = old.clients
        /\ \E e \in ToSet(batch) : e.ts = Max(Timestamps(batch))
        /\ rm.clientClocks \in [rm.clients -> Times]
        /\ rm.clientClocks[b] \in {old.clientClocks[b], Max(Timestamps(batch))}
        /\ \A x \in rm.clients \ {b} : rm.clientClocks[x] = old.clientClocks[x]
    BY <1>1, <2>6, <2>7, <2>8, BatchRoom
  <2>10. t \in Times /\ \A x \in rm.clients : t < rm.clientClocks[x]
    BY <1>1, <2>5, <2>9, PrunedRoom
  <2> HIDE DEF t
  <2>11. room[d] = r /\ d \in rm.clients
    BY <1>1, <2>4, <2>5, <2>9 DEF RInv, Placed, Hearing, Clients, old
  <2>12. Times \subseteq Nat
    BY <1>1, TypesStay DEF RInv, Times
  <2>13. CASE rm.clientClocks[d] = old.clientClocks[d]
    <3>1. rm.clientClocks[d] # 0 /\ rm.clientClocks[d] \in Nat /\ t \in Nat /\ t < rm.clientClocks[d]
      BY <2>9, <2>10, <2>11, <2>12
    <3>2. Shown(d, rm.clientClocks[d], Head(sent[d]).data)
      BY <1>1, <2>11, <2>13, <3>1 DEF RInv, ClocksShown, old
    <3>3. PICK e \in received : /\ e.ts >= rm.clientClocks[d]
                                /\ e.conn = d \/ e \in ToSet(Head(sent[d]).data)
      BY <3>2 DEF Shown
    <3>4. e.ts \in Nat /\ e \in received'
      BY <1>1, <2>6, TypesStay DEF RInv, Types
    <3>5. e.ts > Last(sent'[c]).data
      BY <2>5, <3>1, <3>3, <3>4
    <3> QED BY <3>3, <3>4, <3>5
  <2>14. CASE rm.clientClocks[d] # old.clientClocks[d]
    <3>1. d = b /\ rm.clientClocks[d] = Max(Timestamps(batch))
      BY <2>9, <2>11, <2>14
    <3>2. PICK e \in ToSet(batch) : e.ts = rm.clientClocks[d]
      BY <2>9, <3>1
    <3> QED BY <2>5, <2>6, <2>10, <2>11, <3>1, <3>2
  <2> QED BY <2>13, <2>14
<1> QED BY RInit, RStep, <1>1, PTL DEF Spec, PruneAfterEveryClient

-----------------------------------------------------------------------------
(* Without an adapter.                                                     *)

\* What is appended to a log reaches, or leaves out, a connection.
Foreign(c) == {e \in EnvelopeType : e.conn # c}

LEMMA OthersFilter ==
    ASSUME NEW log \in Seq(EnvelopeType), NEW c
    PROVE  IsPart(FromOthers(log, c), log, Foreign(c), EnvelopeType)
<1> DEFINE n == Len(log)
           keep == [i \in 1..n |-> log[i] \in Foreign(c)]
           Folds(f) == f = [S \in SUBSET (1..n) |->
                              IF S = {} THEN <<>>
                              ELSE IF log[Max(S)].conn # c
                                   THEN Append(f[S \ {Max(S)}], log[Max(S)])
                                   ELSE f[S \ {Max(S)}]]
           it == CHOOSE f : Folds(f)
<1>1. /\ n \in Nat /\ DOMAIN log = 1..n
      /\ \A i \in 1..n : log[i] \in EnvelopeType /\ keep[i] = (log[i].conn # c)
  BY DEF Foreign
<1>2. \A S \in SUBSET (1..n) : S # {} => Max(S) \in 1..n
  <2> TAKE S \in SUBSET (1..n)
  <2>1. S \in SUBSET (0..n)
    BY <1>1
  <2> HIDE DEF n
  <2> QED BY <1>1, <2>1, MaxIsGreatest
<1>3. ASSUME NEW f PROVE Folds(f) <=> IsKeeping(f, n, keep, log)
  <2>1. \A S \in SUBSET (1..n) : S # {} => keep[Max(S)] = (log[Max(S)].conn # c)
    BY <1>1, <1>2
  <2> HIDE DEF n, keep
  <2> QED BY <2>1 DEF IsKeeping
<1>4. FromOthers(log, c) = it[1..n]
  BY <1>1 DEF FromOthers, FoldLeft, MapThenFoldSet
<1> HIDE DEF keep, n
<1>5. \E f : IsKeeping(f, n, keep, log)
  BY <1>1, KeepingExists
<1>6. IsKeeping(it, n, keep, log)
  <2>1. \E f : Folds(f)
    <3> HIDE DEF Folds
    <3> QED BY <1>3, <1>5
  <2>2. Folds(it)
    <3> HIDE DEF Folds
    <3> QED BY <2>1
  <2> HIDE DEF Folds, it
  <2> QED BY <1>3, <2>2
<1> HIDE DEF it
<1>7. PICK S : S = EnvelopeType
  OBVIOUS
<1>8. n \in Nat /\ \A i \in 1..n : log[i] \in S
  BY <1>1, <1>7
<1>9. Filtered(it[1..n], n, keep, log, S)
  BY ONLY <1>6, <1>8, KeepingFilters
<1> QED BY <1>4, <1>7, <1>9 DEF n, keep, IsPart

LEMMA OthersConcat ==
    ASSUME NEW a \in Seq(EnvelopeType), NEW b \in Seq(EnvelopeType), NEW c
    PROVE  /\ (\A e \in ToSet(b) : e.conn = c) => FromOthers(Concat(a, b), c) = FromOthers(a, c)
           /\ (\A e \in ToSet(b) : e.conn # c)
                => FromOthers(Concat(a, b), c) = Concat(FromOthers(a, c), b)
           /\ FromOthers(a, c) \in Seq(EnvelopeType)
<1>1. PICK e : e = Concat(a, b)
  OBVIOUS
<1>2. PICK some : some = FromOthers(a, c)
  OBVIOUS
<1>3. PICK all : all = FromOthers(e, c)
  OBVIOUS
<1>4. PICK P : P = Foreign(c)
  OBVIOUS
<1>5. PICK S : S = EnvelopeType
  OBVIOUS
<1>6. a \in Seq(S) /\ b \in Seq(S)
  BY <1>5
<1>7. e \in Seq(S)
  BY <1>1, <1>6, ConcatAt
<1>8. IsPart(some, a, P, S)
  BY <1>2, <1>4, <1>5, OthersFilter
<1>9. IsPart(all, e, P, S)
  BY <1>3, <1>4, <1>5, <1>7, OthersFilter
<1>10. (\A i \in 1..Len(b) : b[i] \notin P) => all = some
  BY ONLY <1>1, <1>6, <1>8, <1>9, FilterConcat
<1>11. (\A i \in 1..Len(b) : b[i] \in P) => all = Concat(some, b)
  BY ONLY <1>1, <1>6, <1>8, <1>9, FilterConcat
<1>12. some \in Seq(S)
  BY ONLY <1>1, <1>6, <1>8, <1>9, FilterConcat
<1>13. \A i \in 1..Len(b) : b[i] \in ToSet(b) /\ b[i] \in EnvelopeType
  BY DEF ToSet
<1>14. /\ (\A x \in ToSet(b) : x.conn = c) => \A i \in 1..Len(b) : b[i] \notin P
       /\ (\A x \in ToSet(b) : x.conn # c) => \A i \in 1..Len(b) : b[i] \in P
  BY <1>4, <1>13 DEF Foreign
<1> QED BY ONLY <1>1, <1>2, <1>3, <1>5, <1>10, <1>11, <1>12, <1>14

LEMMA OthersAll ==
    ASSUME NEW log \in Seq(EnvelopeType), NEW c, \A e \in ToSet(log) : e.conn # c
    PROVE  FromOthers(log, c) = log
<1>1. PICK none : none = <<>>
  OBVIOUS
<1>2. none \in Seq(EnvelopeType)
  BY <1>1
<1>3. \A s \in Seq(EnvelopeType) : Concat(none, s) = s
  BY <1>1, ConcatEmptySeq DEF Concat
<1>4. FromOthers(none, c) = none
  <2>1. IsPart(FromOthers(none, c), none, Foreign(c), EnvelopeType)
    BY <1>2, OthersFilter
  <2>2. Len(none) = 0
    BY <1>1
  <2> QED BY <1>1, <2>1, <2>2 DEF IsFilter, Filtered, IsPart
<1>5. FromOthers(Concat(none, log), c) = Concat(FromOthers(none, c), log)
  BY <1>2, OthersConcat
<1> QED BY <1>3, <1>4, <1>5

\* What a message brings comes after what was sent before.
LEMMA EnvelopesAppend ==
    ASSUME NEW s \in Seq(MessageType), NEW m \in MessageType
    PROVE  /\ EnvelopesIn(s) \in Seq(EnvelopeType)
           /\ EnvelopesIn(Append(s, m)) = IF m.type = "PRUNE" THEN EnvelopesIn(s)
                                          ELSE Concat(EnvelopesIn(s), m.data)
<1> DEFINE part(x) == IF x.type = "PRUNE" THEN <<>> ELSE x.data
           old == [i \in DOMAIN s |-> part(s[i])]
           new == [i \in DOMAIN Append(s, m) |-> part(Append(s, m)[i])]
           n == Len(s)
<1>1. \A x \in MessageType : part(x) \in Seq(EnvelopeType)
  BY DEF MessageType
<1>2. /\ n \in Nat /\ DOMAIN s = 1..n /\ \A i \in 1..n : s[i] \in MessageType
      /\ DOMAIN Append(s, m) = 1..(n + 1) /\ Append(s, m)[n + 1] = m
      /\ \A i \in 1..n : Append(s, m)[i] = s[i]
  <2> HIDE DEF n
  <2> QED BY DEF n
<1>3. EnvelopesIn(s) = FlattenSeq(old) /\ EnvelopesIn(Append(s, m)) = FlattenSeq(new)
  BY DEF EnvelopesIn
<1>4. PICK x : x = part(m)
  OBVIOUS
<1>5. x \in Seq(EnvelopeType)
  BY <1>1, <1>4
<1> HIDE DEF part
<1>6. PICK T : T = Seq(EnvelopeType)
  OBVIOUS
<1>7. /\ old = [i \in 1..n |-> part(s[i])] /\ \A i \in 1..n : part(s[i]) \in T
      /\ new = [i \in 1..(n + 1) |-> IF i = n + 1 THEN x ELSE part(s[i])]
  BY <1>1, <1>2, <1>4, <1>6
<1> HIDE DEF old, new, n
<1>8. old \in Seq(T) /\ Len(old) = n
  BY <1>2, <1>7
<1>9. IsAppend(new, old, x)
  BY <1>2, <1>5, <1>6, <1>7, <1>8 DEF IsAppend
<1>13. PICK S : S = EnvelopeType
  OBVIOUS
<1>14. old \in Seq(Seq(S)) /\ x \in Seq(S)
  BY <1>5, <1>6, <1>8, <1>13
<1>15. FlattenSeq(old) \in Seq(S)
  BY ONLY <1>9, <1>14, FlattenAppend
<1>16. FlattenSeq(new) = Concat(FlattenSeq(old), x)
  BY ONLY <1>9, <1>14, FlattenAppend
<1>10. FlattenSeq(old) \in Seq(EnvelopeType) /\ FlattenSeq(new) = Concat(FlattenSeq(old), x)
  BY <1>13, <1>15, <1>16
<1>11. ASSUME m.type = "PRUNE" PROVE Concat(FlattenSeq(old), x) = FlattenSeq(old)
  <2>1. x = <<>>
    BY <1>4, <1>11 DEF part
  <2> QED BY <1>10, <2>1, ConcatEmptySeq DEF Concat
<1>12. m.type # "PRUNE" => x = m.data
  BY <1>4 DEF part
<1> QED BY <1>3, <1>10, <1>11, <1>12

\* The message handler leaves to the others an UPDATE, and to all a PRUNE.
LEMMA MessageSends ==
    ASSUME RInv, NEW c \in Conn, NEW batch, Sends(c, batch)
    PROVE  LET r == room[c]
               rm == AfterBatch(heap[r], c, batch)
               t == PruneTs(rm)
               toOthers(d) == IF d = c THEN sent[d] ELSE Append(sent[d], UpdateMessage(batch))
           IN  /\ Prune(t) \in MessageType /\ UpdateMessage(batch) \in MessageType
               /\ \A d \in Hearing(r) :
                     sent'[d] = IF t = 0 THEN toOthers(d) ELSE Append(toOthers(d), Prune(t))
               /\ heap' = [heap EXCEPT ![r] = AfterPrune(rm)]
               /\ AfterPrune(rm) \in RoomType
               /\ AfterPrune(rm).clients = heap[r].clients
               /\ AfterPrune(rm).envelopes = Concat(heap[r].envelopes, batch)
               /\ AfterPrune(rm).loading = heap[r].loading
<1> DEFINE r == room[c]
           rm == AfterBatch(heap[r], c, batch)
           t == PruneTs(rm)
           update == UpdateMessage(batch)
           prune == Prune(t)
<1>1. r \in DOMAIN heap /\ c \in Hearing(r)
  BY DEF Sends, Message, Hearing, RInv, Placed
<1>2. heap[r] \in RoomType /\ RoomOK(heap[r])
  BY <1>1 DEF RInv, Types
<1>3. /\ rm \in RoomType /\ rm.clients = heap[r].clients /\ DOMAIN rm.clientClocks = rm.clients
      /\ rm.envelopes = heap[r].envelopes \o batch
  <2> DEFINE old == heap[r]
  <2>1. old \in RoomType /\ RoomOK(old) /\ c \in old.clients
    BY <1>1, <1>2 DEF Hearing
  <2>2. batch \in Seq(EnvelopeType) /\ batch # <<>>
    BY DEF Sends
  <2>3. rm = AfterBatch(old, c, batch)
    OBVIOUS
  <2> HIDE DEF old, rm
  <2>4. /\ rm \in RoomType /\ rm.clients = old.clients
        /\ rm.clientClocks \in [old.clients -> Times]
    BY <2>1, <2>2, <2>3, BatchRoom
  <2>5. rm.envelopes = old.envelopes \o batch
    BY Zenon, <2>1, <2>2, <2>3, BatchRoom
  <2> QED BY <2>4, <2>5 DEF old
<1>4. rm.loading = heap[r].loading
  BY <1>2 DEF AfterBatch, RoomType
<1>5. heap' = [heap EXCEPT ![r] = AfterPrune(rm)] /\ Broadcast(rm, c, batch)
  BY DEF Sends, Message
<1> HIDE DEF rm
<1>6. /\ t \in Times /\ AfterPrune(rm) \in RoomType
      /\ AfterPrune(rm).clients = rm.clients /\ AfterPrune(rm).envelopes = rm.envelopes
  BY <1>3, PrunedRoom
<1>7. AfterPrune(rm).loading = rm.loading
  BY <1>3 DEF AfterPrune, RoomType
<1>8. update \in MessageType /\ prune \in MessageType
  BY <1>6 DEF UpdateMessage, Prune, MessageType, Sends
<1> HIDE DEF t
<1>9. \A d \in Conn : sent[d] \in Seq(MessageType)
  BY DEF RInv, Types
<1>10. Hearing(r) \subseteq Conn
  BY <1>2 DEF Hearing, RoomType
<1>11. \A d \in Hearing(r) : sent'[d] = sent[d] \o (IF d = c THEN <<>> ELSE <<update>>)
                                               \o (IF t = 0 THEN <<>> ELSE <<prune>>)
  BY <1>3, <1>5, <1>10 DEF Broadcast, Hearing, UpdateMessage, Prune, t
<1> HIDE DEF r, update, prune
<1>12. \A s \in Seq(MessageType) : /\ s \o <<>> = s
                                   /\ \A m \in MessageType : s \o <<m>> = Append(s, m)
                                   /\ \A m \in MessageType : Append(s, m) \in Seq(MessageType)
  BY ConcatEmptySeq, AppendIsConcat
<1>13. ASSUME NEW d \in Hearing(r)
       PROVE  LET toOthers == IF d = c THEN sent[d] ELSE Append(sent[d], update)
              IN  sent'[d] = IF t = 0 THEN toOthers ELSE Append(toOthers, prune)
  <2>1. PICK s : s = sent[d]
    OBVIOUS
  <2>2. s \in Seq(MessageType)
    BY <1>9, <1>10, <2>1
  <2>3. PICK a : a = s \o (IF d = c THEN <<>> ELSE <<update>>)
    OBVIOUS
  <2>4. a = (IF d = c THEN s ELSE Append(s, update)) /\ a \in Seq(MessageType)
    BY <1>8, <1>12, <2>2, <2>3
  <2>5. sent'[d] = a \o (IF t = 0 THEN <<>> ELSE <<prune>>)
    BY <1>11, <2>1, <2>3
  <2>6. sent'[d] = IF t = 0 THEN a ELSE Append(a, prune)
    BY <1>8, <1>12, <2>4, <2>5
  <2> QED BY <2>1, <2>4, <2>6
<1> QED BY <1>3, <1>4, <1>5, <1>6, <1>7, <1>8, <1>13 DEF r, rm, t, update, prune, Concat

\* Each client has received the log of its Room less what it sent itself.
Served(c) == EnvelopesIn(sent[c]) = FromOthers(heap[room[c]].envelopes, c)

\* Without an adapter no handler waits and whoever is connected holds the Room
\* of the map, which has clients as long as it is there.
OneRoomInv ==
    ~persistence =>
        /\ \A c \in Conn : phase[c] # "waiting" /\ (phase[c] = "new" => socket[c] = "open")
        /\ \A c \in Conn : (phase[c] = "joined" /\ socket[c] # "closed") => room[c] = current
        /\ \A r \in DOMAIN heap :
              ~heap[r].loading /\ \A c \in heap[r].clients : socket[c] # "closed"
        /\ current # 0 => heap[current].clients # {}
        /\ \A c \in Clients : Served(c)

LEMMA OneRoomConnect ==
    ASSUME RInv, OneRoomInv, ~persistence, NEW c \in Conn, Connect(c)
    PROVE  OneRoomInv'
<1> DEFINE r == IF current = 0 THEN Len(heap) + 1 ELSE current
           objects == IF current = 0 THEN Append(heap, NewRoom) ELSE heap
           found == objects[r]
           load == found.loading \/ (persistence /\ found.envelopes = <<>>)
           log == found.envelopes
           joined == Join(found, {c})
           message == [type |-> "SNAPSHOT", data |-> log]
<1>1. NewRoom \in RoomType /\ RoomOK(NewRoom) /\ ~NewRoom.loading
  <2>1. [d \in {} |-> 0] \in [{} -> Times]
    OBVIOUS
  <2>2. [d \in {} |-> 0] \in Clocks
    BY <2>1, ClocksAre
  <2>3. <<>> \in Seq(EnvelopeType) /\ 0 \in Times
    BY TypesStay DEF RInv, Times
  <2> QED BY <2>2, <2>3 DEF NewRoom, RoomType, RoomOK, Timestamps, ToSet
<1>2. /\ objects \in Seq(RoomType) /\ Len(heap) <= Len(objects)
      /\ DOMAIN objects = 1..Len(objects) /\ DOMAIN heap = 1..Len(heap)
      /\ r \in DOMAIN objects /\ (r \in DOMAIN heap => r = current)
      /\ \A q \in DOMAIN objects : q \in DOMAIN heap \/ q = r
      /\ \A q \in DOMAIN objects : objects[q] = IF q \in DOMAIN heap THEN heap[q] ELSE NewRoom
  BY <1>1 DEF RInv, Types
<1>3. found \in RoomType /\ RoomOK(found) /\ ~found.loading
  BY <1>1, <1>2 DEF RInv, OneRoomInv
<1>4. /\ phase[c] = "new" /\ current' = r
      /\ room' = [room EXCEPT ![c] = r] /\ phase' = [phase EXCEPT ![c] = "joined"]
      /\ heap' = [objects EXCEPT ![r] = Join(found, {c})]
      /\ SendSnapshot(found, {c})
      /\ UNCHANGED <<socket, persistence, received>>
  <2>1. ~load
    BY <1>3
  <2> QED BY <2>1 DEF Connect, adapter
<1>5. /\ joined.clients = found.clients \cup {c}
      /\ joined.envelopes = found.envelopes /\ joined.loading = found.loading
  <2>1. joined.clients = found.clients \cup {c} /\ joined.envelopes = found.envelopes
    BY <1>3, JoinedRoom
  <2>2. joined.loading = found.loading
    BY <1>3 DEF Join, RoomType
  <2> QED BY <2>1, <2>2
<1> HIDE DEF r, objects
<1>6. /\ DOMAIN heap' = DOMAIN objects /\ heap'[r] = joined
      /\ \A q \in DOMAIN objects \ {r} : heap'[q] = objects[q]
  BY <1>2, <1>4
<1> HIDE DEF joined, found
<1>7. /\ socket[c] = "open" /\ sent[c] = <<>>
      /\ room'[c] = r /\ phase'[c] = "joined"
      /\ \A d \in Conn \ {c} : room'[d] = room[d] /\ phase'[d] = phase[d] /\ sent'[d] = sent[d]
  BY <1>4 DEF RInv, Types, Placed, OneRoomInv, SendSnapshot
<1>8. sent'[c] = Append(sent[c], message)
  BY <1>4, <1>7 DEF SendSnapshot, found
<1>9. Served(c)'
  <2>1. log \in Seq(EnvelopeType)
    BY <1>3 DEF RoomType
  <2>2. message \in MessageType /\ message.type # "PRUNE" /\ message.data = log
    BY <2>1 DEF MessageType
  <2>3. PICK none : none = sent[c]
    OBVIOUS
  <2>4. none \in Seq(MessageType) /\ EnvelopesIn(none) = <<>>
    BY <1>7, <2>3, FlattenNothing DEF EnvelopesIn
  <2> HIDE DEF message, log
  <2>5. EnvelopesIn(Append(none, message)) = Concat(<<>>, log)
    BY <2>2, <2>4, EnvelopesAppend
  <2>6. EnvelopesIn(sent'[c]) = log
    BY <1>8, <2>1, <2>3, <2>5, ConcatEmptySeq DEF Concat
  <2>7. \A e \in ToSet(log) : e.conn # c
    BY <1>3, <1>4 DEF RoomOK, log, RInv, Logged
  <2>8. FromOthers(log, c) = log
    BY <2>1, <2>7, OthersAll
  <2>9. heap'[room'[c]].envelopes = log
    BY <1>5, <1>6, <1>7 DEF log
  <2> QED BY <2>6, <2>8, <2>9 DEF Served
<1>10. ASSUME NEW d \in Clients', d # c PROVE Served(d)'
  <2>1. d \in Clients /\ d \in Conn /\ room[d] \in DOMAIN heap
    BY <1>4, <1>7, <1>10 DEF Clients, RInv, Placed
  <2>2. heap'[room[d]].envelopes = heap[room[d]].envelopes
    <3>1. objects[room[d]] = heap[room[d]] /\ room[d] \in DOMAIN objects
      BY <1>2, <2>1
    <3> QED BY <1>5, <1>6, <3>1 DEF found
  <2> QED BY <1>7, <1>10, <2>1, <2>2 DEF Served, OneRoomInv
<1>11. \A d \in Conn : (phase'[d] = "joined" /\ socket'[d] # "closed") => room'[d] = current'
  <2> SUFFICES ASSUME NEW d \in Conn \ {c}, phase[d] = "joined", socket[d] # "closed"
               PROVE  room[d] = r
    BY <1>4, <1>7
  <2>1. room[d] = current /\ room[d] \in DOMAIN heap
    BY DEF RInv, Placed, OneRoomInv
  <2> QED BY <1>2, <2>1 DEF r
<1>12. \A q \in DOMAIN heap' :
          ~heap'[q].loading /\ \A d \in heap'[q].clients : socket'[d] # "closed"
  <2>1. \A q \in DOMAIN objects :
          ~objects[q].loading /\ \A d \in objects[q].clients : socket[d] # "closed"
    BY <1>1, <1>2 DEF OneRoomInv, NewRoom
  <2>2. socket' = socket
    BY <1>4
  <2>3. ~joined.loading /\ \A d \in joined.clients : socket[d] # "closed"
    BY <1>2, <1>5, <1>7, <2>1 DEF found
  <2>4. ASSUME NEW q \in DOMAIN objects
        PROVE  ~heap'[q].loading /\ \A d \in heap'[q].clients : socket[d] # "closed"
    BY <1>6, <2>1, <2>3
  <2> QED BY <1>6, <2>2, <2>4
<1>13. current' # 0 => heap'[current'].clients # {}
  BY <1>4, <1>5, <1>6
<1>14. \A d \in Conn : phase'[d] # "waiting" /\ (phase'[d] = "new" => socket'[d] = "open")
  BY <1>4, <1>7 DEF OneRoomInv
<1> QED BY <1>9, <1>10, <1>11, <1>12, <1>13, <1>14 DEF OneRoomInv

LEMMA OneRoomMessage ==
    ASSUME RInv, OneRoomInv, ~persistence, NEW c \in Conn, NEW batch, Sends(c, batch)
    PROVE  OneRoomInv'
<1> DEFINE r == room[c]
           rm == AfterPrune(AfterBatch(heap[r], c, batch))
           t == PruneTs(AfterBatch(heap[r], c, batch))
           update == UpdateMessage(batch)
           toOthers(d) == IF d = c THEN sent[d] ELSE Append(sent[d], update)
<1>1. /\ phase[c] = "joined" /\ socket[c] = "open"
      /\ UNCHANGED <<persistence, current, room, phase, socket>>
      /\ batch \in Seq(EnvelopeType) /\ \A e \in ToSet(batch) : e.conn = c
  BY DEF Sends, Message
<1>2. /\ Prune(t) \in MessageType /\ update \in MessageType
      /\ \A d \in Hearing(r) :
            sent'[d] = IF t = 0 THEN toOthers(d) ELSE Append(toOthers(d), Prune(t))
      /\ heap' = [heap EXCEPT ![r] = rm] /\ rm \in RoomType
      /\ rm.clients = heap[r].clients /\ rm.envelopes = Concat(heap[r].envelopes, batch)
      /\ rm.loading = heap[r].loading
  BY MessageSends
<1>3. r \in DOMAIN heap /\ heap \in Seq(RoomType)
  BY <1>1 DEF RInv, Types, Placed
<1> HIDE DEF rm, t, r
<1>4. /\ DOMAIN heap' = DOMAIN heap /\ heap'[r] = rm
      /\ \A q \in DOMAIN heap \ {r} : heap'[q] = heap[q]
  BY <1>2, <1>3
<1>5. \A q \in DOMAIN heap : /\ heap'[q].clients = heap[q].clients
                             /\ heap'[q].loading = heap[q].loading
  BY <1>2, <1>4
<1>6. Clients' = Clients
  BY <1>1 DEF Clients
<1>7. ASSUME NEW d \in Clients PROVE Served(d)'
  <2>1. d \in Conn /\ room[d] = r /\ d \in Hearing(r)
    BY <1>1 DEF Clients, OneRoomInv, RInv, Placed, Hearing, r
  <2>2. PICK old : old = sent[d]
    OBVIOUS
  <2>3. PICK log : log = heap[r].envelopes
    OBVIOUS
  <2>4. /\ old \in Seq(MessageType) /\ log \in Seq(EnvelopeType)
        /\ EnvelopesIn(old) = FromOthers(log, d)
    <3>1. old \in Seq(MessageType)
      BY <2>1, <2>2 DEF RInv, Types
    <3>2. log \in Seq(EnvelopeType)
      <4>1. heap[r] \in RoomType
        BY <1>3
      <4> QED BY <2>3, <4>1 DEF RoomType
    <3>3. Served(d)
      BY DEF OneRoomInv
    <3> QED BY <2>1, <2>2, <2>3, <3>1, <3>2, <3>3 DEF Served
  <2>5. PICK new : new = toOthers(d)
    OBVIOUS
  <2>6. sent'[d] = IF t = 0 THEN new ELSE Append(new, Prune(t))
    BY <1>2, <2>1, <2>5
  <2>7. new = IF d = c THEN old ELSE Append(old, update)
    BY <2>2, <2>5
  <2> HIDE DEF toOthers
  <2>8. new \in Seq(MessageType) /\ EnvelopesIn(new) = FromOthers(Concat(log, batch), d)
    <3>1. CASE d = c
      <4>1. FromOthers(Concat(log, batch), d) = FromOthers(log, d)
        BY <1>1, <2>4, <3>1, OthersConcat
      <4> QED BY <2>4, <2>7, <3>1, <4>1
    <3>2. CASE d # c
      <4>1. \A e \in ToSet(batch) : e.conn # d
        BY <1>1, <3>2
      <4>2. FromOthers(Concat(log, batch), d) = Concat(FromOthers(log, d), batch)
        BY <1>1, <2>4, <4>1, OthersConcat
      <4>3. update.type # "PRUNE" /\ update.data = batch
        BY DEF UpdateMessage
      <4> HIDE DEF update
      <4>4. EnvelopesIn(Append(old, update)) = Concat(EnvelopesIn(old), batch)
        BY <1>2, <2>4, <4>3, EnvelopesAppend
      <4>5. Append(old, update) \in Seq(MessageType)
        BY <1>2, <2>4
      <4> QED BY <2>4, <2>7, <3>2, <4>2, <4>4, <4>5
    <3> QED BY <3>1, <3>2
  <2>9. EnvelopesIn(sent'[d]) = EnvelopesIn(new)
    <3>1. Prune(t).type = "PRUNE"
      BY DEF Prune
    <3>2. EnvelopesIn(Append(new, Prune(t))) = EnvelopesIn(new)
      BY <1>2, <2>8, <3>1, EnvelopesAppend
    <3> QED BY <2>6, <3>2
  <2>10. heap'[room'[d]].envelopes = Concat(log, batch)
    BY <1>1, <1>2, <1>4, <2>1, <2>3
  <2> QED BY <2>8, <2>9, <2>10 DEF Served
<1>8. current # 0 => heap'[current].clients # {}
  <2>1. current # 0 => current \in DOMAIN heap
    BY <1>3 DEF RInv, Types
  <2> QED BY <1>5, <2>1 DEF OneRoomInv
<1> QED BY <1>1, <1>4, <1>5, <1>6, <1>7, <1>8 DEF OneRoomInv

LEMMA OneRoomClose ==
    ASSUME RInv, OneRoomInv, ~persistence, NEW c \in Conn, CloseEvent(c)
    PROVE  OneRoomInv'
<1> DEFINE r == room[c]
           rm == heap[r]
           rest == rm.clients \ {c}
           clocks == [d \in DOMAIN rm.clientClocks \ {c} |-> rm.clientClocks[d]]
           left == [rm EXCEPT !.clients = rest, !.clientClocks = clocks]
<1>1. /\ socket[c] = "closing" /\ socket' = [socket EXCEPT ![c] = "closed"]
      /\ UNCHANGED <<room, phase, sent, persistence>>
  BY DEF CloseEvent, adapter
<1>2. phase[c] = "joined"
  BY <1>1 DEF OneRoomInv, RInv, Types
<1>3. heap' = [heap EXCEPT ![r] = left] /\ current' = IF left.clients = {} THEN 0 ELSE current
  BY <1>2 DEF CloseEvent, Leave
<1>4. r \in DOMAIN heap /\ rm \in RoomType /\ r = current
  BY <1>1, <1>2 DEF RInv, Types, Placed, OneRoomInv
<1> HIDE DEF clocks
<1>5. left.clients = rest /\ left.envelopes = rm.envelopes /\ left.loading = rm.loading
  BY <1>4 DEF RoomType
<1> HIDE DEF left, r
<1>6. /\ DOMAIN heap' = DOMAIN heap /\ heap'[r] = left
      /\ \A q \in DOMAIN heap \ {r} : heap'[q] = heap[q]
  BY <1>3, <1>4 DEF RInv, Types
<1>7. \A d \in Conn : d # c => socket'[d] = socket[d]
  BY <1>1 DEF RInv, Types
<1>8. socket'[c] = "closed"
  BY <1>1 DEF RInv, Types
<1>9. \A q \in DOMAIN heap :
         /\ heap'[q].loading = heap[q].loading /\ heap'[q].envelopes = heap[q].envelopes
         /\ heap'[q].clients \subseteq heap[q].clients /\ c \notin heap'[q].clients
  <2>1. \A q \in DOMAIN heap : heap[q].clients \subseteq {d \in Conn : room[d] = q}
    BY DEF RInv, Placed
  <2>2. \A q \in DOMAIN heap : c \in heap[q].clients => q = r
    BY <2>1 DEF r
  <2> QED BY <1>5, <1>6, <2>2
<1>10. \A d \in Conn : (phase'[d] = "joined" /\ socket'[d] # "closed") => room'[d] = current'
  <2> SUFFICES ASSUME NEW d \in Conn, phase[d] = "joined", socket'[d] # "closed"
               PROVE  room[d] = current'
    BY <1>1
  <2>1. d # c /\ socket[d] # "closed"
    BY <1>7, <1>8
  <2>2. room[d] = r /\ d \in rm.clients
    BY <1>4, <2>1 DEF OneRoomInv, RInv, Placed
  <2>3. left.clients # {}
    BY <1>5, <2>1, <2>2
  <2> QED BY <1>3, <1>4, <2>2, <2>3
<1>11. \A q \in DOMAIN heap' :
         ~heap'[q].loading /\ \A d \in heap'[q].clients : socket'[d] # "closed"
  <2>1. \A q \in DOMAIN heap : heap[q].clients \subseteq Conn
    BY DEF RInv, Placed
  <2> QED BY <1>6, <1>7, <1>9, <2>1 DEF OneRoomInv
<1>12. current' # 0 => heap'[current'].clients # {}
  BY <1>3, <1>4, <1>6
<1>13. \A d \in Conn : phase'[d] # "waiting" /\ (phase'[d] = "new" => socket'[d] = "open")
  BY <1>1, <1>2, <1>7 DEF OneRoomInv
<1>14. ASSUME NEW d \in Clients' PROVE Served(d)'
  <2>1. d \in Clients /\ room[d] \in DOMAIN heap
    BY <1>1, <1>7, <1>8 DEF Clients, RInv, Placed
  <2> QED BY <1>1, <1>9, <2>1 DEF Served, OneRoomInv
<1> QED BY <1>10, <1>11, <1>12, <1>13, <1>14 DEF OneRoomInv

LEMMA OneRoomStep == RInv /\ OneRoomInv /\ [Next]_vars => OneRoomInv'
<1> SUFFICES ASSUME RInv, OneRoomInv, [Next]_vars PROVE OneRoomInv'
  OBVIOUS
<1>1. persistence' = persistence
  <2>1. ASSUME NEW c \in Conn, ClientSends(c) PROVE persistence' = persistence
    <3>1. PICK batch : Sends(c, batch)
      BY <2>1, ABatch
    <3> QED BY <3>1 DEF Sends, Message
  <2>2. ASSUME NEW c \in Conn, Connect(c) \/ Drop(c) \/ CloseEvent(c)
        PROVE  persistence' = persistence
    BY <2>2 DEF Connect, Drop, CloseEvent, adapter
  <2>3. LoadSettles => persistence' = persistence
    BY DEF LoadSettles, LoadDone, LoadFails, LoadEnds, adapter
  <2>4. SaveDone \/ SaveFails \/ UNCHANGED vars => persistence' = persistence
    BY DEF SaveDone, SaveFails, vars
  <2> QED BY <2>1, <2>2, <2>3, <2>4 DEF Next
<1>2. CASE persistence
  BY <1>1, <1>2 DEF OneRoomInv
<1>3. CASE ~persistence
  <2>1. ASSUME NEW c \in Conn, Connect(c) PROVE OneRoomInv'
    BY <1>3, <2>1, OneRoomConnect
  <2>2. ASSUME NEW c \in Conn, ClientSends(c) PROVE OneRoomInv'
    BY <1>3, <2>2, ABatch, OneRoomMessage
  <2>3. ASSUME NEW c \in Conn, CloseEvent(c) PROVE OneRoomInv'
    BY <1>3, <2>3, OneRoomClose
  <2>4. ASSUME NEW c \in Conn, Drop(c) PROVE OneRoomInv'
    <3>1. /\ phase[c] # "new" /\ socket[c] = "open" /\ socket' = [socket EXCEPT ![c] = "closing"]
          /\ UNCHANGED <<heap, current, room, phase, sent, persistence>>
      BY <2>4 DEF Drop, adapter
    <3>2. \A d \in Conn : /\ socket'[d] = "open" => socket[d] = "open"
                          /\ socket'[d] = "closed" <=> socket[d] = "closed"
                          /\ phase[d] = "new" => socket'[d] = socket[d]
      BY <3>1 DEF RInv, Types
    <3>3. \A q \in DOMAIN heap : heap[q].clients \subseteq Conn
      BY DEF RInv, Placed
    <3>4. \A d \in Clients' : d \in Clients /\ Served(d)'
      BY <1>3, <3>1, <3>2 DEF OneRoomInv, Clients, Served
    <3>5. \A q \in DOMAIN heap' :
             ~heap'[q].loading /\ \A d \in heap'[q].clients : socket'[d] # "closed"
      BY <1>3, <3>1, <3>2, <3>3 DEF OneRoomInv
    <3> QED BY <1>3, <3>1, <3>2, <3>4, <3>5 DEF OneRoomInv
  <2>5. LoadSettles => FALSE
    BY <1>3 DEF LoadSettles, LoadDone, LoadFails, LoadEnds, OneRoomInv
  <2>6. CASE SaveDone \/ SaveFails \/ UNCHANGED vars
    <3>1. UNCHANGED <<heap, current, room, phase, socket, sent, persistence>>
      BY <2>6 DEF SaveDone, SaveFails, conns, vars
    <3> QED BY <1>3, <3>1 DEF OneRoomInv, Clients, Served
  <2> QED BY <2>1, <2>2, <2>3, <2>4, <2>5, <2>6 DEF Next
<1> QED BY <1>2, <1>3

\* Without an adapter there is one Room for the id, it lives while it has
\* clients, and each of them has received its log, in order, less what it sent
\* itself.
THEOREM RelayedExactly == Spec => []ExactRelay
<1>1. Init => OneRoomInv
  BY DEF Init, OneRoomInv, Clients
<1>2. OneRoomInv => ExactRelay
  BY DEF OneRoomInv, ExactRelay, Clients, Served
<1> QED BY RInit, RStep, OneRoomStep, <1>1, <1>2, PTL DEF Spec
=============================================================================
