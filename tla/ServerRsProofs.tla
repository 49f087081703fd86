---------------------------- MODULE ServerRsProofs ----------------------------
(***************************************************************************)
(* Proofs about the Rust relay, for any number of connections, any         *)
(* capacity, any environment and a database that may fail: the types, how  *)
(* long a room lives, that no client misses what is sent between its       *)
(* SNAPSHOT and its UPDATEs, and which PRUNE may be decided.               *)
(***************************************************************************)
EXTENDS ServerRs, DataLemmas

Stages == {"new", "greeting", "serving", "leaving", "gone"}

\* A Room: what its fields hold does not matter here.
LiveRoom(rm) ==
    \E store, clients, clocks, tombstones, watermark :
        rm = [live |-> TRUE, store |-> store, clients |-> clients, clientClocks |-> clocks,
              tombstones |-> tombstones, highWatermark |-> watermark]

\* The inductive invariant.  RoomLifetime needs to know where handlers are, and
\* that what is under the id is a Room, so that updating one field keeps the
\* others.
LifetimeInv ==
    /\ handler \in [Conn -> Stages]
    /\ room = NoRoom \/ LiveRoom(room)
    /\ RoomLifetime

\* A batch adds what is accepted to the store; it and its prune change no client
\* and take no clock away.
LEMMA BatchKeepsClients ==
    ASSUME NEW rm, LiveRoom(rm), NEW c \in Conn, NEW batch
    PROVE  LET after == AfterPrune(AfterBatch(rm, c, batch))
           IN  /\ LiveRoom(after)
               /\ after.store = rm.store \cup {e \in batch : Accepted(e)}
               /\ after.clients = rm.clients
               /\ DOMAIN rm.clientClocks \subseteq DOMAIN after.clientClocks
<1>1. PICK store, clients, clocks, tombstones, watermark :
        rm = [live |-> TRUE, store |-> store, clients |-> clients, clientClocks |-> clocks,
              tombstones |-> tombstones, highWatermark |-> watermark]
  BY DEF LiveRoom
<1> DEFINE b == AfterBatch(rm, c, batch)
<1>2. \E s, k, t, w :
        /\ b = [live |-> TRUE, store |-> s, clients |-> clients, clientClocks |-> k,
                tombstones |-> t, highWatermark |-> w]
        /\ s = rm.store \cup {e \in batch : Accepted(e)}
        /\ DOMAIN clocks \subseteq DOMAIN k
  <2> DEFINE accepted == {e \in batch : Accepted(e)}
             old == IF c \in DOMAIN rm.clientClocks THEN rm.clientClocks[c] ELSE 0
             maxTs == Max({0} \cup {e.ts : e \in accepted})
             s == rm.store \cup accepted
             t == rm.tombstones \cup {e.ts : e \in {x \in accepted : x.deletes}}
             k == IF maxTs = 0 THEN rm.clientClocks
                  ELSE WithClock(rm.clientClocks, c, Max({old, maxTs}))
             w == Max({rm.highWatermark, maxTs})
  <2>1. b = [rm EXCEPT !.store = s, !.tombstones = t, !.clientClocks = k, !.highWatermark = w]
    BY DEF AfterBatch
  <2>4. s = rm.store \cup {e \in batch : Accepted(e)}
    OBVIOUS
  <2> HIDE DEF s, t, w
  <2>2. DOMAIN clocks \subseteq DOMAIN k
    <3>1. rm.clientClocks = clocks
      BY <1>1
    <3> HIDE DEF maxTs, old
    <3> QED BY <3>1 DEF WithClock
  <2> HIDE DEF k
  <2>3. b = [live |-> TRUE, store |-> s, clients |-> clients, clientClocks |-> k,
             tombstones |-> t, highWatermark |-> w]
    BY <2>1, <1>1
  <2> QED BY <2>2, <2>3, <2>4
<1> HIDE DEF b
<1>3. PICK s, k, t, w :
        /\ b = [live |-> TRUE, store |-> s, clients |-> clients, clientClocks |-> k,
                tombstones |-> t, highWatermark |-> w]
        /\ s = rm.store \cup {e \in batch : Accepted(e)}
        /\ DOMAIN clocks \subseteq DOMAIN k
  BY <1>2
<1> DEFINE kept == {x \in b.tombstones : x > PruneTs(b)}
<1>4. AfterPrune(b) = [b EXCEPT !.tombstones = kept]
  BY DEF AfterPrune
<1> HIDE DEF kept
<1>5. AfterPrune(b) = [live |-> TRUE, store |-> s, clients |-> clients, clientClocks |-> k,
                       tombstones |-> kept, highWatermark |-> w]
  BY <1>3, <1>4
<1>6. LiveRoom(AfterPrune(b))
  BY <1>5 DEF LiveRoom
<1>7. rm.clients = clients /\ rm.clientClocks = clocks
  BY <1>1
<1>8. /\ AfterPrune(b).store = s
      /\ AfterPrune(b).clients = clients
      /\ AfterPrune(b).clientClocks = k
  BY <1>5
<1>9. /\ AfterPrune(b).store = rm.store \cup {e \in batch : Accepted(e)}
      /\ AfterPrune(b).clients = rm.clients
      /\ DOMAIN rm.clientClocks \subseteq DOMAIN AfterPrune(b).clientClocks
  BY <1>3, <1>7, <1>8
<1> QED BY <1>6, <1>9 DEF b

\* Joining adds one client and its clock.
LEMMA AddClientAdds ==
    ASSUME NEW rm, LiveRoom(rm), NEW c \in Conn
    PROVE  /\ LiveRoom(AddClient(rm, c))
           /\ AddClient(rm, c).store = rm.store
           /\ AddClient(rm, c).clients = rm.clients \cup {c}
           /\ DOMAIN AddClient(rm, c).clientClocks = DOMAIN rm.clientClocks \cup {c}
<1>1. PICK store, clients, clocks, tombstones, watermark :
        rm = [live |-> TRUE, store |-> store, clients |-> clients, clientClocks |-> clocks,
              tombstones |-> tombstones, highWatermark |-> watermark]
  BY DEF LiveRoom
<1> DEFINE k == WithClock(rm.clientClocks, c, rm.highWatermark)
<1>2. AddClient(rm, c) =
        [live |-> TRUE, store |-> store, clients |-> clients \cup {c}, clientClocks |-> k,
         tombstones |-> tombstones, highWatermark |-> watermark]
  <2>1. AddClient(rm, c) = [rm EXCEPT !.clients = rm.clients \cup {c}, !.clientClocks = k]
    BY DEF AddClient
  <2> HIDE DEF k
  <2> QED BY <1>1, <2>1
<1>3. DOMAIN k = DOMAIN rm.clientClocks \cup {c}
  BY DEF WithClock
<1> HIDE DEF k
<1>4. LiveRoom(AddClient(rm, c))
  BY <1>2 DEF LiveRoom
<1>5. rm.store = store /\ rm.clients = clients /\ rm.clientClocks = clocks
  BY <1>1
<1>6. /\ AddClient(rm, c).store = store
      /\ AddClient(rm, c).clients = clients \cup {c}
      /\ AddClient(rm, c).clientClocks = k
  BY <1>2
<1> QED BY <1>3, <1>4, <1>5, <1>6

\* Every action keeps the inductive invariant.
LEMMA LifetimeStep == LifetimeInv /\ [Next]_vars => LifetimeInv'
<1> SUFFICES ASSUME LifetimeInv, [Next]_vars PROVE LifetimeInv'
  OBVIOUS
<1> USE DEF LifetimeInv, Stages
<1>1. NoRoom.live = FALSE
  BY DEF NoRoom
<1>2. LiveRoom(room) => room.live = TRUE
  BY DEF LiveRoom
<1>3. ASSUME NEW c \in Conn, Register(c) PROVE LifetimeInv'
  <2>1. handler' = [handler EXCEPT ![c] = "greeting"] /\ handler[c] = "new"
    BY <1>3 DEF Register
  <2>2. Present' = Present \cup {c}
    BY <2>1 DEF Present
  <2>3. CASE room.live
    <3>1. LiveRoom(room) /\ room' = AddClient(room, c)
      BY <1>1, <1>3, <2>3 DEF Register
    <3>2. Present # {} /\ room.clients = Present /\ Present \subseteq DOMAIN room.clientClocks
      BY <1>1, <2>3 DEF RoomLifetime
    <3>3. /\ LiveRoom(room') /\ room'.clients = Present'
          /\ Present' \subseteq DOMAIN room'.clientClocks
      BY <3>1, <3>2, <2>2, AddClientAdds
    <3>4. room'.live = TRUE
      BY <3>3 DEF LiveRoom
    <3> QED BY <2>1, <2>2, <3>3, <3>4 DEF RoomLifetime
  <2>4. CASE ~room.live
    <3>1. PICK envelopes : room' = AddClient(NewRoom(envelopes), c)
      BY <1>3, <2>4 DEF Register
    <3>2. Present = {}
      BY <1>2, <2>4 DEF RoomLifetime
    <3> DEFINE empty == NewRoom(envelopes)
    <3>3. LiveRoom(empty) /\ empty.clients = {}
      BY DEF NewRoom, LiveRoom
    <3> HIDE DEF empty
    <3>4. /\ LiveRoom(room') /\ room'.clients = empty.clients \cup {c}
          /\ DOMAIN room'.clientClocks = DOMAIN empty.clientClocks \cup {c}
      BY <3>1, <3>3, AddClientAdds DEF empty
    <3>5. /\ LiveRoom(room') /\ room'.clients = Present'
          /\ Present' \subseteq DOMAIN room'.clientClocks
      BY <3>2, <3>3, <3>4, <2>2
    <3>6. room'.live = TRUE
      BY <3>5 DEF LiveRoom
    <3> QED BY <2>1, <2>2, <3>5, <3>6 DEF RoomLifetime
  <2> QED BY <2>3, <2>4
<1>4. ASSUME NEW c \in Conn, NEW batch, Receive(c, batch) PROVE LifetimeInv'
  <2>1. handler' = handler /\ Present' = Present
    BY <1>4 DEF Receive, Present
  <2>2. CASE ~room.live
    BY <1>4, <2>1, <2>2 DEF Receive, RoomLifetime
  <2>3. CASE room.live
    <3>1. LiveRoom(room) /\ room' = AfterPrune(AfterBatch(room, c, batch))
      BY <1>1, <1>4, <2>3 DEF Receive
    <3>2. Present # {} /\ room.clients = Present /\ Present \subseteq DOMAIN room.clientClocks
      BY <1>1, <2>3 DEF RoomLifetime
    <3>3. /\ LiveRoom(room') /\ room'.clients = Present'
          /\ Present' \subseteq DOMAIN room'.clientClocks
      BY <3>1, <3>2, <2>1, BatchKeepsClients
    <3>4. room'.live = TRUE
      BY <3>3 DEF LiveRoom
    <3> QED BY <2>1, <3>2, <3>3, <3>4 DEF RoomLifetime
  <2> QED BY <2>2, <2>3
<1>5. ASSUME NEW c \in Conn, ClientSends(c) PROVE LifetimeInv'
  <2>1. PICK batch : Receive(c, batch)
    BY <1>5 DEF ClientSends
  <2> QED BY <2>1, <1>4
<1>6. ASSUME NEW c \in Conn, Cleanup(c) PROVE LifetimeInv'
  <2>1. handler' = [handler EXCEPT ![c] = "gone"] /\ handler[c] = "leaving"
    BY <1>6 DEF Cleanup
  <2>2. Present' = Present \ {c} /\ c \in Present
    BY <2>1 DEF Present
  <2>3. room.live /\ room.clients = Present /\ Present \subseteq DOMAIN room.clientClocks
    BY <2>2 DEF RoomLifetime
  <2>4. room' = WithoutClient(room, c) /\ LiveRoom(room)
    BY <1>1, <1>6, <2>3 DEF Cleanup
  <2>5. CASE Present \subseteq {c}
    BY <2>1, <2>2, <2>3, <2>4, <2>5 DEF WithoutClient, RoomLifetime
  <2>6. CASE ~(Present \subseteq {c})
    <3>1. PICK store, clients, clocks, tombstones, watermark :
            room = [live |-> TRUE, store |-> store, clients |-> clients, clientClocks |-> clocks,
                    tombstones |-> tombstones, highWatermark |-> watermark]
      BY <2>4 DEF LiveRoom
    <3> DEFINE left == [d \in DOMAIN clocks \ {c} |-> clocks[d]]
    <3>2. room' = [room EXCEPT !.clients = Present \ {c}, !.clientClocks = left]
      BY <2>3, <2>4, <2>6, <3>1 DEF WithoutClient
    <3>3. Present \ {c} \subseteq DOMAIN left
      BY <2>3, <3>1
    <3> HIDE DEF left
    <3>4. room' = [live |-> TRUE, store |-> store, clients |-> Present \ {c},
                   clientClocks |-> left, tombstones |-> tombstones,
                   highWatermark |-> watermark]
      BY <3>1, <3>2
    <3>5. LiveRoom(room')
      BY <3>4 DEF LiveRoom
    <3> QED BY <2>1, <2>2, <2>6, <3>3, <3>4, <3>5 DEF RoomLifetime
  <2> QED BY <2>5, <2>6
<1>7. CASE Crash
  <2>1. room' = NoRoom /\ handler' = [c \in Conn |-> IF handler[c] = "new" THEN "new" ELSE "gone"]
    BY <1>7 DEF Crash
  <2>2. Present' = {}
    BY <2>1 DEF Present
  <2> QED BY <2>1, <2>2 DEF RoomLifetime
<1>8. ASSUME NEW c \in Conn, Greet(c) \/ Leave(c) PROVE LifetimeInv'
  <2>1. room' = room
    BY <1>8 DEF Greet, Leave
  <2>2. handler' \in [Conn -> Stages] /\ Present' = Present
    BY <1>8 DEF Greet, Leave, Listening, Present
  <2> QED BY <2>1, <2>2 DEF RoomLifetime
<1>9. ASSUME UNCHANGED <<room, handler>> PROVE LifetimeInv'
  BY <1>9 DEF RoomLifetime, Present
<1>10. ASSUME NEW c \in Conn,
              SendUpdate(c) \/ Forward(c) \/ BroadcastPrune(c) \/ TaskEnds(c)
       PROVE  LifetimeInv'
  BY <1>9, <1>10 DEF SendUpdate, Forward, BroadcastPrune, TaskEnds
<1>11. CASE PersistCollect \/ DbSaveRoom \/ SaveFails \/ UNCHANGED vars
  BY <1>9, <1>11 DEF PersistCollect, DbSaveRoom, SaveFails, vars, tasks, heard
<1> QED
  BY <1>3, <1>5, <1>6, <1>7, <1>8, <1>10, <1>11 DEF Next, Deliver

\* A room lives exactly as long as a connection that has not been cleaned up,
\* whatever loads, saves, aborts, crashes and cleanups interleave (main.rs:440-462,
\* 618-627).
THEOREM RoomLives == Spec => []RoomLifetime
<1>1. Init => LifetimeInv
  BY DEF Init, LifetimeInv, RoomLifetime, Present, Stages
<1>2. LifetimeInv => RoomLifetime
  BY DEF LifetimeInv
<1> QED BY <1>1, <1>2, LifetimeStep, PTL DEF Spec
-----------------------------------------------------------------------------
(* NothingMissed is an invariant of Spec.                                  *)

PerConn(f) == f = [c \in Conn |-> f[c]]
IsSeq(s)   == \E S : s \in Seq(S)
Work(w)    == \E u, p, t : w = [update |-> u, peers |-> p, prune |-> t]

\* The variables have the structure that updating one part of them needs.
Shapes ==
    /\ PerConn(task) /\ PerConn(todo) /\ PerConn(channel)
    /\ PerConn(shown) /\ PerConn(received) /\ PerConn(overflow)
    /\ \A c \in Conn : IsSeq(channel[c]) /\ Work(todo[c])

\* A task has peers to send to only while it sends; a connection's task starts
\* once its SNAPSHOT is sent, and nothing was sent to it before it registered.
TaskInv ==
    \A c \in Conn :
        /\ task[c] # "sending" => todo[c].peers = {}
        /\ handler[c] \in {"new", "greeting"} => task[c] = "none"
        /\ handler[c] = "new" =>
            /\ shown[c] = {} /\ overflow[c] = {} /\ channel[c] = <<>> /\ received[c] = {}
            /\ \A d \in Conn : c \notin todo[d].peers

\* A store, in memory, in the database or on its way there, holds nothing that
\* was not accepted.
Sound(record) == record.live => \A e \in record.store : Accepted(e)

\* The inductive invariant for NothingMissed.
MissInv ==
    /\ LifetimeInv /\ Shapes /\ TaskInv
    /\ Sound(room) /\ Sound(db) /\ Sound(saving)
    /\ NothingMissed

\* Reaches, member by member, of the values that its variables have.
Hears(e, sh, ov, ch, td, c) ==
    \/ e \in sh \/ e \in ov
    \/ \E m \in ToSet(ch) : m.type = "UPDATE" /\ e \in m.data
    \/ \E d \in Conn : c \in td[d].peers /\ e \in td[d].update

\* What appending to and taking from a channel does to the messages in it.
LEMMA ChannelContents ==
    ASSUME NEW s, IsSeq(s), NEW m
    PROVE  /\ IsSeq(Append(s, m)) /\ ToSet(Append(s, m)) = ToSet(s) \cup {m}
           /\ s # <<>> => IsSeq(Tail(s)) /\ ToSet(s) = ToSet(Tail(s)) \cup {Head(s)}
<1>1. PICK S : s \in Seq(S)
  BY DEF IsSeq
<1>2. s \in Seq(S \cup {m}) /\ Len(s) \in Nat /\ DOMAIN s = 1..Len(s)
  BY <1>1
<1> DEFINE a == Append(s, m)
<1>3. /\ a \in Seq(S \cup {m}) /\ DOMAIN a = 1..(Len(s) + 1)
      /\ \A i \in 1..Len(s) : a[i] = s[i]
      /\ a[Len(s) + 1] = m
  BY <1>2
<1>4. ToSet(a) = ToSet(s) \cup {m}
  <2> HIDE DEF a
  <2>1. ASSUME NEW x \in ToSet(a) PROVE x \in ToSet(s) \cup {m}
    <3>1. PICK i \in 1..(Len(s) + 1) : x = a[i]
      BY <2>1, <1>3 DEF ToSet
    <3>2. i \in 1..Len(s) \/ i = Len(s) + 1
      BY <1>2, <3>1
    <3> QED BY <1>2, <1>3, <3>1, <3>2 DEF ToSet
  <2>2. m \in ToSet(a)
    <3>1. Len(s) + 1 \in DOMAIN a
      BY <1>2, <1>3
    <3> QED BY <3>1, <1>3 DEF ToSet
  <2>3. ASSUME NEW x \in ToSet(s) PROVE x \in ToSet(a)
    <3>1. PICK i \in 1..Len(s) : x = s[i]
      BY <2>3, <1>2 DEF ToSet
    <3>2. i \in DOMAIN a /\ a[i] = x
      BY <3>1, <1>2, <1>3
    <3> QED BY <3>2 DEF ToSet
  <2> QED BY <2>1, <2>2, <2>3
<1>5. ASSUME s # <<>> PROVE Tail(s) \in Seq(S) /\ ToSet(s) = ToSet(Tail(s)) \cup {Head(s)}
  <2> DEFINE t == Tail(s)
  <2>1. /\ t \in Seq(S) /\ Len(s) > 0 /\ DOMAIN t = 1..(Len(s) - 1)
        /\ \A i \in 1..(Len(s) - 1) : t[i] = s[i + 1]
        /\ Head(s) = s[1]
    BY <1>1, <1>5
  <2> HIDE DEF t
  <2>2. ASSUME NEW x \in ToSet(s) PROVE x \in ToSet(t) \cup {Head(s)}
    <3>1. PICK i \in 1..Len(s) : x = s[i]
      BY <2>2, <1>2 DEF ToSet
    <3>2. CASE i = 1
      BY <3>1, <3>2, <2>1
    <3>3. CASE i # 1
      <4>1. i - 1 \in 1..(Len(s) - 1) /\ (i - 1) + 1 = i
        BY <3>1, <3>3, <1>2
      <4>2. t[i - 1] = x
        BY <4>1, <3>1, <2>1
      <4> QED BY <4>1, <4>2, <2>1 DEF ToSet
    <3> QED BY <3>2, <3>3
  <2>3. ASSUME NEW x \in ToSet(t) PROVE x \in ToSet(s)
    <3>1. PICK i \in 1..(Len(s) - 1) : x = t[i]
      BY <2>3, <2>1 DEF ToSet
    <3>2. i + 1 \in DOMAIN s /\ s[i + 1] = x
      BY <3>1, <1>2, <2>1
    <3> QED BY <3>2 DEF ToSet
  <2>4. Head(s) \in ToSet(s)
    <3>1. 1 \in DOMAIN s
      BY <1>2, <2>1
    <3> QED BY <3>1, <2>1 DEF ToSet
  <2>5. ToSet(s) = ToSet(t) \cup {Head(s)}
    BY <2>2, <2>3, <2>4
  <2> QED BY <2>1, <2>5 DEF t
<1> QED BY <1>3, <1>4, <1>5 DEF IsSeq
\* Every action keeps the inductive invariant of NothingMissed.
LEMMA MissStep == MissInv /\ [Next]_vars => MissInv'
<1> SUFFICES ASSUME MissInv, [Next]_vars PROVE MissInv'
  OBVIOUS
<1> DEFINE
      Owed(rm, e, sh, ov, ch, td, re, c) ==
          e \in rm.store <=> Accepted(e) /\ (Hears(e, sh, ov, ch, td, c) \/ e \in re)
      Served == \A c \in Listening : \A e :
          Owed(room, e, shown[c], overflow[c], channel[c], todo, received[c], c)
      Rest == /\ Shapes /\ TaskInv /\ Sound(room) /\ Sound(db) /\ Sound(saving) /\ Served
<1>1. LifetimeInv /\ LifetimeInv'
  BY LifetimeStep DEF MissInv
<1>2. ASSUME NEW c, NEW e
      PROVE  e \in Reaches(c) <=> Hears(e, shown[c], overflow[c], channel[c], todo, c)
  <2> DEFINE Queued == UNION {m.data : m \in {x \in ToSet(channel[c]) : x.type = "UPDATE"}}
             Coming == UNION {todo[d].update : d \in {x \in Conn : c \in todo[x].peers}}
  <2>1. e \in Queued <=> \E m \in ToSet(channel[c]) : m.type = "UPDATE" /\ e \in m.data
    OBVIOUS
  <2>2. e \in Coming <=> \E d \in Conn : c \in todo[d].peers /\ e \in todo[d].update
    OBVIOUS
  <2>3. Reaches(c) = shown[c] \cup overflow[c] \cup Queued \cup Coming
    BY DEF Reaches
  <2> HIDE DEF Queued, Coming
  <2> QED BY <2>1, <2>2, <2>3 DEF Hears
<1>3. ASSUME NEW c, NEW e
      PROVE  e \in Reaches(c)' <=> Hears(e, shown'[c], overflow'[c], channel'[c], todo', c)
  <2> DEFINE Queued == UNION {m.data : m \in {x \in ToSet(channel'[c]) : x.type = "UPDATE"}}
             Coming == UNION {todo'[d].update : d \in {x \in Conn : c \in todo'[x].peers}}
  <2>1. e \in Queued <=> \E m \in ToSet(channel'[c]) : m.type = "UPDATE" /\ e \in m.data
    OBVIOUS
  <2>2. e \in Coming <=> \E d \in Conn : c \in todo'[d].peers /\ e \in todo'[d].update
    OBVIOUS
  <2>3. Reaches(c)' = shown'[c] \cup overflow'[c] \cup Queued \cup Coming
    BY DEF Reaches
  <2> HIDE DEF Queued, Coming
  <2> QED BY <2>1, <2>2, <2>3 DEF Hears
<1>4. Rest
  BY <1>2 DEF MissInv, NothingMissed
<1>5. Rest' => MissInv'
  BY <1>1, <1>3 DEF MissInv, NothingMissed
<1>6. /\ NoRoom.live = FALSE /\ NoRecord.live = FALSE
      /\ \A S : Record(S).live = TRUE /\ Record(S).store = S
  BY DEF NoRoom, NoRecord, Record
<1>7. /\ \A c \in Listening : room.live
      /\ room.live => LiveRoom(room) /\ room.clients = Present
      /\ handler \in [Conn -> Stages]
  BY <1>1, <1>6 DEF LifetimeInv, RoomLifetime, Listening, Present
<1> HIDE DEF Owed
<1>8. ASSUME NEW c \in Conn, Register(c) PROVE Rest'
  <2>1. /\ handler[c] = "new" /\ handler' = [handler EXCEPT ![c] = "greeting"]
        /\ shown' = [shown EXCEPT ![c] = room'.store]
        /\ UNCHANGED <<task, todo, channel, db, saving, received, overflow>>
    BY <1>8 DEF Register, durable, heard
  <2>2. Listening' = Listening \cup {c} /\ c \notin Listening
    BY <1>7, <2>1 DEF Listening, Stages
  <2>3. /\ room.live => room'.store = room.store
        /\ room'.live => \A e \in room'.store : Accepted(e)
    <3>1. CASE room.live
      BY <1>4, <1>7, <1>8, <3>1, AddClientAdds DEF Register, Sound
    <3>2. CASE ~room.live
      <4>1. PICK record \in TryLoadRoomFromDb : room' = AddClient(NewRoom(RestoredFrom(record)), c)
        BY <1>8, <3>2 DEF Register
      <4>2. \A e \in RestoredFrom(record) : Accepted(e)
        BY <1>4, <1>6 DEF TryLoadRoomFromDb, DbLoadRoom, RestoredFrom, Sound
      <4> DEFINE empty == NewRoom(RestoredFrom(record))
      <4>3. LiveRoom(empty) /\ empty.store = RestoredFrom(record)
        BY DEF NewRoom, LiveRoom
      <4> HIDE DEF empty
      <4>4. room'.store = empty.store
        BY <4>1, <4>3, AddClientAdds DEF empty
      <4> QED BY <3>2, <4>2, <4>3, <4>4
    <3> QED BY <3>1, <3>2
  <2>4. Shapes'
    BY <1>4, <2>1 DEF Shapes, PerConn
  <2>5. TaskInv'
    BY <1>4, <1>7, <2>1 DEF TaskInv, Shapes, PerConn, Stages
  <2>6. Sound(room)' /\ Sound(db)' /\ Sound(saving)'
    BY <1>4, <2>1, <2>3 DEF Sound
  <2>7. ASSUME NEW d \in Listening', NEW e
        PROVE  Owed(room', e, shown'[d], overflow'[d], channel'[d], todo', received'[d], d)
    <3>1. CASE d = c
      <4>1. /\ overflow[c] = {} /\ channel[c] = <<>> /\ received[c] = {}
            /\ \A x \in Conn : c \notin todo[x].peers
        BY <1>4, <2>1 DEF TaskInv
      <4>2. shown'[c] = room'.store
        BY <1>4, <2>1 DEF Shapes, PerConn
      <4>3. ToSet(channel[c]) = {}
        BY <4>1 DEF ToSet
      <4>4. room'.live
        BY <1>1, <2>1, <1>7 DEF LifetimeInv, RoomLifetime, Present, Stages
      <4> QED BY <2>1, <2>3, <3>1, <4>1, <4>2, <4>3, <4>4 DEF Owed, Hears
    <3>2. CASE d # c
      <4>1. d \in Listening /\ shown'[d] = shown[d]
        BY <1>4, <2>1, <2>2, <2>7, <3>2 DEF Shapes, PerConn, Listening
      <4>2. room'.store = room.store
        BY <1>7, <2>3, <4>1
      <4>3. Owed(room, e, shown[d], overflow[d], channel[d], todo, received[d], d)
        BY <1>4, <4>1
      <4> QED BY <2>1, <4>1, <4>2, <4>3 DEF Owed
    <3> QED BY <3>1, <3>2
  <2> QED BY <2>4, <2>5, <2>6, <2>7
<1>9. ASSUME NEW c \in Conn, Greet(c) PROVE Rest'
  <2>1. /\ handler[c] = "greeting" /\ handler' = [handler EXCEPT ![c] = "serving"]
        /\ task' = [task EXCEPT ![c] = "reading"]
        /\ UNCHANGED <<room, todo, channel, shown, db, saving, received, overflow>>
    BY <1>9 DEF Greet, durable, heard
  <2>2. Listening' = Listening
    BY <1>7, <2>1 DEF Listening, Stages
  <2>3. Shapes'
    BY <1>4, <2>1 DEF Shapes, PerConn
  <2>4. TaskInv'
    BY <1>4, <1>7, <2>1 DEF TaskInv, Shapes, PerConn, Stages
  <2>5. Served'
    BY <1>4, <2>1, <2>2
  <2> QED BY <1>4, <2>1, <2>3, <2>4, <2>5 DEF Sound
<1>10. ASSUME NEW c \in Conn, NEW batch, Receive(c, batch) PROVE Rest'
  <2>1. /\ task[c] = "reading"
        /\ UNCHANGED <<handler, channel, shown, db, saving, overflow>>
    BY <1>10 DEF Receive, durable, heard
  <2>2. Listening' = Listening /\ todo[c].peers = {} /\ handler[c] \notin {"new", "greeting"}
    BY <1>4, <2>1 DEF Listening, TaskInv
  <2>3. CASE ~room.live
    <3>1. /\ task' = [task EXCEPT ![c] = "ended"] /\ received' = [received EXCEPT ![c] = {}]
          /\ UNCHANGED <<room, todo>>
      BY <1>10, <2>3 DEF Receive
    <3>2. Listening' = {}
      BY <1>7, <2>2, <2>3
    <3>3. Shapes'
      BY <1>4, <2>1, <3>1 DEF Shapes, PerConn
    <3>4. TaskInv'
      BY <1>4, <2>1, <2>2, <3>1 DEF TaskInv, Shapes, PerConn
    <3> QED BY <1>4, <2>1, <3>1, <3>2, <3>3, <3>4 DEF Sound
  <2>4. CASE room.live
    <3> DEFINE rm == AfterBatch(room, c, batch)
               work == [update |-> batch, peers |-> Peers(rm, c), prune |-> PruneTs(rm)]
               next == IF Stage(work) = "reading" THEN Idle ELSE work
    <3>1. /\ room' = AfterPrune(rm) /\ todo' = [todo EXCEPT ![c] = next]
          /\ task' = [task EXCEPT ![c] = Stage(work)]
          /\ received' = [received EXCEPT ![c] = @ \cup batch]
      BY <1>10, <2>4 DEF Receive
    <3>2. room'.store = room.store \cup {e \in batch : Accepted(e)}
      BY <1>7, <2>4, <3>1, BatchKeepsClients
    <3>3. rm.clients = Present
      <4>1. PICK store, clients, clocks, tombstones, watermark :
              room = [live |-> TRUE, store |-> store, clients |-> clients, clientClocks |-> clocks,
                      tombstones |-> tombstones, highWatermark |-> watermark]
        BY <1>7, <2>4 DEF LiveRoom
      <4>2. \E s, t, k, w : rm = [room EXCEPT !.store = s, !.tombstones = t,
                                              !.clientClocks = k, !.highWatermark = w]
        BY DEF AfterBatch
      <4> HIDE DEF rm
      <4> QED BY <1>7, <2>4, <4>1, <4>2
    <3>4. /\ work.update = batch /\ work.peers = Present \ {c}
          /\ Stage(work) = "reading" => work.peers = {}
          /\ Stage(work) # "sending" => work.peers = {}
      BY <3>3 DEF Peers, Stage
    <3>5. Work(next)
      BY DEF Work, Idle
    <3>6. /\ next.peers = Present \ {c}
          /\ next.peers # {} => next.update = batch
          /\ Stage(work) # "sending" => next.peers = {}
      BY <3>4 DEF Idle
    <3> DEFINE stage == Stage(work)
    <3> HIDE DEF rm, work, next, stage
    <3>7. /\ task' = [task EXCEPT ![c] = stage]
          /\ stage # "sending" => next.peers = {}
      BY <3>1, <3>6 DEF stage
    <3>8. Shapes'
      BY <1>4, <2>1, <3>1, <3>5, <3>7 DEF Shapes, PerConn
    <3>9. todo'[c] = next /\ \A x \in Conn : x # c => todo'[x] = todo[x]
      BY <1>4, <3>1 DEF Shapes, PerConn
    <3>10. TaskInv'
      <4>1. \A d \in Conn : handler[d] = "new" => d \notin Present
        BY DEF Present
      <4>2. \A d \in Conn : d # c => task'[d] = task[d] /\ received'[d] = received[d]
        BY <1>4, <3>1, <3>7 DEF Shapes, PerConn
      <4>3. task'[c] = stage
        <5>1. task = [x \in Conn |-> task[x]]
          BY <1>4 DEF Shapes, PerConn
        <5> QED BY <3>7, <5>1
      <4> QED BY <1>4, <2>1, <2>2, <3>6, <3>7, <3>9, <4>1, <4>2, <4>3 DEF TaskInv
    <3>11. Sound(room)' /\ Sound(db)' /\ Sound(saving)'
      BY <1>4, <2>1, <2>4, <3>2 DEF Sound
    <3>12. ASSUME NEW d \in Listening', NEW e
           PROVE  Owed(room', e, shown'[d], overflow'[d], channel'[d], todo', received'[d], d)
      <4>1. Owed(room, e, shown[d], overflow[d], channel[d], todo, received[d], d)
        BY <1>4, <2>2, <3>12
      <4>2. d \in Present /\ d \in Conn
        BY <2>2, <3>12 DEF Listening, Present
      <4>3. CASE d = c
        <5>1. received'[c] = received[c] \cup batch
          BY <1>4, <3>1 DEF Shapes, PerConn
        <5>2. \A x \in Conn : c \in todo'[x].peers <=> x # c /\ c \in todo[x].peers
          BY <2>2, <3>6, <3>9
        <5>3. Hears(e, shown'[c], overflow'[c], channel'[c], todo', c)
                <=> Hears(e, shown[c], overflow[c], channel[c], todo, c)
          BY <2>1, <2>2, <3>9, <5>2 DEF Hears
        <5> QED BY <3>2, <4>1, <4>3, <5>1, <5>3 DEF Owed
      <4>4. CASE d # c
        <5>1. received'[d] = received[d]
          BY <1>4, <3>1, <4>2, <4>4 DEF Shapes, PerConn
        <5>2. d \in todo'[c].peers /\ todo'[c].update = batch
          BY <3>6, <3>9, <4>2, <4>4
        <5>3. Hears(e, shown'[d], overflow'[d], channel'[d], todo', d)
                <=> Hears(e, shown[d], overflow[d], channel[d], todo, d) \/ e \in batch
          BY <2>1, <2>2, <3>9, <5>2 DEF Hears
        <5> QED BY <3>2, <4>1, <5>1, <5>3 DEF Owed
      <4> QED BY <4>3, <4>4
    <3> QED BY <3>8, <3>10, <3>11, <3>12
  <2> QED BY <2>3, <2>4
<1>11. ASSUME NEW c \in Conn, ClientSends(c) PROVE Rest'
  <2>1. PICK batch : Receive(c, batch)
    BY <1>11 DEF ClientSends
  <2> QED BY <2>1, <1>10
<1>12. ASSUME NEW c \in Conn, SendUpdate(c) PROVE Rest'
  <2>1. /\ task[c] = "sending"
        /\ UNCHANGED <<room, handler, shown, db, saving, received>>
    BY <1>12 DEF SendUpdate, durable, heard
  <2>2. PICK p \in todo[c].peers :
          LET left == [todo[c] EXCEPT !.peers = @ \ {p}]
          IN  /\ TrySend({p}, UpdateMessage(todo[c].update), todo[c].update)
              /\ todo' = [todo EXCEPT ![c] = IF Stage(left) = "reading" THEN Idle ELSE left]
              /\ task' = [task EXCEPT ![c] = Stage(left)]
    BY <1>12 DEF SendUpdate
  <2> DEFINE left == [todo[c] EXCEPT !.peers = @ \ {p}]
             next == IF Stage(left) = "reading" THEN Idle ELSE left
             stage == Stage(left)
             u == todo[c].update
             m == UpdateMessage(u)
  <2>3. todo' = [todo EXCEPT ![c] = next] /\ task' = [task EXCEPT ![c] = stage]
    BY <2>2
  <2>4. Work(left) /\ left.peers = todo[c].peers \ {p} /\ left.update = u
    <3>1. PICK x, y, z : todo[c] = [update |-> x, peers |-> y, prune |-> z]
      BY <1>4 DEF Shapes, Work
    <3>2. left = [update |-> x, peers |-> y \ {p}, prune |-> z]
      BY <3>1
    <3>3. u = x /\ todo[c].peers = y
      BY <3>1
    <3> HIDE DEF left, u
    <3> QED BY <3>2, <3>3 DEF Work
  <2>5. /\ Work(next) /\ next.peers = todo[c].peers \ {p}
        /\ next.peers # {} => next.update = u
        /\ stage # "sending" => next.peers = {}
    <3> HIDE DEF left
    <3> QED BY <2>4 DEF Stage, Idle, Work
  <2>6. \A d \in Conn :
          \/ /\ d = p /\ channel'[d] = Append(channel[d], m) /\ overflow'[d] = overflow[d]
          \/ /\ d = p /\ channel'[d] = channel[d] /\ overflow'[d] = overflow[d] \cup u
          \/ /\ d # p \/ d \notin Listening
             /\ channel'[d] = channel[d] /\ overflow'[d] = overflow[d]
    <3> HIDE DEF m, u
    <3> QED BY <2>2 DEF TrySend, m, u
  <2>7. PerConn(channel') /\ PerConn(overflow')
    BY <2>2 DEF TrySend, PerConn
  <2>8. m.type = "UPDATE" /\ m.data = u
    BY DEF UpdateMessage
  <2> HIDE DEF next, stage, m, u, left
  <2>9. Listening' = Listening
    BY <2>1 DEF Listening
  <2>10. /\ todo'[c] = next /\ task'[c] = stage
         /\ \A x \in Conn : x # c => todo'[x] = todo[x] /\ task'[x] = task[x]
    BY <1>4, <2>3 DEF Shapes, PerConn
  <2>11. \A d \in Conn :
           /\ IsSeq(channel[d]) /\ IsSeq(Append(channel[d], m))
           /\ ToSet(Append(channel[d], m)) = ToSet(channel[d]) \cup {m}
    BY <1>4, ChannelContents DEF Shapes
  <2>12. Shapes'
    <3>1. PerConn(task') /\ PerConn(todo') /\ PerConn(shown') /\ PerConn(received')
      BY <1>4, <2>1, <2>3 DEF Shapes, PerConn
    <3>2. \A x \in Conn : IsSeq(channel'[x])
      BY <2>6, <2>11
    <3>3. \A x \in Conn : Work(todo'[x])
      BY <1>4, <2>5, <2>10 DEF Shapes
    <3> QED BY <2>7, <3>1, <3>2, <3>3 DEF Shapes
  <2>13. TaskInv'
    <3>1. handler[p] # "new" \/ p \notin Conn
      BY <1>4 DEF TaskInv
    <3>2. handler[c] \notin {"new", "greeting"}
      BY <1>4, <2>1 DEF TaskInv
    <3>3. \A d \in Conn : handler[d] = "new" => channel'[d] = channel[d] /\ overflow'[d] = overflow[d]
      BY <2>6, <3>1
    <3> QED BY <1>4, <2>1, <2>5, <2>10, <3>2, <3>3 DEF TaskInv
  <2>14. ASSUME NEW d \in Listening', NEW e
         PROVE  Owed(room', e, shown'[d], overflow'[d], channel'[d], todo', received'[d], d)
    <3>1. Owed(room, e, shown[d], overflow[d], channel[d], todo, received[d], d)
      BY <1>4, <2>9, <2>14
    <3>2. d \in Conn /\ d \in Listening
      BY <2>9, <2>14 DEF Listening
    <3>3. CASE d = p
      <4>1. \A x \in Conn : d \in todo'[x].peers <=> x # c /\ d \in todo[x].peers
        BY <2>5, <2>10, <3>3
      <4>2. d \in todo[c].peers
        BY <3>3
      <4>3. (e \in overflow'[d] \/ \E x \in ToSet(channel'[d]) : x.type = "UPDATE" /\ e \in x.data)
              <=> \/ e \in overflow[d] \/ e \in u
                  \/ \E x \in ToSet(channel[d]) : x.type = "UPDATE" /\ e \in x.data
        BY <2>6, <2>8, <2>11, <3>2, <3>3
      <4>4. (\E x \in Conn : d \in todo[x].peers /\ e \in todo[x].update)
              <=> \/ e \in u
                  \/ \E x \in Conn : d \in todo'[x].peers /\ e \in todo'[x].update
        BY <2>10, <4>1, <4>2 DEF u
      <4> QED BY <2>1, <3>1, <4>3, <4>4 DEF Owed, Hears
    <3>4. CASE d # p
      <4>1. channel'[d] = channel[d] /\ overflow'[d] = overflow[d]
        BY <2>6, <3>2, <3>4
      <4>2. \A x \in Conn : /\ d \in todo'[x].peers <=> d \in todo[x].peers
                            /\ d \in todo[x].peers => todo'[x].update = todo[x].update
        BY <2>5, <2>10, <3>4 DEF u
      <4> QED BY <2>1, <3>1, <4>1, <4>2 DEF Owed, Hears
    <3> QED BY <3>3, <3>4
  <2> QED BY <1>4, <2>1, <2>12, <2>13, <2>14 DEF Sound
<1>13. ASSUME NEW c \in Conn, BroadcastPrune(c) PROVE Rest'
  <2> DEFINE m == Prune(todo[c].prune)
  <2>1. /\ task[c] = "pruning" /\ task' = [task EXCEPT ![c] = "reading"]
        /\ todo' = [todo EXCEPT ![c] = Idle]
        /\ UNCHANGED <<room, handler, shown, db, saving, received>>
    BY <1>13 DEF BroadcastPrune, durable, heard
  <2>2. TrySend(IF room.live THEN room.clients ELSE {}, m, {})
    BY <1>13 DEF BroadcastPrune
  <2>3. m.type = "PRUNE"
    BY DEF Prune
  <2> HIDE DEF m
  <2>4. /\ PerConn(channel') /\ PerConn(overflow')
        /\ \A d \in Conn : /\ overflow'[d] = overflow[d]
                           /\ \/ channel'[d] = channel[d]
                              \/ d \in Listening /\ channel'[d] = Append(channel[d], m)
    BY <2>2 DEF TrySend, PerConn
  <2>5. \A d \in Conn :
          /\ IsSeq(channel[d]) /\ IsSeq(Append(channel[d], m))
          /\ ToSet(Append(channel[d], m)) = ToSet(channel[d]) \cup {m}
    BY <1>4, ChannelContents DEF Shapes
  <2>6. /\ todo[c].peers = {} /\ todo'[c] = Idle /\ task'[c] = "reading"
        /\ \A x \in Conn : x # c => todo'[x] = todo[x] /\ task'[x] = task[x]
    BY <1>4, <2>1 DEF TaskInv, Shapes, PerConn
  <2>7. Work(Idle) /\ Idle.peers = {}
    BY DEF Work, Idle
  <2>8. Shapes'
    <3>1. PerConn(task') /\ PerConn(todo') /\ PerConn(shown') /\ PerConn(received')
      BY <1>4, <2>1 DEF Shapes, PerConn
    <3>2. \A x \in Conn : IsSeq(channel'[x]) /\ Work(todo'[x])
      BY <1>4, <2>4, <2>5, <2>6, <2>7 DEF Shapes
    <3> QED BY <2>4, <3>1, <3>2 DEF Shapes
  <2>9. TaskInv'
    <3>1. \A d \in Conn : handler[d] = "new" => channel'[d] = channel[d]
      BY <2>4 DEF Listening
    <3> QED BY <1>4, <2>1, <2>4, <2>6, <2>7, <3>1 DEF TaskInv
  <2>10. ASSUME NEW d \in Listening', NEW e
         PROVE  Owed(room', e, shown'[d], overflow'[d], channel'[d], todo', received'[d], d)
    <3>1. d \in Conn /\ Owed(room, e, shown[d], overflow[d], channel[d], todo, received[d], d)
      BY <1>4, <2>1, <2>10 DEF Listening
    <3>2. (\E x \in ToSet(channel'[d]) : x.type = "UPDATE" /\ e \in x.data)
            <=> (\E x \in ToSet(channel[d]) : x.type = "UPDATE" /\ e \in x.data)
      BY <2>3, <2>4, <2>5, <3>1
    <3>3. (\E x \in Conn : d \in todo'[x].peers /\ e \in todo'[x].update)
            <=> (\E x \in Conn : d \in todo[x].peers /\ e \in todo[x].update)
      BY <2>6, <2>7
    <3> QED BY <2>1, <2>4, <3>1, <3>2, <3>3 DEF Owed, Hears
  <2> QED BY <1>4, <2>1, <2>8, <2>9, <2>10 DEF Sound
<1>14. ASSUME NEW c \in Conn, Forward(c) PROVE Rest'
  <2> DEFINE m == Head(channel[c])
             said == IF m.type = "UPDATE" THEN shown[c] \cup m.data ELSE shown[c]
  <2>1. /\ handler[c] = "serving" /\ channel[c] # <<>>
        /\ channel' = [channel EXCEPT ![c] = Tail(@)]
        /\ UNCHANGED <<room, handler, task, todo, db, saving, received, overflow>>
    BY <1>14 DEF Forward, durable, heard
  <2>2. shown' = [shown EXCEPT ![c] = said]
    BY <1>14 DEF Forward
  <2>3. /\ channel'[c] = Tail(channel[c]) /\ shown'[c] = said
        /\ \A d \in Conn : d # c => channel'[d] = channel[d] /\ shown'[d] = shown[d]
    BY <1>4, <2>1, <2>2 DEF Shapes, PerConn
  <2>4. IsSeq(Tail(channel[c])) /\ ToSet(channel[c]) = ToSet(Tail(channel[c])) \cup {m}
    BY <1>4, <2>1, ChannelContents DEF Shapes
  <2>5. Shapes'
    <3>1. PerConn(channel') /\ PerConn(shown')
      BY <1>4, <2>1, <2>2 DEF Shapes, PerConn
    <3>2. \A x \in Conn : IsSeq(channel'[x])
      BY <1>4, <2>3, <2>4 DEF Shapes
    <3> QED BY <1>4, <2>1, <3>1, <3>2 DEF Shapes, PerConn
  <2>6. TaskInv'
    BY <1>4, <2>1, <2>3 DEF TaskInv
  <2>7. ASSUME NEW d \in Listening', NEW e
        PROVE  Owed(room', e, shown'[d], overflow'[d], channel'[d], todo', received'[d], d)
    <3>1. d \in Conn /\ Owed(room, e, shown[d], overflow[d], channel[d], todo, received[d], d)
      BY <1>4, <2>1, <2>7 DEF Listening
    <3>2. CASE d = c
      <4>1. (e \in shown'[c] \/ \E x \in ToSet(channel'[c]) : x.type = "UPDATE" /\ e \in x.data)
              <=> (e \in shown[c] \/ \E x \in ToSet(channel[c]) : x.type = "UPDATE" /\ e \in x.data)
        <5> HIDE DEF m
        <5> QED BY <2>3, <2>4
      <4> QED BY <2>1, <3>1, <3>2, <4>1 DEF Owed, Hears
    <3>3. CASE d # c
      BY <2>1, <2>3, <3>1, <3>3 DEF Owed, Hears
    <3> QED BY <3>2, <3>3
  <2> QED BY <1>4, <2>1, <2>5, <2>6, <2>7 DEF Sound
<1>15. ASSUME NEW c \in Conn, Leave(c) PROVE Rest'
  <2>1. /\ c \in Listening /\ handler' = [handler EXCEPT ![c] = "leaving"]
        /\ channel' = [channel EXCEPT ![c] = <<>>] /\ shown' = [shown EXCEPT ![c] = {}]
        /\ overflow' = [overflow EXCEPT ![c] = {}]
        /\ UNCHANGED <<room, task, todo, db, saving, received>>
    BY <1>15 DEF Leave, durable, heard
  <2>2. Listening' = Listening \ {c}
    BY <1>7, <2>1 DEF Listening, Stages
  <2>3. \A d \in Conn : d # c => /\ channel'[d] = channel[d] /\ shown'[d] = shown[d]
                                 /\ overflow'[d] = overflow[d] /\ handler'[d] = handler[d]
    BY <1>4, <1>7, <2>1 DEF Shapes, PerConn, Stages
  <2>4. IsSeq(<<>>) /\ channel'[c] = <<>> /\ handler'[c] = "leaving"
    <3>1. <<>> \in Seq({})
      OBVIOUS
    <3> QED BY <1>4, <1>7, <2>1, <3>1 DEF Shapes, PerConn, Stages, IsSeq
  <2>5. Shapes'
    <3>1. PerConn(channel') /\ PerConn(shown') /\ PerConn(overflow')
      BY <1>4, <2>1 DEF Shapes, PerConn
    <3>2. \A x \in Conn : IsSeq(channel'[x])
      BY <1>4, <2>3, <2>4 DEF Shapes
    <3> QED BY <1>4, <2>1, <3>1, <3>2 DEF Shapes, PerConn
  <2>6. TaskInv'
    BY <1>4, <2>1, <2>3, <2>4 DEF TaskInv
  <2>7. Served'
    <3>1. ASSUME NEW d \in Listening', NEW e
          PROVE  Owed(room', e, shown'[d], overflow'[d], channel'[d], todo', received'[d], d)
      <4>1. d \in Conn /\ d # c
        BY <2>2, <3>1 DEF Listening
      <4> QED BY <1>4, <2>1, <2>2, <2>3, <3>1, <4>1
    <3> QED BY <3>1
  <2> QED BY <1>4, <2>1, <2>5, <2>6, <2>7 DEF Sound
<1>16. ASSUME NEW c \in Conn, TaskEnds(c) PROVE Rest'
  <2>1. /\ handler[c] \in {"leaving", "gone"} /\ task[c] \in {"reading", "pruning"}
        /\ task' = [task EXCEPT ![c] = "ended"] /\ todo' = [todo EXCEPT ![c] = Idle]
        /\ UNCHANGED <<room, handler, channel, shown, db, saving, overflow>>
    BY <1>16 DEF TaskEnds, durable, heard
  <2>2. /\ PerConn(received')
        /\ \A d \in Conn : received'[d] = received[d] \/ (d = c /\ received'[d] = {})
    BY <1>4, <1>16 DEF TaskEnds, Shapes, PerConn
  <2>3. /\ todo[c].peers = {} /\ todo'[c] = Idle /\ task'[c] = "ended"
        /\ \A x \in Conn : x # c => todo'[x] = todo[x] /\ task'[x] = task[x]
    BY <1>4, <2>1 DEF TaskInv, Shapes, PerConn
  <2>4. Work(Idle) /\ Idle.peers = {}
    BY DEF Work, Idle
  <2>5. Shapes'
    <3>1. PerConn(task') /\ PerConn(todo')
      BY <1>4, <2>1 DEF Shapes, PerConn
    <3>2. \A x \in Conn : Work(todo'[x])
      BY <1>4, <2>3, <2>4 DEF Shapes
    <3> QED BY <1>4, <2>1, <2>2, <3>1, <3>2 DEF Shapes, PerConn
  <2>6. TaskInv'
    BY <1>4, <2>1, <2>2, <2>3, <2>4 DEF TaskInv
  <2>7. ASSUME NEW d \in Listening', NEW e
        PROVE  Owed(room', e, shown'[d], overflow'[d], channel'[d], todo', received'[d], d)
    <3>1. d \in Conn /\ d # c /\ Owed(room, e, shown[d], overflow[d], channel[d], todo, received[d], d)
      BY <1>4, <2>1, <2>7 DEF Listening
    <3>2. (\E x \in Conn : d \in todo'[x].peers /\ e \in todo'[x].update)
            <=> (\E x \in Conn : d \in todo[x].peers /\ e \in todo[x].update)
      BY <2>3, <2>4
    <3> QED BY <2>1, <2>2, <3>1, <3>2 DEF Owed, Hears
  <2> QED BY <1>4, <2>1, <2>5, <2>6, <2>7 DEF Sound
<1>17. ASSUME NEW c \in Conn, Cleanup(c) PROVE Rest'
  <2>1. /\ handler[c] = "leaving" /\ handler' = [handler EXCEPT ![c] = "gone"]
        /\ room' = IF room.live THEN WithoutClient(room, c) ELSE room
        /\ UNCHANGED <<task, todo, channel, shown, db, saving, overflow>>
    BY <1>17 DEF Cleanup, durable, heard
  <2>2. /\ PerConn(received')
        /\ \A d \in Conn : received'[d] = received[d] \/ (d = c /\ received'[d] = {})
    BY <1>4, <1>17 DEF Cleanup, Shapes, PerConn
  <2>3. Listening' = Listening /\ c \notin Listening
    BY <1>7, <2>1 DEF Listening, Stages
  <2>4. room' = NoRoom \/ (room'.store = room.store /\ room.live)
    <3>1. CASE room.live
      <4>1. PICK store, clients, clocks, tombstones, watermark :
              room = [live |-> TRUE, store |-> store, clients |-> clients, clientClocks |-> clocks,
                      tombstones |-> tombstones, highWatermark |-> watermark]
        BY <1>7, <3>1 DEF LiveRoom
      <4>2. \/ room' = NoRoom
            \/ \E k, l : room' = [room EXCEPT !.clients = k, !.clientClocks = l]
        BY <2>1, <3>1 DEF WithoutClient
      <4> QED BY <3>1, <4>1, <4>2
    <3>2. CASE ~room.live
      BY <1>1, <2>1, <3>2, <1>6 DEF LifetimeInv, LiveRoom
    <3> QED BY <3>1, <3>2
  <2>5. Listening # {} => room'.store = room.store
    <3>1. Present' # {} => room' # NoRoom
      BY <1>1, <1>6 DEF LifetimeInv, RoomLifetime
    <3>2. Listening \subseteq Present'
      BY <1>7, <2>1 DEF Listening, Present, Stages
    <3> QED BY <2>4, <3>1, <3>2
  <2>6. Sound(room)'
    BY <1>4, <1>6, <2>4 DEF Sound
  <2>7. Shapes'
    BY <1>4, <2>1, <2>2 DEF Shapes, PerConn
  <2>8. TaskInv'
    BY <1>4, <1>7, <2>1, <2>2 DEF TaskInv, Stages
  <2>9. ASSUME NEW d \in Listening', NEW e
        PROVE  Owed(room', e, shown'[d], overflow'[d], channel'[d], todo', received'[d], d)
    <3>1. d \in Conn /\ d # c /\ Owed(room, e, shown[d], overflow[d], channel[d], todo, received[d], d)
      BY <1>4, <2>3, <2>9 DEF Listening
    <3>2. room'.store = room.store /\ received'[d] = received[d]
      BY <2>2, <2>3, <2>5, <2>9, <3>1
    <3> QED BY <2>1, <3>1, <3>2 DEF Owed
  <2> QED BY <1>4, <2>1, <2>6, <2>7, <2>8, <2>9 DEF Sound
<1>18. CASE PersistCollect \/ DbSaveRoom \/ SaveFails \/ UNCHANGED vars
  <2>1. UNCHANGED <<room, handler, task, todo, channel, shown, overflow, received>>
    BY <1>18 DEF PersistCollect, DbSaveRoom, SaveFails, vars, tasks, heard
  <2>2. Sound(db)' /\ Sound(saving)'
    BY <1>4, <1>6, <1>18 DEF PersistCollect, DbSaveRoom, SaveFails, vars, durable, heard, Sound
  <2>3. Shapes' /\ TaskInv' /\ Sound(room)' /\ Served'
    BY <1>4, <2>1 DEF Shapes, TaskInv, Sound, Listening
  <2> QED BY <1>5, <2>2, <2>3
<1>19. CASE Crash
  <2>1. /\ room' = NoRoom /\ saving' = NoRecord /\ db' = db
        /\ handler' = [c \in Conn |-> IF handler[c] = "new" THEN "new" ELSE "gone"]
        /\ task' = [c \in Conn |-> IF handler[c] = "new" THEN "none" ELSE "ended"]
        /\ todo' = [c \in Conn |-> Idle] /\ channel' = [c \in Conn |-> <<>>]
        /\ shown' = [c \in Conn |-> {}] /\ overflow' = [c \in Conn |-> {}]
        /\ received' = [c \in Conn |-> {}]
    BY <1>19 DEF Crash
  <2>2. Work(Idle) /\ Idle.peers = {}
    BY DEF Work, Idle
  <2>3. IsSeq(<<>>)
    <3>1. <<>> \in Seq({})
      OBVIOUS
    <3> QED BY <3>1 DEF IsSeq
  <2>4. Shapes' /\ TaskInv'
    BY <2>1, <2>2, <2>3 DEF Shapes, TaskInv, PerConn
  <2>5. Listening' = {}
    BY <2>1 DEF Listening
  <2> QED BY <1>4, <1>5, <1>6, <2>1, <2>4, <2>5 DEF Sound
<1> QED
  BY <1>5, <1>8, <1>9, <1>11, <1>12, <1>13, <1>14, <1>15, <1>16, <1>17, <1>18, <1>19
  DEF Next, Deliver

LEMMA MissInit == Init => MissInv
<1> SUFFICES ASSUME Init PROVE MissInv
  OBVIOUS
<1>1. Work(Idle) /\ Idle.peers = {}
  BY DEF Work, Idle
<1>2. IsSeq(<<>>)
  <2>1. <<>> \in Seq({})
    OBVIOUS
  <2> QED BY <2>1 DEF IsSeq
<1>3. Shapes /\ TaskInv
  BY <1>1, <1>2 DEF Init, Shapes, TaskInv, PerConn
<1>4. NothingMissed
  BY DEF Init, NothingMissed, Listening
<1>5. LifetimeInv
  BY DEF Init, LifetimeInv, RoomLifetime, Present, Stages
<1>6. Sound(room) /\ Sound(db) /\ Sound(saving)
  BY DEF Init, Sound, NoRoom, NoRecord
<1> QED BY <1>3, <1>4, <1>5, <1>6 DEF MissInv

\* There is no gap between a client's SNAPSHOT and its UPDATEs, whoever is between
\* unlocking the room and sending (main.rs:438-470, 507-595): for any number of
\* connections, any channel capacity and any bound on the behaviour.
THEOREM NothingIsMissed == Spec => []NothingMissed
<1>1. MissInv => NothingMissed
  BY DEF MissInv
<1> QED BY <1>1, MissInit, MissStep, PTL DEF Spec
-----------------------------------------------------------------------------
(* TypeOK is an invariant, and PruneAfterEveryClient a property, of Spec.  *)

Times  == 0..MaxTimestamp
Clocks == UNION {[D -> Times] : D \in SUBSET Conn}

\* The watermark bounds the clocks and is a timestamp of the store.
WatermarkOK(rm) ==
    /\ \A d \in DOMAIN rm.clientClocks : rm.clientClocks[d] <= rm.highWatermark
    /\ rm.highWatermark = 0 \/ \E e \in rm.store : e.ts = rm.highWatermark

\* The type of a Room, part by part.
LEMMA RoomTypes ==
    /\ MaxTimestamp \in Nat /\ Times \in SUBSET Nat
    /\ \A D \in SUBSET Conn : \A f \in [D -> Times] : f \in Clocks
    /\ \A f \in Clocks : DOMAIN f \in SUBSET Conn /\ f \in [DOMAIN f -> Times]
    /\ Room = [live : {TRUE}, store : SUBSET Envelope, clients : SUBSET Conn,
               clientClocks : Clocks, tombstones : SUBSET Timestamp, highWatermark : Times]
    /\ \A s, t \in Times : Max({s, t}) \in {s, t} /\ s <= Max({s, t}) /\ t <= Max({s, t})
    /\ \A e \in Envelope : e.ts \in Timestamp /\ e.ts \in Times
    /\ NoRoom.live = FALSE
<1>1. MaxTimestamp \in Nat /\ Times \in SUBSET Nat
  BY BoundAssumption DEF Times
<1>2. \A s, t \in Times : Max({s, t}) \in {s, t} /\ s <= Max({s, t}) /\ t <= Max({s, t})
  BY <1>1, MaxIsGreatest DEF Times
<1>3. \A e \in Envelope : e.ts \in Timestamp /\ e.ts \in Times
  BY <1>1 DEF Envelope, Timestamp, Times
<1>4. /\ \A D \in SUBSET Conn : \A f \in [D -> Times] : f \in Clocks
      /\ \A f \in Clocks : DOMAIN f \in SUBSET Conn /\ f \in [DOMAIN f -> Times]
  BY DEF Clocks
<1> QED BY <1>1, <1>2, <1>3, <1>4 DEF Room, Clocks, Times, NoRoom

\* A batch raises its sender's clock to the latest timestamp accepted, or not at
\* all.
LEMMA BatchTypes ==
    ASSUME NEW rm \in Room, WatermarkOK(rm), NEW c \in Conn, NEW batch \in SUBSET Envelope
    PROVE  LET after == AfterBatch(rm, c, batch)
           IN  /\ after \in Room /\ WatermarkOK(after) /\ after.clients = rm.clients
               /\ \A d \in DOMAIN after.clientClocks :
                     \/ d \in DOMAIN rm.clientClocks /\ after.clientClocks[d] = rm.clientClocks[d]
                     \/ d = c /\ after.clientClocks[d] = 0
                     \/ d = c /\ \E e \in batch : Accepted(e) /\ e.ts = after.clientClocks[d]
<1> DEFINE accepted == {e \in batch : Accepted(e)}
           old == IF c \in DOMAIN rm.clientClocks THEN rm.clientClocks[c] ELSE 0
           stamps == {0} \cup {e.ts : e \in accepted}
           maxTs == Max(stamps)
           store == rm.store \cup accepted
           tombs == rm.tombstones \cup {e.ts : e \in {x \in accepted : x.deletes}}
           clock == Max({old, maxTs})
           clocks == IF maxTs = 0 THEN rm.clientClocks ELSE WithClock(rm.clientClocks, c, clock)
           mark == Max({rm.highWatermark, maxTs})
           after == AfterBatch(rm, c, batch)
<1>1. after = [rm EXCEPT !.store = store, !.tombstones = tombs, !.clientClocks = clocks,
                         !.highWatermark = mark]
  BY DEF AfterBatch
<1>2. /\ rm.store \in SUBSET Envelope /\ rm.tombstones \in SUBSET Timestamp
      /\ rm.clientClocks \in Clocks /\ rm.highWatermark \in Times
  BY RoomTypes
<1>3. /\ DOMAIN rm.clientClocks \in SUBSET Conn
      /\ rm.clientClocks \in [DOMAIN rm.clientClocks -> Times]
      /\ 0 \in Times
  BY <1>2, RoomTypes DEF Times
<1>4. /\ maxTs \in Times /\ maxTs \in stamps
      /\ maxTs # 0 => \E e \in accepted : e.ts = maxTs
  <2>1. stamps \in SUBSET (0..MaxTimestamp) /\ stamps # {}
    BY <1>3, RoomTypes DEF Times
  <2>2. maxTs \in stamps
    BY <2>1, RoomTypes, MaxIsGreatest
  <2> HIDE DEF maxTs
  <2> QED BY <2>1, <2>2 DEF Times
<1> HIDE DEF stamps, maxTs
<1>5. old \in Times
  BY <1>3
<1> HIDE DEF old
<1>6. /\ clock \in {old, maxTs} /\ clock \in Times /\ old <= clock /\ maxTs <= clock
      /\ mark \in {rm.highWatermark, maxTs} /\ mark \in Times
      /\ rm.highWatermark <= mark /\ maxTs <= mark
  <2>1. clock \in {old, maxTs} /\ old <= clock /\ maxTs <= clock
    BY <1>4, <1>5, RoomTypes
  <2>2. mark \in {rm.highWatermark, maxTs} /\ rm.highWatermark <= mark /\ maxTs <= mark
    BY <1>2, <1>4, RoomTypes
  <2> HIDE DEF clock, mark
  <2> QED BY <1>2, <1>4, <1>5, <2>1, <2>2
<1> HIDE DEF clock, mark
<1>7. store \in SUBSET Envelope /\ tombs \in SUBSET Timestamp
  BY <1>2, RoomTypes
<1>8. /\ clocks \in Clocks
      /\ \A d \in DOMAIN clocks :
            \/ d \in DOMAIN rm.clientClocks /\ clocks[d] = rm.clientClocks[d]
            \/ d = c /\ clocks[d] = clock /\ maxTs # 0
  <2>1. CASE maxTs = 0
    BY <1>2, <2>1
  <2>2. CASE maxTs # 0
    <3> DEFINE D == DOMAIN rm.clientClocks \cup {c}
    <3>1. clocks = [d \in D |-> IF d = c THEN clock ELSE rm.clientClocks[d]]
      BY <2>2 DEF WithClock
    <3>2. clocks \in [D -> Times] /\ D \in SUBSET Conn
      BY <1>3, <1>6, <3>1
    <3>3. clocks \in Clocks
      BY <3>2, RoomTypes
    <3> QED BY <2>2, <3>1, <3>3
  <2> QED BY <2>1, <2>2
<1> HIDE DEF store, tombs, clocks, after
<1>9. /\ after \in Room /\ after.clients = rm.clients /\ after.store = store
      /\ after.clientClocks = clocks /\ after.highWatermark = mark
  BY <1>1, <1>6, <1>7, <1>8, RoomTypes
<1>10. \A d \in DOMAIN clocks : clocks[d] <= mark
  <2>1. \A d \in DOMAIN rm.clientClocks : rm.clientClocks[d] <= mark
    BY <1>2, <1>3, <1>6, RoomTypes DEF WatermarkOK
  <2>2. old <= mark
    BY <1>6, <2>1, RoomTypes DEF old
  <2> QED BY <1>6, <1>8, <2>1, <2>2
<1>11. mark = 0 \/ \E e \in store : e.ts = mark
  BY <1>4, <1>6 DEF WatermarkOK, store
<1>12. \A d \in DOMAIN clocks :
          \/ d \in DOMAIN rm.clientClocks /\ clocks[d] = rm.clientClocks[d]
          \/ d = c /\ clocks[d] = 0
          \/ d = c /\ \E e \in batch : Accepted(e) /\ e.ts = clocks[d]
  BY <1>4, <1>6, <1>8 DEF old
<1> QED BY <1>9, <1>10, <1>11, <1>12 DEF after, WatermarkOK

\* A PRUNE is below the clock of every client of the room.
LEMMA PruneTypes ==
    ASSUME NEW rm \in Room, WatermarkOK(rm)
    PROVE  /\ PruneTs(rm) \in Times
           /\ PruneTs(rm) # 0 => \A d \in DOMAIN rm.clientClocks : PruneTs(rm) < rm.clientClocks[d]
           /\ AfterPrune(rm) \in Room /\ WatermarkOK(AfterPrune(rm))
<1> DEFINE clocks == {rm.clientClocks[c] : c \in DOMAIN rm.clientClocks}
           stale == {t \in rm.tombstones : t < Min(clocks)}
<1>1. /\ rm.clientClocks \in [DOMAIN rm.clientClocks -> Times]
      /\ rm.tombstones \in SUBSET (0..MaxTimestamp)
      /\ 0 \in Times
  BY RoomTypes DEF Times, Timestamp
<1>2. ASSUME PruneTs(rm) # 0
      PROVE  /\ PruneTs(rm) \in Times
             /\ \A d \in DOMAIN rm.clientClocks : PruneTs(rm) < rm.clientClocks[d]
  <2>1. stale # {} /\ PruneTs(rm) = Max(stale)
    BY <1>2 DEF PruneTs
  <2>2. stale \in SUBSET (0..MaxTimestamp)
    BY <1>1
  <2>3. Max(stale) \in stale
    BY <2>1, <2>2, RoomTypes, MaxIsGreatest
  <2>4. PruneTs(rm) \in Times /\ PruneTs(rm) < Min(clocks)
    BY <2>1, <2>2, <2>3 DEF Times
  <2>5. ASSUME NEW d \in DOMAIN rm.clientClocks PROVE PruneTs(rm) < rm.clientClocks[d]
    <3>1. clocks \in SUBSET Nat /\ clocks # {} /\ rm.clientClocks[d] \in clocks
      BY <1>1, RoomTypes
    <3>2. Min(clocks) \in Nat /\ Min(clocks) <= rm.clientClocks[d]
      BY <3>1, MinIsLeast
    <3>3. rm.clientClocks[d] \in Nat
      BY <3>1
    <3> HIDE DEF clocks
    <3> QED BY <2>4, <3>2, <3>3, RoomTypes
  <2> QED BY <2>4, <2>5
<1>3. PruneTs(rm) \in Times
  BY <1>1, <1>2
<1> DEFINE kept == {t \in rm.tombstones : t > PruneTs(rm)}
<1>4. AfterPrune(rm) = [rm EXCEPT !.tombstones = kept] /\ kept \in SUBSET Timestamp
  BY RoomTypes DEF AfterPrune
<1> HIDE DEF kept
<1>5. /\ AfterPrune(rm) \in Room /\ AfterPrune(rm).clientClocks = rm.clientClocks
      /\ AfterPrune(rm).store = rm.store /\ AfterPrune(rm).highWatermark = rm.highWatermark
  BY <1>4, RoomTypes
<1>6. WatermarkOK(AfterPrune(rm))
  BY <1>5 DEF WatermarkOK
<1> QED BY <1>2, <1>3, <1>5, <1>6
Todo == [update : SUBSET Envelope, peers : SUBSET Conn, prune : Times]

\* What a task does next follows from what it has left to do.
LEMMA StageTypes ==
    ASSUME NEW work \in Todo
    PROVE  LET next == IF Stage(work) = "reading" THEN Idle ELSE work
           IN  /\ next \in Todo /\ Idle \in Todo
               /\ Stage(work) \in {"sending", "pruning", "reading"}
               /\ Stage(work) = "pruning" => next.prune # 0
               /\ next.prune # 0 => next.prune = work.prune
<1>1. 0 \in Times
  BY RoomTypes DEF Times
<1> QED BY <1>1 DEF Todo, Stage, Idle

\* Queueing a message keeps the channels within their bound.
LEMMA TrySendTypes ==
    ASSUME channel \in [Conn -> Seq(ServerMessage)],
           \A d \in Conn : Len(channel[d]) <= Capacity,
           overflow \in [Conn -> SUBSET Envelope],
           NEW ds, NEW message \in ServerMessage, NEW envelopes \in SUBSET Envelope,
           TrySend(ds, message, envelopes)
    PROVE  /\ channel' \in [Conn -> Seq(ServerMessage)]
           /\ \A d \in Conn : Len(channel'[d]) <= Capacity
           /\ overflow' \in [Conn -> SUBSET Envelope]
<1> DEFINE fits == {d \in ds \cap Listening : Len(channel[d]) < Capacity}
<1>1. /\ channel' = [d \in Conn |->
                IF d \in fits THEN Append(channel[d], message) ELSE channel[d]]
      /\ overflow' = [d \in Conn |->
                IF d \in (ds \cap Listening) \ fits THEN overflow[d] \cup envelopes
                                                    ELSE overflow[d]]
  BY DEF TrySend
<1>2. \A d \in fits : Len(channel[d]) < Capacity
  OBVIOUS
<1> HIDE DEF fits
<1>3. ASSUME NEW d \in Conn
      PROVE  /\ channel'[d] \in Seq(ServerMessage) /\ Len(channel'[d]) <= Capacity
             /\ overflow'[d] \in SUBSET Envelope
  <2>1. /\ channel[d] \in Seq(ServerMessage) /\ Len(channel[d]) \in Nat
        /\ Capacity \in Nat /\ Len(channel[d]) <= Capacity
    BY BoundAssumption
  <2>2. overflow'[d] \in SUBSET Envelope
    BY <1>1
  <2>3. CASE d \in fits
    <3>1. channel'[d] = Append(channel[d], message) /\ Len(channel[d]) < Capacity
      BY <1>1, <1>2, <2>3
    <3>2. /\ Append(channel[d], message) \in Seq(ServerMessage)
          /\ Len(Append(channel[d], message)) = Len(channel[d]) + 1
      BY <2>1
    <3> QED BY <2>1, <2>2, <3>1, <3>2
  <2>4. CASE d \notin fits
    BY <1>1, <2>1, <2>2, <2>4
  <2> QED BY <2>3, <2>4
<1> QED BY <1>1, <1>3

\* A batch and its prune, taken together.
LEMMA BatchAndPrune ==
    ASSUME NEW rm \in Room, WatermarkOK(rm), NEW c \in Conn, NEW batch \in SUBSET Envelope
    PROVE  LET after == AfterBatch(rm, c, batch)
               work == [update |-> batch, peers |-> Peers(after, c), prune |-> PruneTs(after)]
           IN  AfterPrune(after) \in Room /\ WatermarkOK(AfterPrune(after)) /\ work \in Todo
<1> DEFINE after == AfterBatch(rm, c, batch)
<1>1. after \in Room /\ WatermarkOK(after)
  BY BatchTypes
<1> HIDE DEF after
<1>2. /\ AfterPrune(after) \in Room /\ WatermarkOK(AfterPrune(after))
      /\ PruneTs(after) \in Times
  BY <1>1, PruneTypes
<1>3. Peers(after, c) \in SUBSET Conn
  BY <1>1, RoomTypes DEF Peers
<1> QED BY <1>2, <1>3 DEF after, Todo
\* The inductive invariant: TypeOK, part by part; a task is about to send a PRUNE
\* only if there is one; and the watermark.
Typed ==
    /\ room \in {NoRoom} \cup Room
    /\ room.live => WatermarkOK(room)
    /\ handler \in [Conn -> Stages]
    /\ task \in [Conn -> {"none", "reading", "sending", "pruning", "ended"}]
    /\ todo \in [Conn -> Todo]
    /\ \A c \in Conn : task[c] = "pruning" => todo[c].prune # 0
    /\ channel \in [Conn -> Seq(ServerMessage)] /\ \A c \in Conn : Len(channel[c]) <= Capacity
    /\ shown \in [Conn -> SUBSET Envelope] /\ overflow \in [Conn -> SUBSET Envelope]
    /\ db \in {NoRecord} \cup [live : {TRUE}, store : SUBSET Envelope]
    /\ saving \in {NoRecord} \cup [live : {TRUE}, store : SUBSET Envelope]

\* Joining: the new clock is the watermark.
LEMMA AddClientTypes ==
    ASSUME NEW rm \in Room, WatermarkOK(rm), NEW c \in Conn
    PROVE  AddClient(rm, c) \in Room /\ WatermarkOK(AddClient(rm, c))
<1> DEFINE D == DOMAIN rm.clientClocks \cup {c}
           k == WithClock(rm.clientClocks, c, rm.highWatermark)
           after == AddClient(rm, c)
<1>1. /\ rm.clientClocks \in Clocks /\ DOMAIN rm.clientClocks \in SUBSET Conn
      /\ rm.clientClocks \in [DOMAIN rm.clientClocks -> Times]
      /\ rm.highWatermark \in Times /\ rm.clients \cup {c} \in SUBSET Conn
  BY RoomTypes
<1>2. k = [d \in D |-> IF d = c THEN rm.highWatermark ELSE rm.clientClocks[d]]
  BY DEF WithClock
<1>3. k \in [D -> Times] /\ D \in SUBSET Conn
  BY <1>1, <1>2
<1>4. k \in Clocks
  BY <1>3, RoomTypes
<1>5. \A d \in DOMAIN k : k[d] <= rm.highWatermark
  BY <1>1, <1>2, RoomTypes DEF WatermarkOK
<1>6. after = [rm EXCEPT !.clients = rm.clients \cup {c}, !.clientClocks = k]
  BY DEF AddClient
<1> HIDE DEF k, after
<1>7. /\ after \in Room /\ after.clientClocks = k /\ after.store = rm.store
      /\ after.highWatermark = rm.highWatermark
  BY <1>1, <1>4, <1>6, RoomTypes
<1> QED BY <1>5, <1>7 DEF WatermarkOK, after

\* Leaving takes a clock away.
LEMMA WithoutClientTypes ==
    ASSUME NEW rm \in Room, WatermarkOK(rm), NEW c \in Conn
    PROVE  LET after == WithoutClient(rm, c)
           IN  after = NoRoom \/ (after \in Room /\ WatermarkOK(after))
<1> DEFINE D == DOMAIN rm.clientClocks \ {c}
           k == [d \in D |-> rm.clientClocks[d]]
           after == WithoutClient(rm, c)
<1>1. CASE rm.clients \subseteq {c}
  BY <1>1 DEF WithoutClient
<1>2. CASE ~(rm.clients \subseteq {c})
  <2>1. /\ rm.clientClocks \in Clocks /\ DOMAIN rm.clientClocks \in SUBSET Conn
        /\ rm.clientClocks \in [DOMAIN rm.clientClocks -> Times]
        /\ rm.clients \ {c} \in SUBSET Conn
    BY RoomTypes
  <2>2. k \in [D -> Times] /\ D \in SUBSET Conn
    BY <2>1
  <2>3. k \in Clocks
    BY <2>2, RoomTypes
  <2>4. \A d \in DOMAIN k : k[d] <= rm.highWatermark
    BY DEF WatermarkOK
  <2>5. after = [rm EXCEPT !.clients = rm.clients \ {c}, !.clientClocks = k]
    BY <1>2 DEF WithoutClient
  <2> HIDE DEF k, after
  <2>6. /\ after \in Room /\ after.clientClocks = k /\ after.store = rm.store
        /\ after.highWatermark = rm.highWatermark
    BY <2>1, <2>3, <2>5, RoomTypes
  <2> QED BY <2>4, <2>6 DEF WatermarkOK, after
<1> QED BY <1>1, <1>2

\* What a new room holds is what the database has.
LEMMA RestoredTypes ==
    ASSUME Typed, NEW record \in TryLoadRoomFromDb
    PROVE  LET rm == NewRoom(RestoredFrom(record)) IN rm \in Room /\ WatermarkOK(rm)
<1>1. record = db \/ record = NoRecord
  BY DEF TryLoadRoomFromDb, DbLoadRoom
<1>2. RestoredFrom(record) \in SUBSET Envelope
  <2>1. NoRecord.live = FALSE
    BY DEF NoRecord
  <2>2. record = NoRecord \/ record \in [live : {TRUE}, store : SUBSET Envelope]
    BY <1>1 DEF Typed
  <2> QED BY <2>1, <2>2 DEF RestoredFrom
<1>3. [c \in {} |-> 0] \in Clocks
  <2>1. [c \in {} |-> 0] \in [{} -> Times] /\ {} \in SUBSET Conn
    OBVIOUS
  <2> QED BY <2>1, RoomTypes
<1>4. 0 \in Times
  BY RoomTypes DEF Times
<1> QED BY <1>2, <1>3, <1>4, RoomTypes DEF NewRoom, WatermarkOK

\* Every action keeps the types and the watermark.
LEMMA TypeStep == Typed /\ [Next]_vars => Typed'
<1> SUFFICES ASSUME Typed, [Next]_vars PROVE Typed'
  OBVIOUS
<1>1. /\ room = NoRoom \/ (room \in Room /\ WatermarkOK(room))
      /\ room.live => room \in Room /\ WatermarkOK(room)
      /\ ~room.live => room = NoRoom
  BY RoomTypes DEF Typed
<1>2. Idle \in Todo
  BY RoomTypes DEF Todo, Idle, Times
<1>3. ASSUME NEW c \in Conn, Register(c) PROVE Typed'
  <2>1. /\ handler' = [handler EXCEPT ![c] = "greeting"] /\ shown' = [shown EXCEPT ![c] = room'.store]
        /\ UNCHANGED <<task, todo, channel, db, saving, overflow>>
    BY <1>3 DEF Register, durable, heard
  <2>2. room' \in Room /\ WatermarkOK(room')
    <3>1. CASE room.live
      BY <1>1, <1>3, <3>1, AddClientTypes DEF Register
    <3>2. CASE ~room.live
      <4>1. PICK record \in TryLoadRoomFromDb :
              room' = AddClient(NewRoom(RestoredFrom(record)), c)
        BY <1>3, <3>2 DEF Register
      <4> QED BY <4>1, RestoredTypes, AddClientTypes
    <3> QED BY <3>1, <3>2
  <2>3. shown' \in [Conn -> SUBSET Envelope]
    BY <2>1, <2>2, RoomTypes DEF Typed
  <2> QED BY <2>1, <2>2, <2>3 DEF Typed, Stages
<1>4. ASSUME NEW c \in Conn, NEW batch \in SUBSET Envelope, Receive(c, batch) PROVE Typed'
  <2>1. UNCHANGED <<handler, channel, shown, db, saving, overflow>>
    BY <1>4 DEF Receive, durable, heard
  <2>2. CASE ~room.live
    <3>1. task' = [task EXCEPT ![c] = "ended"] /\ UNCHANGED <<room, todo>>
      BY <1>4, <2>2 DEF Receive
    <3> QED BY <2>1, <3>1 DEF Typed
  <2>3. CASE room.live
    <3> DEFINE rm == AfterBatch(room, c, batch)
               work == [update |-> batch, peers |-> Peers(rm, c), prune |-> PruneTs(rm)]
               next == IF Stage(work) = "reading" THEN Idle ELSE work
    <3>1. /\ room' = AfterPrune(rm) /\ todo' = [todo EXCEPT ![c] = next]
          /\ task' = [task EXCEPT ![c] = Stage(work)]
      BY <1>4, <2>3 DEF Receive
    <3>2. room' \in Room /\ WatermarkOK(room') /\ work \in Todo
      BY <1>1, <2>3, <3>1, BatchAndPrune
    <3>3. /\ next \in Todo /\ Stage(work) \in {"sending", "pruning", "reading"}
          /\ Stage(work) = "pruning" => next.prune # 0
      BY <3>2, StageTypes
    <3> HIDE DEF next, work, rm
    <3> QED BY <2>1, <3>1, <3>2, <3>3 DEF Typed
  <2> QED BY <2>2, <2>3
<1>5. ASSUME NEW c \in Conn, ClientSends(c) PROVE Typed'
  <2>1. PICK e \in Envelope, f \in Envelope : Receive(c, {e, f})
    BY <1>5 DEF ClientSends
  <2> QED BY <2>1, <1>4
<1>6. ASSUME NEW c \in Conn, Greet(c) PROVE Typed'
  <2>1. /\ handler' = [handler EXCEPT ![c] = "serving"] /\ task' = [task EXCEPT ![c] = "reading"]
        /\ UNCHANGED <<room, todo, channel, shown, db, saving, overflow>>
    BY <1>6 DEF Greet, durable, heard
  <2> QED BY <2>1 DEF Typed, Stages
<1>7. ASSUME NEW c \in Conn, SendUpdate(c) PROVE Typed'
  <2>1. PICK d \in todo[c].peers :
          LET left == [todo[c] EXCEPT !.peers = @ \ {d}]
          IN  /\ TrySend({d}, UpdateMessage(todo[c].update), todo[c].update)
              /\ todo' = [todo EXCEPT ![c] = IF Stage(left) = "reading" THEN Idle ELSE left]
              /\ task' = [task EXCEPT ![c] = Stage(left)]
    BY <1>7 DEF SendUpdate
  <2> DEFINE left == [todo[c] EXCEPT !.peers = @ \ {d}]
             next == IF Stage(left) = "reading" THEN Idle ELSE left
  <2>2. UNCHANGED <<room, handler, shown, db, saving>>
    BY <1>7 DEF SendUpdate, durable, heard
  <2>3. left \in Todo /\ todo[c].update \in SUBSET Envelope
    BY SMTT(30) DEF Typed, Todo
  <2>4. UpdateMessage(todo[c].update) \in ServerMessage
    BY <2>3 DEF UpdateMessage, ServerMessage
  <2>5. /\ channel' \in [Conn -> Seq(ServerMessage)]
        /\ \A x \in Conn : Len(channel'[x]) <= Capacity
        /\ overflow' \in [Conn -> SUBSET Envelope]
    BY <2>1, <2>3, <2>4, TrySendTypes DEF Typed
  <2>6. /\ next \in Todo /\ Stage(left) \in {"sending", "pruning", "reading"}
        /\ Stage(left) = "pruning" => next.prune # 0
    BY <2>3, StageTypes
  <2>7. todo' = [todo EXCEPT ![c] = next] /\ task' = [task EXCEPT ![c] = Stage(left)]
    BY <2>1
  <2> HIDE DEF left, next
  <2> QED BY <2>2, <2>5, <2>6, <2>7 DEF Typed
<1>8. ASSUME NEW c \in Conn, BroadcastPrune(c) PROVE Typed'
  <2>1. /\ task[c] = "pruning"
        /\ todo' = [todo EXCEPT ![c] = Idle] /\ task' = [task EXCEPT ![c] = "reading"]
        /\ UNCHANGED <<room, handler, shown, db, saving>>
    BY <1>8 DEF BroadcastPrune, durable, heard
  <2>2. Prune(todo[c].prune) \in ServerMessage
    <3>1. todo[c].prune \in Times /\ todo[c].prune # 0
      BY <2>1 DEF Typed, Todo
    <3>2. todo[c].prune \in Timestamp
      BY <3>1, RoomTypes DEF Timestamp, Times
    <3> QED BY <3>2 DEF Prune, ServerMessage
  <2>3. PICK ds : TrySend(ds, Prune(todo[c].prune), {})
    BY <1>8 DEF BroadcastPrune
  <2>4. /\ channel' \in [Conn -> Seq(ServerMessage)]
        /\ \A x \in Conn : Len(channel'[x]) <= Capacity
        /\ overflow' \in [Conn -> SUBSET Envelope]
    <3>1. /\ channel \in [Conn -> Seq(ServerMessage)]
          /\ \A x \in Conn : Len(channel[x]) <= Capacity
          /\ overflow \in [Conn -> SUBSET Envelope]
          /\ {} \in SUBSET Envelope
      BY DEF Typed
    <3> QED BY <2>2, <2>3, <3>1, TrySendTypes
  <2> QED BY <1>2, <2>1, <2>4 DEF Typed
<1>9. ASSUME NEW c \in Conn, Forward(c) PROVE Typed'
  <2>1. /\ channel[c] # <<>> /\ channel' = [channel EXCEPT ![c] = Tail(channel[c])]
        /\ shown' = [shown EXCEPT ![c] = IF Head(channel[c]).type = "UPDATE"
                                         THEN shown[c] \cup Head(channel[c]).data ELSE shown[c]]
        /\ UNCHANGED <<room, handler, task, todo, db, saving, overflow>>
    BY <1>9 DEF Forward, durable, heard
  <2>2. /\ Head(channel[c]) \in ServerMessage /\ Tail(channel[c]) \in Seq(ServerMessage)
        /\ Len(Tail(channel[c])) <= Len(channel[c]) /\ Len(Tail(channel[c])) \in Nat
        /\ Len(channel[c]) \in Nat
    BY <2>1 DEF Typed
  <2>3. Len(Tail(channel[c])) <= Capacity
    BY <2>2, BoundAssumption DEF Typed
  <2>4. Head(channel[c]).type = "UPDATE" => Head(channel[c]).data \in SUBSET Envelope
    BY <2>2 DEF ServerMessage
  <2>5. shown' \in [Conn -> SUBSET Envelope]
    BY <2>1, <2>4 DEF Typed
  <2>6. channel' \in [Conn -> Seq(ServerMessage)] /\ \A x \in Conn : Len(channel'[x]) <= Capacity
    <3> DEFINE rest == Tail(channel[c])
    <3>1. channel' = [channel EXCEPT ![c] = rest]
      BY <2>1
    <3>2. rest \in Seq(ServerMessage) /\ Len(rest) <= Capacity
      BY <2>2, <2>3
    <3> HIDE DEF rest
    <3>3. channel \in [Conn -> Seq(ServerMessage)] /\ \A x \in Conn : Len(channel[x]) <= Capacity
      BY DEF Typed
    <3>4. \A x \in Conn : channel'[x] = IF x = c THEN rest ELSE channel[x]
      BY <3>1, <3>3
    <3>5. channel' \in [Conn -> Seq(ServerMessage)]
      BY <3>1, <3>2, <3>3
    <3> QED BY <3>2, <3>3, <3>4, <3>5
  <2> QED BY <2>1, <2>5, <2>6 DEF Typed
<1>10. ASSUME NEW c \in Conn, Leave(c) PROVE Typed'
  <2>1. /\ handler' = [handler EXCEPT ![c] = "leaving"] /\ channel' = [channel EXCEPT ![c] = <<>>]
        /\ shown' = [shown EXCEPT ![c] = {}] /\ overflow' = [overflow EXCEPT ![c] = {}]
        /\ UNCHANGED <<room, task, todo, db, saving>>
    BY <1>10 DEF Leave, durable, heard
  <2>2. <<>> \in Seq(ServerMessage) /\ Len(<<>>) <= Capacity
    BY BoundAssumption
  <2>3. channel' \in [Conn -> Seq(ServerMessage)] /\ \A x \in Conn : Len(channel'[x]) <= Capacity
    BY <2>1, <2>2 DEF Typed
  <2> QED BY <2>1, <2>3 DEF Typed, Stages
<1>11. ASSUME NEW c \in Conn, TaskEnds(c) PROVE Typed'
  <2>1. /\ task' = [task EXCEPT ![c] = "ended"] /\ todo' = [todo EXCEPT ![c] = Idle]
        /\ UNCHANGED <<room, handler, channel, shown, db, saving, overflow>>
    BY <1>11 DEF TaskEnds, durable, heard
  <2> QED BY <1>2, <2>1 DEF Typed
<1>12. ASSUME NEW c \in Conn, Cleanup(c) PROVE Typed'
  <2>1. /\ handler' = [handler EXCEPT ![c] = "gone"]
        /\ room' = IF room.live THEN WithoutClient(room, c) ELSE room
        /\ UNCHANGED <<task, todo, channel, shown, db, saving, overflow>>
    BY <1>12 DEF Cleanup, durable, heard
  <2>2. room' = NoRoom \/ (room' \in Room /\ WatermarkOK(room'))
    BY <1>1, <2>1, WithoutClientTypes
  <2> QED BY <2>1, <2>2, RoomTypes DEF Typed, Stages
<1>13. CASE PersistCollect \/ DbSaveRoom \/ SaveFails \/ UNCHANGED vars
  <2>1. UNCHANGED <<room, handler, task, todo, channel, shown, overflow>>
    BY <1>13 DEF PersistCollect, DbSaveRoom, SaveFails, vars, tasks, heard
  <2>2. room.live => Record(room.store) \in [live : {TRUE}, store : SUBSET Envelope]
    BY <1>1, RoomTypes DEF Record
  <2>3. /\ db' \in {NoRecord} \cup [live : {TRUE}, store : SUBSET Envelope]
        /\ saving' \in {NoRecord} \cup [live : {TRUE}, store : SUBSET Envelope]
    BY <1>13, <2>2 DEF PersistCollect, DbSaveRoom, SaveFails, vars, durable, heard, Typed
  <2> QED BY <2>1, <2>3 DEF Typed
<1>14. CASE Crash
  <2>1. /\ room' = NoRoom /\ saving' = NoRecord /\ db' = db
        /\ handler' = [c \in Conn |-> IF handler[c] = "new" THEN "new" ELSE "gone"]
        /\ task' = [c \in Conn |-> IF handler[c] = "new" THEN "none" ELSE "ended"]
        /\ todo' = [c \in Conn |-> Idle] /\ channel' = [c \in Conn |-> <<>>]
        /\ shown' = [c \in Conn |-> {}] /\ overflow' = [c \in Conn |-> {}]
    BY <1>14 DEF Crash
  <2>2. <<>> \in Seq(ServerMessage) /\ Len(<<>>) <= Capacity
    BY BoundAssumption
  <2>3. channel' \in [Conn -> Seq(ServerMessage)] /\ \A x \in Conn : Len(channel'[x]) <= Capacity
    BY <2>1, <2>2
  <2> QED BY <1>2, <2>1, <2>3, RoomTypes DEF Typed, Stages
<1> QED
  BY <1>3, <1>5, <1>6, <1>7, <1>8, <1>9, <1>10, <1>11, <1>12, <1>13, <1>14 DEF Next, Deliver

LEMMA TypeInit == Init => Typed
<1> SUFFICES ASSUME Init PROVE Typed
  OBVIOUS
<1>1. Idle \in Todo
  BY RoomTypes DEF Todo, Idle, Times
<1>2. <<>> \in Seq(ServerMessage) /\ Len(<<>>) <= Capacity
  BY BoundAssumption
<1> QED BY <1>1, <1>2, RoomTypes DEF Init, Typed, Stages

\* Every variable keeps its type: a channel never holds more messages than its
\* capacity (main.rs:451, try_send), a PRUNE that is sent carries a timestamp
\* (main.rs:578-600), whatever connections, saves and crashes interleave.
THEOREM TypesKept == Spec => []TypeOK
<1>1. Typed => TypeOK
  BY DEF Typed, TypeOK, Todo, Times, Stages
<1> QED BY <1>1, TypeInit, TypeStep, PTL DEF Spec

-----------------------------------------------------------------------------
(* PruneAfterEveryClient is a property of Spec.                            *)

\* The clock of a client is the timestamp of an accepted envelope that it sent
\* over this connection or that its SNAPSHOT held, or 0.
ClockShown(d) ==
    \/ room.clientClocks[d] = 0
    \/ \E e \in received[d] \cup greeted[d] : Accepted(e) /\ e.ts = room.clientClocks[d]

ClocksShown ==
    /\ PerConn(greeted)
    /\ room.live => \A d \in room.clients : ClockShown(d)

\* Who joins is given the watermark as its clock.
LEMMA AddClientClocks ==
    ASSUME NEW rm \in Room, NEW c \in Conn
    PROVE  /\ AddClient(rm, c).clients = rm.clients \cup {c}
           /\ AddClient(rm, c).store = rm.store
           /\ AddClient(rm, c).clientClocks[c] = rm.highWatermark
           /\ \A d \in DOMAIN rm.clientClocks \ {c} :
                 AddClient(rm, c).clientClocks[d] = rm.clientClocks[d]
<1> DEFINE k == WithClock(rm.clientClocks, c, rm.highWatermark)
<1>1. AddClient(rm, c) = [rm EXCEPT !.clients = rm.clients \cup {c}, !.clientClocks = k]
  BY DEF AddClient
<1>2. k[c] = rm.highWatermark /\ \A d \in DOMAIN rm.clientClocks \ {c} : k[d] = rm.clientClocks[d]
  BY DEF WithClock
<1> HIDE DEF k
<1> QED BY <1>1, <1>2, RoomTypes

\* A client shows nothing less by a step that keeps its clock and what it sent.
LEMMA ClockStaysShown ==
    ASSUME NEW d, ClockShown(d), room'.clientClocks[d] = room.clientClocks[d],
           received[d] \subseteq received'[d], greeted[d] \subseteq greeted'[d]
    PROVE  ClockShown(d)'
BY DEF ClockShown

\* Every action keeps it.  What a client has sent is forgotten once it is no
\* longer in the room, and a message that is applied later moves no clock but
\* its sender's.
LEMMA ClocksShownStep ==
    Typed /\ MissInv /\ ClocksShown /\ [Next]_vars => ClocksShown'
<1> SUFFICES ASSUME Typed, MissInv, ClocksShown, [Next]_vars PROVE ClocksShown'
  OBVIOUS
<1>1. /\ PerConn(greeted) /\ PerConn(received)
      /\ room.live => \A d \in room.clients : ClockShown(d)
  BY DEF ClocksShown, MissInv, Shapes
<1>2. /\ room.live => room \in Room /\ WatermarkOK(room) /\ Sound(room)
      /\ room.live => LiveRoom(room)
      /\ ~room.live => room = NoRoom /\ Present = {}
      /\ NoRoom.live = FALSE
  BY RoomTypes DEF Typed, MissInv, LifetimeInv, RoomLifetime, LiveRoom
<1>3. room.live => room.clients = Present /\ Present \subseteq DOMAIN room.clientClocks
  BY <1>2 DEF MissInv, LifetimeInv, RoomLifetime
<1>4. Present \subseteq Conn
  BY DEF Present
<1>5. ASSUME NEW c \in Conn, Register(c) PROVE ClocksShown'
  <2>1. /\ greeted' = [greeted EXCEPT ![c] = room'.store] /\ received' = received
        /\ handler[c] = "new"
    BY <1>5 DEF Register
  <2>2. /\ PerConn(greeted') /\ greeted'[c] = room'.store
        /\ \A d \in Conn \ {c} : greeted'[d] = greeted[d]
    BY <1>1, <2>1 DEF PerConn
  <2>3. CASE room.live
    <3>1. room' = AddClient(room, c) /\ room \in Room
      BY <1>2, <1>5, <2>3 DEF Register
    <3>2. /\ room'.clients = room.clients \cup {c} /\ room'.store = room.store
          /\ room'.clientClocks[c] = room.highWatermark
          /\ \A d \in DOMAIN room.clientClocks \ {c} :
                room'.clientClocks[d] = room.clientClocks[d]
      BY <3>1, AddClientClocks
    <3>3. ClockShown(c)'
      <4>1. room.highWatermark = 0
              \/ \E e \in room.store : Accepted(e) /\ e.ts = room.highWatermark
        BY <1>2, <2>3 DEF WatermarkOK, Sound
      <4> QED BY <2>2, <3>2, <4>1 DEF ClockShown
    <3>4. ASSUME NEW d \in room.clients, d # c PROVE ClockShown(d)'
      BY <1>1, <1>3, <1>4, <2>1, <2>2, <2>3, <3>2, <3>4, ClockStaysShown
    <3> QED BY <2>2, <3>2, <3>3, <3>4 DEF ClocksShown
  <2>4. CASE ~room.live
    <3>1. PICK record \in TryLoadRoomFromDb : room' = AddClient(NewRoom(RestoredFrom(record)), c)
      BY <1>5, <2>4 DEF Register
    <3> DEFINE rm == NewRoom(RestoredFrom(record))
    <3>2. rm \in Room
      BY RestoredTypes
    <3>3. rm.clients = {} /\ rm.highWatermark = 0
      BY DEF NewRoom
    <3> HIDE DEF rm
    <3>4. room'.clients = {c} /\ room'.clientClocks[c] = 0
      BY <3>1, <3>2, <3>3, AddClientClocks DEF rm
    <3> QED BY <2>2, <3>4 DEF ClocksShown, ClockShown
  <2> QED BY <2>3, <2>4
<1>6. ASSUME NEW c \in Conn, NEW batch \in SUBSET Envelope, Receive(c, batch) PROVE ClocksShown'
  <2>1. greeted' = greeted
    BY <1>6 DEF Receive
  <2>2. CASE ~room.live
    BY <1>1, <1>6, <2>1, <2>2 DEF Receive, ClocksShown
  <2>3. CASE room.live
    <3> DEFINE rm == AfterBatch(room, c, batch)
    <3>1. room' = AfterPrune(rm) /\ received' = [received EXCEPT ![c] = received[c] \cup batch]
      BY <1>6, <2>3 DEF Receive
    <3>2. /\ rm \in Room /\ rm.clients = room.clients
          /\ \A d \in DOMAIN rm.clientClocks :
                \/ d \in DOMAIN room.clientClocks /\ rm.clientClocks[d] = room.clientClocks[d]
                \/ d = c /\ rm.clientClocks[d] = 0
                \/ d = c /\ \E e \in batch : Accepted(e) /\ e.ts = rm.clientClocks[d]
      BY <1>2, <2>3, BatchTypes
    <3>3. DOMAIN room.clientClocks \subseteq DOMAIN AfterPrune(rm).clientClocks
      BY <1>2, <2>3, BatchKeepsClients
    <3> HIDE DEF rm
    <3>4. AfterPrune(rm).clientClocks = rm.clientClocks /\ AfterPrune(rm).clients = rm.clients
      BY <3>2, RoomTypes DEF AfterPrune
    <3>5. /\ \A d \in Conn : received[d] \subseteq received'[d]
          /\ batch \subseteq received'[c]
      BY <1>1, <3>1 DEF PerConn
    <3>6. ASSUME NEW d \in room.clients PROVE ClockShown(d)'
      <4>1. d \in Conn /\ d \in DOMAIN rm.clientClocks /\ ClockShown(d)
        BY <1>1, <1>3, <1>4, <2>3, <3>3, <3>4
      <4>2. CASE rm.clientClocks[d] = room.clientClocks[d]
        BY <2>1, <3>1, <3>4, <3>5, <4>1, <4>2, ClockStaysShown
      <4>3. CASE rm.clientClocks[d] = 0
        BY <3>1, <3>4, <4>3 DEF ClockShown
      <4>4. CASE d = c /\ \E e \in batch : Accepted(e) /\ e.ts = rm.clientClocks[d]
        BY <3>1, <3>4, <3>5, <4>4 DEF ClockShown
      <4> QED BY <3>2, <4>1, <4>2, <4>3, <4>4
    <3> QED BY <1>1, <2>1, <3>1, <3>2, <3>4, <3>6 DEF ClocksShown
  <2> QED BY <2>2, <2>3
<1>7. ASSUME NEW c \in Conn, ClientSends(c) PROVE ClocksShown'
  <2>1. PICK e \in Envelope, f \in Envelope : Receive(c, {e, f})
    BY <1>7 DEF ClientSends
  <2> QED BY <2>1, <1>6
<1>8. ASSUME NEW c \in Conn, TaskEnds(c) PROVE ClocksShown'
  <2>1. /\ greeted' = greeted /\ room' = room
        /\ received' = IF handler[c] = "gone" THEN [received EXCEPT ![c] = {}] ELSE received
    BY <1>8 DEF TaskEnds
  <2>2. ASSUME room.live, NEW d \in room.clients PROVE ClockShown(d)'
    <3>1. d \in Conn /\ handler[d] # "gone"
      BY <1>3, <2>2 DEF Present
    <3>2. received'[d] = received[d]
      BY <1>1, <2>1, <3>1 DEF PerConn
    <3> QED BY <1>1, <2>1, <2>2, <3>2, ClockStaysShown
  <2> QED BY <1>1, <2>1, <2>2 DEF ClocksShown
<1>9. ASSUME NEW c \in Conn, Cleanup(c) PROVE ClocksShown'
  <2>1. /\ greeted' = [greeted EXCEPT ![c] = {}]
        /\ received' = IF task[c] \in {"none", "ended"} THEN [received EXCEPT ![c] = {}] ELSE received
        /\ room' = IF room.live THEN WithoutClient(room, c) ELSE room
    BY <1>9 DEF Cleanup
  <2>2. PerConn(greeted')
    BY <1>1, <2>1 DEF PerConn
  <2>3. ASSUME room'.live, NEW d \in room'.clients PROVE ClockShown(d)'
    <3>1. room.live /\ room \in Room /\ ~(room.clients \subseteq {c})
      BY <1>2, <2>1, <2>3 DEF WithoutClient
    <3> DEFINE k == [x \in DOMAIN room.clientClocks \ {c} |-> room.clientClocks[x]]
    <3>2. room' = [room EXCEPT !.clients = room.clients \ {c}, !.clientClocks = k]
      BY <2>1, <3>1 DEF WithoutClient
    <3>3. \A x \in DOMAIN room.clientClocks \ {c} : k[x] = room.clientClocks[x]
      OBVIOUS
    <3> HIDE DEF k
    <3>4. room'.clients = room.clients \ {c} /\ room'.clientClocks = k
      BY <3>1, <3>2, RoomTypes
    <3>5. /\ d \in room.clients /\ d # c /\ d \in Conn
          /\ room'.clientClocks[d] = room.clientClocks[d]
      BY <1>3, <1>4, <2>3, <3>1, <3>3, <3>4
    <3>6. received'[d] = received[d] /\ greeted'[d] = greeted[d]
      BY <1>1, <2>1, <3>5 DEF PerConn
    <3> QED BY <1>1, <3>1, <3>5, <3>6, ClockStaysShown
  <2> QED BY <2>2, <2>3 DEF ClocksShown
<1>10. CASE Crash
  BY <1>2, <1>10 DEF Crash, ClocksShown, PerConn
<1>11. CASE UNCHANGED <<room, received, greeted>>
  BY <1>1, <1>11 DEF ClocksShown, ClockShown
<1>12. ASSUME NEW c \in Conn,
              Greet(c) \/ SendUpdate(c) \/ Forward(c) \/ BroadcastPrune(c) \/ Leave(c)
       PROVE  ClocksShown'
  BY <1>11, <1>12 DEF Greet, SendUpdate, Forward, BroadcastPrune, Leave, heard
<1>13. CASE PersistCollect \/ DbSaveRoom \/ SaveFails \/ UNCHANGED vars
  BY <1>11, <1>13 DEF PersistCollect, DbSaveRoom, SaveFails, vars, heard
<1> QED
  BY <1>5, <1>7, <1>8, <1>9, <1>10, <1>12, <1>13 DEF Next, Deliver

LEMMA ClocksShownInit == Init => ClocksShown
BY DEF Init, ClocksShown, PerConn, NoRoom

\* A PRUNE up to t is decided only when each client of the room has itself shown a
\* later timestamp: the relay accepted one from it, or its SNAPSHOT held one
\* (main.rs:18-20, 560-600).  UPDATEs that wait for a client do not count.
THEOREM PruneFollowsEveryClient == Spec => PruneAfterEveryClient
<1> DEFINE Follows ==
      \A c \in Conn :
          (todo[c].prune = 0 /\ todo'[c].prune # 0) =>
              \A d \in room.clients :
                  \E e \in received'[d] \cup greeted[d] :
                      Accepted(e) /\ e.ts > todo'[c].prune
<1>1. ASSUME Typed, MissInv, ClocksShown, ClocksShown', Next PROVE Follows
  <2> SUFFICES ASSUME NEW c \in Conn, todo[c].prune = 0, todo'[c].prune # 0,
                      NEW d \in room.clients
               PROVE  \E e \in received'[d] \cup greeted[d] :
                          Accepted(e) /\ e.ts > todo'[c].prune
    OBVIOUS
  <2>1. todo \in [Conn -> Todo] /\ Idle.prune = 0
    BY <1>1 DEF Typed, Idle
  <2>2. PICK x \in Conn : ClientSends(x)
    <3>1. CASE UNCHANGED todo
      BY <3>1
    <3>2. CASE Crash
      BY <2>1, <3>2 DEF Crash
    <3>3. ASSUME NEW x \in Conn, BroadcastPrune(x) \/ TaskEnds(x) PROVE FALSE
      BY <2>1, <3>3 DEF BroadcastPrune, TaskEnds
    <3>4. ASSUME NEW x \in Conn, SendUpdate(x) PROVE FALSE
      <4>1. PICK p \in todo[x].peers :
              todo' = [todo EXCEPT ![x] =
                  IF Stage([todo[x] EXCEPT !.peers = @ \ {p}]) = "reading" THEN Idle
                  ELSE [todo[x] EXCEPT !.peers = @ \ {p}]]
        BY <3>4 DEF SendUpdate
      <4> DEFINE left == [todo[x] EXCEPT !.peers = @ \ {p}]
      <4>2. left.prune = todo[x].prune
        BY <2>1 DEF Todo
      <4>3. todo'[c] = todo[c] \/ (c = x /\ todo'[c] \in {Idle, left})
        BY <2>1, <4>1
      <4> HIDE DEF left
      <4> QED BY <2>1, <4>2, <4>3
    <3> QED
      BY <1>1, <3>1, <3>2, <3>3, <3>4
      DEF Next, Deliver, Register, Greet, Forward, Leave, Cleanup, PersistCollect, DbSaveRoom,
          SaveFails, tasks
  <2>3. PICK f \in Envelope, g \in Envelope : Receive(x, {f, g})
    BY <2>2 DEF ClientSends
  <2> DEFINE batch == {f, g}
             rm == AfterBatch(room, x, batch)
             work == [update |-> batch, peers |-> Peers(rm, x), prune |-> PruneTs(rm)]
             next == IF Stage(work) = "reading" THEN Idle ELSE work
  <2> HIDE DEF batch
  <2>4. Receive(x, batch) /\ batch \in SUBSET Envelope
    BY <2>3 DEF batch
  <2>5. room.live
    BY <2>4 DEF Receive
  <2>6. /\ todo' = [todo EXCEPT ![x] = next] /\ room' = AfterPrune(rm) /\ greeted' = greeted
    BY <2>4, <2>5 DEF Receive
  <2>7. room \in Room /\ WatermarkOK(room) /\ LiveRoom(room) /\ d \in DOMAIN room.clientClocks
    BY <1>1, <2>5, RoomTypes DEF Typed, MissInv, LifetimeInv, RoomLifetime
  <2>8. rm \in Room /\ WatermarkOK(rm) /\ rm.clients = room.clients
    BY <2>4, <2>7, BatchTypes
  <2>9. c = x /\ todo'[c].prune = PruneTs(rm) /\ PruneTs(rm) # 0
    BY <2>1, <2>6
  <2>10. DOMAIN room.clientClocks \subseteq DOMAIN AfterPrune(rm).clientClocks
    BY <2>7, BatchKeepsClients
  <2> HIDE DEF work, rm, next
  <2>11. /\ AfterPrune(rm).clientClocks = rm.clientClocks /\ AfterPrune(rm).clients = rm.clients
         /\ AfterPrune(rm).live
    BY <2>8, RoomTypes DEF AfterPrune
  <2>12. d \in DOMAIN rm.clientClocks /\ ClockShown(d)'
    BY <1>1, <2>6, <2>7, <2>8, <2>10, <2>11 DEF ClocksShown
  <2>13. /\ PruneTs(rm) \in Nat /\ rm.clientClocks[d] \in Nat
         /\ PruneTs(rm) < rm.clientClocks[d]
    <3>1. PruneTs(rm) \in Times /\ PruneTs(rm) < rm.clientClocks[d]
      BY <2>8, <2>9, <2>12, PruneTypes
    <3>2. rm.clientClocks[d] \in Times
      BY <2>8, <2>12, RoomTypes
    <3> QED BY <3>1, <3>2, RoomTypes
  <2>14. PICK e \in received'[d] \cup greeted'[d] : Accepted(e) /\ e.ts = rm.clientClocks[d]
    BY <2>6, <2>11, <2>12, <2>13 DEF ClockShown
  <2> QED BY <2>6, <2>9, <2>13, <2>14
<1>2. ASSUME UNCHANGED vars PROVE Follows
  BY <1>2 DEF vars, tasks
<1>3. Typed /\ MissInv /\ ClocksShown /\ ClocksShown' /\ [Next]_vars => [Follows]_vars
  BY <1>1, <1>2
<1>4. Init => MissInv
  BY MissInit
<1> QED
  BY <1>3, <1>4, TypeInit, TypeStep, MissStep, ClocksShownInit, ClocksShownStep,
     PTL DEF Spec, PruneAfterEveryClient
=============================================================================
