----------------------------- MODULE PruningRoom -----------------------------
(***************************************************************************)
(* Stores whose tombstones a relay prunes: the clients of one room of      *)
(* src/packages/server/src/relay.ts, every Node one of them.  All join     *)
(* while the room is empty and stay, so their clocks start at its          *)
(* watermark, 0, and nobody is sent its log later.  A connection is a pair *)
(* of FIFO streams; a frame carries one envelope.                          *)
(***************************************************************************)
EXTENDS StateStore

VARIABLES
    uplink,        \* the envelopes on their way from a client to the relay
    downlink,      \* the frames on their way to it
    clientClocks,  \* Room.clientClocks
    tombstones     \* the timestamps in Room.tombstones

roomVars == <<vars, uplink, downlink, clientClocks, tombstones>>

RoomInit ==
    /\ Init
    /\ uplink       = [n \in Node |-> <<>>]
    /\ downlink     = [n \in Node |-> <<>>]
    /\ clientClocks = [n \in Node |-> 0]
    /\ tombstones   = {}

\* A program writes to a sequence of its store, and the envelope is sent.
Write(n) ==
    /\ \E k \in SeqKey :
          \/ \E index \in 0..SeqLen(n, k) : SeqInsert(n, k, index)
          \/ \E index \in 0..(SeqLen(n, k) - 1) : SeqDelete(n, k, index)
    /\ uplink' = [uplink EXCEPT ![n] = @ \o SetToSeq(net' \ net)]
    /\ UNCHANGED <<downlink, clientClocks, tombstones>>

Frame(type, data) == [type |-> type, data |-> data]

\* The timestamp tryPrune broadcasts: the latest deletion that the clock of
\* every client has passed, or 0.
PruneTs(clocks, deletions) ==
    Max({0} \cup {t \in deletions : \A n \in Node : t < clocks[n]})

\* The message handler: the deletion is tracked and the sender's clock raised,
\* the others are sent an UPDATE, and all a PRUNE if there is one to send.
RelayMessage(n) ==
    LET env       == Head(uplink[n])
        deletions == tombstones \cup
                     (IF env.op.type = "Delete" THEN {env.timestamp} ELSE {})
        clocks    == [clientClocks EXCEPT ![n] = Max({@, env.timestamp})]
        ts        == PruneTs(clocks, deletions)
    IN  /\ uplink[n] # <<>>
        /\ uplink'       = [uplink EXCEPT ![n] = Tail(@)]
        /\ clientClocks' = clocks
        /\ tombstones'   = {t \in deletions : t > ts}
        /\ downlink'     = [m \in Node |->
                downlink[m] \o (IF m = n THEN <<>> ELSE <<Frame("UPDATE", env)>>)
                            \o (IF ts = 0 THEN <<>> ELSE <<Frame("PRUNE", ts)>>)]
        /\ UNCHANGED vars

\* The onmessage handler of a client.
OnMessage(n) ==
    LET frame == Head(downlink[n])
    IN  /\ downlink[n] # <<>>
        /\ downlink' = [downlink EXCEPT ![n] = Tail(@)]
        /\ IF frame.type = "UPDATE" THEN ApplyEnvelope(n, frame.data)
                                    ELSE PruneTombstones(n, frame.data)
        /\ UNCHANGED <<uplink, clientClocks, tombstones>>

RoomNext == \E n \in Node : Write(n) \/ RelayMessage(n) \/ OnMessage(n)

RoomSpec == RoomInit /\ [][RoomNext]_roomVars

-----------------------------------------------------------------------------
(* Properties.                                                             *)

Delivered == \A n \in Node : uplink[n] = <<>> /\ downlink[n] = <<>>

\* What is pruned has been observed by every client and can be safely
\* reclaimed (rga.rs:306-308): when everything that was written has reached
\* everybody, the clients show the same lists, although they pruned on the way.
PrunedSameList ==
    Delivered =>
        \A m, n \in Node, k \in SeqKey :
            Visible(sequences[m][k].nodes) = Visible(sequences[n][k].nodes)
=============================================================================
