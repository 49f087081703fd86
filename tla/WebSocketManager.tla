-------------------------- MODULE WebSocketManager --------------------------
(***************************************************************************)
(* The client side of a connection,                                        *)
(* src/packages/core/src/WebSocketManager.ts, fed by the writes of         *)
(* CrdtStateProxy.ts.  JavaScript runs one task at a time, so each handler *)
(* is one action.  The i-th envelope written is the number i.  The socket  *)
(* is a browser WebSocket, or a wrapper that reopens it after a close; it  *)
(* fires onmessage only while it is open.                                  *)
(***************************************************************************)
EXTENDS Naturals, Sequences

CONSTANTS
    MaxWrites,  \* bound: writes through the proxy
    MaxOpens    \* bound: connections opened

ASSUME BoundAssumption == MaxWrites \in Nat /\ MaxOpens \in Nat

VARIABLES
    readyState,         \* of the WebSocket
    subscribed,         \* _unsubscribe # null
    pendingEnvelopes,   \* _pendingEnvelopes
    flushScheduled,     \* _cancelFlush # null
    offlineQueue,       \* _offlineQueue
    snapshotReceived,   \* _snapshotReceived
    sent,               \* every envelope handed to ws.send, in order
    written,            \* history: how many envelopes the proxy has handed over
    connection,         \* history: how many times the socket has opened
    hydrated            \* history: the connection whose SNAPSHOT came last

queues  == <<pendingEnvelopes, flushScheduled, offlineQueue, sent>>
history == <<written, connection, hydrated>>
vars    == <<readyState, subscribed, pendingEnvelopes, flushScheduled,
             offlineQueue, snapshotReceived, sent, written, connection, hydrated>>

\* The constructor, on a socket that is connecting.
Init ==
    /\ readyState = "CONNECTING"
    /\ subscribed = TRUE
    /\ pendingEnvelopes = <<>>
    /\ flushScheduled = FALSE
    /\ offlineQueue = <<>>
    /\ snapshotReceived = FALSE
    /\ sent = <<>>
    /\ written = 0
    /\ connection = 0
    /\ hydrated = 0

-----------------------------------------------------------------------------
\* The set trap of the proxy calls the onUpdate handler, which collects the
\* envelope and schedules a flush unless one is scheduled.
Write ==
    /\ subscribed
    /\ written < MaxWrites
    /\ written' = written + 1
    /\ pendingEnvelopes' = Append(pendingEnvelopes, written')
    /\ flushScheduled' = TRUE
    /\ UNCHANGED <<readyState, subscribed, offlineQueue, snapshotReceived, sent,
                   connection, hydrated>>

\* Mutant of FlushBatch: it does not wait for the SNAPSHOT.
FlushBatchAtOnce ==
    /\ pendingEnvelopes' = <<>>
    /\ IF readyState = "OPEN"
       THEN sent' = sent \o pendingEnvelopes /\ UNCHANGED offlineQueue
       ELSE offlineQueue' = offlineQueue \o pendingEnvelopes /\ UNCHANGED sent

\* Mutant of FlushBatch: the envelopes are put back before the older ones.
FlushBatchInFront ==
    /\ pendingEnvelopes' = <<>>
    /\ IF readyState = "OPEN" /\ snapshotReceived
       THEN sent' = sent \o pendingEnvelopes /\ UNCHANGED offlineQueue
       ELSE offlineQueue' = pendingEnvelopes \o offlineQueue /\ UNCHANGED sent

\* _flushBatch
FlushBatch ==
    /\ pendingEnvelopes' = <<>>
    /\ IF readyState = "OPEN" /\ snapshotReceived
       THEN sent' = sent \o pendingEnvelopes /\ UNCHANGED offlineQueue
       ELSE offlineQueue' = offlineQueue \o pendingEnvelopes /\ UNCHANGED sent

\* doFlush, on an animation frame or a timer.
DoFlush ==
    /\ flushScheduled
    /\ flushScheduled' = FALSE
    /\ FlushBatch
    /\ UNCHANGED <<readyState, subscribed, snapshotReceived, history>>

\* Mutant of OnOpen: the flush is cancelled and the envelopes stay behind.
OnOpenKeepsPending ==
    /\ readyState = "CONNECTING"
    /\ connection < MaxOpens
    /\ readyState' = "OPEN"
    /\ connection' = connection + 1
    /\ snapshotReceived' = FALSE
    /\ flushScheduled' = FALSE
    /\ UNCHANGED <<subscribed, pendingEnvelopes, offlineQueue, sent, written, hydrated>>

\* ws.onopen
OnOpen ==
    /\ readyState = "CONNECTING"
    /\ connection < MaxOpens
    /\ readyState' = "OPEN"
    /\ connection' = connection + 1
    /\ snapshotReceived' = FALSE
    /\ flushScheduled' = FALSE
    /\ pendingEnvelopes' = <<>>
    /\ offlineQueue' = offlineQueue \o pendingEnvelopes
    /\ UNCHANGED <<subscribed, sent, written, hydrated>>

\* _flushOfflineQueue: what is queued is sent if the socket is open, and gone
\* from the queue either way.
FlushOfflineQueue ==
    /\ offlineQueue' = <<>>
    /\ sent' = IF readyState = "OPEN" THEN sent \o offlineQueue ELSE sent

\* Mutant of OnSnapshot: the queue is left for the next flush.
OnSnapshotKeepsQueue ==
    /\ readyState = "OPEN"
    /\ snapshotReceived' = TRUE
    /\ hydrated' = connection
    /\ UNCHANGED <<readyState, subscribed, queues, written, connection>>

\* ws.onmessage, SNAPSHOT: apply_envelope for each or merge_snapshot, then the
\* queue is flushed.
OnSnapshot ==
    /\ readyState = "OPEN"
    /\ snapshotReceived' = TRUE
    /\ hydrated' = connection
    /\ FlushOfflineQueue
    /\ UNCHANGED <<readyState, subscribed, pendingEnvelopes, flushScheduled,
                   written, connection>>

\* The socket closes for any reason.  ws.onclose and ws.onerror do nothing.
OnClose ==
    /\ readyState # "CLOSED"
    /\ readyState' = "CLOSED"
    /\ UNCHANGED <<subscribed, snapshotReceived, queues, history>>

\* A wrapper opens a new connection behind the same WebSocketLike object.
Reconnect ==
    /\ readyState = "CLOSED"
    /\ subscribed
    /\ readyState' = "CONNECTING"
    /\ UNCHANGED <<subscribed, snapshotReceived, queues, history>>

\* disconnect: the buffers are discarded and the socket is closed.
Disconnect ==
    /\ subscribed' = FALSE
    /\ flushScheduled' = FALSE
    /\ pendingEnvelopes' = <<>>
    /\ offlineQueue' = <<>>
    /\ readyState' = IF readyState = "CLOSED" THEN "CLOSED" ELSE "CLOSING"
    /\ UNCHANGED <<snapshotReceived, sent, history>>

Next ==
    \/ Write
    \/ DoFlush
    \/ OnOpen
    \/ OnSnapshot
    \/ OnClose
    \/ Reconnect
    \/ Disconnect

Spec == Init /\ [][Next]_vars

\* The event loop runs a scheduled flush sooner or later.
FairSpec == Spec /\ WF_vars(DoFlush)

-----------------------------------------------------------------------------
(* Properties.                                                             *)

Ready == subscribed /\ readyState = "OPEN" /\ snapshotReceived

\* Nothing written is lost, sent twice or reordered by the manager
\* (WebSocketManager.ts:226-227): however closes, reopenings, flush timers and
\* SNAPSHOTs interleave, what was sent, then what is queued, then what is
\* pending are the envelopes written, in the order they were written.
NothingLost ==
    subscribed =>
        sent \o offlineQueue \o pendingEnvelopes = [i \in 1..written |-> i]

\* No envelope leaves on a connection before that connection's own SNAPSHOT
\* was applied (WebSocketManager.ts:58-61), not even one that was pending when
\* the socket reopened.
SnapshotFirst ==
    [][sent' # sent => hydrated' = connection']_vars

\* An envelope that waits for a flush has a flush scheduled
\* (WebSocketManager.ts:234-235, 240): cancelling one never strands it.
FlushArmed == pendingEnvelopes # <<>> => flushScheduled

\* Once the connection stays up and hydrated, everything written is sent.
EverythingSent ==
    (<>[]Ready) => <>[](Ready /\ Len(sent) = written)
=============================================================================
