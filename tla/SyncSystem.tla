----------------------------- MODULE SyncSystem -----------------------------
(***************************************************************************)
(* Clients, their stores and a relay, in one room.  The relay is one of    *)
(*   - "ts" (src/packages/server/src/relay.ts): a log.  Who connects is    *)
(*     sent the log, and a message is logged and sent on in one step;      *)
(*   - "rust" (src/server-rs/src/main.rs): a store.  Who connects is sent  *)
(*     the store, and the task that has applied a message sends it on      *)
(*     after it has released the lock, peer by peer.                       *)
(* A connection is a pair of FIFO streams, and loses both when it drops.   *)
(* A client sends its writes once it is hydrated (WebSocketManager.ts).    *)
(*                                                                         *)
(* A frame of several envelopes stands for as many frames of one, which    *)
(* the client could have sent instead.  Rooms that end, bounded channels   *)
(* and PRUNE are left to Relay, ServerRs and PruningRoom.                  *)
(***************************************************************************)
EXTENDS ClientApi

CONSTANTS
    Server,      \* the node id of the relay's store
    Relays,      \* the relays considered, a subset of {"ts", "rust"}
    MaxCalls,    \* bound: calls that programs make
    MaxConnects, \* bound: connections that clients make
    MaxInputs    \* bound: calls and connections together

ASSUME RelayAssumption ==
    /\ Server \in Node \ Client /\ Relays \subseteq {"ts", "rust"}
    /\ MaxCalls \in Nat /\ MaxConnects \in Nat /\ MaxInputs \in Nat

VARIABLES
    relay,        \* which relay this is
    log,          \* the "ts" relay's log
    sending,      \* the "rust" relay: what a client's task is sending, to whom
    online,       \* the client is connected
    hydrated,     \* ... and has applied its SNAPSHOT
    uplink,       \* the frames on their way from a client
    downlink,     \* the frames on their way to it
    connects,     \* the connections made so far
    calls,        \* the calls made so far
    lost,         \* history: the writes that will never reach the relay
    disordered,   \* history: replicas that applied an envelope before its past
    overwritten   \* history: clients that hydrated over a removal one side had made

wires   == <<online, hydrated, uplink, downlink, connects>>
ghosts  == <<lost, disordered, overwritten>>
allVars == <<vars, api, relay, log, sending, wires, calls, ghosts>>

NotSending == [peers |-> {}]

SyncInit ==
    /\ Init /\ InitApi
    /\ relay    \in Relays
    /\ log      = <<>>
    /\ sending  = [c \in Client |-> NotSending]
    /\ online   = [c \in Client |-> FALSE]
    /\ hydrated = [c \in Client |-> FALSE]
    /\ uplink   = [c \in Client |-> <<>>]
    /\ downlink = [c \in Client |-> <<>>]
    /\ connects = 0
    /\ calls    = 0
    /\ lost        = {}
    /\ disordered  = {}
    /\ overwritten = {}

-----------------------------------------------------------------------------
(* Programs.                                                               *)

\* A browser that has begun to replay a log does nothing else.
Replaying(c) ==
    downlink[c] # <<>> /\ downlink[c][1].type = "SNAPSHOT" /\ downlink[c][1].begun

Call(c) ==
    /\ calls < MaxCalls /\ calls + connects < MaxInputs
    /\ calls' = calls + 1
    /\ ~Replaying(c)
    /\ IF c \in Agent THEN AgentCall(c) ELSE BrowserCall(c)
    /\ UNCHANGED <<relay, log, sending, wires, ghosts>>

Drains(c) == DrainPending(c) /\ UNCHANGED <<relay, log, sending, wires, calls, ghosts>>

\* The envelopes queued in a StateProxy that is dropped are lost.
EndProxy(c) ==
    /\ DropProxy(c)
    /\ lost' = lost \cup ToSet(queued[c])
    /\ UNCHANGED <<relay, log, sending, wires, calls, disordered, overwritten>>

\* Everything that waits is sent, in order.
Send(c) ==
    /\ online[c] /\ hydrated[c] /\ pending[c] # <<>>
    /\ uplink'  = [uplink EXCEPT ![c] = @ \o pending[c]]
    /\ pending' = [pending EXCEPT ![c] = <<>>]
    /\ UNCHANGED <<vars, proxied, queued, relay, log, sending,
                   online, hydrated, downlink, connects, calls, ghosts>>

-----------------------------------------------------------------------------
(* Connections.                                                            *)

Snapshot == [type |-> "SNAPSHOT", begun |-> FALSE,
             data |-> IF relay = "ts" THEN log ELSE StoreCopy(Server)]
UpdateOf(env) == [type |-> "UPDATE", data |-> env]

Connect(c) ==
    /\ ~online[c] /\ connects < MaxConnects /\ calls + connects < MaxInputs
    /\ connects' = connects + 1
    /\ online'   = [online EXCEPT ![c] = TRUE]
    /\ hydrated' = [hydrated EXCEPT ![c] = FALSE]
    /\ downlink' = [downlink EXCEPT ![c] = <<Snapshot>>]
    /\ UNCHANGED <<vars, api, relay, log, sending, uplink, calls, ghosts>>

\* What was in flight is lost; no task sends to this connection again.
Disconnect(c) ==
    /\ online[c] /\ ~Replaying(c)
    /\ online'   = [online EXCEPT ![c] = FALSE]
    /\ hydrated' = [hydrated EXCEPT ![c] = FALSE]
    /\ uplink'   = [uplink EXCEPT ![c] = <<>>]
    /\ downlink' = [downlink EXCEPT ![c] = <<>>]
    /\ sending'  = [d \in Client |-> IF sending[d].peers \subseteq {c} THEN NotSending
                                     ELSE [sending[d] EXCEPT !.peers = @ \ {c}]]
    /\ lost' = lost \cup ToSet(uplink[c])
    /\ UNCHANGED <<vars, api, relay, log, connects, calls, disordered, overwritten>>

-----------------------------------------------------------------------------
(* The relay.                                                              *)

\* Mutant of Peers: a client that hydrates is left out.
PeersHydrated(c) == {d \in Client : online[d] /\ hydrated[d]} \ {c}

\* Who is sent what c has sent.
Peers(c) == {d \in Client : online[d]} \ {c}

\* Replica n applies `env`; the history notes whether its past is missing.
Apply(n, env) ==
    /\ ApplyEnvelope(n, env)
    /\ disordered' = disordered \cup (IF past[env] \subseteq known[n] THEN {} ELSE {n})

\* Mutant of RelayLogs: the newest message goes to the front of the log.
RelayLogsReversed(c, env) ==
    /\ log' = <<env>> \o log
    /\ downlink' = [d \in Client |->
            IF d \in Peers(c) THEN Append(downlink[d], UpdateOf(env)) ELSE downlink[d]]
    /\ UNCHANGED <<vars, sending, disordered>>

\* The message handler of the "ts" relay.
RelayLogs(c, env) ==
    /\ log' = Append(log, env)
    /\ downlink' = [d \in Client |->
            IF d \in Peers(c) THEN Append(downlink[d], UpdateOf(env)) ELSE downlink[d]]
    /\ UNCHANGED <<vars, sending, disordered>>

\* The locked region of the "rust" relay.
RelayApplies(c, env) ==
    /\ Apply(Server, env)
    /\ sending' = [sending EXCEPT ![c] =
            IF Peers(c) = {} THEN NotSending ELSE [peers |-> Peers(c), env |-> env]]
    /\ UNCHANGED <<log, downlink>>

RelayReceive(c) ==
    /\ uplink[c] # <<>> /\ sending[c] = NotSending
    /\ uplink' = [uplink EXCEPT ![c] = Tail(@)]
    /\ IF relay = "ts" THEN RelayLogs(c, Head(uplink[c])) ELSE RelayApplies(c, Head(uplink[c]))
    /\ UNCHANGED <<api, relay, online, hydrated, connects, calls, lost, overwritten>>

\* The "rust" relay's broadcast, outside the lock.
RelaySend(c) ==
    \E d \in sending[c].peers :
        /\ downlink' = [downlink EXCEPT ![d] = Append(@, UpdateOf(sending[c].env))]
        /\ sending' = [sending EXCEPT ![c] =
                IF @.peers = {d} THEN NotSending ELSE [peers |-> @.peers \ {d}, env |-> @.env]]
        /\ UNCHANGED <<vars, api, relay, log, online, hydrated, uplink, connects, calls, ghosts>>

-----------------------------------------------------------------------------
(* A frame arrives.  The store of an agent is free when no proxy holds it. *)

Received(c) == [downlink EXCEPT ![c] = Tail(@)]

ReceiveUpdate(c) ==
    /\ downlink[c][1].type = "UPDATE"
    /\ Apply(c, downlink[c][1].data)
    /\ downlink' = Received(c)
    /\ UNCHANGED <<hydrated, overwritten>>

\* The history notes a hydration over a removal that one side has made and the
\* other has not: of `envelopes` in the SNAPSHOT, or of c's own.  A log carries
\* its removals with it, a store only what they have left.
Hydrating(c, envelopes) ==
    LET removals(S) == {e \in S : e.kind = "Set" /\ e.op.type = "Remove"}
        own    == removals(known[c] \ envelopes)
        missed == {e \in removals(envelopes \ known[c]) :
                        relay = "rust" /\ \E entry \in sets[c][e.key] : entry[2] \in e.op.tokens}
    IN  overwritten' = overwritten \cup (IF own \cup missed = {} THEN {} ELSE {c})

\* One envelope of a log.
ReceiveLogged(c) ==
    LET frame == downlink[c][1]
    IN  /\ frame.type = "SNAPSHOT" /\ relay = "ts" /\ frame.data # <<>>
        /\ Apply(c, Head(frame.data))
        /\ downlink' = [downlink EXCEPT ![c][1].data = Tail(@), ![c][1].begun = TRUE]
        /\ IF frame.begun THEN UNCHANGED overwritten ELSE Hydrating(c, ToSet(frame.data))
        /\ UNCHANGED hydrated

\* Mutant of ReceiveLogEnd: the flag that lets writes out is not set.
ReceiveLogEndSilent(c) ==
    LET frame == downlink[c][1]
    IN  /\ frame.type = "SNAPSHOT" /\ relay = "ts" /\ frame.data = <<>>
        /\ downlink' = Received(c)
        /\ UNCHANGED <<vars, hydrated, disordered, overwritten>>

\* The end of a log.
ReceiveLogEnd(c) ==
    LET frame == downlink[c][1]
    IN  /\ frame.type = "SNAPSHOT" /\ relay = "ts" /\ frame.data = <<>>
        /\ downlink' = Received(c)
        /\ hydrated' = [hydrated EXCEPT ![c] = TRUE]
        /\ UNCHANGED <<vars, disordered, overwritten>>

\* WasmStateStore::merge_snapshot, and StateStore::merge in an agent.
ReceiveStore(c) ==
    LET frame == downlink[c][1]
    IN  /\ frame.type = "SNAPSHOT" /\ relay = "rust"
        /\ Merge(c, frame.data)
        /\ Hydrating(c, frame.data.known)
        /\ disordered' = disordered \cup (IF Server \in disordered THEN {c} ELSE {})
        /\ downlink' = Received(c)
        /\ hydrated' = [hydrated EXCEPT ![c] = TRUE]

Receives(c) ==
    /\ downlink[c] # <<>> /\ ~proxied[c]
    /\ ReceiveUpdate(c) \/ ReceiveLogged(c) \/ ReceiveLogEnd(c) \/ ReceiveStore(c)
    /\ UNCHANGED <<api, relay, log, sending, online, uplink, connects, calls, lost>>

Works(c) ==
    Drains(c) \/ EndProxy(c) \/ Send(c) \/ RelayReceive(c) \/ RelaySend(c) \/ Receives(c)

SyncNext ==
    \E c \in Client : Call(c) \/ Connect(c) \/ Disconnect(c) \/ Works(c)

SyncSpec == SyncInit /\ [][SyncNext]_allVars

\* When Works(c) is enabled.
Busy(c) ==
    \/ proxied[c]
    \/ online[c] /\ hydrated[c] /\ pending[c] # <<>>
    \/ uplink[c] # <<>> \/ sending[c] # NotSending
    \/ downlink[c] # <<>>

\* Programs drain and drop their proxies, timers and sockets deliver, and the
\* relay handles what arrives: WF_allVars(Works(c)), with its ENABLED as Busy.
FairSync ==
    SyncSpec /\ \A c \in Client : []<>~Busy(c) \/ []<><<Works(c)>>_allVars

-----------------------------------------------------------------------------
(* Properties.                                                             *)

\* What the relay has.
AtRelay == IF relay = "ts" THEN ToSet(log) ELSE known[Server]

\* Every write is where it can still be sent from, at the relay or counted as
\* lost, and in one place only, whatever proxies, drops and reconnections do.
WritesAccounted ==
    \A e \in net :
        Cardinality({i \in 1..5 :
            CASE i = 1 -> e \in ToSet(queued[e.node])
              [] i = 2 -> e \in ToSet(pending[e.node])
              [] i = 3 -> e \in ToSet(uplink[e.node])
              [] i = 4 -> e \in AtRelay
              [] i = 5 -> e \in lost}) = 1

\* Who is hydrated and has nothing to come has everything the relay has: no
\* write falls between the SNAPSHOT and the UPDATEs.  A store does not carry
\* the inserts it buffers, so there the promise needs that no write was lost.
CaughtUp ==
    (relay = "ts" \/ lost = {}) =>
        \A c \in Client :
            (/\ hydrated[c] /\ downlink[c] = <<>>
             /\ \A d \in Client : c \notin sending[d].peers) => AtRelay \subseteq known[c]

\* One log and FIFO streams keep causal order: no client of the "ts" relay
\* applies an envelope before what its author knew, unless writes were lost.
CausalDelivery == (relay = "ts" /\ lost = {}) => disordered = {}

\* Programs that reflect the same writes read the same, through either API
\* (README.md:38-41), unless one of them got writes out of causal order or
\* hydrated over a removal that only it, or only the relay's store, had made.
SameWritesSameView ==
    \A c, d \in Client \ (disordered \cup overwritten) :
        (known[c] = known[d] /\ ~Replaying(c) /\ ~Replaying(d)) => View(c) = View(d)

Undisturbed == lost = {} /\ disordered = {} /\ overwritten = {}

\* In the end, programs that stay connected read the same.
EventuallySameView ==
    <>[](Undisturbed => \A c, d \in Client : (online[c] /\ online[d]) => View(c) = View(d))

\* Nothing is on its way, and nothing was lost.
Quiet ==
    /\ lost = {}
    /\ \A c \in Client :
        /\ online[c] /\ hydrated[c]
        /\ <<queued[c], pending[c], uplink[c], downlink[c]>> = <<<<>>, <<>>, <<>>, <<>>>>
        /\ sending[c] = NotSending

\* README.md:38-41: the CRDTs converge in any order and bear repetition.
QuietSameView == Quiet => \A c, d \in Client : View(c) = View(d)
=============================================================================
