------------------------------ MODULE ClientApi ------------------------------
(***************************************************************************)
(* How programs use a store: a Rust agent through the StateProxy of        *)
(* src/src/proxy.rs and the types that crdt_state! generates on it         *)
(* (src/src/macros.rs), a browser through the bindings of src/src/wasm.rs. *)
(*                                                                         *)
(* A StateProxy borrows the store: while there is one, nothing else uses   *)
(* the store, and the envelopes it has queued go with it.  The bindings    *)
(* return the envelope of each call, which the browser's manager buffers.  *)
(* JSON and MessagePack are one-to-one on what they carry here, and an     *)
(* argument that does not parse changes nothing.                           *)
(***************************************************************************)
EXTENDS StateStore

CONSTANTS
    Client,     \* the nodes that have a program
    Agent,      \* the clients written in Rust
    TypedField  \* the registers that a crdt_state! type declares

ASSUME ClientAssumption ==
    Client \subseteq Node /\ Agent \subseteq Client /\ TypedField \subseteq RegKey

VARIABLES
    proxied,  \* a StateProxy on the agent's store exists
    queued,   \* its StateProxy.pending
    pending   \* what the program has to send: drained, or returned by a call

api == <<proxied, queued, pending>>

InitApi ==
    /\ proxied = [c \in Client |-> FALSE]
    /\ queued  = [c \in Client |-> <<>>]
    /\ pending = [c \in Client |-> <<>>]

\* The envelope that the call has produced, if it has.
Emitted == SetToSeq(net' \ net)

-----------------------------------------------------------------------------
(* StateProxy.                                                             *)

Queue(c) ==
    /\ proxied[c]
    /\ queued' = [queued EXCEPT ![c] = @ \o Emitted]
    /\ UNCHANGED <<proxied, pending>>

\* StateProxy::new
NewProxy(c) ==
    /\ c \in Agent /\ ~proxied[c]
    /\ proxied' = [proxied EXCEPT ![c] = TRUE]
    /\ UNCHANGED <<vars, queued, pending>>

\* StateProxy::set
ProxySet(c, field, v) == SetRegister(c, field, v) /\ Queue(c)

\* StateProxy::set_add
ProxySetAdd(c, field, v) == SetAdd(c, field, v) /\ Queue(c)

\* StateProxy::set_remove, which returns true or false.
ProxySetRemove(c, field, v) ==
    (SetRemove(c, field, v) \/ SetRemoveAbsent(c, field, v)) /\ Queue(c)

\* StateProxy::seq_push: an insert at the length it has read.
ProxySeqPush(c, field) == SeqInsert(c, field, SeqLen(c, field)) /\ Queue(c)

\* StateProxy::seq_insert
ProxySeqInsert(c, field, index) == SeqInsert(c, field, index) /\ Queue(c)

\* StateProxy::seq_delete, which returns true or false.
ProxySeqDelete(c, field, index) ==
    /\ IF index < SeqLen(c, field) THEN SeqDelete(c, field, index) ELSE SeqDeleteNone(c)
    /\ Queue(c)

\* Mutant of DrainPending: the queue is returned and kept.
DrainPendingKept(c) ==
    /\ proxied[c] /\ queued[c] # <<>> /\ pending[c] = <<>>
    /\ pending' = [pending EXCEPT ![c] = @ \o queued[c]]
    /\ UNCHANGED <<vars, proxied, queued>>

\* StateProxy::drain_pending; the caller sends what it returns.
DrainPending(c) ==
    /\ proxied[c] /\ queued[c] # <<>>
    /\ pending' = [pending EXCEPT ![c] = @ \o queued[c]]
    /\ queued'  = [queued EXCEPT ![c] = <<>>]
    /\ UNCHANGED <<vars, proxied>>

\* The end of the borrow.
DropProxy(c) ==
    /\ proxied[c]
    /\ proxied' = [proxied EXCEPT ![c] = FALSE]
    /\ queued'  = [queued EXCEPT ![c] = <<>>]
    /\ UNCHANGED <<vars, pending>>

\* set_<field> of a crdt_state! type, whose other methods are StateProxy's.
TypedSet(c, field, v) == field \in TypedField /\ ProxySet(c, field, v)

AgentCall(c) ==
    \/ NewProxy(c)
    \/ \E k \in TypedField, v \in Value : TypedSet(c, k, v)
    \/ \E k \in RegKey \ TypedField, v \in Value : ProxySet(c, k, v)
    \/ \E k \in SetKey, v \in Value : ProxySetAdd(c, k, v) \/ ProxySetRemove(c, k, v)
    \/ \E k \in SeqKey :
        \/ ProxySeqPush(c, k)
        \/ \E index \in 0..SeqLen(c, k) :
            ProxySeqInsert(c, k, index) \/ ProxySeqDelete(c, k, index)

-----------------------------------------------------------------------------
(* WasmStateStore.                                                         *)

\* The envelope bytes a call returns go to the manager.
Return(c) ==
    /\ pending' = [pending EXCEPT ![c] = @ \o Emitted]
    /\ UNCHANGED <<proxied, queued>>

WasmSetRegister(c, key, v) == SetRegister(c, key, v) /\ Return(c)
WasmSetAdd(c, key, v)      == SetAdd(c, key, v) /\ Return(c)

\* set_remove returns the bytes, or undefined.
WasmSetRemove(c, key, v) ==
    (SetRemove(c, key, v) \/ SetRemoveAbsent(c, key, v)) /\ Return(c)

WasmSeqInsert(c, key, index) == SeqInsert(c, key, index) /\ Return(c)

\* seq_delete returns the bytes, or undefined.
WasmSeqDelete(c, key, index) ==
    /\ IF index < SeqLen(c, key) THEN SeqDelete(c, key, index) ELSE SeqDeleteNone(c)
    /\ Return(c)

BrowserCall(c) ==
    \/ \E k \in RegKey, v \in Value : WasmSetRegister(c, k, v)
    \/ \E k \in SetKey, v \in Value : WasmSetAdd(c, k, v) \/ WasmSetRemove(c, k, v)
    \/ \E k \in SeqKey : \E index \in 0..SeqLen(c, k) :
            WasmSeqInsert(c, k, index) \/ WasmSeqDelete(c, k, index)

-----------------------------------------------------------------------------
(* What a program reads.  An Option is a set of at most one value.         *)

GetRegister(n, k) == {r.value : r \in {registers[n][k]} \ {Unset}}
SetHas(n, k, v)   == SetContains(sets[n][k], v)
SetItems(n, k)    == {p[1] : p \in sets[n][k]}
SeqItems(n, k)    == Visible(sequences[n][k].nodes)

\* StateProxy::get, set_contains and seq_items.
ProxyGet(c, field)            == GetRegister(c, field)
ProxySetContains(c, field, v) == SetHas(c, field, v)
ProxySeqItems(c, field)       == SeqItems(c, field)

\* get_<field> of a crdt_state! type.
TypedGet(c, field) == ProxyGet(c, field)

AgentView(c) ==
    [registers |-> [k \in RegKey |->
                        IF k \in TypedField THEN TypedGet(c, k) ELSE ProxyGet(c, k)],
     sets      |-> [k \in SetKey |-> {v \in Value : ProxySetContains(c, k, v)}],
     sequences |-> [k \in SeqKey |-> ProxySeqItems(c, k)]]

\* WasmStateStore's get_register, set_items, set_contains, seq_items, seq_len.
WasmGetRegister(c, key)    == GetRegister(c, key)
WasmSetItems(c, key)       == SetItems(c, key)
WasmSetContains(c, key, v) == SetHas(c, key, v)
WasmSeqItems(c, key)       == SeqItems(c, key)
WasmSeqLen(c, key)         == SeqLen(c, key)

BrowserView(c) ==
    [registers |-> [k \in RegKey |-> WasmGetRegister(c, k)],
     sets      |-> [k \in SetKey |-> WasmSetItems(c, k)],
     sequences |-> [k \in SeqKey |-> WasmSeqItems(c, k)]]

\* What the program of a client sees.
View(c) == IF c \in Agent THEN AgentView(c) ELSE BrowserView(c)
=============================================================================
