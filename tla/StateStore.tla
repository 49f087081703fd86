----------------------------- MODULE StateStore -----------------------------
(***************************************************************************)
(* The composite store of src/src/state_store.rs, one replica per node:    *)
(* a Lamport clock and named registers, sets and sequences.  Each public   *)
(* operation is an action.  The replicas exchange                          *)
(*   - envelopes, through a network that loses, duplicates and reorders    *)
(*     (apply_envelope may be called with any envelope ever produced, any  *)
(*     number of times, in any order), and                                 *)
(*   - snapshots of a whole store, merged by a replica at any later time.  *)
(*                                                                         *)
(* A key that is absent from a map answers like an empty register, set or  *)
(* sequence, so the maps are total functions on the keys.                  *)
(***************************************************************************)
EXTENDS LWWRegister, ORSet, RGA

CONSTANTS
    Node,     \* replicas; a node id is a number, compared like the strings
    RegKey,   \* names of registers
    SetKey,   \* names of sets
    SeqKey,   \* names of sequences
    Value,    \* values written to registers and sets
    MaxOps,   \* bound: envelopes produced in a behaviour
    MaxClock  \* bound: highest Lamport clock reached

ASSUME NodeAssumption  == Node \subseteq Nat \ {0}
ASSUME BoundAssumption == MaxOps \in Nat /\ MaxClock \in Nat

VARIABLES
    clock,      \* StateStore.clock of each replica
    registers,  \* StateStore.registers of each replica
    sets,       \* StateStore.sets of each replica
    sequences,  \* StateStore.sequences of each replica
    net,        \* every envelope produced so far
    snapshot,   \* a serialised store on its way to other replicas
    known,      \* history: the envelopes each replica's state reflects
    past        \* history: for each envelope, what its producer knew

store   == <<clock, registers, sets, sequences>>
history == <<known, past>>
vars    == <<clock, registers, sets, sequences, net, snapshot, known, past>>

NoSnapshot == [taken |-> FALSE]

\* Envelope, without its optional signature.
Envelope(ts, n, kind, key, op) ==
    [timestamp |-> ts, node |-> n, kind |-> kind, key |-> key, op |-> op]

\* StateStore::new
Init ==
    /\ clock     = [n \in Node |-> ClockInit]
    /\ registers = [n \in Node |-> [k \in RegKey |-> Unset]]
    /\ sets      = [n \in Node |-> [k \in SetKey |-> EmptySet]]
    /\ sequences = [n \in Node |-> [k \in SeqKey |-> EmptyRGA]]
    /\ net       = {}
    /\ snapshot  = NoSnapshot
    /\ known     = [n \in Node |-> {}]
    /\ past      = [e \in {} |-> {}]

-----------------------------------------------------------------------------
(* Local operations.  Each ticks the clock first, whatever happens next.   *)

\* Mutant of TickClock: the new time is not stored.
TickClockNotStored(n) ==
    /\ clock[n] < MaxClock
    /\ UNCHANGED clock

TickClock(n) ==
    /\ clock[n] < MaxClock
    /\ clock' = [clock EXCEPT ![n] = Tick(@)]

\* Mutant of Emit: the envelope is not handed to the caller.
EmitNothing(n, kind, key, op) ==
    /\ Cardinality(net) < MaxOps
    /\ known' = [known EXCEPT ![n] = @ \cup {Envelope(Tick(clock[n]), n, kind, key, op)}]
    /\ UNCHANGED <<net, past>>

\* The envelope returned to the caller, who broadcasts it.
Emit(n, kind, key, op) ==
    LET env == Envelope(Tick(clock[n]), n, kind, key, op)
    IN  /\ Cardinality(net) < MaxOps
        /\ net'   = net \cup {env}
        /\ known' = [known EXCEPT ![n] = @ \cup {env}]
        /\ past'  = [e \in net' |-> IF e = env THEN known[n] ELSE past[e]]

\* StateStore::set_register
SetRegister(n, k, v) ==
    LET op == LWWOp(v, Tick(clock[n]), n)
    IN  /\ TickClock(n)
        /\ registers' = [registers EXCEPT ![n][k] = RegApply(@, op)]
        /\ Emit(n, "Register", k, op)
        /\ UNCHANGED <<sets, sequences, snapshot>>

\* StateStore::set_add.  The uuid in the token is fresh: the producer and its
\* timestamp stand for it.
SetAdd(n, k, v) ==
    LET op == AddOp(v, <<n, Tick(clock[n])>>)
    IN  /\ TickClock(n)
        /\ sets' = [sets EXCEPT ![n][k] = SetApply(@, op)]
        /\ Emit(n, "Set", k, op)
        /\ UNCHANGED <<registers, sequences, snapshot>>

\* Mutant of SetRemove: the operation is broadcast but not applied here.
SetRemoveNotApplied(n, k, v) ==
    /\ TickClock(n)
    /\ SetContains(sets[n][k], v)
    /\ Emit(n, "Set", k, RemoveOp(sets[n][k], v))
    /\ UNCHANGED <<registers, sets, sequences, snapshot>>

\* StateStore::set_remove of a value that is present.
SetRemove(n, k, v) ==
    LET op == RemoveOp(sets[n][k], v)
    IN  /\ TickClock(n)
        /\ SetContains(sets[n][k], v)
        /\ sets' = [sets EXCEPT ![n][k] = SetApply(@, op)]
        /\ Emit(n, "Set", k, op)
        /\ UNCHANGED <<registers, sequences, snapshot>>

\* StateStore::set_remove returning None: the clock has ticked all the same.
SetRemoveAbsent(n, k, v) ==
    /\ TickClock(n)
    /\ ~SetContains(sets[n][k], v)
    /\ UNCHANGED <<registers, sets, sequences, net, snapshot, known, past>>

SeqLen(n, k) == Len(Visible(sequences[n][k].nodes))

\* StateStore::seq_insert at a valid index.
SeqInsert(n, k, index) ==
    LET op == NewInsert(sequences[n][k], index, n)
    IN  /\ TickClock(n)
        /\ sequences' = [sequences EXCEPT ![n][k] = SeqApply(@, op)]
        /\ Emit(n, "Sequence", k, op)
        /\ UNCHANGED <<registers, sets, snapshot>>

\* StateStore::seq_delete of a visible element.
SeqDelete(n, k, index) ==
    LET op == NewDelete(sequences[n][k], index)
    IN  /\ TickClock(n)
        /\ sequences' = [sequences EXCEPT ![n][k] = SeqApply(@, op)]
        /\ Emit(n, "Sequence", k, op)
        /\ UNCHANGED <<registers, sets, snapshot>>

\* StateStore::seq_delete returning None for an index out of bounds.
SeqDeleteNone(n) ==
    /\ SeqKey # {}
    /\ TickClock(n)
    /\ UNCHANGED <<registers, sets, sequences, net, snapshot, known, past>>

LocalOperation(n) ==
    \/ \E k \in RegKey, v \in Value : SetRegister(n, k, v)
    \/ \E k \in SetKey, v \in Value : SetAdd(n, k, v)
    \/ \E k \in SetKey, v \in Value : SetRemove(n, k, v)
    \/ \E k \in SetKey, v \in Value : SetRemoveAbsent(n, k, v)
    \/ \E k \in SeqKey : \E index \in 0..SeqLen(n, k) : SeqInsert(n, k, index)
    \/ \E k \in SeqKey : \E index \in 0..(SeqLen(n, k) - 1) : SeqDelete(n, k, index)
    \/ SeqDeleteNone(n)

-----------------------------------------------------------------------------
(* Remote input.                                                           *)

\* Mutant of UpdateClock: a received timestamp leaves the clock alone.
UpdateClockIgnored(n, remote_ts) ==
    /\ Update(clock[n], remote_ts) <= MaxClock
    /\ UNCHANGED clock

\* StateStore::update_clock
UpdateClock(n, remote_ts) ==
    /\ Update(clock[n], remote_ts) <= MaxClock
    /\ clock' = [clock EXCEPT ![n] = Update(@, remote_ts)]

\* StateStore::apply_envelope
ApplyEnvelope(n, env) ==
    /\ UpdateClock(n, env.timestamp)
    /\ registers' = IF env.kind # "Register" THEN registers
                    ELSE [registers EXCEPT ![n][env.key] = RegApply(@, env.op)]
    /\ sets'      = IF env.kind # "Set" THEN sets
                    ELSE [sets EXCEPT ![n][env.key] = SetApply(@, env.op)]
    /\ sequences' = IF env.kind # "Sequence" THEN sequences
                    ELSE [sequences EXCEPT ![n][env.key] = SeqApply(@, env.op)]
    /\ known'     = [known EXCEPT ![n] = @ \cup {env}]
    /\ UNCHANGED <<net, snapshot, past>>

Receive(n) == \E env \in net : ApplyEnvelope(n, env)

\* What a snapshot of n reflects: merge does not look at pending inserts.
Carried(n) ==
    {e \in known[n] :
        ~(e.kind = "Sequence" /\ e.op.type = "Insert"
            /\ e.op.id \notin Ids(sequences[n][e.key].nodes))}

\* A clone or a serialised copy of n's store ...
StoreCopy(n) ==
    [taken |-> TRUE, node |-> n, clock |-> clock[n], registers |-> registers[n],
     sets |-> sets[n], sequences |-> sequences[n], known |-> Carried(n)]

\* ... leaves for other replicas.
TakeSnapshot(n) ==
    /\ snapshot' = StoreCopy(n)
    /\ UNCHANGED <<store, net, history>>

\* Mutant of Merge: the other store's sequences are adopted wholesale.
MergeAdopts(n, other) ==
    /\ UpdateClock(n, other.clock)
    /\ registers' = [registers EXCEPT ![n] =
                        [k \in RegKey |-> RegMerge(@[k], other.registers[k])]]
    /\ sets'      = [sets EXCEPT ![n] =
                        [k \in SetKey |-> SetMerge(@[k], other.sets[k])]]
    /\ sequences' = [sequences EXCEPT ![n] = other.sequences]
    /\ known'     = [known EXCEPT ![n] = @ \cup other.known]
    /\ UNCHANGED <<net, snapshot, past>>

\* StateStore::merge of `other` into n.
Merge(n, other) ==
    /\ UpdateClock(n, other.clock)
    /\ registers' = [registers EXCEPT ![n] =
                        [k \in RegKey |-> RegMerge(@[k], other.registers[k])]]
    /\ sets'      = [sets EXCEPT ![n] =
                        [k \in SetKey |-> SetMerge(@[k], other.sets[k])]]
    /\ sequences' = [sequences EXCEPT ![n] =
                        [k \in SeqKey |-> SeqMerge(@[k], other.sequences[k])]]
    /\ known'     = [known EXCEPT ![n] = @ \cup other.known]
    /\ UNCHANGED <<net, snapshot, past>>

MergeSnapshot(n) == snapshot.taken /\ Merge(n, snapshot)

\* StateStore::prune_tombstones.  prune_empties changes no live token.
PruneTombstones(n, before_ts) ==
    /\ sequences' = [sequences EXCEPT ![n] =
                        [k \in SeqKey |-> SeqPrune(@[k], before_ts)]]
    /\ UNCHANGED <<clock, registers, sets, net, snapshot, known, past>>

\* A relay asks for it up to the timestamp of a Delete or Remove it has seen.
Prune(n) ==
    \E env \in net : /\ env.kind # "Register"
                     /\ env.op.type \in {"Delete", "Remove"}
                     /\ PruneTombstones(n, env.timestamp)

Next ==
    \E n \in Node :
        \/ LocalOperation(n)
        \/ Receive(n)
        \/ TakeSnapshot(n)
        \/ MergeSnapshot(n)
        \/ Prune(n)

Spec == Init /\ [][Next]_vars

-----------------------------------------------------------------------------
(* Properties.                                                             *)

RGAId == [clock : 1..MaxClock, node : Node]
Token == Node \X (1..MaxClock)
RGAType ==
    [clock : 0..MaxClock, nodes : Seq([id : RGAId, deleted : BOOLEAN]),
     pending : Seq([type : {"Insert"}, id : RGAId, after : RGAId \cup {Head0}])]
RegType ==
    {Unset} \cup [set : {TRUE}, value : Value, timestamp : 1..MaxClock, node : Node]

\* Every variable keeps its type, and the history speaks of produced
\* envelopes only.
TypeOK ==
    /\ clock \in [Node -> 0..MaxClock]
    /\ registers \in [Node -> [RegKey -> RegType]]
    /\ sets \in [Node -> [SetKey -> SUBSET (Value \X Token)]]
    /\ sequences \in [Node -> [SeqKey -> RGAType]]
    /\ known \in [Node -> SUBSET net]
    /\ DOMAIN past = net
    /\ \A e \in net : e.timestamp \in 1..MaxClock /\ e.node \in Node

\* Lamport's condition (lamport_clock.rs:66-68): an envelope carries a later
\* timestamp than every envelope its producer's state reflected, whether it
\* arrived alone or inside a snapshot.
LamportCausality ==
    \A f \in net : \A e \in past[f] : e.timestamp < f.timestamp

\* No two envelopes share a timestamp and a producer, although a node's clock
\* also moves on what it receives: the tie-break of the registers is total.
UniqueStamps ==
    \A e, f \in net :
        (e.timestamp = f.timestamp /\ e.node = f.node) => e = f

\* The writes to register k among some envelopes.
Writes(envs, k) ==
    {e.op : e \in {x \in envs : x.kind = "Register" /\ x.key = k}}

\* Strong convergence of registers (lww_register.rs:88-92, 116-125): whatever
\* the order, the duplicates and the snapshots, a register holds the greatest
\* of the writes it reflects, so two replicas that reflect the same writes
\* agree.
RegisterConvergence ==
    \A n \in Node, k \in RegKey :
        LET ws == Writes(known[n], k)
        IN  IF ws = {} THEN registers[n][k] = Unset
            ELSE /\ registers[n][k] \in ws
                 /\ \A w \in ws \ {registers[n][k]} : Newer(registers[n][k], w)

\* The counter of a sequence never runs ahead of the clock of its store
\* (state_store.rs:226-236): a store's clock bounds every RGAId in it, which
\* is what the PRUNE protocol, watching timestamps only, relies on.
SequenceClockBound ==
    /\ \A n \in Node, k \in SeqKey : sequences[n][k].clock <= clock[n]
    /\ \A e \in net : e.kind = "Sequence" => e.op.id.clock <= e.timestamp

\* Elements in a sequence: shown, or waiting for their anchor.
Present(seq) == ToSet(Visible(seq.nodes)) \cup {op.id : op \in ToSet(seq.pending)}

\* A PRUNE takes tombstones only (rga.rs:303-311): whatever is pruned, and
\* whenever, an element that a store has got, in an envelope or a snapshot, and
\* whose Delete it has not got, is shown by the store or waits for its anchor.
PruneLosesNothing ==
    \A n \in Node : \A e \in known[n] :
        (e.kind = "Sequence" /\ e.op.type = "Insert") =>
            \/ e.op.id \in Present(sequences[n][e.key])
            \/ \E d \in known[n] :
                  d.kind = "Sequence" /\ d.key = e.key /\ d.op = DeleteOp(e.op.id)

=============================================================================
