----------------------------- MODULE LWWRegister -----------------------------
(***************************************************************************)
(* The last-writer-wins register of src/src/lww_register.rs.  The state of *)
(* a register is `Unset` (state = None) or the winning write.              *)
(***************************************************************************)
EXTENDS LamportClock

\* LWWRegister::new: state = None.
Unset == [set |-> FALSE]

\* LWWRegister::set: the operation, not applied yet.
LWWOp(value, timestamp, node) ==
    [set |-> TRUE, value |-> value, timestamp |-> timestamp, node |-> node]

\* Mutant of Newer: no tie-break by node id.
NewerWithoutTieBreak(op, cur) == op.timestamp > cur.timestamp

\* op.timestamp > cur_ts, or equal timestamps and a greater node id.
Newer(op, cur) == Later(op.timestamp, op.node, cur.timestamp, cur.node)

\* LWWRegister::apply: the state after the operation.
RegApply(state, op) ==
    IF ~state.set \/ Newer(op, state) THEN op ELSE state

\* LWWRegister::merge: the other register's winning write is applied here.
RegMerge(state, other) == IF other.set THEN RegApply(state, other) ELSE state
=============================================================================
