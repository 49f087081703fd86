--------------------------- MODULE ORSetReplicas ---------------------------
(***************************************************************************)
(* Replicas of one observed-remove set (src/src/or_set.rs) that exchange   *)
(* operations and merge whole states.                                      *)
(* Operations arrive in any order, any number of times, or never, and      *)
(* copies of replicas are merged at any later time.  Only the replicas in  *)
(* Orderly have a transport that keeps causal order: an operation arrives  *)
(* there at most once and after everything its producer knew, and they     *)
(* merge a copy of another of them only when they start, to catch up.      *)
(***************************************************************************)
EXTENDS ORSet, Naturals

CONSTANTS
    Node,    \* replicas
    Orderly, \* the replicas that get operations in causal order
    Value,   \* elements
    Token,   \* what ORSet::add draws a fresh token from
    MaxOps   \* bound: operations produced in a behaviour

ASSUME OrderlyAssumption == Orderly \subseteq Node
ASSUME BoundAssumption == MaxOps \in Nat

VARIABLES
    entries,  \* ORSet.entries of each replica
    net,      \* every operation produced, with the ones its producer knew
    copy,     \* a clone of a replica, to be merged by others
    known     \* history: the operations each replica's state reflects

vars == <<entries, net, copy, known>>

NoCopy == [taken |-> FALSE]

\* ORSet::new
Init ==
    /\ entries = [n \in Node |-> EmptySet]
    /\ net     = {}
    /\ copy    = NoCopy
    /\ known   = [n \in Node |-> {}]

-----------------------------------------------------------------------------
Ops == {m.op : m \in net}
Adds(ops) == {op \in ops : op.type = "Add"}
RemovedTokens(ops) == UNION {op.tokens : op \in ops \ Adds(ops)}
AddedPairs(ops) == {<<op.value, op.token>> : op \in Adds(ops)}

\* ORSet::add or remove, applied at once by its producer.
Produce(n, op) ==
    /\ Cardinality(net) < MaxOps
    /\ entries' = [entries EXCEPT ![n] = SetApply(@, op)]
    /\ net'     = net \cup {[op |-> op, past |-> known[n]]}
    /\ known'   = [known EXCEPT ![n] = @ \cup {op}]
    /\ UNCHANGED copy

\* The uuid makes the token fresh.
Add(n, v) ==
    \E token \in Token \ {op.token : op \in Adds(Ops)} :
        Produce(n, AddOp(v, token))

Remove(n, v) ==
    /\ SetContains(entries[n], v)
    /\ Produce(n, RemoveOp(entries[n], v))

\* ORSet::apply of an operation from the network.
Apply(n, op) ==
    /\ entries' = [entries EXCEPT ![n] = SetApply(@, op)]
    /\ known'   = [known EXCEPT ![n] = @ \cup {op}]
    /\ UNCHANGED <<net, copy>>

Causal(n, m) == m.op \notin known[n] /\ m.past \subseteq known[n]

Deliver(n) == \E m \in net : (n \in Orderly => Causal(n, m)) /\ Apply(n, m.op)

TakeCopy(n) ==
    /\ copy' = [taken |-> TRUE, from |-> n, entries |-> entries[n], known |-> known[n]]
    /\ UNCHANGED <<entries, net, known>>

\* ORSet::merge
Merge(n) ==
    /\ copy.taken
    /\ n \in Orderly => copy.from \in Orderly /\ known[n] = {}
    /\ entries' = [entries EXCEPT ![n] = SetMerge(@, copy.entries)]
    /\ known'   = [known EXCEPT ![n] = @ \cup copy.known]
    /\ UNCHANGED <<net, copy>>

LocalStep(n) == \E v \in Value : Add(n, v) \/ Remove(n, v)

Next == \E n \in Node : LocalStep(n) \/ Deliver(n) \/ TakeCopy(n) \/ Merge(n)

Spec == Init /\ [][Next]_vars

-----------------------------------------------------------------------------
(* Properties.                                                             *)

OpType == [type : {"Add"}, value : Value, token : Token]
            \cup [type : {"Remove"}, tokens : SUBSET Token]

\* Every variable keeps its type.
TypeOK ==
    /\ entries \in [Node -> SUBSET (Value \X Token)]
    /\ known \in [Node -> SUBSET Ops]
    /\ Ops \subseteq OpType

\* Add wins (or_set.rs:3-7): an add that no Remove observed stays in every
\* replica that reflects it, whatever arrives in whatever order, replayed or
\* merged, and nothing is live that was not added with that token.
AddWins ==
    \A n \in Node :
        /\ {p \in AddedPairs(known[n]) : p[2] \notin RemovedTokens(Ops)}
              \subseteq entries[n]
        /\ entries[n] \subseteq AddedPairs(known[n])

\* Strong convergence (or_set.rs:10) of replicas that get operations in causal
\* order, whatever the producers of the operations get, and that start from
\* nothing or from a snapshot of another of them: the live tokens are those
\* added less those removed, so replicas that reflect the same
\* operations hold the same set.
SetConvergence ==
    \A n \in Orderly :
        entries[n] = {p \in AddedPairs(known[n]) :
                        p[2] \notin RemovedTokens(known[n])}
=============================================================================
