---------------------------- MODULE RGAReplicas ----------------------------
(***************************************************************************)
(* Replicas of one sequence (src/src/rga.rs) that exchange operations and  *)
(* merge whole states.                                                     *)
(* Operations arrive in any order, any number of times, or never, and      *)
(* copies of replicas are merged at any later time.  Only the replicas in  *)
(* Orderly have a transport that keeps causal order: an operation arrives  *)
(* there at most once and after everything its producer knew, and copies   *)
(* come from replicas in Orderly.                                          *)
(***************************************************************************)
EXTENDS RGA, FiniteSets

CONSTANTS
    Node,       \* replicas; a node id is a number, compared like the strings
    Orderly,    \* the replicas that get operations in causal order
    MaxOps,     \* bound: operations produced in a behaviour
    MaxPending  \* bound: inserts a replica buffers (a duplicate is buffered again)

ASSUME NodeAssumption == Node \subseteq Nat \ {0}
ASSUME OrderlyAssumption == Orderly \subseteq Node
ASSUME BoundAssumption == MaxOps \in Nat /\ MaxPending \in Nat

VARIABLES
    rga,    \* the RGA of each replica
    net,    \* every operation produced, with the ones its producer knew
    copy,   \* a clone of a replica, to be merged by others
    known   \* history: the operations each replica's state reflects

vars == <<rga, net, copy, known>>

NoCopy == [taken |-> FALSE]

\* RGA::new
Init ==
    /\ rga   = [n \in Node |-> EmptyRGA]
    /\ net   = {}
    /\ copy  = NoCopy
    /\ known = [n \in Node |-> {}]

-----------------------------------------------------------------------------
VisibleLen(n) == Len(Visible(rga[n].nodes))

Produce(n, op) ==
    /\ Cardinality(net) < MaxOps
    /\ rga'   = [rga EXCEPT ![n] = SeqApply(@, op)]
    /\ net'   = net \cup {[op |-> op, past |-> known[n]]}
    /\ known' = [known EXCEPT ![n] = @ \cup {op}]
    /\ UNCHANGED copy

\* RGA::insert at a valid index.
Insert(n) ==
    \E index \in 0..VisibleLen(n) : Produce(n, NewInsert(rga[n], index, n))

\* RGA::delete of a visible element.
Delete(n) ==
    \E index \in 0..(VisibleLen(n) - 1) : Produce(n, NewDelete(rga[n], index))

\* RGA::apply of an operation from the network.
Apply(n, op) ==
    /\ rga'   = [rga EXCEPT ![n] = SeqApply(@, op)]
    /\ Len(rga'[n].pending) <= MaxPending
    /\ known' = [known EXCEPT ![n] = @ \cup {op}]
    /\ UNCHANGED <<net, copy>>

Causal(n, m) == m.op \notin known[n] /\ m.past \subseteq known[n]

Deliver(n) == \E m \in net : (n \in Orderly => Causal(n, m)) /\ Apply(n, m.op)

\* What a copy of n reflects: merge does not look at pending inserts.
Carried(n) ==
    {op \in known[n] : op.type = "Insert" => op.id \in Ids(rga[n].nodes)}

TakeCopy(n) ==
    /\ copy' = [taken |-> TRUE, from |-> n, rga |-> rga[n], known |-> Carried(n)]
    /\ UNCHANGED <<rga, net, known>>

\* RGA::merge
Merge(n) ==
    /\ copy.taken
    /\ n \in Orderly => copy.from \in Orderly
    /\ rga'   = [rga EXCEPT ![n] = SeqMerge(@, copy.rga)]
    /\ known' = [known EXCEPT ![n] = @ \cup copy.known]
    /\ UNCHANGED <<net, copy>>

\* RGA::prune_tombstones.  The replicas here keep their tombstones; those of a
\* store drop them (StoreRefinement).
PruneTombstones(n, before_ts) ==
    /\ rga' = [rga EXCEPT ![n] = SeqPrune(@, before_ts)]
    /\ UNCHANGED <<net, copy, known>>

LocalStep(n) == Insert(n) \/ Delete(n)

Next == \E n \in Node : LocalStep(n) \/ Deliver(n) \/ TakeCopy(n) \/ Merge(n)

Spec == Init /\ [][Next]_vars

-----------------------------------------------------------------------------
(* Properties.                                                             *)

RGAId == [clock : 1..MaxOps, node : Node]

\* Every variable keeps its type.
TypeOK ==
    /\ rga \in [Node ->
         [clock : 0..MaxOps, nodes : Seq([id : RGAId, deleted : BOOLEAN]),
          pending : Seq([type : {"Insert"}, id : RGAId,
                         after : RGAId \cup {Head0}])]]
    /\ known \in [Node -> SUBSET {m.op : m \in net}]
    /\ \A m \in net : m.op.id \in RGAId

Inserts(ops) == {op \in ops : op.type = "Insert"}
InsertIds(ops) == {op.id : op \in Inserts(ops)}
Deleted(ops) == {op.id : op \in ops \ Inserts(ops)}
AllInserts == Inserts({m.op : m \in net})

\* Ids are unique (rga.rs:8-12), although each replica counts them on a
\* counter of its own and other replicas' ids move it: no two inserts differ
\* in anything but their id, and nobody produces one twice.
UniqueIds ==
    \A a, b \in net :
        (a.op \in AllInserts /\ b.op \in AllInserts /\ a.op.id = b.op.id)
            => a = b

\* The path of an insert: the ids from the start of the document down to it
\* along the anchors.
Paths ==
    LET anchor == [i \in InsertIds(AllInserts) |->
                    (CHOOSE op \in AllInserts : op.id = i).after]
        path[i \in DOMAIN anchor] ==
            IF anchor[i] = Head0 THEN <<i>> ELSE Append(path[anchor[i]], i)
    IN  path

\* Every replica's list, tombstones included, follows the one document order
\* of all inserts ever made (rga.rs:15, 255-259): two replicas never disagree
\* on the order of two elements, whatever either has received or merged.
SequenceOrder ==
    LET path == Paths
    IN  \A n \in Node : \A i, j \in DOMAIN rga[n].nodes :
            i < j => DocumentBefore(path[rga[n].nodes[i].id],
                                    path[rga[n].nodes[j].id])

\* No insert is lost and none is held back (rga.rs:191-195, README.md:41): the
\* list has exactly the received inserts whose whole chain of anchors has been
\* received; the others wait in pending.
CausalBuffering ==
    LET path == Paths
    IN  \A n \in Node :
            LET got == InsertIds(known[n])
                here == Ids(rga[n].nodes)
            IN  /\ here = {i \in got : ToSet(path[i]) \subseteq got}
                /\ got \ here = {op.id : op \in ToSet(rga[n].pending)}

\* A deleted element never comes back, and only a Delete that arrived makes a
\* tombstone (rga.rs:53-58, 275-281): whatever a replica receives next, late
\* or duplicated inserts included, its tombstones stay tombstones.
TombstonesStay ==
    [][\A n \in Node :
          /\ \A x \in ToSet(rga[n].nodes) :
                x.deleted => x \in ToSet(rga'[n].nodes)
          /\ \A x \in ToSet(rga'[n].nodes) :
                x.deleted => DeleteOp(x.id) \in known'[n]]_vars

\* The visible list of n is the document order of the inserts known less the
\* deletes known.
ShowsKnown(n) ==
    LET path == Paths
        shown == Visible(rga[n].nodes)
    IN  /\ ToSet(shown) = InsertIds(known[n]) \ Deleted(known[n])
        /\ \A i, j \in DOMAIN shown :
              i < j => DocumentBefore(path[shown[i]], path[shown[j]])

MergesCommute(m, n) ==
    Visible(SeqMerge(rga[m], rga[n]).nodes) = Visible(SeqMerge(rga[n], rga[m]).nodes)

\* Strong convergence (rga.rs:15, README.md:39) of replicas that get operations
\* in causal order and merge copies of each other at any time, whatever other
\* replicas get: replicas that reflect the same operations show the same list,
\* and merging them in either direction yields the same list (rga.rs:319-322).
VisibleConvergence ==
    /\ \A n \in Orderly : ShowsKnown(n)
    /\ \A m, n \in Orderly : MergesCommute(m, n)
=============================================================================
