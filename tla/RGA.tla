--------------------------------- MODULE RGA ---------------------------------
(***************************************************************************)
(* The replicated growable array of src/src/rga.rs.  A replica is a record *)
(*   clock   : the counter of the last id seen or issued                   *)
(*   nodes   : the list of nodes, tombstones included, [id, deleted]       *)
(*   pending : the inserts waiting for their anchor, in arrival order      *)
(* An element's value plays no part in any decision of the code and is     *)
(* identified with the element's id.                                       *)
(***************************************************************************)
EXTENDS LamportClock, Sequences, SequencesExt

\* RGAId
Id(clock, node) == [clock |-> clock, node |-> node]

\* after_id = None: the start of the list.  No id has counter 0.
Head0 == Id(0, 0)

\* The derived order on RGAId.
IdGreater(a, b) == Later(a.clock, a.node, b.clock, b.node)

\* RGA::new
EmptyRGA == [clock |-> ClockInit, nodes |-> <<>>, pending |-> <<>>]

InsertOp(id, after) == [type |-> "Insert", id |-> id, after |-> after]
DeleteOp(id) == [type |-> "Delete", id |-> id]

\* The ids present, tombstones included.
Ids(nodes) == {nodes[i].id : i \in DOMAIN nodes}

\* RGA::pos_of, for an id that is present.
PosOf(nodes, id) == CHOOSE i \in DOMAIN nodes : nodes[i].id = id

\* RGA::to_vec: the visible elements, in order.
Visible(nodes) ==
    FoldLeft(LAMBDA ids, n : IF n.deleted THEN ids ELSE Append(ids, n.id), <<>>, nodes)

\* The Delete branch of try_apply_one, and the second loop of merge: an
\* absent id is ignored.
MarkDeleted(nodes, id) ==
    [i \in DOMAIN nodes |->
        IF nodes[i].id = id THEN [nodes[i] EXCEPT !.deleted = TRUE]
                            ELSE nodes[i]]

\* try_apply_one returns true for an insert: already present, or its anchor is.
CanPlace(nodes, op) ==
    op.id \in Ids(nodes) \/ op.after = Head0 \/ op.after \in Ids(nodes)

\* Mutant of InsertPos: concurrent inserts at one anchor are not compared.
InsertPosAtAnchor(nodes, op) ==
    IF op.after = Head0 THEN 1 ELSE PosOf(nodes, op.after) + 1

\* Where try_apply_one puts a new node: after its anchor, past every
\* following node with a greater id.
InsertPos(nodes, op) ==
    LET start == IF op.after = Head0 THEN 1 ELSE PosOf(nodes, op.after) + 1
        stops == {p \in start..Len(nodes) : ~IdGreater(nodes[p].id, op.id)}
    IN  IF stops = {} THEN Len(nodes) + 1
        ELSE CHOOSE p \in stops : \A q \in stops : p <= q

\* Mutant of Place: the insert of an id that is present revives it.
PlaceRevives(nodes, op) ==
    IF op.id \in Ids(nodes)
    THEN [nodes EXCEPT ![PosOf(nodes, op.id)].deleted = FALSE]
    ELSE InsertAt(nodes, InsertPos(nodes, op), [id |-> op.id, deleted |-> FALSE])

\* The nodes after try_apply_one of an insert that CanPlace.
Place(nodes, op) ==
    IF op.id \in Ids(nodes) THEN nodes
    ELSE InsertAt(nodes, InsertPos(nodes, op), [id |-> op.id, deleted |-> FALSE])

\* One iteration of the drain loop of apply: every pending insert is retried
\* in order, the ones that fail stay pending in order.
DrainPass(seq) ==
    FoldLeft(LAMBDA s, op :
                IF CanPlace(s.nodes, op)
                THEN [s EXCEPT !.nodes = Place(@, op)]
                ELSE [s EXCEPT !.pending = Append(@, op)],
             [seq EXCEPT !.pending = <<>>],
             seq.pending)

\* Mutant of Drain: one pass only.
DrainOnce(seq) == DrainPass(seq)

\* The drain loop.  A pass without progress changes nothing, and a pass with
\* progress shortens pending, so Len(pending) passes reach its fixpoint.
Drain(seq) ==
    LET after[k \in 0..Len(seq.pending)] ==
            IF k = 0 THEN seq ELSE DrainPass(after[k - 1])
    IN  after[Len(seq.pending)]

\* Mutant of Seen: the clock is set back by an older id.
SeenLast(seq, clock) == [seq EXCEPT !.clock = clock]

\* The clock after an operation or another replica's clock has been seen.
Seen(seq, clock) == [seq EXCEPT !.clock = IF clock > @ THEN clock ELSE @]

\* RGA::apply
SeqApply(seq, op) ==
    LET s == Seen(seq, op.id.clock)
    IN  IF op.type = "Delete"
        THEN Drain([s EXCEPT !.nodes = MarkDeleted(@, op.id)])
        ELSE IF CanPlace(s.nodes, op)
             THEN Drain([s EXCEPT !.nodes = Place(@, op)])
             ELSE [s EXCEPT !.pending = Append(@, op)]

\* Mutant of NewInsert: the clock is not incremented for the new id.
NewInsertSameClock(seq, index, node) ==
    InsertOp(Id(seq.clock, node),
             IF index = 0 THEN Head0 ELSE Visible(seq.nodes)[index])

\* RGA::insert_op at a visible index in 0..len (any other index panics).
NewInsert(seq, index, node) ==
    InsertOp(Id(seq.clock + 1, node),
             IF index = 0 THEN Head0 ELSE Visible(seq.nodes)[index])

\* RGA::delete_op at a visible index in 0..len-1.
NewDelete(seq, index) == DeleteOp(Visible(seq.nodes)[index + 1])

\* One iteration of the first loop of merge: a node of `other` that is missing
\* here is inserted after its nearest predecessor there that is present here.
MergeNode(seq, other, i) ==
    LET id == other.nodes[i].id
        before == {j \in 1..(i - 1) : other.nodes[j].id \in Ids(seq.nodes)}
        after == IF before = {} THEN Head0
                 ELSE other.nodes[CHOOSE j \in before :
                                    \A k \in before : k <= j].id
    IN  IF id \in Ids(seq.nodes) THEN seq ELSE SeqApply(seq, InsertOp(id, after))

\* Mutant of SeqMerge: deletions are not propagated.
MergeWithoutDeletions(seq, other) ==
    FoldLeftDomain(LAMBDA s, i : MergeNode(s, other, i),
                   Seen(seq, other.clock), other.nodes)

\* RGA::merge.  other.pending is not looked at.
SeqMerge(seq, other) ==
    LET merged == FoldLeftDomain(LAMBDA s, i : MergeNode(s, other, i),
                                 Seen(seq, other.clock), other.nodes)
        gone == {other.nodes[i].id :
                    i \in {j \in DOMAIN other.nodes : other.nodes[j].deleted}}
    IN  [merged EXCEPT !.nodes =
            [i \in DOMAIN @ |->
                IF @[i].id \in gone THEN [@[i] EXCEPT !.deleted = TRUE]
                                    ELSE @[i]]]

\* Mutant of SeqPrune: live nodes are dropped too.
SeqPruneByClock(seq, before_ts) ==
    [seq EXCEPT !.nodes =
        FoldLeft(LAMBDA kept, n : IF n.id.clock > before_ts THEN Append(kept, n) ELSE kept,
                 <<>>, @)]

\* RGA::prune_tombstones
SeqPrune(seq, before_ts) ==
    [seq EXCEPT !.nodes =
        FoldLeft(LAMBDA kept, n : IF n.deleted /\ n.id.clock <= before_ts THEN kept
                                                                         ELSE Append(kept, n),
                 <<>>, @)]

\* The document order: an element follows its anchor and, among the elements
\* with one anchor, the greater id comes first with all that hangs on it.
DocumentBefore(p, q) ==
    \/ IsStrictPrefix(p, q)
    \/ \E d \in DOMAIN p \cap DOMAIN q :
        /\ \A j \in 1..(d - 1) : p[j] = q[j]
        /\ IdGreater(p[d], q[d])
=============================================================================
