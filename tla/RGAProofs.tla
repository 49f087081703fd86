----------------------------- MODULE RGAProofs -----------------------------
(***************************************************************************)
(* Proofs about the replicas of one sequence, RGAReplicas.  What the       *)
(* operations of a sequence do (Applied, Merged) and how they keep its     *)
(* list in the document order (PlaceInOrder, LinksInOrder) is proved in    *)
(* DataLemmas.                                                             *)
(***************************************************************************)
EXTENDS RGAReplicas, DataLemmas

IdsUpTo(k) == [clock : 1..k, node : Node]
Ops == {m.op : m \in net}
Count == Cardinality(net)

\* The copy, when there is one.
CopyType ==
    [taken : {TRUE}, from : Node, rga : RGAStates(IdsUpTo(Count)), known : SUBSET Ops]

\* Types, with clocks that the number of operations bounds.
Typed ==
    /\ IsFiniteSet(net) /\ Count <= MaxOps
    /\ rga \in [Node -> RGAStates(IdsUpTo(Count))]
    /\ \A n \in Node : rga[n].clock <= Count
    /\ known \in [Node -> SUBSET Ops]
    /\ \A m \in net : m.op \in OpsOver(IdsUpTo(Count))
    /\ copy = NoCopy \/ (copy \in CopyType /\ copy.rga.clock <= Count)

\* A replica's counter is as high as every id in its list and in every insert
\* of its own.
Latest ==
    /\ \A n \in Node : Counted(rga[n])
    /\ copy.taken => Counted(copy.rga)
    /\ \A m \in net : IsInsert(m.op) => m.op.id.clock <= rga[m.op.id.node].clock

\* A tombstone is there because its Delete has arrived.
Graves(s, ops) == \A x \in ToSet(s.nodes) : x.deleted => DeleteOp(x.id) \in ops

Deletions ==
    /\ \A n \in Node : Graves(rga[n], known[n])
    /\ copy.taken => Graves(copy.rga, copy.known)

RInv == Typed /\ Latest /\ Deletions /\ UniqueIds

-----------------------------------------------------------------------------
LEMMA IdsGrow ==
    ASSUME NEW j \in Nat, NEW k \in Nat, j <= k
    PROVE  /\ IdsUpTo(j) \subseteq IdsUpTo(k)
           /\ RGAStates(IdsUpTo(j)) \subseteq RGAStates(IdsUpTo(k))
           /\ OpsOver(IdsUpTo(j)) \subseteq OpsOver(IdsUpTo(k))
<1>1. PICK A : A = IdsUpTo(j)
  OBVIOUS
<1>2. PICK B : B = IdsUpTo(k)
  OBVIOUS
<1>3. A \subseteq B
  BY <1>1, <1>2 DEF IdsUpTo
<1>4. NodesOf(A) \subseteq NodesOf(B) /\ WaitingOf(A) \subseteq WaitingOf(B)
  BY <1>3 DEF NodesOf, WaitingOf
<1>5. Seq(NodesOf(A)) \subseteq Seq(NodesOf(B)) /\ Seq(WaitingOf(A)) \subseteq Seq(WaitingOf(B))
  BY <1>4
<1>6. RGAStates(A) \subseteq RGAStates(B)
  BY <1>5 DEF RGAStates
<1>7. OpsOver(A) \subseteq OpsOver(B)
  BY <1>3, <1>4 DEF OpsOver, DeletesOf
<1> QED BY <1>1, <1>2, <1>3, <1>6, <1>7

LEMMA IdsHaveClocks == ASSUME NEW k \in Nat PROVE \A id \in IdsUpTo(k) : id.clock \in Nat
BY DEF IdsUpTo

LEMMA RInit == Init => RInv
<1> SUFFICES ASSUME Init PROVE RInv
  OBVIOUS
<1>1. IsFiniteSet(net) /\ Count = 0 /\ Ops = {}
  BY FS_EmptySet DEF Init, Count, Ops
<1>2. <<>> \in Seq(NodesOf(IdsUpTo(0))) /\ <<>> \in Seq(WaitingOf(IdsUpTo(0)))
  OBVIOUS
<1>3. EmptyRGA = [clock |-> 0, nodes |-> <<>>, pending |-> <<>>]
  BY DEF EmptyRGA, ClockInit
<1>4. EmptyRGA \in RGAStates(IdsUpTo(0))
  BY <1>2, <1>3 DEF RGAStates
<1>5. ToSet(<<>>) = {}
  BY DEF ToSet
<1>6. Ids(EmptyRGA.nodes) = {} /\ ToSet(EmptyRGA.nodes) = {} /\ ToSet(EmptyRGA.pending) = {}
  BY <1>3, <1>5, IdsOfMembers
<1>7. Typed
  BY <1>1, <1>3, <1>4, BoundAssumption DEF Init, Typed
<1>8. Latest
  BY <1>6 DEF Init, Latest, Counted, NoCopy
<1>9. Deletions
  BY <1>6 DEF Init, Deletions, Graves, NoCopy
<1> QED BY <1>7, <1>8, <1>9 DEF RInv, UniqueIds, Init

\* What applying an operation keeps of a replica.
LEMMA ApplyKeeps ==
    ASSUME NEW k \in Nat, NEW s \in RGAStates(IdsUpTo(k)), NEW op \in OpsOver(IdsUpTo(k)),
           Counted(s), NEW t, t = SeqApply(s, op)
    PROVE  /\ t \in RGAStates(IdsUpTo(k))
           /\ Applied(s, op, t)
           /\ Counted(t)
           /\ s.clock <= t.clock /\ op.id.clock <= t.clock
           /\ s.clock <= k => t.clock <= k
           /\ \A ops : Graves(s, ops) => Graves(t, ops \cup {op})
<1>1. op.id \in IdsUpTo(k) /\ op.id.clock \in 1..k
  BY DEF OpsOver, WaitingOf, DeletesOf, IdsUpTo
<1>2. t \in RGAStates(IdsUpTo(k)) /\ Applied(s, op, t)
  BY <1>1, ApplyApplies
<1>3. /\ Counted(t) /\ s.clock <= t.clock /\ op.id.clock <= t.clock
      /\ t.clock = s.clock \/ t.clock = op.id.clock
  BY IdsHaveClocks, ApplyCounts
<1>4. s.clock <= k => t.clock <= k
  BY <1>1, <1>3
<1>7. ASSUME NEW ops, Graves(s, ops) PROVE Graves(t, ops \cup {op})
  <2>1. ASSUME NEW x \in ToSet(t.nodes), x.deleted PROVE DeleteOp(x.id) \in ops \cup {op}
    <3>1. x \in ToSet(s.nodes) \/ (~IsInsert(op) /\ x.id = op.id)
      BY <1>2, <2>1 DEF Applied
    <3>2. ASSUME ~IsInsert(op) PROVE op = DeleteOp(op.id)
      BY <3>2 DEF OpsOver, WaitingOf, DeletesOf, IsInsert, DeleteOp
    <3> QED BY <1>7, <2>1, <3>1, <3>2 DEF Graves
  <2> QED BY <2>1 DEF Graves
<1> QED BY <1>2, <1>3, <1>4, <1>7

\* What a merge keeps.
LEMMA MergeKeeps ==
    ASSUME NEW k \in Nat, NEW s \in RGAStates(IdsUpTo(k)), NEW o \in RGAStates(IdsUpTo(k)),
           Counted(s), Counted(o), NEW t, t = SeqMerge(s, o)
    PROVE  /\ t \in RGAStates(IdsUpTo(k))
           /\ Merged(s, o, t)
           /\ Counted(t)
           /\ s.clock <= t.clock
           /\ s.clock <= k /\ o.clock <= k => t.clock <= k
           /\ \A a, b : Graves(s, a) /\ Graves(o, b) => Graves(t, a \cup b)
<1>1. t \in RGAStates(IdsUpTo(k)) /\ Merged(s, o, t)
  BY IdsHaveClocks, MergeMerges
<1>2. /\ Counted(t) /\ s.clock <= t.clock
      /\ t.clock = s.clock \/ t.clock = o.clock
  BY IdsHaveClocks, MergeCounts
<1>3. s.clock <= k /\ o.clock <= k => t.clock <= k
  BY <1>2
<1>6. ASSUME NEW a, NEW b, Graves(s, a), Graves(o, b) PROVE Graves(t, a \cup b)
  <2>1. ASSUME NEW x \in ToSet(t.nodes), x.deleted PROVE DeleteOp(x.id) \in a \cup b
    <3>1. x \in ToSet(s.nodes) \/ x.id \in Gone(o)
      BY <1>1, <2>1 DEF Merged
    <3>2. ASSUME x.id \in Gone(o) PROVE \E y \in ToSet(o.nodes) : y.deleted /\ y.id = x.id
      BY <3>2 DEF Gone, ToSet
    <3> QED BY <1>6, <2>1, <3>1, <3>2 DEF Graves
  <2> QED BY <2>1 DEF Graves
<1> QED BY <1>1, <1>2, <1>3, <1>6

-----------------------------------------------------------------------------
\* The invariant is kept by every step.
LEMMA ProduceKeeps ==
    ASSUME RInv, NEW n \in Node, NEW op \in OpsOver(IdsUpTo(Count + 1)), Produce(n, op),
           IsInsert(op) => op.id = Id(rga[n].clock + 1, n),
           ~IsInsert(op) => op.id \in Ids(rga[n].nodes)
    PROVE  /\ RInv'
           /\ Count' \in Nat
<1> DEFINE m == [op |-> op, past |-> known[n]]
           K == Count
           L == Count'
<1>1. /\ IsFiniteSet(net) /\ K \in Nat /\ K < MaxOps
      /\ net' = net \cup {m} /\ copy' = copy
  BY FS_CardinalityType DEF RInv, Typed, Produce, Count
<1>2. IsFiniteSet(net') /\ L = (IF m \in net THEN K ELSE K + 1)
  BY <1>1, FS_AddElement DEF Count
<1>3. L \in Nat /\ K <= L /\ L <= MaxOps /\ MaxOps \in Nat
  BY <1>1, <1>2, BoundAssumption
<1>4. rga[n] \in RGAStates(IdsUpTo(K)) /\ rga[n].clock \in Nat /\ rga[n].clock <= K
      /\ Counted(rga[n])
  BY DEF RInv, Typed, Latest, RGAStates
<1>5. IsInsert(op) => m \notin net
  <2>1. ASSUME IsInsert(op), m \in net PROVE FALSE
    <3>1. op.id.clock <= rga[op.id.node].clock
      BY <2>1 DEF RInv, Latest
    <3>2. op.id.clock = rga[n].clock + 1 /\ op.id.node = n
      BY <2>1 DEF Id
    <3> QED BY <1>4, <3>1, <3>2
  <2> QED BY <2>1
<1>6. op \in OpsOver(IdsUpTo(L))
  <2>1. CASE IsInsert(op)
    BY <1>2, <1>5, <2>1
  <2>2. CASE ~IsInsert(op)
    <3>1. op.id \in IdsUpTo(K)
      BY <1>4, <2>2, IdsTyped DEF RGAStates
    <3>2. op \in DeletesOf(IdsUpTo(Count + 1))
      BY <2>2 DEF OpsOver, WaitingOf, IsInsert
    <3>3. op \in OpsOver(IdsUpTo(K))
      BY <3>1, <3>2 DEF OpsOver, DeletesOf
    <3> QED BY <1>1, <1>3, <3>3, IdsGrow
  <2> QED BY <2>1, <2>2
<1>7. IdsUpTo(K) \subseteq IdsUpTo(L) /\ RGAStates(IdsUpTo(K)) \subseteq RGAStates(IdsUpTo(L))
      /\ OpsOver(IdsUpTo(K)) \subseteq OpsOver(IdsUpTo(L))
  BY <1>1, <1>3, IdsGrow
<1>8. PICK t : t = SeqApply(rga[n], op)
  OBVIOUS
<1>9. PICK s : s = rga[n]
  OBVIOUS
<1>10. /\ rga' = [rga EXCEPT ![n] = t]
       /\ known' = [known EXCEPT ![n] = @ \cup {op}]
  BY <1>8 DEF Produce
<1>11. /\ t \in RGAStates(IdsUpTo(L)) /\ Counted(t)
       /\ s.clock <= t.clock /\ op.id.clock <= t.clock /\ t.clock <= L
       /\ \A ops : Graves(s, ops) => Graves(t, ops \cup {op})
  <2>1. s \in RGAStates(IdsUpTo(L)) /\ Counted(s) /\ s.clock <= L /\ t = SeqApply(s, op)
    BY <1>1, <1>3, <1>4, <1>7, <1>8, <1>9
  <2> HIDE DEF L
  <2> QED BY <1>3, <1>6, <2>1, ApplyKeeps
<1> HIDE DEF K, L
<1>12. Ops' = Ops \cup {op} /\ known[n] \subseteq Ops
  <2>1. m.op = op
    OBVIOUS
  <2> HIDE DEF m
  <2>2. Ops' = Ops \cup {op}
    BY <1>1, <2>1 DEF Ops
  <2> QED BY <2>2 DEF RInv, Typed
<1>13. Typed'
  <2>1. rga' \in [Node -> RGAStates(IdsUpTo(L))]
    BY <1>7, <1>10, <1>11 DEF RInv, Typed, K
  <2>2. \A p \in Node : rga'[p].clock <= L
    <3>1. \A p \in Node : rga[p].clock \in Nat /\ rga[p].clock <= K
      BY DEF RInv, Typed, RGAStates, K
    <3>2. \A p \in Node : rga'[p] = IF p = n THEN t ELSE rga[p]
      BY <1>10 DEF RInv, Typed
    <3> QED BY <1>1, <1>3, <1>11, <3>1, <3>2
  <2>3. known' \in [Node -> SUBSET (Ops')]
    BY <1>10, <1>12 DEF RInv, Typed
  <2>4. \A x \in net' : x.op \in OpsOver(IdsUpTo(L))
    BY <1>1, <1>6, <1>7 DEF RInv, Typed, K
  <2>5. ASSUME copy # NoCopy
        PROVE  copy \in [taken : {TRUE}, from : Node, rga : RGAStates(IdsUpTo(L)),
                         known : SUBSET (Ops')] /\ copy.rga.clock <= L
    <3>1. copy \in CopyType /\ copy.rga.clock <= K
      BY <2>5 DEF RInv, Typed, K
    <3>2. copy.rga.clock \in Nat
      BY <3>1 DEF CopyType, RGAStates
    <3>3. /\ copy = [taken |-> copy.taken, from |-> copy.from, rga |-> copy.rga,
                      known |-> copy.known]
          /\ copy.taken = TRUE /\ copy.from \in Node
          /\ copy.rga \in RGAStates(IdsUpTo(K)) /\ copy.known \subseteq Ops
      BY <3>1 DEF CopyType, K
    <3>4. copy.rga \in RGAStates(IdsUpTo(L)) /\ copy.known \in SUBSET (Ops')
      BY <1>7, <1>12, <3>3
    <3>5. copy.rga.clock <= L
      BY <1>1, <1>3, <3>1, <3>2
    <3> QED BY <3>3, <3>4, <3>5
  <2> QED BY <1>1, <1>2, <1>3, <2>1, <2>2, <2>3, <2>4, <2>5 DEF Typed, CopyType, L
<1>14. Latest'
  <2>1. \A p \in Node : rga'[p] = IF p = n THEN t ELSE rga[p]
    BY <1>10 DEF RInv, Typed
  <2>2. \A p \in Node : Counted(rga'[p])
    BY <1>11, <2>1 DEF RInv, Latest
  <2>3. ASSUME NEW x \in net', IsInsert(x.op)
        PROVE  x.op.id.clock <= rga'[x.op.id.node].clock
    <3>1. CASE x \in net
      <4>1. x.op.id.clock <= rga[x.op.id.node].clock
        BY <2>3, <3>1 DEF RInv, Latest
      <4>2. x.op.id \in IdsUpTo(K)
        BY <3>1 DEF RInv, Typed, OpsOver, WaitingOf, DeletesOf, K
      <4>3. x.op.id.node \in Node /\ x.op.id.clock \in Nat
        BY <4>2 DEF IdsUpTo
      <4>4. s.clock \in Nat /\ t.clock \in Nat
        BY <1>4, <1>9, <1>11 DEF RGAStates
      <4> QED BY <1>9, <1>11, <2>1, <4>1, <4>3, <4>4
    <3>2. CASE x = m
      <4>1. x.op = op
        BY <3>2
      <4>2. op.id.node = n
        BY <2>3, <4>1 DEF Id
      <4> QED BY <1>11, <2>1, <4>1, <4>2
    <3> QED BY <1>1, <3>1, <3>2
  <2> QED BY <1>1, <2>2, <2>3 DEF RInv, Latest
<1>15. Deletions'
  <2>1. \A p \in Node : /\ rga'[p] = IF p = n THEN t ELSE rga[p]
                        /\ known'[p] = IF p = n THEN known[n] \cup {op} ELSE known[p]
    BY <1>10 DEF RInv, Typed
  <2>2. Graves(t, known[n] \cup {op})
    BY <1>9, <1>11 DEF RInv, Deletions
  <2> QED BY <1>1, <2>1, <2>2 DEF RInv, Deletions
<1>16. UniqueIds'
  <2> SUFFICES ASSUME NEW a \in net', NEW b \in net', IsInsert(a.op), IsInsert(b.op),
                      a.op.id = b.op.id
               PROVE  a = b
    BY DEF UniqueIds, AllInserts, Inserts, IsInsert
  <2>1. CASE a \in net /\ b \in net
    BY <2>1 DEF RInv, UniqueIds, AllInserts, Inserts, IsInsert
  <2>2. ASSUME NEW x \in net, IsInsert(x.op), x.op.id = op.id, IsInsert(op) PROVE FALSE
    <3>1. x.op.id.clock <= rga[x.op.id.node].clock
      BY <2>2 DEF RInv, Latest
    <3>2. op.id.clock = rga[n].clock + 1 /\ op.id.node = n
      BY <2>2 DEF Id
    <3> QED BY <1>4, <2>2, <3>1, <3>2
  <2>3. \A x \in net' : x \in net \/ x = m
    BY <1>1
  <2> QED BY <2>1, <2>2, <2>3
<1> QED BY <1>3, <1>13, <1>14, <1>15, <1>16 DEF RInv, L

LEMMA ApplyKeepsAll ==
    ASSUME RInv, NEW n \in Node, NEW m \in net, Apply(n, m.op)
    PROVE  RInv'
<1>1. /\ UNCHANGED <<net, copy>> /\ Count' = Count /\ Ops' = Ops /\ Count \in Nat
  BY FS_CardinalityType DEF Apply, Count, Ops, RInv, Typed
<1>2. PICK s : s = rga[n]
  OBVIOUS
<1>3. PICK t : t = SeqApply(s, m.op)
  OBVIOUS
<1>4. /\ rga' = [rga EXCEPT ![n] = t]
      /\ known' = [known EXCEPT ![n] = @ \cup {m.op}]
      /\ \A p \in Node : rga'[p] = IF p = n THEN t ELSE rga[p]
      /\ \A p \in Node : known'[p] = IF p = n THEN known[n] \cup {m.op} ELSE known[p]
  BY <1>2, <1>3 DEF Apply, RInv, Typed
<1>5. /\ s \in RGAStates(IdsUpTo(Count)) /\ s.clock <= Count /\ Counted(s)
      /\ m.op \in OpsOver(IdsUpTo(Count)) /\ Graves(s, known[n])
  BY <1>2 DEF RInv, Typed, Latest, Deletions
<1>6. /\ t \in RGAStates(IdsUpTo(Count)) /\ Counted(t)
      /\ s.clock <= t.clock /\ t.clock <= Count
      /\ Graves(t, known[n] \cup {m.op})
  BY <1>1, <1>3, <1>5, ApplyKeeps
<1>7. Typed'
  <2>1. rga' \in [Node -> RGAStates(IdsUpTo(Count))]
    BY <1>4, <1>6 DEF RInv, Typed
  <2>2. known' \in [Node -> SUBSET Ops]
    BY <1>4 DEF RInv, Typed, Ops
  <2> QED BY <1>1, <1>4, <1>6, <2>1, <2>2 DEF RInv, Typed, CopyType
<1>8. Latest'
  <2>1. \A p \in Node : rga[p].clock \in Nat /\ rga'[p].clock \in Nat
    BY <1>4, <1>6 DEF RInv, Typed, RGAStates
  <2>2. \A p \in Node : rga[p].clock <= rga'[p].clock
    BY <1>2, <1>4, <1>6, <2>1
  <2>3. ASSUME NEW x \in net, IsInsert(x.op)
        PROVE  x.op.id.clock <= rga'[x.op.id.node].clock
    <3>1. x.op.id.clock <= rga[x.op.id.node].clock
      BY <2>3 DEF RInv, Latest
    <3>2. x.op.id \in IdsUpTo(Count)
      BY DEF RInv, Typed, OpsOver, WaitingOf, DeletesOf
    <3>3. x.op.id.node \in Node /\ x.op.id.clock \in Nat
      BY <3>2 DEF IdsUpTo
    <3> QED BY <2>1, <2>2, <3>1, <3>3
  <2> QED BY <1>1, <1>4, <1>6, <2>3 DEF RInv, Latest
<1>9. Deletions'
  BY <1>1, <1>4, <1>6 DEF RInv, Deletions
<1> QED BY <1>1, <1>7, <1>8, <1>9 DEF RInv, UniqueIds, AllInserts

LEMMA TakeCopyKeeps ==
    ASSUME RInv, NEW n \in Node, TakeCopy(n)
    PROVE  RInv'
<1>1. /\ UNCHANGED <<rga, net, known>> /\ Count' = Count /\ Ops' = Ops
      /\ copy' = [taken |-> TRUE, from |-> n, rga |-> rga[n], known |-> Carried(n)]
  BY DEF TakeCopy, Count, Ops
<1>2. Carried(n) \subseteq Ops /\ rga[n] \in RGAStates(IdsUpTo(Count)) /\ rga[n].clock <= Count
  BY DEF Carried, RInv, Typed
<1>3. copy' \in [taken : {TRUE}, from : Node, rga : RGAStates(IdsUpTo(Count)), known : SUBSET Ops]
  BY <1>1, <1>2
<1>4. copy'.rga = rga[n] /\ copy'.known = Carried(n)
  BY <1>1
<1>5. Typed'
  BY <1>1, <1>2, <1>3, <1>4 DEF RInv, Typed, CopyType
<1>6. Latest'
  BY <1>1, <1>4 DEF RInv, Latest
<1>7. Graves(rga[n], Carried(n))
  <2>1. \A id : DeleteOp(id).type # "Insert"
    BY DEF DeleteOp
  <2> QED BY <2>1 DEF RInv, Deletions, Graves, Carried
<1>8. Deletions'
  BY <1>1, <1>4, <1>7 DEF RInv, Deletions
<1> QED BY <1>1, <1>5, <1>6, <1>8 DEF RInv, UniqueIds, AllInserts

LEMMA MergeKeepsAll ==
    ASSUME RInv, NEW n \in Node, Merge(n)
    PROVE  RInv'
<1>1. /\ UNCHANGED <<net, copy>> /\ Count' = Count /\ Ops' = Ops /\ Count \in Nat
  BY FS_CardinalityType DEF Merge, Count, Ops, RInv, Typed
<1>0. copy \in CopyType /\ copy.rga.clock <= Count /\ Counted(copy.rga) /\ Graves(copy.rga, copy.known)
  BY DEF Merge, RInv, Typed, NoCopy, Latest, Deletions
<1>2. PICK s : s = rga[n]
  OBVIOUS
<1>a. PICK o : o = copy.rga
  OBVIOUS
<1>b. o \in RGAStates(IdsUpTo(Count)) /\ copy.known \subseteq Ops
  BY <1>0, <1>a DEF CopyType
<1>3. PICK t : t = SeqMerge(s, o)
  OBVIOUS
<1>4. /\ rga' = [rga EXCEPT ![n] = t]
      /\ known' = [known EXCEPT ![n] = @ \cup copy.known]
      /\ \A p \in Node : rga'[p] = IF p = n THEN t ELSE rga[p]
      /\ \A p \in Node : known'[p] = IF p = n THEN known[n] \cup copy.known ELSE known[p]
  BY <1>2, <1>3, <1>a DEF Merge, RInv, Typed
<1>5. /\ s \in RGAStates(IdsUpTo(Count)) /\ s.clock <= Count /\ Counted(s)
      /\ Graves(s, known[n])
  BY <1>2 DEF RInv, Typed, Latest, Deletions
<1>6. /\ t \in RGAStates(IdsUpTo(Count)) /\ Counted(t)
      /\ s.clock <= t.clock /\ t.clock <= Count
      /\ Graves(t, known[n] \cup copy.known)
  BY <1>0, <1>a, <1>b, <1>1, <1>3, <1>5, MergeKeeps
<1>7. Typed'
  <2>1. rga' \in [Node -> RGAStates(IdsUpTo(Count))]
    BY <1>4, <1>6 DEF RInv, Typed
  <2>2. known' \in [Node -> SUBSET Ops]
    BY <1>4, <1>b DEF RInv, Typed
  <2> QED BY <1>1, <1>4, <1>6, <2>1, <2>2 DEF RInv, Typed, CopyType
<1>8. Latest'
  <2>1. \A p \in Node : rga[p].clock \in Nat /\ rga'[p].clock \in Nat
    BY <1>4, <1>6 DEF RInv, Typed, RGAStates
  <2>2. \A p \in Node : rga[p].clock <= rga'[p].clock
    BY <1>2, <1>4, <1>6, <2>1
  <2>3. ASSUME NEW x \in net, IsInsert(x.op)
        PROVE  x.op.id.clock <= rga'[x.op.id.node].clock
    <3>1. x.op.id.clock <= rga[x.op.id.node].clock
      BY <2>3 DEF RInv, Latest
    <3>2. x.op.id \in IdsUpTo(Count)
      BY DEF RInv, Typed, OpsOver, WaitingOf, DeletesOf
    <3>3. x.op.id.node \in Node /\ x.op.id.clock \in Nat
      BY <3>2 DEF IdsUpTo
    <3> QED BY <2>1, <2>2, <3>1, <3>3
  <2> QED BY <1>1, <1>4, <1>6, <2>3 DEF RInv, Latest
<1>9. Deletions'
  BY <1>1, <1>4, <1>6 DEF RInv, Deletions
<1> QED BY <1>1, <1>7, <1>8, <1>9 DEF RInv, UniqueIds, AllInserts

\* The operations that a replica makes: an insert after a visible element or at
\* the head, with the next id, or the deletion of a visible element.
LEMMA InsertMakes ==
    ASSUME RInv, NEW n \in Node, Insert(n)
    PROVE  \E op \in WaitingOf(IdsUpTo(Count + 1)) :
              /\ Produce(n, op)
              /\ op.id = Id(rga[n].clock + 1, n)
              /\ op.after = Head0 \/ op.after \in Ids(rga[n].nodes)
              /\ op.after = Head0 \/ op.after \in ToSet(Visible(rga[n].nodes))
<1>1. Count \in Nat /\ rga[n] \in RGAStates(IdsUpTo(Count)) /\ rga[n].clock <= Count
  BY FS_CardinalityType DEF Count, RInv, Typed
<1>2. rga[n].nodes \in Seq(NodesOf(IdsUpTo(Count))) /\ rga[n].clock \in Nat
  BY <1>1 DEF RGAStates
<1>3. PICK v : v = Visible(rga[n].nodes)
  OBVIOUS
<1>4. v \in Seq(IdsUpTo(Count)) /\ ToSet(v) \subseteq Ids(rga[n].nodes)
  BY <1>2, <1>3, VisibleShows, IdsOfMembers
<1>5. PICK index \in 0..Len(v) : Produce(n, NewInsert(rga[n], index, n))
  BY <1>3 DEF Insert, VisibleLen
<1>6. PICK op : op = NewInsert(rga[n], index, n)
  OBVIOUS
<1>7. PICK after : after = IF index = 0 THEN Head0 ELSE v[index]
  OBVIOUS
<1>8. op = [type |-> "Insert", id |-> Id(rga[n].clock + 1, n), after |-> after]
  BY <1>3, <1>6, <1>7 DEF NewInsert, InsertOp
<1>9. \/ after = Head0
      \/ after \in Ids(rga[n].nodes) /\ after \in ToSet(v) /\ after \in IdsUpTo(Count)
  <2>1. CASE index = 0
    BY <1>7, <2>1
  <2>2. CASE index # 0
    <3>1. index \in DOMAIN v /\ after = v[index]
      BY <1>4, <1>7, <2>2
    <3> QED BY <1>4, <3>1 DEF ToSet
  <2> QED BY <2>1, <2>2
<1>10. IdsUpTo(Count) \subseteq IdsUpTo(Count + 1) /\ Id(rga[n].clock + 1, n) \in IdsUpTo(Count + 1)
  BY <1>1, <1>2 DEF IdsUpTo, Id
<1>11. op \in WaitingOf(IdsUpTo(Count + 1))
  BY <1>8, <1>9, <1>10 DEF WaitingOf
<1> QED BY <1>3, <1>5, <1>6, <1>8, <1>9, <1>11

LEMMA DeleteMakes ==
    ASSUME RInv, NEW n \in Node, Delete(n)
    PROVE  \E op \in DeletesOf(IdsUpTo(Count + 1)) :
              /\ Produce(n, op)
              /\ op.id \in Ids(rga[n].nodes) /\ op.id \in ToSet(Visible(rga[n].nodes))
<1>1. Count \in Nat /\ rga[n] \in RGAStates(IdsUpTo(Count))
  BY FS_CardinalityType DEF Count, RInv, Typed
<1>2. rga[n].nodes \in Seq(NodesOf(IdsUpTo(Count)))
  BY <1>1 DEF RGAStates
<1>3. PICK v : v = Visible(rga[n].nodes)
  OBVIOUS
<1>4. v \in Seq(IdsUpTo(Count)) /\ ToSet(v) \subseteq Ids(rga[n].nodes)
  BY <1>2, <1>3, VisibleShows, IdsOfMembers
<1>5. PICK index \in 0..(Len(v) - 1) : Produce(n, NewDelete(rga[n], index))
  BY <1>3 DEF Delete, VisibleLen
<1>6. PICK op : op = NewDelete(rga[n], index)
  OBVIOUS
<1>7. op = [type |-> "Delete", id |-> v[index + 1]] /\ index + 1 \in DOMAIN v
  BY <1>3, <1>4, <1>6 DEF NewDelete, DeleteOp
<1>8. /\ v[index + 1] \in Ids(rga[n].nodes) /\ v[index + 1] \in ToSet(v)
      /\ v[index + 1] \in IdsUpTo(Count)
  BY <1>4, <1>7 DEF ToSet
<1>9. IdsUpTo(Count) \subseteq IdsUpTo(Count + 1)
  BY <1>1 DEF IdsUpTo
<1>10. op \in DeletesOf(IdsUpTo(Count + 1))
  BY <1>7, <1>8, <1>9 DEF DeletesOf
<1> QED BY <1>3, <1>5, <1>6, <1>7, <1>8, <1>10

LEMMA RStep == RInv /\ [Next]_vars => RInv'
<1> SUFFICES ASSUME RInv, [Next]_vars PROVE RInv'
  OBVIOUS
<1>1. CASE UNCHANGED vars
  BY <1>1 DEF vars, RInv, Typed, CopyType, Ops, Count, Latest, Deletions, UniqueIds, AllInserts
<1>2. ASSUME NEW n \in Node, Insert(n) PROVE RInv'
  <2>1. PICK op \in WaitingOf(IdsUpTo(Count + 1)) :
           Produce(n, op) /\ op.id = Id(rga[n].clock + 1, n)
    BY <1>2, InsertMakes
  <2>2. op \in OpsOver(IdsUpTo(Count + 1)) /\ IsInsert(op)
    BY DEF OpsOver, WaitingOf, IsInsert
  <2> QED BY <2>1, <2>2, ProduceKeeps
<1>3. ASSUME NEW n \in Node, Delete(n) PROVE RInv'
  <2>1. PICK op \in DeletesOf(IdsUpTo(Count + 1)) :
           Produce(n, op) /\ op.id \in Ids(rga[n].nodes)
    BY <1>3, DeleteMakes
  <2>2. op \in OpsOver(IdsUpTo(Count + 1)) /\ ~IsInsert(op)
    BY DEF OpsOver, DeletesOf, IsInsert
  <2> QED BY <2>1, <2>2, ProduceKeeps
<1>4. ASSUME NEW n \in Node, Deliver(n) PROVE RInv'
  BY <1>4, ApplyKeepsAll DEF Deliver
<1> QED BY <1>1, <1>2, <1>3, <1>4, TakeCopyKeeps, MergeKeepsAll DEF Next, LocalStep

-----------------------------------------------------------------------------
\* Every variable keeps its type: the ids stay below the bound because a
\* counter never exceeds the number of operations.
THEOREM TypesKept == Spec => []TypeOK
<1>1. RInv => TypeOK
  <2> SUFFICES ASSUME RInv PROVE TypeOK
    OBVIOUS
  <2>1. Count \in Nat /\ Count <= MaxOps /\ MaxOps \in Nat
    BY FS_CardinalityType, BoundAssumption DEF RInv, Typed, Count
  <2>2. /\ RGAStates(IdsUpTo(Count)) \subseteq RGAStates(IdsUpTo(MaxOps))
        /\ OpsOver(IdsUpTo(Count)) \subseteq OpsOver(IdsUpTo(MaxOps))
    BY <2>1, IdsGrow
  <2>3. IdsUpTo(MaxOps) = RGAId
    BY DEF IdsUpTo, RGAId
  <2>4. ASSUME NEW n \in Node
        PROVE  rga[n] \in [clock : 0..MaxOps, nodes : Seq([id : RGAId, deleted : BOOLEAN]),
                           pending : Seq([type : {"Insert"}, id : RGAId,
                                          after : RGAId \cup {Head0}])]
    <3>1. rga[n] \in RGAStates(RGAId) /\ rga[n].clock \in Nat /\ rga[n].clock <= MaxOps
      BY <2>1, <2>2, <2>3 DEF RInv, Typed, RGAStates
    <3> QED BY <2>1, <3>1 DEF RGAStates, NodesOf, WaitingOf
  <2>5. \A m \in net : m.op.id \in RGAId
    BY <2>2, <2>3 DEF RInv, Typed, OpsOver, WaitingOf, DeletesOf
  <2> QED BY <2>4, <2>5 DEF TypeOK, RInv, Typed, Ops
<1> QED BY <1>1, RInit, RStep, PTL DEF Spec

\* Ids are unique: a new id is above the counter of its replica, and the
\* counter is above every id that the replica has given.
THEOREM IdsAreUnique == Spec => []UniqueIds
<1>1. RInv => UniqueIds
  BY DEF RInv
<1> QED BY <1>1, RInit, RStep, PTL DEF Spec

\* Tombstones stay, and each stands for a Delete that arrived.
THEOREM DeletedStays == Spec => TombstonesStay
<1> DEFINE Stay == \A n \in Node :
              /\ \A x \in ToSet(rga[n].nodes) : x.deleted => x \in ToSet(rga'[n].nodes)
              /\ \A x \in ToSet(rga'[n].nodes) : x.deleted => DeleteOp(x.id) \in known'[n]
<1>1. RInv /\ RInv' /\ [Next]_vars => [Stay]_vars
  <2> SUFFICES ASSUME RInv, RInv', Next PROVE Stay
    BY DEF RInv
  <2>1. ASSUME NEW n \in Node PROVE Graves(rga'[n], known'[n])
    BY DEF RInv, Deletions
  <2>2. ASSUME NEW n \in Node, NEW p \in Node, NEW s, NEW t, s = rga[p],
               rga' = [rga EXCEPT ![p] = t],
               \A x \in ToSet(s.nodes) : x.deleted => x \in ToSet(t.nodes)
        PROVE  \A x \in ToSet(rga[n].nodes) : x.deleted => x \in ToSet(rga'[n].nodes)
    BY <2>2 DEF RInv, Typed
  <2>3. ASSUME NEW p \in Node, NEW op \in OpsOver(IdsUpTo(Count + 1)),
               rga' = [rga EXCEPT ![p] = SeqApply(@, op)]
        PROVE  Stay
    <3>1. PICK s : s = rga[p]
      OBVIOUS
    <3>2. PICK t : t = SeqApply(s, op)
      OBVIOUS
    <3>3. Count \in Nat /\ s \in RGAStates(IdsUpTo(Count))
      BY <3>1, FS_CardinalityType DEF RInv, Typed, Count
    <3>4. s \in RGAStates(IdsUpTo(Count + 1))
      BY <3>3, IdsGrow
    <3>5. op.id.clock \in Nat
      BY <3>3 DEF OpsOver, WaitingOf, DeletesOf, IdsUpTo
    <3>6. Applied(s, op, t)
      BY <3>2, <3>4, <3>5, ApplyApplies
    <3>7. rga' = [rga EXCEPT ![p] = t]
      BY <2>3, <3>1, <3>2
    <3> QED BY <2>1, <2>2, <3>1, <3>6, <3>7 DEF Applied, Graves
  <2>4. ASSUME NEW p \in Node, Insert(p) PROVE Stay
    <3>1. PICK op \in WaitingOf(IdsUpTo(Count + 1)) : Produce(p, op)
      BY <2>4, InsertMakes
    <3> QED BY <2>3, <3>1 DEF Produce, OpsOver
  <2>5. ASSUME NEW p \in Node, Delete(p) PROVE Stay
    <3>1. PICK op \in DeletesOf(IdsUpTo(Count + 1)) : Produce(p, op)
      BY <2>5, DeleteMakes
    <3> QED BY <2>3, <3>1 DEF Produce, OpsOver
  <2>6. ASSUME NEW p \in Node, Deliver(p) PROVE Stay
    <3>1. PICK m \in net : Apply(p, m.op)
      BY <2>6 DEF Deliver
    <3>2. Count \in Nat /\ m.op \in OpsOver(IdsUpTo(Count))
      BY FS_CardinalityType DEF RInv, Typed, Count
    <3>3. m.op \in OpsOver(IdsUpTo(Count + 1))
      BY <3>2, IdsGrow
    <3> QED BY <2>3, <3>1, <3>3 DEF Apply
  <2>7. ASSUME NEW p \in Node, TakeCopy(p) PROVE Stay
    BY <2>1, <2>7 DEF TakeCopy, Graves
  <2>8. ASSUME NEW p \in Node, Merge(p) PROVE Stay
    <3>1. PICK s : s = rga[p]
      OBVIOUS
    <3>2. PICK o : o = copy.rga
      OBVIOUS
    <3>3. PICK t : t = SeqMerge(s, o)
      OBVIOUS
    <3>4. rga' = [rga EXCEPT ![p] = t]
      BY <2>8, <3>1, <3>2, <3>3 DEF Merge
    <3>5. Count \in Nat /\ s \in RGAStates(IdsUpTo(Count)) /\ Counted(s)
      BY <3>1, FS_CardinalityType DEF RInv, Typed, Latest, Count
    <3>6. o \in RGAStates(IdsUpTo(Count)) /\ Counted(o)
      <4>1. copy.taken /\ copy \in CopyType /\ Counted(copy.rga)
        BY <2>8 DEF Merge, RInv, Typed, Latest, NoCopy
      <4> QED BY <3>2, <4>1 DEF CopyType
    <3>7. Merged(s, o, t)
      BY <3>3, <3>5, <3>6, MergeKeeps
    <3> QED BY <2>1, <2>2, <3>1, <3>4, <3>7 DEF Merged, Graves
  <2> QED BY <2>4, <2>5, <2>6, <2>7, <2>8 DEF Next, LocalStep
<1> QED BY <1>1, RInit, RStep, PTL DEF Spec, TombstonesStay

-----------------------------------------------------------------------------
\* The list is closed under anchors.
Closed(ids, P) ==
    \A e \in P : e.id \in ids => e.after = Head0 \/ e.after \in ids

\* The replica s, which reflects ops, has placed every insert whose anchor it
\* has, and the others wait.
Buffered(s, ops, P) ==
    /\ Stuck(s)
    /\ Ids(s.nodes) \subseteq InsertIds(ops)
    /\ ToSet(s.pending) \subseteq ops
    /\ InsertIds(ops) \subseteq Ids(s.nodes) \cup {e.id : e \in ToSet(s.pending)}
    /\ Closed(Ids(s.nodes), P)

CInv ==
    /\ Anchored(AllInserts)
    /\ \A n \in Node : Buffered(rga[n], known[n], AllInserts)
    /\ copy.taken => /\ Ids(copy.rga.nodes) = InsertIds(copy.known)
                     /\ Closed(InsertIds(copy.known), AllInserts)

LEMMA BufferedApply ==
    ASSUME NEW k \in Nat, NEW P, \A a, b \in P : a.id = b.id => a = b,
           NEW s, NEW ops, Buffered(s, ops, P), Inserts(ops) \subseteq P,
           NEW op \in OpsOver(IdsUpTo(k)), IsInsert(op) => op \in P,
           NEW t, Applied(s, op, t),
           \A e \in ToSet(s.pending) : IsInsert(e)
    PROVE  Buffered(t, ops \cup {op}, P)
<1>1. InsertIds(ops \cup {op}) = InsertIds(ops) \cup (IF IsInsert(op) THEN {op.id} ELSE {})
  BY DEF InsertIds, Inserts, IsInsert
<1>2. Stuck(t) /\ Ids(s.nodes) \subseteq Ids(t.nodes)
  BY DEF Applied, Buffered
<1>3. \A e \in ToSet(s.pending) : e \in P /\ e.id \in InsertIds(ops)
  BY DEF Buffered, Inserts, InsertIds, IsInsert
<1>4. Ids(t.nodes) \subseteq InsertIds(ops \cup {op})
  <2>1. ASSUME NEW i \in Ids(t.nodes) \ Ids(s.nodes) PROVE i \in InsertIds(ops \cup {op})
    <3>1. PICK e \in ToSet(s.pending) \cup {op} : IsInsert(e) /\ e.id = i
      BY <2>1 DEF Applied
    <3> QED BY <1>1, <1>3, <3>1
  <2> QED BY <1>1, <2>1 DEF Buffered
<1>5. ToSet(t.pending) \subseteq ops \cup {op}
  BY DEF Applied, Buffered
<1>6. InsertIds(ops \cup {op}) \subseteq Ids(t.nodes) \cup {e.id : e \in ToSet(t.pending)}
  <2>1. ASSUME NEW i \in InsertIds(ops)
        PROVE  i \in Ids(t.nodes) \/ i \in {e.id : e \in ToSet(t.pending)}
    <3>1. i \in Ids(s.nodes) \/ \E e \in ToSet(s.pending) : i = e.id
      BY DEF Buffered
    <3> QED BY <1>2, <3>1 DEF Applied
  <2>2. IsInsert(op) => op.id \in Ids(t.nodes) \/ op.id \in {e.id : e \in ToSet(t.pending)}
    BY DEF Applied
  <2> QED BY <1>1, <2>1, <2>2
<1>7. Closed(Ids(t.nodes), P)
  <2>1. ASSUME NEW e \in P, e.id \in Ids(t.nodes)
        PROVE  e.after = Head0 \/ e.after \in Ids(t.nodes)
    <3>1. CASE e.id \in Ids(s.nodes)
      BY <1>2, <3>1 DEF Buffered, Closed
    <3>2. CASE e.id \notin Ids(s.nodes)
      <4>1. PICK f \in ToSet(s.pending) \cup {op} :
               /\ IsInsert(f) /\ f.id = e.id
               /\ f.after = Head0 \/ f.after \in Ids(t.nodes)
        BY <2>1, <3>2 DEF Applied
      <4>2. f = e
        BY <1>3, <4>1
      <4> QED BY <4>1, <4>2
    <3> QED BY <3>1, <3>2
  <2> QED BY <2>1 DEF Closed
<1> QED BY <1>2, <1>4, <1>5, <1>6, <1>7 DEF Buffered

LEMMA BufferedMerge ==
    ASSUME NEW P, \A a, b \in P : a.id = b.id => a = b,
           NEW s, NEW a, Buffered(s, a, P), Inserts(a) \subseteq P,
           NEW o, NEW b, Ids(o.nodes) = InsertIds(b), Closed(InsertIds(b), P),
           NEW t, Merged(s, o, t),
           \A e \in ToSet(s.pending) : IsInsert(e)
    PROVE  Buffered(t, a \cup b, P)
<1>1. InsertIds(a \cup b) = InsertIds(a) \cup InsertIds(b)
  BY DEF InsertIds, Inserts
<1>2. Stuck(t) /\ Ids(s.nodes) \cup InsertIds(b) \subseteq Ids(t.nodes)
  BY DEF Merged, Buffered
<1>3. \A e \in ToSet(s.pending) : e \in P /\ e.id \in InsertIds(a)
  BY DEF Buffered, Inserts, InsertIds, IsInsert
<1>4. Ids(t.nodes) \subseteq InsertIds(a \cup b)
  <2>1. ASSUME NEW i \in Ids(t.nodes), i \notin Ids(s.nodes), i \notin InsertIds(b)
        PROVE  i \in InsertIds(a)
    <3>1. PICK e \in ToSet(s.pending) : e.id = i
      BY <2>1 DEF Merged
    <3> QED BY <1>3, <3>1
  <2> QED BY <1>1, <2>1 DEF Buffered
<1>5. ToSet(t.pending) \subseteq a \cup b
  BY DEF Merged, Buffered
<1>6. InsertIds(a \cup b) \subseteq Ids(t.nodes) \cup {e.id : e \in ToSet(t.pending)}
  <2>1. ASSUME NEW i \in InsertIds(a)
        PROVE  i \in Ids(t.nodes) \/ i \in {e.id : e \in ToSet(t.pending)}
    <3>1. i \in Ids(s.nodes) \/ \E e \in ToSet(s.pending) : i = e.id
      BY DEF Buffered
    <3> QED BY <1>2, <3>1 DEF Merged
  <2> QED BY <1>1, <1>2, <2>1
<1>7. Closed(Ids(t.nodes), P)
  <2>1. ASSUME NEW e \in P, e.id \in Ids(t.nodes)
        PROVE  e.after = Head0 \/ e.after \in Ids(t.nodes)
    <3>1. CASE e.id \in Ids(s.nodes)
      BY <1>2, <3>1 DEF Buffered, Closed
    <3>2. CASE e.id \in InsertIds(b)
      BY <1>2, <3>2 DEF Closed
    <3>3. CASE e.id \notin Ids(s.nodes) \cup InsertIds(b)
      <4>1. PICK f \in ToSet(s.pending) :
               f.id = e.id /\ (f.after = Head0 \/ f.after \in Ids(t.nodes))
        BY <2>1, <3>3 DEF Merged
      <4>2. f = e
        BY <1>3, <4>1
      <4> QED BY <4>1, <4>2
    <3> QED BY <3>1, <3>2, <3>3
  <2> QED BY <2>1 DEF Closed
<1> QED BY <1>2, <1>4, <1>5, <1>6, <1>7 DEF Buffered

\* Facts of RInv about the inserts.
LEMMA InsertsKnown ==
    ASSUME RInv
    PROVE  /\ \A a, b \in AllInserts : a.id = b.id => a = b
           /\ AllInserts = Inserts(Ops)
           /\ \A n \in Node : Inserts(known[n]) \subseteq AllInserts
           /\ \A n \in Node : \A e \in ToSet(rga[n].pending) : IsInsert(e)
           /\ \A e \in AllInserts : e \in WaitingOf(IdsUpTo(Count))
<1>1. AllInserts = Inserts(Ops)
  BY DEF AllInserts, Ops
<1>2. ASSUME NEW a \in AllInserts, NEW b \in AllInserts, a.id = b.id PROVE a = b
  <2>1. PICK x \in net, y \in net : x.op = a /\ y.op = b
    BY DEF AllInserts, Inserts
  <2> QED BY <1>2, <2>1 DEF RInv, UniqueIds
<1>3. ASSUME NEW n \in Node, NEW e \in ToSet(rga[n].pending) PROVE IsInsert(e)
  <2>1. rga[n].pending \in Seq(WaitingOf(IdsUpTo(Count)))
    BY DEF RInv, Typed, RGAStates
  <2>2. e \in WaitingOf(IdsUpTo(Count))
    BY <2>1 DEF ToSet
  <2> QED BY <2>2 DEF WaitingOf, IsInsert
<1>4. \A e \in AllInserts : e \in WaitingOf(IdsUpTo(Count))
  BY DEF AllInserts, Inserts, RInv, Typed, OpsOver, DeletesOf
<1>5. \A n \in Node : Inserts(known[n]) \subseteq AllInserts
  BY <1>1 DEF Inserts, RInv, Typed
<1> QED BY <1>1, <1>2, <1>3, <1>4, <1>5

LEMMA CInit == Init => CInv
<1> SUFFICES ASSUME Init PROVE CInv
  OBVIOUS
<1>1. AllInserts = {} /\ InsertIds({}) = {}
  BY DEF Init, AllInserts, Inserts, InsertIds
<1>2. EmptyRGA.nodes = <<>> /\ EmptyRGA.pending = <<>> /\ ToSet(<<>>) = {}
  BY DEF EmptyRGA, ToSet
<1>3. Buffered(EmptyRGA, {}, {})
  BY <1>1, <1>2, IdsOfMembers DEF Buffered, Stuck, Closed
<1> QED BY <1>1, <1>3 DEF Init, CInv, Anchored, NoCopy

\* An insert's anchor is a node of its producer, whose clock is as high.
LEMMA AnchoredProduce ==
    ASSUME RInv, Anchored(AllInserts), NEW n \in Node, NEW op, Produce(n, op),
           Ids(rga[n].nodes) \subseteq InsertIds(known[n]),
           IsInsert(op) => /\ op.id = Id(rga[n].clock + 1, n)
                           /\ op.after = Head0 \/ op.after \in Ids(rga[n].nodes)
    PROVE  Anchored(AllInserts')
<1> DEFINE P == AllInserts
           Q == AllInserts'
<1>1. Q = P \cup (IF IsInsert(op) THEN {op} ELSE {})
  <2>1. [op |-> op, past |-> known[n]].op = op
    OBVIOUS
  <2>2. PICK m : m = [op |-> op, past |-> known[n]]
    OBVIOUS
  <2>3. net' = net \cup {m} /\ m.op = op
    BY <2>1, <2>2 DEF Produce
  <2> QED BY <2>3 DEF AllInserts, Inserts, IsInsert
<1>2. ASSUME NEW e \in P PROVE e.id.clock \in Nat
  <2>1. e \in WaitingOf(IdsUpTo(Count))
    BY InsertsKnown
  <2> QED BY <2>1 DEF WaitingOf, IdsUpTo
<1>3. InsertIds(known[n]) \subseteq InsertIds(P)
  BY InsertsKnown DEF InsertIds, Inserts
<1>4. ASSUME NEW e \in Q
      PROVE  e.after = Head0 \/ (e.after \in {f.id : f \in Q} /\ e.after.clock < e.id.clock)
  <2>1. CASE e \in P
    BY <1>1, <2>1 DEF Anchored
  <2>2. CASE e \notin P
    <3>1. e = op /\ IsInsert(op)
      BY <1>1, <2>2
    <3>2. ASSUME op.after # Head0
          PROVE  op.after \in {f.id : f \in Q} /\ op.after.clock < op.id.clock
      <4>1. op.after \in Ids(rga[n].nodes)
        BY <3>1, <3>2
      <4>2. op.after \in InsertIds(P)
        BY <1>3, <4>1
      <4>3. PICK f \in P : op.after = f.id
        BY <4>2 DEF InsertIds, Inserts
      <4>4. op.after.clock <= rga[n].clock /\ op.after.clock \in Nat
        BY <1>2, <4>1, <4>3 DEF RInv, Latest, Counted
      <4>5. op.id.clock = rga[n].clock + 1 /\ rga[n].clock \in Nat
        BY <3>1 DEF Id, RInv, Typed, RGAStates
      <4> QED BY <1>1, <4>3, <4>4, <4>5
    <3> QED BY <3>1, <3>2
  <2> QED BY <2>1, <2>2
<1> QED BY <1>4 DEF Anchored

LEMMA CProduce ==
    ASSUME RInv, CInv, NEW n \in Node, NEW op \in OpsOver(IdsUpTo(Count + 1)), Produce(n, op),
           RInv',
           IsInsert(op) => /\ op.id = Id(rga[n].clock + 1, n)
                           /\ op.after = Head0 \/ op.after \in Ids(rga[n].nodes)
    PROVE  CInv'
<1> DEFINE P == AllInserts
           Q == AllInserts'
<1>1. Q = P \cup (IF IsInsert(op) THEN {op} ELSE {})
  <2>1. [op |-> op, past |-> known[n]].op = op
    OBVIOUS
  <2>2. PICK m : m = [op |-> op, past |-> known[n]]
    OBVIOUS
  <2>3. net' = net \cup {m} /\ m.op = op
    BY <2>1, <2>2 DEF Produce
  <2> QED BY <2>3 DEF AllInserts, Inserts, IsInsert
<1>2. /\ \A a, b \in P : a.id = b.id => a = b
      /\ \A a, b \in Q : a.id = b.id => a = b
      /\ \A p \in Node : Inserts(known[p]) \subseteq P
      /\ \A p \in Node : \A e \in ToSet(rga[p].pending) : IsInsert(e)
      /\ \A e \in P : e.id.clock \in Nat /\ e.id.node \in Node
  <2>1. \A e \in P : e \in WaitingOf(IdsUpTo(Count))
    BY InsertsKnown
  <2>2. \A e \in P : e.id.clock \in Nat /\ e.id.node \in Node
    BY <2>1 DEF WaitingOf, IdsUpTo
  <2>3. ASSUME NEW a \in Q, NEW b \in Q, a.id = b.id PROVE a = b
    <3>1. PICK x \in net', y \in net' : x.op = a /\ y.op = b
      BY DEF AllInserts, Inserts
    <3> QED BY <2>3, <3>1 DEF RInv, UniqueIds
  <2> QED BY <2>2, <2>3, InsertsKnown
<1>3. IsInsert(op) => op.id \notin InsertIds(P)
  <2>1. ASSUME IsInsert(op), NEW e \in P, e.id = op.id PROVE FALSE
    <3>1. PICK m \in net : m.op = e /\ IsInsert(e)
      BY DEF AllInserts, Inserts, IsInsert
    <3>2. e.id.clock <= rga[e.id.node].clock
      BY <3>1 DEF RInv, Latest
    <3>3. op.id.clock = rga[n].clock + 1 /\ op.id.node = n
      BY <2>1 DEF Id
    <3>4. rga[n].clock \in Nat
      BY DEF RInv, Typed, RGAStates
    <3> QED BY <2>1, <3>2, <3>3, <3>4
  <2> QED BY <2>1 DEF InsertIds, Inserts
<1>4. ASSUME NEW ids, ids \subseteq InsertIds(P), Closed(ids, P) PROVE Closed(ids, Q)
  BY <1>1, <1>3, <1>4 DEF Closed
<1>5. \A p \in Node : InsertIds(known[p]) \subseteq InsertIds(P)
  BY <1>2 DEF InsertIds, Inserts
<1>6. ASSUME NEW p \in Node PROVE Buffered(rga[p], known[p], Q)
  BY <1>4, <1>5 DEF CInv, Buffered
<1>7. PICK s : s = rga[n]
  OBVIOUS
<1>8. PICK t : t = SeqApply(s, op)
  OBVIOUS
<1>9. /\ \A p \in Node : rga'[p] = IF p = n THEN t ELSE rga[p]
      /\ \A p \in Node : known'[p] = IF p = n THEN known[n] \cup {op} ELSE known[p]
      /\ copy' = copy
  BY <1>7, <1>8 DEF Produce, RInv, Typed
<1>10. /\ Count + 1 \in Nat /\ s \in RGAStates(IdsUpTo(Count + 1)) /\ Counted(s)
  <2>1. Count \in Nat /\ s \in RGAStates(IdsUpTo(Count)) /\ Counted(s)
    BY <1>7, FS_CardinalityType DEF Count, RInv, Typed, Latest
  <2> QED BY <2>1, IdsGrow
<1>11. Applied(s, op, t)
  <2>1. PICK k : k = Count + 1
    OBVIOUS
  <2> QED BY <1>8, <1>10, <2>1, ApplyKeeps
<1>12. Buffered(t, known[n] \cup {op}, Q)
  <2>1. Buffered(s, known[n], Q)
    BY <1>6, <1>7
  <2>2. Inserts(known[n]) \subseteq Q /\ (IsInsert(op) => op \in Q)
    BY <1>1, <1>2
  <2>3. \A e \in ToSet(s.pending) : IsInsert(e)
    BY <1>2, <1>7
  <2>4. PICK k : k = Count + 1
    OBVIOUS
  <2>5. k \in Nat /\ op \in OpsOver(IdsUpTo(k))
    BY <1>10, <2>4
  <2> HIDE DEF Q
  <2> QED BY <1>2, <1>11, <2>1, <2>2, <2>3, <2>5, BufferedApply
<1>13. Anchored(Q)
  <2>1. Ids(rga[n].nodes) \subseteq InsertIds(known[n])
    BY DEF CInv, Buffered
  <2> QED BY <2>1, AnchoredProduce DEF CInv
<1>14. copy.taken => /\ Ids(copy.rga.nodes) = InsertIds(copy.known)
                     /\ Closed(InsertIds(copy.known), Q)
  <2>1. ASSUME copy.taken PROVE InsertIds(copy.known) \subseteq InsertIds(P)
    <3>1. copy \in CopyType
      BY <2>1 DEF RInv, Typed, NoCopy
    <3>2. copy.known \subseteq Ops
      BY <3>1 DEF CopyType
    <3> QED BY <3>2, InsertsKnown DEF InsertIds, Inserts
  <2> QED BY <1>4, <2>1 DEF CInv
<1> QED BY <1>6, <1>9, <1>12, <1>13, <1>14 DEF CInv

LEMMA CApply ==
    ASSUME RInv, CInv, NEW n \in Node, NEW m \in net, Apply(n, m.op)
    PROVE  CInv'
<1>1. UNCHANGED <<net, copy>> /\ AllInserts' = AllInserts
  BY DEF Apply, AllInserts
<1>2. PICK s : s = rga[n]
  OBVIOUS
<1>3. PICK t : t = SeqApply(s, m.op)
  OBVIOUS
<1>4. PICK k : k = Count
  OBVIOUS
<1>5. k \in Nat /\ s \in RGAStates(IdsUpTo(k)) /\ Counted(s) /\ m.op \in OpsOver(IdsUpTo(k))
  BY <1>2, <1>4, FS_CardinalityType DEF Count, RInv, Typed, Latest
<1>6. Applied(s, m.op, t)
  BY <1>3, <1>5, ApplyKeeps
<1>7. PICK P : P = AllInserts
  OBVIOUS
<1>8. Buffered(t, known[n] \cup {m.op}, P)
  <2>1. Buffered(s, known[n], P)
    BY <1>2, <1>7 DEF CInv
  <2>2. (\A a, b \in P : a.id = b.id => a = b) /\ Inserts(known[n]) \subseteq P
    BY <1>7, InsertsKnown
  <2>3. IsInsert(m.op) => m.op \in P
    BY <1>7 DEF AllInserts, Inserts, IsInsert
  <2>4. \A e \in ToSet(s.pending) : IsInsert(e)
    BY <1>2, InsertsKnown
  <2> QED BY <1>5, <1>6, <2>1, <2>2, <2>3, <2>4, BufferedApply
<1>9. /\ \A p \in Node : rga'[p] = IF p = n THEN t ELSE rga[p]
      /\ \A p \in Node : known'[p] = IF p = n THEN known[n] \cup {m.op} ELSE known[p]
  BY <1>2, <1>3 DEF Apply, RInv, Typed
<1> QED BY <1>1, <1>7, <1>8, <1>9 DEF CInv

LEMMA CTakeCopy ==
    ASSUME RInv, CInv, NEW n \in Node, TakeCopy(n)
    PROVE  CInv'
<1>1. /\ UNCHANGED <<rga, net, known>> /\ AllInserts' = AllInserts
      /\ copy' = [taken |-> TRUE, from |-> n, rga |-> rga[n], known |-> Carried(n)]
  BY DEF TakeCopy, AllInserts
<1>2. copy'.rga = rga[n] /\ copy'.known = Carried(n)
  BY <1>1
<1>3. InsertIds(Carried(n)) = Ids(rga[n].nodes)
  <2>1. Ids(rga[n].nodes) \subseteq InsertIds(known[n])
    BY DEF CInv, Buffered
  <2> QED BY <2>1 DEF InsertIds, Inserts, Carried
<1>4. Closed(Ids(rga[n].nodes), AllInserts)
  BY DEF CInv, Buffered
<1> QED BY <1>1, <1>2, <1>3, <1>4 DEF CInv

LEMMA CMerge ==
    ASSUME RInv, CInv, NEW n \in Node, Merge(n)
    PROVE  CInv'
<1>1. UNCHANGED <<net, copy>> /\ AllInserts' = AllInserts /\ copy.taken
  BY DEF Merge, AllInserts
<1>2. PICK s : s = rga[n]
  OBVIOUS
<1>3. PICK o : o = copy.rga
  OBVIOUS
<1>4. PICK t : t = SeqMerge(s, o)
  OBVIOUS
<1>5. PICK k : k = Count
  OBVIOUS
<1>6. k \in Nat /\ s \in RGAStates(IdsUpTo(k)) /\ Counted(s)
  BY <1>2, <1>5, FS_CardinalityType DEF Count, RInv, Typed, Latest
<1>7. o \in RGAStates(IdsUpTo(k)) /\ Counted(o)
  <2>1. copy \in CopyType /\ Counted(copy.rga)
    BY <1>1 DEF RInv, Typed, Latest, NoCopy
  <2> QED BY <1>3, <1>5, <2>1 DEF CopyType
<1>8. Merged(s, o, t)
  BY <1>4, <1>6, <1>7, MergeKeeps
<1>9. PICK P : P = AllInserts
  OBVIOUS
<1>10. PICK b : b = copy.known
  OBVIOUS
<1>11. Buffered(t, known[n] \cup b, P)
  <2>1. Buffered(s, known[n], P)
    BY <1>2, <1>9 DEF CInv
  <2>2. (\A x, y \in P : x.id = y.id => x = y) /\ Inserts(known[n]) \subseteq P
    BY <1>9, InsertsKnown
  <2>3. Ids(o.nodes) = InsertIds(b) /\ Closed(InsertIds(b), P)
    BY <1>1, <1>3, <1>9, <1>10 DEF CInv
  <2>4. \A e \in ToSet(s.pending) : IsInsert(e)
    BY <1>2, InsertsKnown
  <2> QED BY <1>8, <2>1, <2>2, <2>3, <2>4, BufferedMerge
<1>12. /\ \A p \in Node : rga'[p] = IF p = n THEN t ELSE rga[p]
       /\ \A p \in Node : known'[p] = IF p = n THEN known[n] \cup b ELSE known[p]
  BY <1>2, <1>3, <1>4, <1>10 DEF Merge, RInv, Typed
<1> QED BY <1>1, <1>9, <1>11, <1>12 DEF CInv

LEMMA CStep == RInv /\ CInv /\ [Next]_vars => CInv'
<1> SUFFICES ASSUME RInv, CInv, [Next]_vars PROVE CInv'
  OBVIOUS
<1>0. RInv'
  BY RStep
<1>1. CASE UNCHANGED vars
  BY <1>1 DEF vars, CInv, AllInserts
<1>2. ASSUME NEW n \in Node, Insert(n) PROVE CInv'
  <2>1. PICK op \in WaitingOf(IdsUpTo(Count + 1)) :
           /\ Produce(n, op)
           /\ op.id = Id(rga[n].clock + 1, n)
           /\ op.after = Head0 \/ op.after \in Ids(rga[n].nodes)
    BY <1>2, InsertMakes
  <2>2. op \in OpsOver(IdsUpTo(Count + 1))
    BY DEF OpsOver
  <2> QED BY <1>0, <2>1, <2>2, CProduce
<1>3. ASSUME NEW n \in Node, Delete(n) PROVE CInv'
  <2>1. PICK op \in DeletesOf(IdsUpTo(Count + 1)) : Produce(n, op)
    BY <1>3, DeleteMakes
  <2>2. op \in OpsOver(IdsUpTo(Count + 1)) /\ ~IsInsert(op)
    BY DEF OpsOver, DeletesOf, IsInsert
  <2> QED BY <1>0, <2>1, <2>2, CProduce
<1>4. ASSUME NEW n \in Node, Deliver(n) PROVE CInv'
  BY <1>4, CApply DEF Deliver
<1> QED BY <1>1, <1>2, <1>3, <1>4, CTakeCopy, CMerge DEF Next, LocalStep

-----------------------------------------------------------------------------
\* The anchor of every id.
Anchor == [i \in InsertIds(AllInserts) |-> (CHOOSE op \in AllInserts : op.id = i).after]

LEMMA PathsFollowAnchors ==
    ASSUME RInv, Anchored(AllInserts)
    PROVE  /\ Count \in Nat
           /\ Older(Count, InsertIds(AllInserts), Anchor)
           /\ IsPath(Paths, InsertIds(AllInserts), Anchor)
           /\ \A e \in AllInserts : e.id \in InsertIds(AllInserts) /\ Anchor[e.id] = e.after
           /\ \A i \in InsertIds(AllInserts) : \E e \in AllInserts : i = e.id
<1> DEFINE A == InsertIds(AllInserts)
           path == CHOOSE path : IsPath(path, A, Anchor)
<1>1. Paths = path
  BY DEF Paths, IsPath, Anchor
<1>2. ASSUME NEW e \in AllInserts PROVE e.id \in A /\ Anchor[e.id] = e.after
  <2>1. e.id \in A
    BY DEF InsertIds, AllInserts, Inserts
  <2>2. (CHOOSE op \in AllInserts : op.id = e.id) = e
    BY InsertsKnown
  <2> QED BY <2>1, <2>2 DEF Anchor
<1>3. ASSUME NEW i \in A PROVE \E e \in AllInserts : i = e.id
  BY DEF InsertIds, Inserts
<1>4. Count \in Nat /\ \A i \in A : i.clock \in 0..Count
  <2>1. Count \in Nat
    BY FS_CardinalityType DEF Count, RInv, Typed
  <2>2. \A e \in AllInserts : e \in WaitingOf(IdsUpTo(Count))
    BY InsertsKnown
  <2>3. \A e \in AllInserts : e.id.clock \in 0..Count
    BY <2>1, <2>2 DEF WaitingOf, IdsUpTo
  <2> QED BY <1>3, <2>1, <2>3
<1>5. \A i \in A : Anchor[i] = Head0 \/ (Anchor[i] \in A /\ Anchor[i].clock < i.clock)
  <2> TAKE i \in A
  <2>1. PICK e \in AllInserts : i = e.id
    BY <1>3
  <2>2. \/ e.after = Head0
        \/ \E f \in AllInserts : e.after = f.id /\ e.after.clock < e.id.clock
    BY DEF Anchored
  <2>3. \A f \in AllInserts : f.id \in A
    BY <1>2
  <2> QED BY <1>2, <2>1, <2>2, <2>3
<1> HIDE DEF A
<1>6. PICK k : k = Count
  OBVIOUS
<1>7. PICK anchor : anchor = Anchor
  OBVIOUS
<1>8. k \in Nat /\ Older(k, A, anchor)
  BY <1>4, <1>5, <1>6, <1>7 DEF Older
<1>9. \E f : IsPath(f, A, anchor)
  BY <1>8, PathExists
<1>10. IsPath(path, A, Anchor)
  BY <1>7, <1>9
<1> HIDE DEF path
<1> QED BY <1>1, <1>2, <1>3, <1>6, <1>7, <1>8, <1>10 DEF A

\* The members of the paths.
LEMMA PathsAre ==
    ASSUME RInv, CInv
    PROVE  \A e \in AllInserts :
              /\ e.after # Head0 => e.after \in InsertIds(AllInserts)
              /\ ToSet(Paths[e.id]) =
                    {e.id} \cup (IF e.after = Head0 THEN {} ELSE ToSet(Paths[e.after]))
<1>1. PICK A : A = InsertIds(AllInserts)
  OBVIOUS
<1>2. PICK k : k = Count
  OBVIOUS
<1>3. PICK anchor : anchor = Anchor
  OBVIOUS
<1>4. PICK f : f = Paths
  OBVIOUS
<1>5. /\ k \in Nat /\ Older(k, A, anchor) /\ IsPath(f, A, anchor)
      /\ \A e \in AllInserts : e.id \in A /\ anchor[e.id] = e.after
  BY <1>1, <1>2, <1>3, <1>4, PathsFollowAnchors DEF CInv
<1>6. FollowsAnchors(f, A, anchor)
  BY <1>5, PathMembers
<1>7. ASSUME NEW e \in AllInserts
      PROVE  ToSet(f[e.id]) = {e.id} \cup (IF e.after = Head0 THEN {} ELSE ToSet(f[e.after]))
  BY <1>5, <1>6 DEF FollowsAnchors
<1>8. \A e \in AllInserts : e.after # Head0 => e.after \in A
  BY <1>5 DEF Older
<1> QED BY <1>1, <1>4, <1>7, <1>8

\* No insert is lost and none is held back: the list is closed under anchors
\* and has every received insert whose anchor it has, so it has exactly those
\* whose whole path has been received.
THEOREM BufferedCausally == Spec => []CausalBuffering
<1>1. RInv /\ CInv => CausalBuffering
  <2> SUFFICES ASSUME RInv, CInv, NEW n \in Node
               PROVE  LET got == InsertIds(known[n])
                          here == Ids(rga[n].nodes)
                      IN  /\ here = {i \in got : ToSet(Paths[i]) \subseteq got}
                          /\ got \ here = {op.id : op \in ToSet(rga[n].pending)}
    BY DEF CausalBuffering
  <2> DEFINE got == InsertIds(known[n])
             here == Ids(rga[n].nodes)
             wait == {op.id : op \in ToSet(rga[n].pending)}
             P == AllInserts
             older(k) == {e \in P : e.id.clock <= k}
             reach(e) == ToSet(Paths[e.id])
  <2>1. /\ Stuck(rga[n]) /\ here \subseteq got /\ got \subseteq here \cup wait
        /\ ToSet(rga[n].pending) \subseteq known[n] /\ Closed(here, P)
    BY DEF CInv, Buffered
  <2>2. \A e \in ToSet(rga[n].pending) : e \in P /\ IsInsert(e) /\ e.id \in got
    <3>1. \A e \in ToSet(rga[n].pending) : IsInsert(e)
      BY InsertsKnown
    <3>2. Inserts(known[n]) \subseteq P
      BY InsertsKnown
    <3> QED BY <2>1, <3>1, <3>2 DEF Inserts, InsertIds, IsInsert
  <2>3. \A i \in got : \E e \in P : e.id = i
    <3>1. Inserts(known[n]) \subseteq P
      BY InsertsKnown
    <3> QED BY <3>1 DEF InsertIds, Inserts
  <2>4. \A e \in ToSet(rga[n].pending) :
           e.id \notin here /\ e.after # Head0 /\ e.after \notin here
    BY <2>1 DEF Stuck, CanPlace
  <2>5. got \ here = wait
    BY <2>1, <2>2, <2>4
  <2>6. /\ \A a, b \in P : a.id = b.id => a = b
        /\ \A e \in P : e.after # Head0 => \E f \in P : f.id = e.after
    <3>1. \A e \in P : e.after # Head0 => e.after \in InsertIds(P)
      BY PathsAre
    <3> QED BY <3>1, InsertsKnown DEF InsertIds, Inserts
  <2>7. \A e \in P :
           reach(e) = {e.id} \cup (IF e.after = Head0 THEN {} ELSE ToSet(Paths[e.after]))
    BY PathsAre
  <2>8. Count \in Nat /\ \A e \in P : e.id.clock \in 1..Count
    <3>1. \A e \in P : e \in WaitingOf(IdsUpTo(Count))
      BY InsertsKnown
    <3>2. \A e \in P : e.id.clock \in 1..Count
      BY <3>1 DEF WaitingOf, IdsUpTo
    <3> QED BY <3>2, FS_CardinalityType DEF Count, RInv, Typed
  <2>9. \A e \in P : e.after # Head0 =>
           \E f \in P : f.id = e.after /\ f.id.clock < e.id.clock
    BY <2>6 DEF CInv, Anchored
  <2> DEFINE Right(e) == e.id \in here <=> reach(e) \subseteq got
             W == {k \in 0..Count : \A e \in P : e.id.clock <= k => Right(e)}
  <2> HIDE DEF P, reach, got, here, wait
  <2>10. 0 \in W
    BY <2>8
  <2>11. ASSUME NEW k \in 1..Count, k - 1 \in W PROVE k \in W
    <3>1. ASSUME NEW e \in P, e.id.clock <= k PROVE Right(e)
      <4>1. CASE e.after = Head0
        <5>1. reach(e) = {e.id}
          BY <2>7, <4>1
        <5>2. e.id \in got => e.id \in here
          <6>1. ASSUME e.id \in wait PROVE FALSE
            <7>1. PICK o \in ToSet(rga[n].pending) : o.id = e.id
              BY <6>1 DEF wait
            <7>2. o = e
              BY <2>2, <2>6, <7>1
            <7> QED BY <2>4, <4>1, <7>1, <7>2
          <6> QED BY <2>5, <6>1
        <5> QED BY <2>1, <5>1, <5>2
      <4>2. CASE e.after # Head0
        <5>1. PICK f \in P : f.id = e.after /\ f.id.clock < e.id.clock
          BY <2>9, <4>2
        <5>2. Right(f)
          BY <2>8, <2>11, <3>1, <5>1
        <5>3. reach(e) = {e.id} \cup reach(f)
          BY <2>7, <4>2, <5>1 DEF reach
        <5>4. e.id \in here => f.id \in here
          BY <2>1, <4>2, <5>1 DEF Closed
        <5>5. e.id \in got /\ f.id \in here => e.id \in here
          <6>1. ASSUME e.id \in wait, f.id \in here PROVE FALSE
            <7>1. PICK o \in ToSet(rga[n].pending) : o.id = e.id
              BY <6>1 DEF wait
            <7>2. o = e
              BY <2>2, <2>6, <7>1
            <7> QED BY <2>4, <5>1, <6>1, <7>1, <7>2
          <6> QED BY <2>5, <6>1
        <5> QED BY <2>1, <5>2, <5>3, <5>4, <5>5
      <4> QED BY <4>1, <4>2
    <3> QED BY <3>1, <2>11
  <2> HIDE DEF W
  <2>12. Count \in W
    <3>1. PICK k : k = Count
      OBVIOUS
    <3>2. k \in Nat /\ \A i \in 1..k : i - 1 \in W => i \in W
      BY <2>8, <2>11, <3>1
    <3>3. \A i \in 0..k : i \in W
      BY <2>10, <3>2, Steps
    <3> QED BY <3>1, <3>2, <3>3
  <2>13. \A e \in P : e.id \in here <=> reach(e) \subseteq got
    BY <2>8, <2>12 DEF W
  <2>14. here = {i \in got : ToSet(Paths[i]) \subseteq got}
    BY <2>1, <2>3, <2>13 DEF reach
  <2> QED BY <2>5, <2>14 DEF got, here, wait
<1> QED BY <1>1, RInit, RStep, CInit, CStep, PTL DEF Spec

-----------------------------------------------------------------------------
\* The ids of all inserts, and their order.
AllIds == InsertIds(AllInserts)
Order == Ordering(Paths, AllIds)

\* Every list is in the document order.
OInv ==
    /\ \A n \in Node : SortedBy(rga[n].nodes, Order)
    /\ copy.taken => SortedBy(copy.rga.nodes, Order)

\* What is known of the order of all ids.
OrderIs ==
    /\ TotalOrder(Order, AllIds)
    /\ AfterAnchor(Order, AllIds, Anchor)
    /\ Rooted(AllIds, Anchor) /\ AllIds \subseteq IdsUpTo(Count)
    /\ Count \in Nat /\ Older(Count, AllIds, Anchor) /\ IsPath(Paths, AllIds, Anchor)
    /\ \A e \in AllInserts : e.id \in AllIds /\ Anchor[e.id] = e.after
    /\ \A i \in AllIds : \E e \in AllInserts : i = e.id

LEMMA OrderHolds == RInv /\ Anchored(AllInserts) => OrderIs
<1> SUFFICES ASSUME RInv, Anchored(AllInserts) PROVE OrderIs
  OBVIOUS
<1>1. PICK A : A = AllIds
  OBVIOUS
<1>2. PICK k : k = Count
  OBVIOUS
<1>3. PICK anchor : anchor = Anchor
  OBVIOUS
<1>4. PICK f : f = Paths
  OBVIOUS
<1>5. PICK R : R = Order
  OBVIOUS
<1>6. k \in Nat /\ Older(k, A, anchor) /\ IsPath(f, A, anchor)
  BY <1>1, <1>2, <1>3, <1>4, PathsFollowAnchors DEF AllIds
<1>7. \A i \in A : i \in IdsUpTo(k)
  <2>1. \A e \in AllInserts : e \in WaitingOf(IdsUpTo(k))
    BY <1>2, InsertsKnown
  <2>2. \A i \in A : \E e \in AllInserts : i = e.id
    BY <1>1, PathsFollowAnchors DEF AllIds
  <2> QED BY <2>1, <2>2 DEF WaitingOf
<1>8. Numbered(A) /\ Head0 \notin A /\ \A i \in A : i.clock \in Nat /\ i.node \in Nat
  BY <1>7, NodeAssumption DEF Numbered, IdsUpTo, Head0, Id
<1>9. R = Ordering(f, A)
  BY <1>1, <1>4, <1>5 DEF Order
<1>10. TotalOrder(R, A) /\ AfterAnchor(R, A, anchor)
  BY <1>6, <1>8, <1>9, DocumentOrders
<1>11. Rooted(A, anchor)
  BY <1>6, <1>8 DEF Rooted, Older
<1>12. /\ \A e \in AllInserts : e.id \in AllIds /\ Anchor[e.id] = e.after
       /\ \A i \in AllIds : \E e \in AllInserts : i = e.id
  BY PathsFollowAnchors DEF AllIds
<1> QED BY <1>1, <1>2, <1>3, <1>4, <1>5, <1>6, <1>7, <1>10, <1>11, <1>12 DEF OrderIs

LEMMA OrderHoldsNext == RInv' /\ Anchored(AllInserts)' => OrderIs'
<1>1. (RInv /\ Anchored(AllInserts) => OrderIs)'
  BY OrderHolds, PTL
<1> QED BY <1>1

\* What a replica is.
Ordered(s, k, R, A, anchor) == Orders(IdsUpTo(k), R, A, anchor, s)

\* A list that is sorted and closed under anchors is in order.
LEMMA PlainOrder ==
    ASSUME NEW A, NEW R, NEW anchor, NEW k \in Nat, A \subseteq IdsUpTo(k),
           NEW nodes \in Seq(NodesOf(IdsUpTo(k))), SortedBy(nodes, R),
           Ids(nodes) \subseteq A,
           \A i \in Ids(nodes) : anchor[i] = Head0 \/ anchor[i] \in Ids(nodes)
    PROVE  nodes \in OrderedLists(IdsUpTo(k), R, A, anchor)
BY DEF OrderedLists, InOrder

LEMMA ReplicasOrdered ==
    ASSUME RInv, CInv, OInv
    PROVE  /\ \A n \in Node : Ordered(rga[n], Count, Order, AllIds, Anchor)
           /\ copy.taken =>
                copy.rga.nodes \in OrderedLists(IdsUpTo(Count), Order, AllIds, Anchor)
<1>1. /\ \A e \in AllInserts : e.id \in AllIds /\ Anchor[e.id] = e.after
      /\ \A i \in AllIds : \E e \in AllInserts : i = e.id
      /\ Count \in Nat /\ AllIds \subseteq IdsUpTo(Count)
      /\ TotalOrder(Order, AllIds)
  BY OrderHolds DEF OrderIs, CInv
<1>3. ASSUME NEW ids \in SUBSET AllIds, Closed(ids, AllInserts)
      PROVE  \A i \in ids : Anchor[i] = Head0 \/ Anchor[i] \in ids
  BY <1>1, <1>3 DEF Closed
<1>4. ASSUME NEW n \in Node PROVE Ordered(rga[n], Count, Order, AllIds, Anchor)
  <2>1. /\ rga[n] \in RGAStates(IdsUpTo(Count)) /\ SortedBy(rga[n].nodes, Order)
        /\ rga[n].nodes \in Seq(NodesOf(IdsUpTo(Count)))
        /\ rga[n].pending \in Seq(WaitingOf(IdsUpTo(Count)))
    BY DEF RInv, Typed, OInv, RGAStates
  <2>2. /\ Ids(rga[n].nodes) \subseteq InsertIds(known[n])
        /\ ToSet(rga[n].pending) \subseteq known[n] /\ Closed(Ids(rga[n].nodes), AllInserts)
    BY DEF CInv, Buffered
  <2>3. Inserts(known[n]) \subseteq AllInserts /\ \A e \in ToSet(rga[n].pending) : IsInsert(e)
    BY InsertsKnown
  <2>4. Ids(rga[n].nodes) \in SUBSET AllIds
    BY <2>2, <2>3 DEF InsertIds, Inserts, AllIds, AllInserts
  <2>5. rga[n].nodes \in OrderedLists(IdsUpTo(Count), Order, AllIds, Anchor)
    <3>1. \A i \in Ids(rga[n].nodes) : Anchor[i] = Head0 \/ Anchor[i] \in Ids(rga[n].nodes)
      BY <1>3, <2>2, <2>4
    <3>2. PICK nodes : nodes = rga[n].nodes
      OBVIOUS
    <3>3. PICK A : A = AllIds
      OBVIOUS
    <3>4. PICK a : a = Anchor
      OBVIOUS
    <3>5. nodes \in OrderedLists(IdsUpTo(Count), Order, A, a)
      BY <1>1, <2>1, <2>4, <3>1, <3>2, <3>3, <3>4, PlainOrder
    <3> QED BY <3>2, <3>3, <3>4, <3>5
  <2>6. ASSUME NEW e \in ToSet(rga[n].pending)
        PROVE  e \in InsertsOver(IdsUpTo(Count), AllIds, Anchor)
    <3>1. e \in WaitingOf(IdsUpTo(Count))
      BY <2>1 DEF ToSet
    <3>2. e \in AllInserts
      BY <2>2, <2>3 DEF Inserts, IsInsert
    <3> QED BY <1>1, <3>1, <3>2 DEF InsertsOver
  <2> QED BY <2>1, <2>5, <2>6 DEF Ordered, Orders, Keeps
<1>5. ASSUME copy.taken
      PROVE  copy.rga.nodes \in OrderedLists(IdsUpTo(Count), Order, AllIds, Anchor)
  <2>1. copy \in CopyType
    BY <1>5 DEF RInv, Typed, NoCopy
  <2>2. copy.rga.nodes \in Seq(NodesOf(IdsUpTo(Count))) /\ copy.known \subseteq Ops
    BY <2>1 DEF CopyType, RGAStates
  <2>3. /\ Ids(copy.rga.nodes) = InsertIds(copy.known)
        /\ Closed(Ids(copy.rga.nodes), AllInserts)
        /\ SortedBy(copy.rga.nodes, Order)
    BY <1>5 DEF CInv, OInv
  <2>4. Ids(copy.rga.nodes) \in SUBSET AllIds
    <3>1. AllInserts = Inserts(Ops)
      BY InsertsKnown
    <3> QED BY <2>2, <2>3, <3>1 DEF InsertIds, Inserts, AllIds
  <2>5. \A i \in Ids(copy.rga.nodes) : Anchor[i] = Head0 \/ Anchor[i] \in Ids(copy.rga.nodes)
    BY <1>3, <2>3, <2>4
  <2>6. PICK nodes : nodes = copy.rga.nodes
    OBVIOUS
  <2>7. PICK A : A = AllIds
    OBVIOUS
  <2>8. PICK a : a = Anchor
    OBVIOUS
  <2>9. nodes \in OrderedLists(IdsUpTo(Count), Order, A, a)
    BY <1>1, <2>2, <2>3, <2>4, <2>5, <2>6, <2>7, <2>8, PlainOrder
  <2> QED BY <2>6, <2>7, <2>8, <2>9
<1> QED BY <1>4, <1>5

LEMMA ApplyOrders ==
    ASSUME NEW A, NEW R, NEW anchor, NEW k \in Nat, Document(R, A, anchor),
           NEW s, Ordered(s, k, R, A, anchor), NEW op \in OpsOver(IdsUpTo(k)),
           IsInsert(op) => op.id \in A /\ op.after = anchor[op.id]
    PROVE  Ordered(SeqApply(s, op), k, R, A, anchor)
<1>1. op.id.clock \in Nat
  BY DEF OpsOver, WaitingOf, DeletesOf, IdsUpTo
<1> QED BY <1>1, ApplyKeepsOrder DEF Ordered

LEMMA MergeOrders ==
    ASSUME NEW A, NEW R, NEW anchor, NEW k \in Nat, Document(R, A, anchor),
           NEW s, Ordered(s, k, R, A, anchor),
           NEW o \in RGAStates(IdsUpTo(k)), Counted(o),
           o.nodes \in OrderedLists(IdsUpTo(k), R, A, anchor)
    PROVE  Ordered(SeqMerge(s, o), k, R, A, anchor)
BY IdsHaveClocks, MergeKeepsOrder DEF Ordered

LEMMA OrderedSorted ==
    ASSUME NEW A, NEW R, NEW anchor, NEW k, NEW s, Ordered(s, k, R, A, anchor)
    PROVE  SortedBy(s.nodes, R)
BY DEF Ordered, Orders, Keeps, OrderedLists, InOrder

LEMMA GrowKeepsOrder ==
    ASSUME NEW k \in Nat, NEW l \in Nat, k <= l,
           NEW R, NEW A, NEW a, NEW Q, NEW C, NEW c,
           A \subseteq C, \A i \in A : c[i] = a[i], R \subseteq Q,
           NEW nodes \in OrderedLists(IdsUpTo(k), R, A, a)
    PROVE  nodes \in OrderedLists(IdsUpTo(l), Q, C, c)
BY IdsGrow, GrowthKeepsList

LEMMA GrowKeepsOrdered ==
    ASSUME NEW k \in Nat, NEW l \in Nat, k <= l,
           NEW R, NEW A, NEW a, NEW Q, NEW C, NEW c,
           A \subseteq C, \A i \in A : c[i] = a[i], R \subseteq Q,
           NEW s, Ordered(s, k, R, A, a)
    PROVE  Ordered(s, l, Q, C, c)
BY IdsGrow, GrowthKeepsOrder DEF Ordered

LEMMA OInit == Init => OInv
<1> SUFFICES ASSUME Init PROVE OInv
  OBVIOUS
<1>1. EmptyRGA.nodes = <<>>
  BY DEF EmptyRGA
<1>2. DOMAIN <<>> = {}
  OBVIOUS
<1>3. \A R : SortedBy(EmptyRGA.nodes, R)
  BY <1>1, <1>2 DEF SortedBy
<1> QED BY <1>3 DEF Init, OInv, NoCopy

\* New inserts change neither the anchors nor the order of the others.
LEMMA DocumentGrows ==
    ASSUME OrderIs, OrderIs', AllInserts \subseteq AllInserts'
    PROVE  /\ AllIds \subseteq AllIds' /\ \A i \in AllIds : Anchor'[i] = Anchor[i]
           /\ Order \subseteq Order'
<1>1. PICK A : A = AllIds
  OBVIOUS
<1>2. PICK a : a = Anchor
  OBVIOUS
<1>3. PICK f : f = Paths
  OBVIOUS
<1>4. PICK R : R = Order
  OBVIOUS
<1>5. PICK C : C = AllIds'
  OBVIOUS
<1>6. PICK c : c = Anchor'
  OBVIOUS
<1>7. PICK g : g = Paths'
  OBVIOUS
<1>8. PICK Q : Q = Order'
  OBVIOUS
<1>9. PICK k : k = Count
  OBVIOUS
<1>10. /\ k \in Nat /\ Older(k, A, a) /\ IsPath(f, A, a)
       /\ \A e \in AllInserts : e.id \in A /\ a[e.id] = e.after
       /\ \A i \in A : \E e \in AllInserts : i = e.id
       /\ R = Ordering(f, A)
  BY <1>1, <1>2, <1>3, <1>4, <1>9 DEF OrderIs, Order
<1>11. IsPath(g, C, c) /\ \A e \in AllInserts' : e.id \in C /\ c[e.id] = e.after
  BY <1>5, <1>6, <1>7 DEF OrderIs
<1>12. Q = Ordering(g, C)
  BY <1>5, <1>7, <1>8 DEF Order
<1>13. A \subseteq C /\ \A i \in A : c[i] = a[i]
  BY <1>10, <1>11
<1>14. \A i \in A : g[i] = f[i]
  BY <1>10, <1>11, <1>13, PathsExtend
<1>15. R \subseteq Q
  BY <1>10, <1>12, <1>13, <1>14 DEF Ordering
<1> QED BY <1>1, <1>2, <1>4, <1>5, <1>6, <1>8, <1>13, <1>15

LEMMA OProduce ==
    ASSUME RInv, CInv, OInv, NEW n \in Node, NEW op \in OpsOver(IdsUpTo(Count')), Produce(n, op),
           RInv', CInv', AllInserts' = AllInserts \cup {e \in {op} : IsInsert(e)},
           Count <= Count'
    PROVE  OInv'
<1>1. PICK A : A = AllIds
  OBVIOUS
<1>2. PICK a : a = Anchor
  OBVIOUS
<1>3. PICK R : R = Order
  OBVIOUS
<1>4. PICK k : k = Count
  OBVIOUS
<1>5. PICK C : C = AllIds'
  OBVIOUS
<1>6. PICK c : c = Anchor'
  OBVIOUS
<1>7. PICK Q : Q = Order'
  OBVIOUS
<1>8. PICK l : l = Count'
  OBVIOUS
<1>9. OrderIs /\ OrderIs'
  BY OrderHolds, OrderHoldsNext DEF CInv
<1>10. A \subseteq C /\ (\A i \in A : c[i] = a[i]) /\ R \subseteq Q
  BY <1>1, <1>2, <1>3, <1>5, <1>6, <1>7, <1>9, DocumentGrows
<1>11. k \in Nat /\ l \in Nat /\ k <= l
  BY <1>4, <1>8, <1>9 DEF OrderIs
<1>12. /\ Document(Q, C, c)
       /\ \A e \in AllInserts' : e.id \in C /\ c[e.id] = e.after
  BY <1>5, <1>6, <1>7, <1>9 DEF OrderIs, Document
<1>13. \A nodes : SortedBy(nodes, R) => SortedBy(nodes, Q)
  BY <1>10 DEF SortedBy
<1>14. PICK s : s = rga[n]
  OBVIOUS
<1>15. PICK t : t = SeqApply(s, op)
  OBVIOUS
<1>16. Ordered(s, k, R, A, a)
  BY <1>1, <1>2, <1>3, <1>4, <1>14, ReplicasOrdered
<1>17. Ordered(s, l, Q, C, c)
  BY ONLY <1>10, <1>11, <1>16, GrowKeepsOrdered
<1>18. SortedBy(t.nodes, Q)
  <2>1. IsInsert(op) => op.id \in C /\ op.after = c[op.id]
    BY <1>12
  <2>2. op \in OpsOver(IdsUpTo(l))
    BY <1>8
  <2>3. Ordered(t, l, Q, C, c)
    BY <1>11, <1>12, <1>15, <1>17, <2>1, <2>2, ApplyOrders
  <2> QED BY <2>3, OrderedSorted
<1>19. /\ \A p \in Node : rga'[p] = IF p = n THEN t ELSE rga[p]
       /\ copy' = copy
  BY <1>14, <1>15 DEF Produce, RInv, Typed
<1>20. \A p \in Node : SortedBy(rga'[p].nodes, Q)
  BY <1>3, <1>13, <1>18, <1>19 DEF OInv
<1>21. copy'.taken => SortedBy(copy'.rga.nodes, Q)
  BY <1>3, <1>13, <1>19 DEF OInv
<1> QED BY <1>7, <1>20, <1>21 DEF OInv

LEMMA OApply ==
    ASSUME RInv, CInv, OInv, NEW n \in Node, NEW m \in net, Apply(n, m.op)
    PROVE  OInv'
<1>1. UNCHANGED <<net, copy>> /\ AllInserts' = AllInserts /\ Paths' = Paths /\ Order' = Order
  BY DEF Apply, AllInserts, Paths, Order, AllIds
<1>2. PICK s : s = rga[n]
  OBVIOUS
<1>3. PICK t : t = SeqApply(s, m.op)
  OBVIOUS
<1>4. PICK k : k = Count
  OBVIOUS
<1>5. PICK A : A = AllIds
  OBVIOUS
<1>6. PICK a : a = Anchor
  OBVIOUS
<1>7. PICK R : R = Order
  OBVIOUS
<1>8. /\ k \in Nat /\ Document(R, A, a)
      /\ \A e \in AllInserts : e.id \in A /\ a[e.id] = e.after
  BY <1>4, <1>5, <1>6, <1>7, OrderHolds DEF OrderIs, Document, CInv
<1>9. Ordered(s, k, R, A, a)
  BY <1>2, <1>4, <1>5, <1>6, <1>7, ReplicasOrdered
<1>10. SortedBy(t.nodes, R)
  <2>1. PICK op : op = m.op
    OBVIOUS
  <2>2. op \in OpsOver(IdsUpTo(k))
    BY <1>4, <2>1 DEF RInv, Typed
  <2>3. IsInsert(op) => op.id \in A /\ op.after = a[op.id]
    BY <1>8, <2>1 DEF AllInserts, Inserts, IsInsert
  <2>4. Ordered(t, k, R, A, a)
    BY <1>3, <1>8, <1>9, <2>1, <2>2, <2>3, ApplyOrders
  <2> QED BY <2>4, OrderedSorted
<1>11. \A p \in Node : rga'[p] = IF p = n THEN t ELSE rga[p]
  BY <1>2, <1>3 DEF Apply, RInv, Typed
<1> QED BY <1>1, <1>7, <1>10, <1>11 DEF OInv

LEMMA OMerge ==
    ASSUME RInv, CInv, OInv, NEW n \in Node, Merge(n)
    PROVE  OInv'
<1>1. /\ UNCHANGED <<net, copy>> /\ AllInserts' = AllInserts /\ Paths' = Paths /\ Order' = Order
      /\ copy.taken
  BY DEF Merge, AllInserts, Paths, Order, AllIds
<1>2. PICK s : s = rga[n]
  OBVIOUS
<1>3. PICK o : o = copy.rga
  OBVIOUS
<1>4. PICK t : t = SeqMerge(s, o)
  OBVIOUS
<1>5. PICK k : k = Count
  OBVIOUS
<1>6. PICK A : A = AllIds
  OBVIOUS
<1>7. PICK a : a = Anchor
  OBVIOUS
<1>8. PICK R : R = Order
  OBVIOUS
<1>9. k \in Nat /\ Document(R, A, a)
  BY <1>5, <1>6, <1>7, <1>8, OrderHolds DEF OrderIs, Document, CInv
<1>10. Ordered(s, k, R, A, a) /\ o.nodes \in OrderedLists(IdsUpTo(k), R, A, a)
  BY <1>1, <1>2, <1>3, <1>5, <1>6, <1>7, <1>8, ReplicasOrdered
<1>11. o \in RGAStates(IdsUpTo(k)) /\ Counted(o)
  <2>1. copy \in CopyType /\ Counted(copy.rga)
    BY <1>1 DEF RInv, Typed, Latest, NoCopy
  <2> QED BY <1>3, <1>5, <2>1 DEF CopyType
<1>12. SortedBy(t.nodes, R)
  <2>1. Ordered(t, k, R, A, a)
    BY <1>4, <1>9, <1>10, <1>11, MergeOrders
  <2> QED BY <2>1, OrderedSorted
<1>13. \A p \in Node : rga'[p] = IF p = n THEN t ELSE rga[p]
  BY <1>2, <1>3, <1>4 DEF Merge, RInv, Typed
<1> QED BY <1>1, <1>8, <1>12, <1>13 DEF OInv

LEMMA OTakeCopy ==
    ASSUME RInv, CInv, OInv, NEW n \in Node, TakeCopy(n)
    PROVE  OInv'
<1>1. /\ UNCHANGED <<rga, net, known>> /\ Order' = Order
      /\ copy' = [taken |-> TRUE, from |-> n, rga |-> rga[n], known |-> Carried(n)]
  BY DEF TakeCopy, AllInserts, Paths, Order, AllIds
<1>2. copy'.rga = rga[n]
  BY <1>1
<1> QED BY <1>1, <1>2 DEF OInv

\* What producing an operation does to the network.
LEMMA ProduceAdds ==
    ASSUME RInv, RInv', NEW n \in Node, NEW op, Produce(n, op)
    PROVE  /\ op \in OpsOver(IdsUpTo(Count'))
           /\ AllInserts' = AllInserts \cup {e \in {op} : IsInsert(e)}
           /\ Count <= Count'
<1>1. PICK m : m = [op |-> op, past |-> known[n]]
  OBVIOUS
<1>2. m.op = op
  BY <1>1
<1>3. net' = net \cup {m}
  BY <1>1 DEF Produce
<1>4. op \in OpsOver(IdsUpTo(Count'))
  BY <1>2, <1>3 DEF RInv, Typed
<1>5. AllInserts' = AllInserts \cup {e \in {op} : IsInsert(e)}
  BY <1>2, <1>3 DEF AllInserts, Inserts, IsInsert
<1>6. Count <= Count'
  <2>1. IsFiniteSet(net) /\ Count \in Nat
    BY FS_CardinalityType DEF RInv, Typed, Count
  <2>2. Count' = (IF m \in net THEN Count ELSE Count + 1)
    BY <1>3, <2>1, FS_AddElement DEF Count
  <2> QED BY <2>1, <2>2
<1> QED BY <1>4, <1>5, <1>6

LEMMA OStep == RInv /\ CInv /\ OInv /\ [Next]_vars => OInv'
<1> SUFFICES ASSUME RInv, CInv, OInv, [Next]_vars PROVE OInv'
  OBVIOUS
<1>0. RInv' /\ CInv'
  BY RStep, CStep
<1>1. CASE UNCHANGED vars
  <2>1. UNCHANGED <<rga, net, copy>>
    BY <1>1 DEF vars
  <2>2. Order' = Order
    BY <2>1 DEF AllInserts, Paths, Order, AllIds
  <2> QED BY <2>1, <2>2 DEF OInv
<1>2. ASSUME NEW n \in Node, NEW op, Produce(n, op) PROVE OInv'
  <2>1. op \in OpsOver(IdsUpTo(Count')) /\ Count <= Count'
    BY <1>0, <1>2, ProduceAdds
  <2>2. AllInserts' = AllInserts \cup {e \in {op} : IsInsert(e)}
    BY <1>0, <1>2, ProduceAdds
  <2> QED BY <1>0, <1>2, <2>1, <2>2, OProduce
<1>3. ASSUME NEW n \in Node, LocalStep(n) PROVE OInv'
  BY <1>2, <1>3 DEF LocalStep, Insert, Delete
<1>4. ASSUME NEW n \in Node, Deliver(n) PROVE OInv'
  BY <1>4, OApply DEF Deliver
<1> QED BY <1>1, <1>3, <1>4, OTakeCopy, OMerge DEF Next

\* Every list follows the one document order: where an insert is placed, the
\* nodes that are skipped hang on a greater id and the next one does not, and a
\* merge takes the nodes of the other list over in its order.
THEOREM ListsInDocumentOrder == Spec => []SequenceOrder
<1>1. RInv /\ CInv /\ OInv => SequenceOrder
  <2> SUFFICES ASSUME OInv, NEW n \in Node, NEW i \in DOMAIN rga[n].nodes,
                      NEW j \in DOMAIN rga[n].nodes, i < j
               PROVE  DocumentBefore(Paths[rga[n].nodes[i].id], Paths[rga[n].nodes[j].id])
    BY DEF SequenceOrder
  <2>1. <<rga[n].nodes[i].id, rga[n].nodes[j].id>> \in Order
    BY DEF OInv, SortedBy
  <2> QED BY <2>1 DEF Order, Ordering
<1> QED BY <1>1, RInit, RStep, CInit, CStep, OInit, OStep, PTL DEF Spec

-----------------------------------------------------------------------------
(* Replicas that get operations in causal order.                           *)

\* An operation builds on what its producer knew: an insert's anchor, or the
\* element to be deleted.
Grounded(op, past) ==
    IF IsInsert(op) THEN op.after = Head0 \/ op.after \in InsertIds(past)
    ELSE op.id \in InsertIds(past)

\* The replica s has placed every insert and done every delete it reflects.
Settled(s, ops) == InsertIds(ops) \subseteq Ids(s.nodes) /\ Deleted(ops) \subseteq Gone(s)

\* The inductive invariant of these replicas.
VInv ==
    /\ \A m \in net : Grounded(m.op, m.past)
    /\ \A n \in Orderly : Settled(rga[n], known[n])
    /\ copy.taken /\ copy.from \in Orderly => Settled(copy.rga, copy.known)

LEMMA OpsSplit ==
    ASSUME NEW a, NEW b
    PROVE  /\ InsertIds(a \cup b) = InsertIds(a) \cup InsertIds(b)
           /\ Deleted(a \cup b) = Deleted(a) \cup Deleted(b)
           /\ a \subseteq b => InsertIds(a) \subseteq InsertIds(b) /\ Deleted(a) \subseteq Deleted(b)
BY DEF InsertIds, Inserts, Deleted

LEMMA OpsOfOne ==
    ASSUME NEW op
    PROVE  /\ InsertIds({op}) = IF IsInsert(op) THEN {op.id} ELSE {}
           /\ Deleted({op}) = IF IsInsert(op) THEN {} ELSE {op.id}
BY DEF InsertIds, Inserts, Deleted, IsInsert

LEMMA GravesAreDeleted ==
    ASSUME NEW s, NEW ops, Graves(s, ops)
    PROVE  Gone(s) \subseteq Deleted(ops)
<1>1. ASSUME NEW x \in ToSet(s.nodes), x.deleted PROVE x.id \in Deleted(ops)
  <2>1. DeleteOp(x.id) \in ops
    BY <1>1 DEF Graves
  <2>2. DeleteOp(x.id).id = x.id /\ DeleteOp(x.id).type # "Insert"
    BY DEF DeleteOp
  <2> QED BY <2>1, <2>2 DEF Deleted, Inserts
<1> QED BY <1>1, GoneMembers

\* A grounded operation leaves the replica settled.
LEMMA SettledApply ==
    ASSUME NEW s, NEW ops, Settled(s, ops), NEW op,
           IF IsInsert(op) THEN op.after = Head0 \/ op.after \in Ids(s.nodes)
                           ELSE op.id \in Ids(s.nodes),
           NEW t, Applied(s, op, t)
    PROVE  Settled(t, ops \cup {op})
<1>1. IsInsert(op) => op.id \in Ids(t.nodes)
  BY DEF Applied, CanPlace
<1>2. Ids(s.nodes) \subseteq Ids(t.nodes)
  BY DEF Applied
<1>3. Gone(s) \subseteq Gone(t)
  BY GoneMembers DEF Applied
<1>4. ~IsInsert(op) => op.id \in Gone(t)
  <2>1. ~IsInsert(op) => \E x \in ToSet(t.nodes) : x.id = op.id /\ x.deleted
    BY DEF Applied
  <2> QED BY <2>1, GoneMembers
<1>5. /\ InsertIds(ops \cup {op}) = InsertIds(ops) \cup InsertIds({op})
      /\ Deleted(ops \cup {op}) = Deleted(ops) \cup Deleted({op})
  BY OpsSplit
<1>6. InsertIds({op}) \subseteq Ids(t.nodes) /\ Deleted({op}) \subseteq Gone(t)
  BY <1>1, <1>4, OpsOfOne
<1> QED BY <1>2, <1>3, <1>5, <1>6 DEF Settled

LEMMA SettledMerge ==
    ASSUME NEW s, NEW a, Settled(s, a), NEW o, NEW b, Settled(o, b),
           NEW t, Merged(s, o, t)
    PROVE  Settled(t, a \cup b)
<1>1. Ids(s.nodes) \cup Ids(o.nodes) \subseteq Ids(t.nodes)
  BY DEF Merged
<1>2. Gone(s) \subseteq Gone(t)
  BY GoneMembers DEF Merged
<1>3. Gone(o) \subseteq Gone(t)
  <2>1. ASSUME NEW i \in Gone(o) PROVE i \in Gone(t)
    <3>1. i \in Ids(t.nodes)
      BY <1>1 DEF Gone, Ids
    <3>2. PICK x \in ToSet(t.nodes) : x.id = i
      BY <3>1, IdsOfMembers
    <3> QED BY <3>2, GoneMembers DEF Merged
  <2> QED BY <2>1
<1> QED BY <1>1, <1>2, <1>3, OpsSplit DEF Settled

\* Nothing waits at a settled replica.
LEMMA SettledIsBuffered ==
    ASSUME NEW s, NEW ops, NEW P, Settled(s, ops), Buffered(s, ops, P),
           \A e \in ToSet(s.pending) : IsInsert(e)
    PROVE  Ids(s.nodes) = InsertIds(ops) /\ ToSet(s.pending) = {}
<1>1. Ids(s.nodes) = InsertIds(ops)
  BY DEF Settled, Buffered
<1>2. ASSUME NEW e \in ToSet(s.pending) PROVE FALSE
  <2>1. e \in ops /\ e.id \in InsertIds(ops)
    BY <1>2 DEF Buffered, IsInsert, InsertIds, Inserts
  <2> QED BY <1>1, <1>2, <2>1 DEF Buffered, Stuck, CanPlace
<1> QED BY <1>1, <1>2

LEMMA VInit == Init => VInv
<1> SUFFICES ASSUME Init PROVE VInv
  OBVIOUS
<1>1. InsertIds({}) = {} /\ Deleted({}) = {}
  BY DEF InsertIds, Inserts, Deleted
<1> QED BY <1>1, OrderlyAssumption DEF Init, VInv, Settled, NoCopy

LEMMA VApply ==
    ASSUME RInv, VInv, NEW n \in Node, NEW m \in net, n \in Orderly => Causal(n, m),
           Apply(n, m.op)
    PROVE  VInv'
<1>1. UNCHANGED <<net, copy>>
  BY DEF Apply
<1>2. PICK s : s = rga[n]
  OBVIOUS
<1>3. PICK t : t = SeqApply(s, m.op)
  OBVIOUS
<1>4. PICK k : k = Count
  OBVIOUS
<1>5. k \in Nat /\ s \in RGAStates(IdsUpTo(k)) /\ Counted(s) /\ m.op \in OpsOver(IdsUpTo(k))
  BY <1>2, <1>4, FS_CardinalityType DEF Count, RInv, Typed, Latest
<1>6. Applied(s, m.op, t)
  BY <1>3, <1>5, ApplyKeeps
<1>7. ASSUME n \in Orderly PROVE Settled(t, known[n] \cup {m.op})
  <2>1. Settled(s, known[n]) /\ Grounded(m.op, m.past) /\ m.past \subseteq known[n]
    BY <1>2, <1>7 DEF VInv, Causal
  <2>2. InsertIds(m.past) \subseteq Ids(s.nodes)
    BY <2>1, OpsSplit DEF Settled
  <2>3. IF IsInsert(m.op) THEN m.op.after = Head0 \/ m.op.after \in Ids(s.nodes)
                          ELSE m.op.id \in Ids(s.nodes)
    BY <2>1, <2>2 DEF Grounded
  <2> QED BY <1>6, <2>1, <2>3, SettledApply
<1>8. /\ \A p \in Node : rga'[p] = IF p = n THEN t ELSE rga[p]
      /\ \A p \in Node : known'[p] = IF p = n THEN known[n] \cup {m.op} ELSE known[p]
  BY <1>2, <1>3 DEF Apply, RInv, Typed
<1> QED BY <1>1, <1>7, <1>8, OrderlyAssumption DEF VInv

LEMMA VProduce ==
    ASSUME RInv, CInv, VInv, NEW n \in Node, NEW op \in OpsOver(IdsUpTo(Count + 1)),
           Produce(n, op),
           IF IsInsert(op) THEN op.after = Head0 \/ op.after \in Ids(rga[n].nodes)
                           ELSE op.id \in Ids(rga[n].nodes)
    PROVE  VInv'
<1>1. PICK m : m = [op |-> op, past |-> known[n]]
  OBVIOUS
<1>2. net' = net \cup {m} /\ m.op = op /\ m.past = known[n] /\ UNCHANGED copy
  BY <1>1 DEF Produce
<1>3. PICK s : s = rga[n]
  OBVIOUS
<1>4. PICK t : t = SeqApply(s, op)
  OBVIOUS
<1>5. Count + 1 \in Nat /\ s \in RGAStates(IdsUpTo(Count + 1)) /\ Counted(s)
  <2>1. Count \in Nat /\ s \in RGAStates(IdsUpTo(Count)) /\ Counted(s)
    BY <1>3, FS_CardinalityType DEF Count, RInv, Typed, Latest
  <2> QED BY <2>1, IdsGrow
<1>6. Applied(s, op, t)
  BY <1>4, <1>5, ApplyKeeps
<1>7. Ids(s.nodes) \subseteq InsertIds(known[n])
  BY <1>3 DEF CInv, Buffered
<1>8. Grounded(op, known[n])
  BY <1>3, <1>7 DEF Grounded
<1>9. ASSUME n \in Orderly PROVE Settled(t, known[n] \cup {op})
  <2>1. Settled(s, known[n])
    BY <1>3, <1>9 DEF VInv
  <2> QED BY <1>3, <1>6, <2>1, SettledApply
<1>10. /\ \A p \in Node : rga'[p] = IF p = n THEN t ELSE rga[p]
       /\ \A p \in Node : known'[p] = IF p = n THEN known[n] \cup {op} ELSE known[p]
  BY <1>3, <1>4 DEF Produce, RInv, Typed
<1> QED BY <1>2, <1>8, <1>9, <1>10, OrderlyAssumption DEF VInv

LEMMA VTakeCopy ==
    ASSUME VInv, NEW n \in Node, TakeCopy(n)
    PROVE  VInv'
<1>1. /\ UNCHANGED <<rga, net, known>>
      /\ copy'.from = n /\ copy'.rga = rga[n] /\ copy'.known = Carried(n)
  BY DEF TakeCopy
<1>2. n \in Orderly => Settled(rga[n], Carried(n))
  <2>1. Carried(n) \subseteq known[n]
    BY DEF Carried
  <2> QED BY <2>1, OpsSplit DEF VInv, Settled
<1> QED BY <1>1, <1>2 DEF VInv

LEMMA VMerge ==
    ASSUME RInv, VInv, NEW n \in Node, Merge(n)
    PROVE  VInv'
<1>1. UNCHANGED <<net, copy>> /\ copy.taken /\ (n \in Orderly => copy.from \in Orderly)
  BY DEF Merge
<1>2. PICK s : s = rga[n]
  OBVIOUS
<1>3. PICK o : o = copy.rga
  OBVIOUS
<1>4. PICK t : t = SeqMerge(s, o)
  OBVIOUS
<1>5. PICK k : k = Count
  OBVIOUS
<1>6. k \in Nat /\ s \in RGAStates(IdsUpTo(k)) /\ Counted(s)
  BY <1>2, <1>5, FS_CardinalityType DEF Count, RInv, Typed, Latest
<1>7. o \in RGAStates(IdsUpTo(k)) /\ Counted(o)
  <2>1. copy \in CopyType /\ Counted(copy.rga)
    BY <1>1 DEF RInv, Typed, Latest, NoCopy
  <2> QED BY <1>3, <1>5, <2>1 DEF CopyType
<1>8. Merged(s, o, t)
  BY <1>4, <1>6, <1>7, MergeKeeps
<1>9. n \in Orderly => Settled(t, known[n] \cup copy.known)
  BY <1>1, <1>2, <1>3, <1>8, SettledMerge DEF VInv
<1>10. /\ \A p \in Node : rga'[p] = IF p = n THEN t ELSE rga[p]
       /\ \A p \in Node : known'[p] = IF p = n THEN known[n] \cup copy.known ELSE known[p]
  BY <1>2, <1>3, <1>4 DEF Merge, RInv, Typed
<1> QED BY <1>1, <1>9, <1>10, OrderlyAssumption DEF VInv

LEMMA VStep == RInv /\ CInv /\ VInv /\ [Next]_vars => VInv'
<1> SUFFICES ASSUME RInv, CInv, VInv, [Next]_vars PROVE VInv'
  OBVIOUS
<1>1. CASE UNCHANGED vars
  BY <1>1 DEF vars, VInv
<1>2. ASSUME NEW n \in Node, Insert(n) PROVE VInv'
  <2>1. PICK op \in WaitingOf(IdsUpTo(Count + 1)) :
           Produce(n, op) /\ (op.after = Head0 \/ op.after \in Ids(rga[n].nodes))
    BY <1>2, InsertMakes
  <2>2. op \in OpsOver(IdsUpTo(Count + 1)) /\ IsInsert(op)
    BY DEF OpsOver, WaitingOf, IsInsert
  <2> QED BY <2>1, <2>2, VProduce
<1>3. ASSUME NEW n \in Node, Delete(n) PROVE VInv'
  <2>1. PICK op \in DeletesOf(IdsUpTo(Count + 1)) :
           Produce(n, op) /\ op.id \in Ids(rga[n].nodes)
    BY <1>3, DeleteMakes
  <2>2. op \in OpsOver(IdsUpTo(Count + 1)) /\ ~IsInsert(op)
    BY DEF OpsOver, DeletesOf, IsInsert
  <2> QED BY <2>1, <2>2, VProduce
<1>4. ASSUME NEW n \in Node, Deliver(n) PROVE VInv'
  BY <1>4, VApply DEF Deliver
<1> QED BY <1>1, <1>2, <1>3, <1>4, VTakeCopy, VMerge DEF Next, LocalStep

LEMMA OrderedShows ==
    ASSUME NEW A, NEW R, NEW anchor, NEW k \in Nat, TotalOrder(R, A),
           NEW s, Ordered(s, k, R, A, anchor), NEW v, v = Visible(s.nodes)
    PROVE  v \in Seq(A) /\ SortedSeq(v, R) /\ Shows(v, Ids(s.nodes) \ Gone(s))
BY OrderShows DEF Ordered

\* A replica that gets operations in causal order has placed exactly the
\* inserts it reflects, and marked exactly the elements whose delete it does.
LEMMA OrderlyReplica ==
    ASSUME RInv, CInv, VInv, NEW n \in Orderly
    PROVE  /\ Ids(rga[n].nodes) = InsertIds(known[n])
           /\ ToSet(rga[n].pending) = {}
           /\ Gone(rga[n]) = Deleted(known[n])
<1>1. n \in Node
  BY OrderlyAssumption
<1>2. PICK s : s = rga[n]
  OBVIOUS
<1>3. PICK P : P = AllInserts
  OBVIOUS
<1>4. Settled(s, known[n]) /\ Buffered(s, known[n], P)
  BY <1>1, <1>2, <1>3 DEF VInv, CInv
<1>5. \A e \in ToSet(s.pending) : IsInsert(e)
  BY <1>1, <1>2, InsertsKnown
<1>6. Ids(s.nodes) = InsertIds(known[n]) /\ ToSet(s.pending) = {}
  BY <1>4, <1>5, SettledIsBuffered
<1>7. Gone(s) \subseteq Deleted(known[n])
  BY <1>1, <1>2, GravesAreDeleted DEF RInv, Deletions
<1> QED BY <1>2, <1>4, <1>6, <1>7 DEF Settled

LEMMA OrderlyShows ==
    ASSUME RInv, CInv, OInv, VInv, NEW n \in Orderly
    PROVE  ShowsKnown(n)
<1>1. n \in Node
  BY OrderlyAssumption
<1>2. PICK s : s = rga[n]
  OBVIOUS
<1>3. PICK k : k = Count
  OBVIOUS
<1>4. PICK A : A = AllIds
  OBVIOUS
<1>5. PICK a : a = Anchor
  OBVIOUS
<1>6. PICK R : R = Order
  OBVIOUS
<1>7. k \in Nat /\ TotalOrder(R, A)
  BY <1>3, <1>4, <1>6, OrderHolds DEF OrderIs, CInv
<1>8. Ordered(s, k, R, A, a)
  BY <1>1, <1>2, <1>3, <1>4, <1>5, <1>6, ReplicasOrdered
<1>9. PICK v : v = Visible(s.nodes)
  OBVIOUS
<1>10. v \in Seq(A) /\ ToSet(v) = Ids(s.nodes) \ Gone(s) /\ SortedSeq(v, R)
  <2>1. v \in Seq(A) /\ SortedSeq(v, R)
    BY <1>7, <1>8, <1>9, OrderedShows
  <2>2. Shows(v, Ids(s.nodes) \ Gone(s))
    BY <1>7, <1>8, <1>9, OrderedShows
  <2> QED BY <2>1, <2>2 DEF Shows
<1>11. ToSet(v) = InsertIds(known[n]) \ Deleted(known[n])
  BY <1>2, <1>10, OrderlyReplica
<1>12. ASSUME NEW i \in DOMAIN v, NEW j \in DOMAIN v, i < j
       PROVE  DocumentBefore(Paths[v[i]], Paths[v[j]])
  <2>1. i \in 1..Len(v) /\ j \in 1..Len(v)
    BY <1>10
  <2>2. <<v[i], v[j]>> \in Order
    BY <1>6, <1>10, <1>12, <2>1 DEF SortedSeq
  <2> QED BY <2>2 DEF Order, Ordering
<1> QED BY <1>2, <1>9, <1>11, <1>12 DEF ShowsKnown

\* What a merge of two such replicas shows.
MergeOf(m, n) == SeqMerge(rga[m], rga[n])

LEMMA MergeShows ==
    ASSUME RInv, CInv, OInv, VInv, NEW m \in Orderly, NEW n \in Orderly
    PROVE  /\ Visible(MergeOf(m, n).nodes) \in Seq(AllIds)
           /\ SortedSeq(Visible(MergeOf(m, n).nodes), Order)
           /\ Shows(Visible(MergeOf(m, n).nodes),
                    (InsertIds(known[m]) \cup InsertIds(known[n]))
                      \ (Deleted(known[m]) \cup Deleted(known[n])))
<1>1. m \in Node /\ n \in Node
  BY OrderlyAssumption
<1>2. PICK s : s = rga[m]
  OBVIOUS
<1>3. PICK o : o = rga[n]
  OBVIOUS
<1>4. PICK t : t = SeqMerge(s, o)
  OBVIOUS
<1>5. PICK k : k = Count
  OBVIOUS
<1>6. PICK A : A = AllIds
  OBVIOUS
<1>7. PICK a : a = Anchor
  OBVIOUS
<1>8. PICK R : R = Order
  OBVIOUS
<1>9. k \in Nat /\ Document(R, A, a)
  BY <1>5, <1>6, <1>7, <1>8, OrderHolds DEF OrderIs, Document, CInv
<1>10. Ordered(s, k, R, A, a) /\ Ordered(o, k, R, A, a)
  BY <1>1, <1>2, <1>3, <1>5, <1>6, <1>7, <1>8, ReplicasOrdered
<1>11. /\ s \in RGAStates(IdsUpTo(k)) /\ Counted(s)
       /\ o \in RGAStates(IdsUpTo(k)) /\ Counted(o)
  BY <1>1, <1>2, <1>3, <1>5 DEF RInv, Typed, Latest
<1>12. o.nodes \in OrderedLists(IdsUpTo(k), R, A, a)
  BY <1>10 DEF Ordered, Orders, Keeps
<1>13. Ordered(t, k, R, A, a)
  BY <1>4, <1>9, <1>10, <1>11, <1>12, MergeOrders
<1>14. PICK v : v = Visible(t.nodes)
  OBVIOUS
<1>15. v \in Seq(A) /\ ToSet(v) = Ids(t.nodes) \ Gone(t) /\ SortedSeq(v, R)
  <2>1. v \in Seq(A) /\ SortedSeq(v, R)
    BY <1>9, <1>13, <1>14, OrderedShows DEF Document
  <2>2. Shows(v, Ids(t.nodes) \ Gone(t))
    BY <1>9, <1>13, <1>14, OrderedShows DEF Document
  <2> QED BY <2>1, <2>2 DEF Shows
<1>16. Merged(s, o, t)
  BY <1>4, <1>9, <1>11, MergeKeeps
<1>17. /\ Ids(s.nodes) = InsertIds(known[m]) /\ Gone(s) = Deleted(known[m])
       /\ Ids(o.nodes) = InsertIds(known[n]) /\ Gone(o) = Deleted(known[n])
       /\ ToSet(s.pending) = {}
  BY <1>2, <1>3, OrderlyReplica
<1>18. Ids(t.nodes) = Ids(s.nodes) \cup Ids(o.nodes)
  BY <1>16, <1>17 DEF Merged
<1>19. Gone(s) \cup Gone(o) \subseteq Gone(t)
  <2>1. Gone(s) \subseteq Gone(t)
    BY <1>16, GoneMembers DEF Merged
  <2>2. Gone(o) \subseteq Gone(t)
    <3>1. ASSUME NEW i \in Gone(o) PROVE i \in Gone(t)
      <4>1. i \in Ids(t.nodes)
        BY <1>18, <3>1 DEF Gone, Ids
      <4>2. PICK x \in ToSet(t.nodes) : x.id = i
        BY <4>1, IdsOfMembers
      <4> QED BY <1>16, <3>1, <4>2, GoneMembers DEF Merged
    <3> QED BY <3>1
  <2> QED BY <2>1, <2>2
<1>20. Gone(t) \subseteq Gone(s) \cup Gone(o)
  BY <1>16, GoneMembers DEF Merged
<1>21. ToSet(v) = (InsertIds(known[m]) \cup InsertIds(known[n]))
                    \ (Deleted(known[m]) \cup Deleted(known[n]))
  BY <1>15, <1>17, <1>18, <1>19, <1>20
<1> QED BY <1>2, <1>3, <1>4, <1>6, <1>8, <1>14, <1>15, <1>21 DEF MergeOf, Shows

LEMMA OrderlyMergesCommute ==
    ASSUME RInv, CInv, OInv, VInv, NEW m \in Orderly, NEW n \in Orderly
    PROVE  MergesCommute(m, n)
<1>1. PICK p : p = Visible(MergeOf(m, n).nodes)
  OBVIOUS
<1>2. PICK q : q = Visible(MergeOf(n, m).nodes)
  OBVIOUS
<1>3. PICK A : A = AllIds
  OBVIOUS
<1>4. PICK R : R = Order
  OBVIOUS
<1>5. TotalOrder(R, A)
  BY <1>3, <1>4, OrderHolds DEF OrderIs, CInv
<1>6. p \in Seq(A) /\ q \in Seq(A)
  BY <1>1, <1>2, <1>3, MergeShows
<1>7. SortedSeq(p, R) /\ SortedSeq(q, R)
  BY <1>1, <1>2, <1>4, MergeShows
<1>8. ToSet(p) = ToSet(q)
  <2>1. Shows(p, (InsertIds(known[m]) \cup InsertIds(known[n]))
                   \ (Deleted(known[m]) \cup Deleted(known[n])))
    BY <1>1, MergeShows
  <2>2. Shows(q, (InsertIds(known[n]) \cup InsertIds(known[m]))
                   \ (Deleted(known[n]) \cup Deleted(known[m])))
    BY <1>2, MergeShows
  <2> QED BY <2>1, <2>2 DEF Shows
<1>9. p = q
  BY <1>5, <1>6, <1>7, <1>8, SortedIsUnique
<1> QED BY <1>1, <1>2, <1>9 DEF MergesCommute, MergeOf

\* Strong convergence: a replica that gets operations in causal order, or
\* merges copies of such replicas, shows exactly the inserts it reflects less
\* the deletes it reflects, in the document order, and two of them merged in
\* either direction show the same list, whatever the other replicas get.
THEOREM Convergence == Spec => []VisibleConvergence
<1>1. RInv /\ CInv /\ OInv /\ VInv => VisibleConvergence
  BY OrderlyShows, OrderlyMergesCommute DEF VisibleConvergence
<1> QED BY <1>1, RInit, RStep, CInit, CStep, OInit, OStep, VInit, VStep, PTL DEF Spec

\* A sequence of no members is empty.
LEMMA NothingIsEmpty ==
    ASSUME NEW k, NEW s \in RGAStates(IdsUpTo(k)), ToSet(s.pending) = {}
    PROVE  s.pending = <<>>
<1>1. PICK q : q = s.pending
  OBVIOUS
<1>2. q \in Seq(WaitingOf(IdsUpTo(k))) /\ ToSet(q) = {}
  BY <1>1 DEF RGAStates
<1>3. Len(q) \in Nat /\ DOMAIN q = 1..Len(q)
  BY <1>2
<1>4. \A i \in DOMAIN q : q[i] \in ToSet(q)
  BY DEF ToSet
<1>5. Len(q) = 0
  <2>1. DOMAIN q = {}
    BY <1>2, <1>4
  <2> QED BY <1>3, <2>1
<1> QED BY <1>1, <1>2, <1>5

\* No insert waits at such a replica: what it builds on has arrived before it.
THEOREM NothingWaits == Spec => [](\A n \in Orderly : rga[n].pending = <<>>)
<1>1. RInv /\ CInv /\ VInv => \A n \in Orderly : rga[n].pending = <<>>
  <2> SUFFICES ASSUME RInv, CInv, VInv, NEW n \in Orderly PROVE rga[n].pending = <<>>
    OBVIOUS
  <2>1. rga[n] \in RGAStates(IdsUpTo(Count))
    BY OrderlyAssumption DEF RInv, Typed
  <2> QED BY <2>1, OrderlyReplica, NothingIsEmpty
<1> QED BY <1>1, RInit, RStep, CInit, CStep, VInit, VStep, PTL DEF Spec
=============================================================================
