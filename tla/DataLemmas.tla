----------------------------- MODULE DataLemmas -----------------------------
(***************************************************************************)
(* What the proofs of the other modules use: facts about sets of natural   *)
(* numbers (least elements, which give induction, and the Min and Max that *)
(* the relays take of clocks and timestamps), about the members of         *)
(* sequences that are put together, and about folds; then what every       *)
(* operation of module RGA does to a replica of a sequence (Applied,       *)
(* Merged, VisibleShowsInOrder, PruneDrops), to its list of nodes          *)
(* (ApplyKeepsList, MergeKeepsList) and to its counter (ApplyCounts,       *)
(* MergeCounts).  Last, the document order of a set of inserts             *)
(* (DocumentOrders): apply and merge keep a list in it (AppliedInOrder,    *)
(* MergedInOrder), which the ids of a list then determine                  *)
(* (SameIdsSameList).                                                      *)
(***************************************************************************)
EXTENDS Integers, RGA, FiniteSetTheorems, WellFoundedInduction,
        SequenceTheorems, TLAPS

\* A set of numbers that is not empty has a least one.  The intervals up to its
\* elements are finite sets, which inclusion orders well.
LEMMA Least ==
    ASSUME NEW S \in SUBSET Nat, S # {}
    PROVE  \E x \in S : \A y \in S : x <= y
<1> DEFINE T == {0..x : x \in S}
           R == StrictSubsetOrdering(Nat)
<1>1. T \subseteq FiniteSubsetsOf(Nat) /\ T # {}
  <2>1. \A x \in S : 0..x \in SUBSET Nat /\ IsFiniteSet(0..x)
    BY FS_Interval
  <2>2. \A x \in S : 0..x \in FiniteSubsetsOf(Nat)
    BY <2>1 DEF FiniteSubsetsOf
  <2> QED BY <2>2
<1>2. \E a \in T : \A b \in T : ~(<<b, a>> \in R)
  <2> HIDE DEF T, R
  <2>1. IsWellFoundedOn(R, FiniteSubsetsOf(Nat))
    BY FS_StrictSubsetOrderingWellFounded DEF R
  <2> QED BY <1>1, <2>1, WFMin
<1>3. PICK x \in S : \A y \in S : ~(<<0..y, 0..x>> \in R)
  BY <1>2
<1>4. ASSUME NEW y \in S, y < x PROVE FALSE
  <2>1. (0..y) \in SUBSET Nat /\ (0..x) \in SUBSET Nat
    OBVIOUS
  <2>2. (0..y) \subseteq (0..x) /\ x \in 0..x /\ ~(x \in 0..y)
    BY <1>4
  <2>3. <<0..y, 0..x>> \in R
    BY <2>1, <2>2 DEF StrictSubsetOrdering
  <2> QED BY <1>3, <2>3
<1> QED BY <1>4

\* Min is the least element.
LEMMA MinIsLeast ==
    ASSUME NEW S \in SUBSET Nat, S # {}
    PROVE  Min(S) \in S /\ \A y \in S : Min(S) <= y
BY Least DEF Min

\* Max is the greatest element of a set that has a bound.
LEMMA MaxIsGreatest ==
    ASSUME NEW n \in Nat, NEW S \in SUBSET (0..n), S # {}
    PROVE  Max(S) \in S /\ \A y \in S : y <= Max(S)
<1> DEFINE U == {n - x : x \in S}
<1>1. U \in SUBSET Nat /\ U # {}
  <2>1. \A x \in S : x \in 0..n /\ n - x \in Nat
    OBVIOUS
  <2> QED BY <2>1
<1>2. PICK u \in U : \A v \in U : u <= v
  BY <1>1, Least
<1>3. PICK x \in S : u = n - x
  OBVIOUS
<1>4. \A y \in S : n - x <= n - y
  BY <1>2, <1>3
<1>5. \A y \in S : x >= y
  BY <1>4
<1> QED BY <1>5 DEF Max

LEMMA MembersOfConcat ==
    ASSUME NEW S, NEW a \in Seq(S), NEW b \in Seq(S)
    PROVE  ToSet(a \o b) = ToSet(a) \cup ToSet(b)
<1>1. Range(a \o b) = Range(a) \cup Range(b)
  BY RangeConcatenation
<1>2. \A s : ToSet(s) = Range(s)
  BY DEF ToSet, Range
<1> QED BY <1>1, <1>2

\* The sequence of the sequences up to each place.
IsFlat(flat, seqs, S) ==
    \A i \in 1..Len(seqs) :
        /\ flat[i] \in Seq(S)
        /\ flat[i] = IF i = 1 THEN seqs[i] ELSE flat[i - 1] \o seqs[i]

\* The recursive function FlattenSeq is made of exists.
LEMMA FlattenSteps ==
    ASSUME NEW S, NEW seqs \in Seq(Seq(S)), seqs # <<>>
    PROVE  \E flat : IsFlat(flat, seqs, S) /\ FlattenSeq(seqs) = flat[Len(seqs)]
<1> DEFINE Flattens(f, n) ==
        f = [i \in 1..n |-> IF i = 1 THEN seqs[i] ELSE f[i - 1] \o seqs[i]]
    n == Len(seqs)
    flat == CHOOSE f : Flattens(f, n)
<1>1. n \in Nat /\ n # 0 /\ \A i \in 1..n : seqs[i] \in Seq(S)
  OBVIOUS
<1> DEFINE Exists(k) == \E f : Flattens(f, k)
<1>2. Exists(n)
  <2>1. Exists(0)
    <3>1. Flattens(<<>>, 0)
      OBVIOUS
    <3> QED BY <3>1
  <2>2. ASSUME NEW k \in Nat \ {0}, Exists(k - 1) PROVE Exists(k)
    <3>1. PICK f : Flattens(f, k - 1)
      BY <2>2
    <3> DEFINE g == [i \in 1..k |-> IF i = 1 THEN seqs[i] ELSE f[i - 1] \o seqs[i]]
    <3>2. \A i \in 1..(k - 1) : f[i] = IF i = 1 THEN seqs[i] ELSE f[i - 1] \o seqs[i]
      BY <3>1
    <3>3. \A i \in 1..(k - 1) : g[i] = f[i]
      BY <3>2
    <3>5. \A i \in 1..k : g[i] = IF i = 1 THEN seqs[i] ELSE f[i - 1] \o seqs[i]
      OBVIOUS
    <3> HIDE DEF g
    <3>6. \A i \in 1..k : g[i] = IF i = 1 THEN seqs[i] ELSE g[i - 1] \o seqs[i]
      <4> TAKE i \in 1..k
      <4>1. CASE i = 1
        BY <3>5, <4>1
      <4>2. CASE i # 1
        <5>1. i - 1 \in 1..(k - 1)
          BY <4>2
        <5>2. g[i - 1] = f[i - 1]
          BY <3>3, <5>1
        <5> QED BY <3>5, <4>2, <5>2
      <4> QED BY <4>1, <4>2
    <3>7. g = [i \in 1..k |-> g[i]]
      BY DEF g
    <3>8. Flattens(g, k)
      BY <3>6, <3>7
    <3> QED BY <3>8
  <2> HIDE DEF Exists
  <2> DEFINE Missing == {k \in Nat : ~Exists(k)}
  <2>3. ASSUME Missing # {} PROVE FALSE
    <3>1. PICK k \in Missing : \A l \in Missing : k <= l
      BY <2>3, Least, Missing \in SUBSET Nat
    <3> QED BY <2>1, <2>2, <3>1
  <2> QED BY <1>1, <2>3
<1>3. Flattens(flat, n)
  BY <1>2
<1>4. FlattenSeq(seqs) = flat[n]
  BY <1>1 DEF FlattenSeq
<1> HIDE DEF flat
<1>5. \A i \in 1..n : flat[i] = IF i = 1 THEN seqs[i] ELSE flat[i - 1] \o seqs[i]
  BY <1>3
<1>6. \A i \in 1..n : flat[i] \in Seq(S)
  <2> DEFINE Wrong == {i \in 1..n : flat[i] \notin Seq(S)}
  <2> SUFFICES ASSUME Wrong # {} PROVE FALSE
    OBVIOUS
  <2>1. PICK i \in Wrong : \A l \in Wrong : i <= l
    BY Least, Wrong \in SUBSET Nat
  <2>2. i # 1
    BY <1>1, <1>5, <2>1
  <2>3. i - 1 \in 1..n /\ i - 1 \notin Wrong
    BY <1>1, <2>1, <2>2
  <2>4. flat[i] = flat[i - 1] \o seqs[i] /\ flat[i - 1] \in Seq(S) /\ seqs[i] \in Seq(S)
    BY <1>1, <1>5, <2>1, <2>2, <2>3
  <2>5. flat[i] \in Seq(S)
    BY <2>4
  <2> QED BY <2>1, <2>5
<1>7. IsFlat(flat, seqs, S)
  BY <1>5, <1>6 DEF IsFlat
<1> QED BY <1>4, <1>7

\* Flattening keeps every member of every sequence: a least place at which one
\* is missing would not be one.
LEMMA FlattenKeeps ==
    ASSUME NEW S, NEW seqs \in Seq(Seq(S)),
           NEW j \in DOMAIN seqs, NEW e \in ToSet(seqs[j])
    PROVE  e \in ToSet(FlattenSeq(seqs))
<1> DEFINE n == Len(seqs)
<1>1. n \in Nat /\ j \in 1..n /\ seqs # <<>> /\ \A i \in 1..n : seqs[i] \in Seq(S)
  OBVIOUS
<1>2. PICK flat : IsFlat(flat, seqs, S) /\ FlattenSeq(seqs) = flat[n]
  BY <1>1, FlattenSteps
<1>3. \A i \in 1..n : /\ flat[i] \in Seq(S)
                     /\ flat[i] = IF i = 1 THEN seqs[i] ELSE flat[i - 1] \o seqs[i]
  BY <1>2 DEF IsFlat
<1>4. \A i \in 1..n : j <= i => e \in ToSet(flat[i])
  <2> DEFINE Wrong == {i \in 1..n : ~(j <= i => e \in ToSet(flat[i]))}
  <2> SUFFICES ASSUME Wrong # {} PROVE FALSE
    OBVIOUS
  <2>1. PICK i \in Wrong : \A l \in Wrong : i <= l
    BY Least, Wrong \in SUBSET Nat
  <2>2. i # 1
    BY <1>1, <1>3, <2>1
  <2>3. i - 1 \in 1..n /\ i - 1 \notin Wrong
    BY <1>1, <2>1, <2>2
  <2>4. flat[i] = flat[i - 1] \o seqs[i] /\ flat[i - 1] \in Seq(S) /\ seqs[i] \in Seq(S)
    BY <1>1, <1>3, <2>1, <2>2, <2>3
  <2>5. ToSet(flat[i]) = ToSet(flat[i - 1]) \cup ToSet(seqs[i])
    BY <2>4, MembersOfConcat
  <2>6. ASSUME j <= i PROVE e \in ToSet(flat[i])
    <3>1. CASE j = i
      BY <2>5, <3>1
    <3>2. CASE j # i
      <4>1. j <= i - 1
        BY <1>1, <2>1, <2>6, <3>2
      <4>2. e \in ToSet(flat[i - 1])
        BY <2>3, <4>1
      <4> QED BY <2>5, <4>2
    <3> QED BY <3>1, <3>2
  <2> QED BY <2>1, <2>6
<1> QED BY <1>1, <1>2, <1>4

\* Induction along the steps 0..n: the least step at which a fact fails would
\* follow one at which it holds.
LEMMA Steps ==
    ASSUME NEW n \in Nat, NEW W, 0 \in W, \A i \in 1..n : i - 1 \in W => i \in W
    PROVE  \A i \in 0..n : i \in W
<1> DEFINE Wrong == {i \in 0..n : i \notin W}
<1> SUFFICES ASSUME Wrong # {} PROVE FALSE
  OBVIOUS
<1>1. PICK i \in Wrong : \A j \in Wrong : i <= j
  BY Least, Wrong \in SUBSET Nat
<1>2. i # 0 /\ i \in 1..n /\ i - 1 \in 0..n /\ i - 1 < i
  BY <1>1
<1>3. i - 1 \in W
  BY <1>1, <1>2
<1> QED BY <1>1, <1>2, <1>3

LEMMA MaxOfInterval ==
    ASSUME NEW i \in Nat \ {0}
    PROVE  Max(1..i) = i /\ (1..i) # {} /\ (1..i) \ {i} = 1..(i - 1)
<1>1. (1..i) \in SUBSET (0..i) /\ i \in 1..i
  OBVIOUS
<1>2. Max(1..i) \in 1..i /\ \A y \in 1..i : y <= Max(1..i)
  BY <1>1, MaxIsGreatest
<1> QED BY <1>1, <1>2

\* h is the recursion along 0..n that starts with base and steps with G.
IsRecursion(h, n, X, base, G) ==
    /\ h \in [0..n -> X]
    /\ h[0] = base
    /\ \A i \in 1..n : h[i] = G[<<h[i - 1], i>>]

LEMMA RecursionExists ==
    ASSUME NEW n \in Nat, NEW X, NEW base \in X, NEW G \in [X \X (1..n) -> X]
    PROVE  \E h : IsRecursion(h, n, X, base, G)
<1> DEFINE Runs(h, k) == /\ h \in [0..k -> X]
                         /\ h[0] = base
                         /\ \A i \in 1..k : h[i] = G[<<h[i - 1], i>>]
           W == {k \in 0..n : \E h : Runs(h, k)}
<1>1. 0 \in W
  <2> DEFINE h == [i \in 0..0 |-> base]
  <2>1. Runs(h, 0)
    OBVIOUS
  <2> HIDE DEF h, Runs
  <2> QED BY <2>1
<1>2. ASSUME NEW k \in 1..n, k - 1 \in W PROVE k \in W
  <2>1. PICK f : Runs(f, k - 1)
    BY <1>2
  <2> DEFINE h == [i \in 0..k |-> IF i = k THEN G[<<f[k - 1], k>>] ELSE f[i]]
  <2>2. \A i \in 0..(k - 1) : h[i] = f[i] /\ f[i] \in X
    BY <2>1
  <2>3. h[k] = G[<<f[k - 1], k>>] /\ h[k] \in X
    BY <2>2
  <2>4. h \in [0..k -> X]
    <3>1. \A i \in 0..k : i = k \/ i \in 0..(k - 1)
      OBVIOUS
    <3>2. h = [i \in 0..k |-> h[i]]
      OBVIOUS
    <3> HIDE DEF h
    <3>3. \A i \in 0..k : h[i] \in X
      BY <2>2, <2>3, <3>1
    <3> QED BY <3>2, <3>3
  <2> HIDE DEF h
  <2>5. \A i \in 1..k : h[i] = G[<<h[i - 1], i>>]
    <3> TAKE i \in 1..k
    <3>1. CASE i = k
      BY <2>2, <2>3, <3>1
    <3>2. CASE i # k
      <4>1. i \in 1..(k - 1) /\ i - 1 \in 0..(k - 1) /\ i \in 0..(k - 1)
        BY <3>2
      <4> QED BY <2>1, <2>2, <4>1
    <3> QED BY <3>1, <3>2
  <2>6. h[0] = base
    BY <2>1, <2>2
  <2>7. Runs(h, k)
    BY <2>4, <2>5, <2>6
  <2> HIDE DEF Runs
  <2> QED BY <2>7
<1> HIDE DEF W
<1>3. n \in W
  BY <1>1, <1>2, Steps
<1>4. PICK h : Runs(h, n)
  BY <1>3 DEF W
<1>5. IsRecursion(h, n, X, base, G)
  BY <1>4 DEF IsRecursion
<1> QED BY <1>5

\* f gives the fold of every set of positions of a sequence of length n.
IsFold(f, n, X, base, G) ==
    /\ f \in [SUBSET (1..n) -> X]
    /\ \A s \in SUBSET (1..n) :
         f[s] = IF s = {} THEN base ELSE G[<<f[s \ {Max(s)}], Max(s)>>]

\* The recursion that a fold of a sequence of length n is made of exists.
LEMMA FoldExists ==
    ASSUME NEW n \in Nat, NEW X, NEW base \in X, NEW G \in [X \X (1..n) -> X]
    PROVE  \E f : IsFold(f, n, X, base, G)
<1> DEFINE Folds(f, k) ==
              /\ f \in [SUBSET (1..k) -> X]
              /\ \A s \in SUBSET (1..k) :
                   f[s] = IF s = {} THEN base ELSE G[<<f[s \ {Max(s)}], Max(s)>>]
           W == {k \in 0..n : \E f : Folds(f, k)}
<1>1. 0 \in W
  <2> DEFINE f == [s \in SUBSET (1..0) |-> base]
  <2>1. \A s \in SUBSET (1..0) : s = {}
    OBVIOUS
  <2>2. Folds(f, 0)
    BY <2>1
  <2> HIDE DEF f, Folds
  <2> QED BY <2>2
<1>2. ASSUME NEW k \in 1..n, k - 1 \in W PROVE k \in W
  <2>1. PICK f : Folds(f, k - 1)
    BY <1>2
  <2> DEFINE g == [s \in SUBSET (1..k) |->
                     IF k \in s THEN G[<<f[s \ {k}], k>>] ELSE f[s]]
  <2>2. \A s \in SUBSET (1..k) : s \ {k} \in SUBSET (1..(k - 1))
    OBVIOUS
  <2>3. \A s \in SUBSET (1..(k - 1)) : f[s] \in X /\ s \in SUBSET (1..k) /\ k \notin s /\ g[s] = f[s]
    <3> TAKE s \in SUBSET (1..(k - 1))
    <3>1. s \in SUBSET (1..k) /\ k \notin s
      OBVIOUS
    <3> QED BY <2>1, <3>1
  <2>4. \A s \in SUBSET (1..k) : k \in s => g[s] = G[<<f[s \ {k}], k>>] /\ g[s] \in X
    <3> TAKE s \in SUBSET (1..k)
    <3>1. f[s \ {k}] \in X
      BY <2>2, <2>3
    <3>2. <<f[s \ {k}], k>> \in X \X (1..n)
      BY <3>1
    <3>3. G[<<f[s \ {k}], k>>] \in X
      BY <3>2
    <3> QED BY <3>3
  <2>5. g = [s \in SUBSET (1..k) |-> g[s]]
    OBVIOUS
  <2> HIDE DEF g
  <2>6. \A s \in SUBSET (1..k) : k \notin s => s \in SUBSET (1..(k - 1))
    OBVIOUS
  <2>7. \A s \in SUBSET (1..k) : g[s] \in X
    BY <2>3, <2>4, <2>6
  <2>8. \A s \in SUBSET (1..k) :
           g[s] = IF s = {} THEN base ELSE G[<<g[s \ {Max(s)}], Max(s)>>]
    <3> TAKE s \in SUBSET (1..k)
    <3>1. CASE k \in s
      <4>1. s \in SUBSET (0..k) /\ s # {}
        BY <3>1
      <4>2. Max(s) \in s /\ k <= Max(s)
        BY <3>1, <4>1, MaxIsGreatest, k \in Nat
      <4>3. Max(s) = k
        <5> DEFINE m == Max(s)
        <5>1. m \in 1..k /\ k <= m
          BY <4>2
        <5> HIDE DEF m
        <5>2. m = k
          BY <5>1
        <5> QED BY <5>2 DEF m
      <4>4. g[s \ {k}] = f[s \ {k}]
        BY <2>2, <2>3
      <4> QED BY <2>4, <3>1, <4>1, <4>3, <4>4
    <3>2. CASE k \notin s
      <4>1. s \in SUBSET (1..(k - 1)) /\ s \ {Max(s)} \in SUBSET (1..(k - 1))
        BY <2>6, <3>2
      <4> QED BY <2>1, <2>3, <4>1
    <3> QED BY <3>1, <3>2
  <2>9. Folds(g, k)
    BY <2>5, <2>7, <2>8
  <2> HIDE DEF Folds
  <2> QED BY <2>9
<1> HIDE DEF W
<1>3. n \in W
  BY <1>1, <1>2, Steps
<1>4. PICK f : Folds(f, n)
  BY <1>3 DEF W
<1>5. IsFold(f, n, X, base, G)
  BY <1>4 DEF IsFold
<1> QED BY <1>5


\* The nodes, the waiting inserts and the replicas over the ids in I.
NodesOf(I) == [id : I, deleted : BOOLEAN]
WaitingOf(I) == [type : {"Insert"}, id : I, after : I \cup {Head0}]
RGAStates(I) == [clock : Nat, nodes : Seq(NodesOf(I)), pending : Seq(WaitingOf(I))]

NewNode(op) == [id |-> op.id, deleted |-> FALSE]

\* A concatenation that the provers see through this lemma alone.
Concat(a, b) == a \o b

LEMMA ConcatAt ==
    ASSUME NEW S, NEW a \in Seq(S), NEW b \in Seq(S)
    PROVE  /\ Concat(a, b) \in Seq(S)
           /\ Len(Concat(a, b)) = Len(a) + Len(b)
           /\ \A i \in 1..Len(a) : Concat(a, b)[i] = a[i]
           /\ \A i \in 1..Len(b) : Concat(a, b)[Len(a) + i] = b[i]
BY DEF Concat

LEMMA FlattenNothing == FlattenSeq(<<>>) = <<>>
BY DEF FlattenSeq

IsAppend(new, s, x) == new = Append(s, x)

\* What is appended comes last.
LEMMA FlattenAppend ==
    ASSUME NEW S, NEW seqs \in Seq(Seq(S)), NEW x \in Seq(S), NEW new, IsAppend(new, seqs, x)
    PROVE  FlattenSeq(seqs) \in Seq(S) /\ FlattenSeq(new) = Concat(FlattenSeq(seqs), x)
<1> DEFINE n == Len(seqs)
           T == Seq(S)
<1>1. /\ n \in Nat /\ new \in Seq(T) /\ Len(new) = n + 1 /\ new # <<>>
      /\ new[n + 1] = x /\ \A i \in 1..n : new[i] = seqs[i]
  <2>1. seqs \in Seq(T) /\ x \in T
    OBVIOUS
  <2> HIDE DEF T
  <2> QED BY <2>1 DEF IsAppend
<1>2. PICK g : IsFlat(g, new, S) /\ FlattenSeq(new) = g[n + 1]
  BY <1>1, FlattenSteps
<1> HIDE DEF n
<1>3. \A i \in 1..(n + 1) : /\ g[i] \in Seq(S)
                           /\ g[i] = IF i = 1 THEN new[i] ELSE g[i - 1] \o new[i]
  BY <1>1, <1>2 DEF IsFlat
<1>4. CASE n = 0
  <2>1. seqs = <<>> /\ FlattenSeq(seqs) = <<>>
    BY <1>4, FlattenNothing DEF n
  <2>2. g[n + 1] = x
    BY <1>1, <1>3, <1>4
  <2>3. Concat(<<>>, x) = x /\ <<>> \in Seq(S)
    BY ConcatEmptySeq DEF Concat
  <2> QED BY <1>2, <2>1, <2>2, <2>3
<1>5. CASE n # 0
  <2>1. seqs # <<>>
    BY <1>5 DEF n
  <2>2. PICK f : IsFlat(f, seqs, S) /\ FlattenSeq(seqs) = f[n]
    BY <2>1, FlattenSteps DEF n
  <2>3. \A i \in 1..n : /\ f[i] \in Seq(S)
                       /\ f[i] = IF i = 1 THEN seqs[i] ELSE f[i - 1] \o seqs[i]
    BY <2>2 DEF IsFlat, n
  <2> DEFINE W == {i \in 0..n : i = 0 \/ g[i] = f[i]}
  <2>4. 0 \in W
    BY <1>1
  <2>5. ASSUME NEW i \in 1..n, i - 1 \in W PROVE i \in W
    <3>1. i \in 1..(n + 1) /\ i \in 0..n /\ new[i] = seqs[i]
      BY <1>1
    <3>2. g[i] = f[i]
      <4>1. CASE i = 1
        BY <1>3, <2>3, <3>1, <4>1
      <4>2. CASE i # 1
        <5>1. g[i - 1] = f[i - 1]
          BY <2>5, <4>2
        <5>2. g[i] = g[i - 1] \o new[i]
          BY <1>3, <3>1, <4>2
        <5>3. f[i] = f[i - 1] \o seqs[i]
          BY <2>3, <4>2
        <5> QED BY ONLY <3>1, <5>1, <5>2, <5>3
      <4> QED BY <4>1, <4>2
    <3> QED BY <3>1, <3>2
  <2>6. n \in 0..n
    BY <1>1
  <2> HIDE DEF W
  <2>7. n \in W
    BY <1>1, <2>4, <2>5, <2>6, Steps
  <2>8. g[n] = f[n]
    BY <1>5, <2>7 DEF W
  <2>9. n + 1 \in 1..(n + 1) /\ n + 1 # 1 /\ (n + 1) - 1 = n /\ n \in 1..n
    BY <1>1, <1>5
  <2>10. g[n + 1] = g[n] \o x
    <3>1. g[n + 1] = g[(n + 1) - 1] \o new[n + 1]
      BY <1>3, <2>9
    <3> QED BY <1>1, <2>9, <3>1
  <2>11. f[n] \in Seq(S)
    BY <2>3, <2>9
  <2>12. FlattenSeq(new) = Concat(FlattenSeq(seqs), x)
    BY <1>2, <2>2, <2>8, <2>10 DEF Concat
  <2> QED BY <2>2, <2>11, <2>12
<1> QED BY <1>4, <1>5

\* What is inserted at a position is a member, next to what was there.
LEMMA InsertAtAdds ==
    ASSUME NEW S, NEW s \in Seq(S), NEW e \in S, NEW p \in 1..(Len(s) + 1)
    PROVE  /\ InsertAt(s, p, e) \in Seq(S)
           /\ Len(InsertAt(s, p, e)) = Len(s) + 1
           /\ \A i \in 1..(Len(s) + 1) :
                InsertAt(s, p, e)[i] = IF i < p THEN s[i] ELSE IF i = p THEN e ELSE s[i - 1]
           /\ ToSet(InsertAt(s, p, e)) = ToSet(s) \cup {e}
<1> DEFINE a == SubSeq(s, 1, p - 1)
           b == SubSeq(s, p, Len(s))
           c == <<e>>
           d == Concat(a, c)
           t == Concat(d, b)
<1>0. Len(s) \in Nat /\ p \in Nat /\ p >= 1 /\ p <= Len(s) + 1
  OBVIOUS
<1>1. a \in Seq(S) /\ Len(a) = p - 1 /\ \A i \in 1..(p - 1) : a[i] = s[i]
  OBVIOUS
<1>2. b \in Seq(S) /\ Len(b) = Len(s) - p + 1 /\ \A i \in 1..(Len(s) - p + 1) : b[i] = s[p + i - 1]
  OBVIOUS
<1>3. c \in Seq(S) /\ Len(c) = 1 /\ c[1] = e
  OBVIOUS
<1> HIDE DEF a, b, c
<1>4. /\ d \in Seq(S) /\ Len(d) = p
      /\ \A i \in 1..(p - 1) : d[i] = s[i]
      /\ d[p] = e
  <2>0. a \in Seq(S) /\ c \in Seq(S)
    BY <1>1, <1>3
  <2>1. d \in Seq(S) /\ Len(d) = Len(a) + Len(c)
    BY <2>0, ConcatAt
  <2>2. \A i \in 1..Len(a) : d[i] = a[i]
    BY <2>0, ConcatAt
  <2>3. \A i \in 1..Len(c) : d[Len(a) + i] = c[i]
    BY <2>0, ConcatAt
  <2> HIDE DEF d
  <2>4. Len(a) + Len(c) = p /\ Len(a) + 1 = p
    BY <1>0, <1>1, <1>3
  <2>5. d[p] = c[1]
    BY <1>3, <2>3, <2>4
  <2> QED BY <1>1, <1>3, <2>1, <2>2, <2>4, <2>5
<1> HIDE DEF d
<1>5. /\ t \in Seq(S) /\ Len(t) = Len(s) + 1
      /\ \A i \in 1..(Len(s) + 1) : t[i] = IF i < p THEN s[i] ELSE IF i = p THEN e ELSE s[i - 1]
  <2>0. d \in Seq(S) /\ b \in Seq(S)
    BY <1>2, <1>4
  <2>1. t \in Seq(S) /\ Len(t) = Len(d) + Len(b)
    BY <2>0, ConcatAt
  <2>4. \A i \in 1..Len(d) : t[i] = d[i]
    BY <2>0, ConcatAt
  <2>5. \A i \in 1..Len(b) : t[Len(d) + i] = b[i]
    BY <2>0, ConcatAt
  <2> HIDE DEF t
  <2>2. Len(d) + Len(b) = Len(s) + 1
    BY <1>0, <1>2, <1>4
  <2>3. ASSUME NEW i \in 1..(Len(s) + 1)
        PROVE  t[i] = IF i < p THEN s[i] ELSE IF i = p THEN e ELSE s[i - 1]
    <3>1. CASE i < p
      BY <1>0, <1>4, <2>4, <3>1
    <3>2. CASE i = p
      BY <1>0, <1>4, <2>4, <3>2
    <3>3. CASE i > p
      <4> DEFINE j == i - p
      <4>1. j \in 1..(Len(s) - p + 1) /\ p + j = i /\ p + j - 1 = i - 1
        BY <1>0, <3>3
      <4> HIDE DEF j
      <4>2. b[j] = s[p + j - 1]
        BY <1>2, <4>1
      <4>3. j \in 1..Len(b) /\ Len(d) + j = i
        BY <1>2, <1>4, <4>1
      <4>4. t[Len(d) + j] = b[j]
        BY <2>5, <4>3
      <4> QED BY <3>3, <1>0, <4>1, <4>2, <4>3, <4>4
    <3> QED BY <1>0, <3>1, <3>2, <3>3
  <2> QED BY <2>1, <2>2, <2>3
<1>6. InsertAt(s, p, e) = t
  BY DEF InsertAt, Concat, a, b, c, d
<1> HIDE DEF t
<1>7. ToSet(t) = ToSet(s) \cup {e}
  <2>0. DOMAIN t = 1..(Len(s) + 1) /\ DOMAIN s = 1..Len(s) /\ Len(s) \in Nat
    BY <1>5
  <2>1. ASSUME NEW i \in DOMAIN t PROVE t[i] \in ToSet(s) \cup {e}
    <3>1. CASE i < p
      BY <1>5, <2>0, <3>1 DEF ToSet
    <3>2. CASE i = p
      BY <1>5, <2>0, <3>2
    <3>3. CASE i > p
      <4>1. i - 1 \in DOMAIN s /\ t[i] = s[i - 1]
        BY <1>5, <2>0, <3>3
      <4> QED BY <4>1 DEF ToSet
    <3> QED BY <3>1, <3>2, <3>3, <2>0
  <2>2. ASSUME NEW i \in DOMAIN s PROVE s[i] \in ToSet(t)
    <3>1. CASE i < p
      <4>1. i \in DOMAIN t /\ t[i] = s[i]
        BY <1>5, <2>0, <3>1
      <4> QED BY <4>1 DEF ToSet
    <3>2. CASE i >= p
      <4>1. i + 1 \in DOMAIN t /\ t[i + 1] = s[(i + 1) - 1]
        BY <1>5, <2>0, <3>2
      <4>2. t[i + 1] = s[i]
        BY <4>1, <2>0
      <4> QED BY <4>1, <4>2 DEF ToSet
    <3> QED BY <3>1, <3>2, <2>0
  <2>3. p \in DOMAIN t /\ t[p] = e
    BY <1>5, <2>0
  <2> QED BY <2>1, <2>2, <2>3 DEF ToSet
<1> QED BY <1>5, <1>6, <1>7

\* A new node goes to a position inside the list or right after it, after its
\* anchor.
LEMMA InsertPosInside ==
    ASSUME NEW S, NEW nodes \in Seq(S), NEW op,
           op.after = Head0 \/ op.after \in Ids(nodes)
    PROVE  /\ InsertPos(nodes, op) \in 1..(Len(nodes) + 1)
           /\ op.after # Head0 => /\ PosOf(nodes, op.after) \in DOMAIN nodes
                                  /\ nodes[PosOf(nodes, op.after)].id = op.after
                                  /\ PosOf(nodes, op.after) < InsertPos(nodes, op)
<1> DEFINE start == IF op.after = Head0 THEN 1 ELSE PosOf(nodes, op.after) + 1
           stops == {p \in start..Len(nodes) : ~IdGreater(nodes[p].id, op.id)}
<1>1. op.after # Head0 => /\ PosOf(nodes, op.after) \in DOMAIN nodes
                          /\ nodes[PosOf(nodes, op.after)].id = op.after
  BY DEF PosOf, Ids
<1>2. start \in 1..(Len(nodes) + 1)
  BY <1>1
<1>3. CASE stops = {}
  BY <1>1, <1>2, <1>3 DEF InsertPos
<1>4. CASE stops # {}
  <2>1. stops \in SUBSET Nat
    BY <1>2
  <2>2. PICK p \in stops : \A q \in stops : p <= q
    BY <1>4, <2>1, Least
  <2>3. InsertPos(nodes, op) = CHOOSE x \in stops : \A q \in stops : x <= q
    BY <1>4 DEF InsertPos
  <2>4. InsertPos(nodes, op) \in stops
    BY <2>2, <2>3
  <2> QED BY <1>1, <1>2, <2>4
<1> QED BY <1>3, <1>4

\* An insert that can be placed adds its node, alive, and changes no other.
LEMMA PlaceAdds ==
    ASSUME NEW I, NEW nodes \in Seq(NodesOf(I)), NEW op \in WaitingOf(I), CanPlace(nodes, op)
    PROVE  /\ Place(nodes, op) \in Seq(NodesOf(I))
           /\ Ids(Place(nodes, op)) = Ids(nodes) \cup {op.id}
           /\ ToSet(nodes) \subseteq ToSet(Place(nodes, op))
           /\ \A x \in ToSet(Place(nodes, op)) : x.deleted => x \in ToSet(nodes)
<1>0. \A s : Ids(s) = {x.id : x \in ToSet(s)}
  BY DEF Ids, ToSet
<1>1. CASE op.id \in Ids(nodes)
  BY <1>1 DEF Place
<1>2. CASE op.id \notin Ids(nodes)
  <2>1. Place(nodes, op) = InsertAt(nodes, InsertPos(nodes, op), NewNode(op))
    BY <1>2 DEF Place, NewNode
  <2>2. InsertPos(nodes, op) \in 1..(Len(nodes) + 1)
    BY <1>2, InsertPosInside DEF CanPlace
  <2>3. NewNode(op) \in NodesOf(I) /\ NewNode(op).id = op.id /\ ~NewNode(op).deleted
    BY DEF NewNode, NodesOf, WaitingOf
  <2> HIDE DEF NodesOf
  <2>4. /\ Place(nodes, op) \in Seq(NodesOf(I))
        /\ ToSet(Place(nodes, op)) = ToSet(nodes) \cup {NewNode(op)}
    BY <2>1, <2>2, <2>3, InsertAtAdds
  <2> QED BY <1>0, <2>3, <2>4
<1> QED BY <1>1, <1>2


\* No insert that waits could be placed.
Stuck(s) == \A op \in ToSet(s.pending) : ~CanPlace(s.nodes, op)

\* What draining the pending inserts does: every node stays, tombstones
\* included, no node is deleted, and a node that is new is one of the inserts
\* that waited, whose anchor is there; the others still wait.
Drained(s, t) ==
    /\ t.clock = s.clock
    /\ ToSet(s.nodes) \subseteq ToSet(t.nodes)
    /\ \A x \in ToSet(t.nodes) : x.deleted => x \in ToSet(s.nodes)
    /\ \A i \in Ids(t.nodes) \ Ids(s.nodes) :
          \E op \in ToSet(s.pending) :
             op.id = i /\ (op.after = Head0 \/ op.after \in Ids(t.nodes))
    /\ ToSet(t.pending) \subseteq ToSet(s.pending)
    /\ \A op \in ToSet(s.pending) : op.id \in Ids(t.nodes) \/ op \in ToSet(t.pending)

LEMMA IdsOfMembers == \A nodes : Ids(nodes) = {x.id : x \in ToSet(nodes)}
BY DEF Ids, ToSet

LEMMA IdsTyped ==
    ASSUME NEW I, NEW nodes \in Seq(NodesOf(I))
    PROVE  Ids(nodes) \subseteq I
<1>1. \A i \in DOMAIN nodes : nodes[i] \in NodesOf(I)
  OBVIOUS
<1> QED BY <1>1 DEF Ids, NodesOf

LEMMA DrainedTransitive ==
    ASSUME NEW s, NEW t, NEW u, Drained(s, t), Drained(t, u)
    PROVE  Drained(s, u)
<1>1. Ids(s.nodes) \subseteq Ids(t.nodes) /\ Ids(t.nodes) \subseteq Ids(u.nodes)
  BY IdsOfMembers DEF Drained
<1> QED BY <1>1 DEF Drained

\* The body of the fold that DrainPass is.
DrainStep(s, op) ==
    IF CanPlace(s.nodes, op) THEN [s EXCEPT !.nodes = Place(@, op)]
                             ELSE [s EXCEPT !.pending = Append(@, op)]

LEMMA AppendAdds ==
    ASSUME NEW S, NEW s \in Seq(S), NEW e \in S
    PROVE  /\ Append(s, e) \in Seq(S)
           /\ Len(Append(s, e)) = Len(s) + 1
           /\ ToSet(Append(s, e)) = ToSet(s) \cup {e}
           /\ \A i \in 1..Len(s) : Append(s, e)[i] = s[i]
           /\ Append(s, e)[Len(s) + 1] = e
<1> DEFINE t == Append(s, e)
<1>1. t \in Seq(S) /\ Len(t) = Len(s) + 1
  OBVIOUS
<1>2. \A i \in 1..Len(s) : t[i] = s[i]
  OBVIOUS
<1>3. t[Len(s) + 1] = e
  OBVIOUS
<1>4. DOMAIN t = 1..(Len(s) + 1) /\ DOMAIN s = 1..Len(s) /\ Len(s) \in Nat
  OBVIOUS
<1> HIDE DEF t
<1>5. ToSet(t) = ToSet(s) \cup {e}
  <2>1. ASSUME NEW i \in DOMAIN t PROVE t[i] \in ToSet(s) \cup {e}
    BY <1>2, <1>3, <1>4 DEF ToSet
  <2>2. ASSUME NEW i \in DOMAIN s PROVE s[i] \in ToSet(t)
    <3>1. i \in DOMAIN t /\ t[i] = s[i]
      BY <1>2, <1>4
    <3> QED BY <3>1 DEF ToSet
  <2>3. Len(s) + 1 \in DOMAIN t
    BY <1>4
  <2> QED BY <1>3, <2>1, <2>2, <2>3 DEF ToSet
<1> QED BY <1>1, <1>2, <1>3, <1>5 DEF t

\* One step of a pass: the insert is placed, or it is the last that waits.
LEMMA DrainStepPlacesOrWaits ==
    ASSUME NEW I, NEW s \in RGAStates(I), NEW op \in WaitingOf(I)
    PROVE  /\ DrainStep(s, op) \in RGAStates(I)
           /\ DrainStep(s, op).clock = s.clock
           /\ ToSet(s.nodes) \subseteq ToSet(DrainStep(s, op).nodes)
           /\ Ids(s.nodes) \subseteq Ids(DrainStep(s, op).nodes)
           /\ \A x \in ToSet(DrainStep(s, op).nodes) : x.deleted => x \in ToSet(s.nodes)
           /\ CanPlace(s.nodes, op) =>
                 /\ Ids(DrainStep(s, op).nodes) = Ids(s.nodes) \cup {op.id}
                 /\ DrainStep(s, op).pending = s.pending
           /\ ~CanPlace(s.nodes, op) =>
                 /\ DrainStep(s, op).nodes = s.nodes
                 /\ DrainStep(s, op).pending = Append(s.pending, op)
<1>1. s.clock \in Nat /\ s.nodes \in Seq(NodesOf(I)) /\ s.pending \in Seq(WaitingOf(I))
  BY DEF RGAStates
<1>0. s = [clock |-> s.clock, nodes |-> s.nodes, pending |-> s.pending]
  BY DEF RGAStates
<1>2. CASE CanPlace(s.nodes, op)
  <2> DEFINE p == Place(s.nodes, op)
  <2>1. /\ p \in Seq(NodesOf(I)) /\ Ids(p) = Ids(s.nodes) \cup {op.id}
        /\ ToSet(s.nodes) \subseteq ToSet(p)
        /\ \A x \in ToSet(p) : x.deleted => x \in ToSet(s.nodes)
    BY <1>1, <1>2, PlaceAdds
  <2>2. DrainStep(s, op) = [s EXCEPT !.nodes = p]
    BY <1>2 DEF DrainStep
  <2> HIDE DEF p
  <2>3. DrainStep(s, op) = [clock |-> s.clock, nodes |-> p, pending |-> s.pending]
    BY <1>0, <2>2
  <2> QED BY <1>1, <1>2, <2>1, <2>3 DEF RGAStates
<1>3. CASE ~CanPlace(s.nodes, op)
  <2> DEFINE p == Append(s.pending, op)
  <2>1. p \in Seq(WaitingOf(I))
    BY <1>1, AppendAdds
  <2>2. DrainStep(s, op) = [s EXCEPT !.pending = p]
    BY <1>3 DEF DrainStep
  <2> HIDE DEF p
  <2>3. DrainStep(s, op) = [clock |-> s.clock, nodes |-> s.nodes, pending |-> p]
    BY <1>0, <2>2
  <2>4. DrainStep(s, op) \in RGAStates(I)
    BY <1>1, <2>1, <2>3 DEF RGAStates
  <2> QED BY <1>3, <2>3, <2>4 DEF p
<1> QED BY <1>2, <1>3

\* DrainPass takes these steps.
LEMMA DrainPassSteps ==
    ASSUME NEW I, NEW s \in RGAStates(I)
    PROVE  \E h : /\ h[0] = [s EXCEPT !.pending = <<>>]
                  /\ \A i \in 1..Len(s.pending) : h[i] = DrainStep(h[i - 1], s.pending[i])
                  /\ DrainPass(s) = h[Len(s.pending)]
<1> DEFINE n == Len(s.pending)
           base == [s EXCEPT !.pending = <<>>]
           X == RGAStates(I)
           Folds(f) == f = [S \in SUBSET (1..n) |->
                              IF S = {} THEN base
                              ELSE DrainStep(f[S \ {Max(S)}], s.pending[Max(S)])]
           G == [x \in X \X (1..n) |-> DrainStep(x[1], s.pending[x[2]])]
           it == CHOOSE f : Folds(f)
           h == [i \in 0..n |-> it[1..i]]
<1>1. n \in Nat /\ DOMAIN s.pending = 1..n /\ \A i \in 1..n : s.pending[i] \in WaitingOf(I)
  BY DEF RGAStates
<1>2. base \in X
  <2>1. base = [clock |-> s.clock, nodes |-> s.nodes, pending |-> <<>>]
    BY DEF RGAStates
  <2> HIDE DEF base
  <2>2. <<>> \in Seq(WaitingOf(I)) /\ s.clock \in Nat /\ s.nodes \in Seq(NodesOf(I))
    BY DEF RGAStates
  <2> QED BY <2>1, <2>2 DEF RGAStates
<1>3. G \in [X \X (1..n) -> X]
  BY <1>1, DrainStepPlacesOrWaits
<1>4. \E f : Folds(f)
  <2>1. \A x \in X, i \in 1..n : G[<<x, i>>] = DrainStep(x, s.pending[i])
    OBVIOUS
  <2> HIDE DEF n, base, X, G
  <2>0. n \in Nat
    BY <1>1
  <2>2. PICK f : IsFold(f, n, X, base, G)
    BY <2>0, <1>2, <1>3, FoldExists
  <2>3. ASSUME NEW S \in SUBSET (1..n)
        PROVE  f[S] = IF S = {} THEN base ELSE DrainStep(f[S \ {Max(S)}], s.pending[Max(S)])
    <3>1. CASE S = {}
      BY <2>2, <3>1 DEF IsFold
    <3>2. CASE S # {}
      <4>0. S \in SUBSET (0..n)
        BY <2>0
      <4>1. Max(S) \in 1..n
        BY <2>0, <3>2, <4>0, MaxIsGreatest
      <4>2. f[S \ {Max(S)}] \in X
        BY <2>2 DEF IsFold
      <4> QED BY <2>1, <2>2, <3>2, <4>1, <4>2 DEF IsFold
    <3> QED BY <3>1, <3>2
  <2>4. Folds(f)
    BY <2>2, <2>3 DEF IsFold
  <2> HIDE DEF Folds
  <2> QED BY <2>4
<1>5. Folds(it)
  <2> HIDE DEF Folds
  <2> QED BY <1>4
<1>6. DrainPass(s) = it[1..n]
  BY <1>1 DEF DrainPass, DrainStep, FoldLeft, MapThenFoldSet
<1> HIDE DEF it
<1>7. h[0] = base
  <2>1. 1..0 = {}
    OBVIOUS
  <2> QED BY <1>1, <1>5, <2>1
<1>8. ASSUME NEW i \in 1..n PROVE h[i] = DrainStep(h[i - 1], s.pending[i])
  <2>1. (1..i) \in SUBSET (1..n) /\ i \in Nat \ {0} /\ i \in 0..n /\ i - 1 \in 0..n
    BY <1>1
  <2>2. Max(1..i) = i /\ (1..i) # {} /\ (1..i) \ {i} = 1..(i - 1)
    BY <2>1, MaxOfInterval
  <2>3. it[1..i] = DrainStep(it[1..(i - 1)], s.pending[i])
    BY <1>5, <2>1, <2>2
  <2> QED BY <2>1, <2>3
<1>9. n \in 0..n /\ h[n] = it[1..n]
  BY <1>1
<1> HIDE DEF h
<1> QED BY <1>6, <1>7, <1>8, <1>9


\* A pass drains; it leaves as many inserts waiting as before only when it
\* could place none, and then it changes nothing.
LEMMA DrainPassDrains ==
    ASSUME NEW I, NEW s \in RGAStates(I)
    PROVE  /\ DrainPass(s) \in RGAStates(I)
           /\ Drained(s, DrainPass(s))
           /\ Stuck(s) => DrainPass(s) = s
           /\ ~Stuck(s) => Len(DrainPass(s).pending) < Len(s.pending)
<1> DEFINE n == Len(s.pending)
           base == [s EXCEPT !.pending = <<>>]
<1>0. PICK h : /\ h[0] = base
               /\ \A i \in 1..n : h[i] = DrainStep(h[i - 1], s.pending[i])
               /\ DrainPass(s) = h[n]
  BY DrainPassSteps
<1>1. /\ n \in Nat /\ DOMAIN s.pending = 1..n
      /\ s.pending \in Seq(WaitingOf(I)) /\ s.nodes \in Seq(NodesOf(I)) /\ s.clock \in Nat
      /\ \A i \in 1..n : s.pending[i] \in WaitingOf(I)
  BY DEF RGAStates
<1>2. s = [clock |-> s.clock, nodes |-> s.nodes, pending |-> s.pending]
  BY DEF RGAStates
<1>3. base = [clock |-> s.clock, nodes |-> s.nodes, pending |-> <<>>]
  BY <1>2
<1> HIDE DEF base
<1> DEFINE \* The state after i inserts have been tried.
           Tried(i, t) ==
             /\ t \in RGAStates(I)
             /\ t.clock = s.clock
             /\ ToSet(s.nodes) \subseteq ToSet(t.nodes)
             /\ \A x \in ToSet(t.nodes) : x.deleted => x \in ToSet(s.nodes)
             /\ \A id \in Ids(t.nodes) \ Ids(s.nodes) :
                   \E op \in ToSet(s.pending) :
                      op.id = id /\ (op.after = Head0 \/ op.after \in Ids(t.nodes))
             /\ ToSet(t.pending) \subseteq ToSet(s.pending)
             /\ \A j \in 1..i : \/ s.pending[j].id \in Ids(t.nodes)
                                \/ s.pending[j] \in ToSet(t.pending)
             /\ Len(t.pending) <= i
             /\ Len(t.pending) = i => /\ t.nodes = s.nodes
                                      /\ \A j \in 1..i : t.pending[j] = s.pending[j]
                                      /\ \A j \in 1..i : ~CanPlace(s.nodes, s.pending[j])
             /\ Stuck(s) => Len(t.pending) = i
           W == {i \in 0..n : Tried(i, h[i])}
<1>4. 0 \in W
  <2>1. <<>> \in Seq(WaitingOf(I)) /\ Len(<<>>) = 0 /\ ToSet(<<>>) = {}
    BY DEF ToSet
  <2>2. base \in RGAStates(I)
    BY <1>1, <1>3, <2>1 DEF RGAStates
  <2>3. Tried(0, base)
    BY <1>3, <2>1, <2>2
  <2> HIDE DEF Tried
  <2> QED BY <1>0, <1>1, <2>3
<1>5. ASSUME NEW i \in 1..n, i - 1 \in W PROVE i \in W
  <2> DEFINE op == s.pending[i]
  <2>1. PICK t : t = h[i - 1]
    OBVIOUS
  <2>2. PICK u : u = h[i]
    OBVIOUS
  <2>3. Tried(i - 1, t)
    BY <1>5, <2>1
  <2>4. u = DrainStep(t, op)
    BY <1>0, <2>1, <2>2
  <2>5. op \in WaitingOf(I) /\ op \in ToSet(s.pending)
    BY <1>1 DEF ToSet
  <2>6. /\ u \in RGAStates(I) /\ u.clock = t.clock
        /\ ToSet(t.nodes) \subseteq ToSet(u.nodes)
        /\ Ids(t.nodes) \subseteq Ids(u.nodes)
        /\ \A x \in ToSet(u.nodes) : x.deleted => x \in ToSet(t.nodes)
        /\ CanPlace(t.nodes, op) => /\ Ids(u.nodes) = Ids(t.nodes) \cup {op.id}
                                    /\ u.pending = t.pending
        /\ ~CanPlace(t.nodes, op) => /\ u.nodes = t.nodes
                                     /\ u.pending = Append(t.pending, op)
    <3>1. t \in RGAStates(I)
      BY <2>3
    <3> HIDE DEF op
    <3> QED BY <2>4, <2>5, <3>1, DrainStepPlacesOrWaits
  <2>7. \A j \in 1..i : j = i \/ j \in 1..(i - 1)
    OBVIOUS
  <2>8. t.pending \in Seq(WaitingOf(I)) /\ u.pending \in Seq(WaitingOf(I)) /\ Len(t.pending) \in Nat
    BY <2>3, <2>6 DEF RGAStates
  <2>9. Tried(i, u)
    <3>1. CASE CanPlace(t.nodes, op)
      <4>1. Ids(u.nodes) = Ids(t.nodes) \cup {op.id} /\ u.pending = t.pending
        BY <2>6, <3>1
      <4>2. \A id \in Ids(u.nodes) \ Ids(s.nodes) :
                \E x \in ToSet(s.pending) :
                   x.id = id /\ (x.after = Head0 \/ x.after \in Ids(u.nodes))
        <5> TAKE id \in Ids(u.nodes) \ Ids(s.nodes)
        <5>1. CASE id \in Ids(t.nodes)
          BY <2>3, <4>1, <5>1
        <5>2. CASE id \notin Ids(t.nodes)
          <6>1. id = op.id
            BY <4>1, <5>2
          <6>2. op.after = Head0 \/ op.after \in Ids(u.nodes)
            BY <3>1, <4>1, <5>2, <6>1 DEF CanPlace
          <6> QED BY <2>5, <6>1, <6>2
        <5> QED BY <5>1, <5>2
      <4>3. \A j \in 1..i : s.pending[j].id \in Ids(u.nodes) \/ s.pending[j] \in ToSet(u.pending)
        BY <2>3, <2>7, <4>1
      <4>4. Len(u.pending) <= i /\ Len(u.pending) # i
        BY <2>3, <2>8, <4>1
      <4>5. ~Stuck(s)
        <5>1. ASSUME Stuck(s) PROVE FALSE
          <6>1. t.nodes = s.nodes
            BY <2>3, <5>1
          <6> QED BY <2>5, <3>1, <5>1, <6>1 DEF Stuck
        <5> QED BY <5>1
      <4> QED BY <2>3, <2>6, <4>1, <4>2, <4>3, <4>4, <4>5
    <3>2. CASE ~CanPlace(t.nodes, op)
      <4>1. u.nodes = t.nodes /\ u.pending = Append(t.pending, op)
        BY <2>6, <3>2
      <4>2. /\ Len(u.pending) = Len(t.pending) + 1
            /\ ToSet(u.pending) = ToSet(t.pending) \cup {op}
            /\ \A j \in 1..Len(t.pending) : u.pending[j] = t.pending[j]
            /\ u.pending[Len(t.pending) + 1] = op
        <5> DEFINE q == t.pending
        <5>1. q \in Seq(WaitingOf(I))
          BY <2>8
        <5> HIDE DEF q
        <5>2. /\ Len(Append(q, op)) = Len(q) + 1
              /\ ToSet(Append(q, op)) = ToSet(q) \cup {op}
          BY <2>5, <5>1, AppendAdds
        <5>3. \A j \in 1..Len(q) : Append(q, op)[j] = q[j]
          BY <2>5, <5>1, AppendAdds
        <5>4. Append(q, op)[Len(q) + 1] = op
          BY <2>5, <5>1, AppendAdds
        <5>5. u.pending = Append(q, op)
          BY <4>1 DEF q
        <5>6. /\ Len(u.pending) = Len(q) + 1
              /\ ToSet(u.pending) = ToSet(q) \cup {op}
              /\ \A j \in 1..Len(q) : u.pending[j] = q[j]
              /\ u.pending[Len(q) + 1] = op
          BY ONLY <5>2, <5>3, <5>4, <5>5
        <5> QED BY <5>6 DEF q
      <4>3. \A j \in 1..i : s.pending[j].id \in Ids(u.nodes) \/ s.pending[j] \in ToSet(u.pending)
        BY <2>3, <2>7, <4>1, <4>2
      <4>4. Len(u.pending) <= i /\ (Len(u.pending) = i <=> Len(t.pending) = i - 1)
        BY <2>3, <2>8, <4>2
      <4>5. ASSUME Len(u.pending) = i
            PROVE  /\ u.nodes = s.nodes
                   /\ \A j \in 1..i : u.pending[j] = s.pending[j]
                   /\ \A j \in 1..i : ~CanPlace(s.nodes, s.pending[j])
        <5>1. Len(t.pending) = i - 1
          BY <4>4, <4>5
        <5>2. u.nodes = s.nodes /\ t.nodes = s.nodes
          BY <2>3, <4>1, <5>1
        <5>3. \A j \in 1..i : u.pending[j] = s.pending[j]
          <6>1. \A j \in 1..(i - 1) : u.pending[j] = t.pending[j] /\ t.pending[j] = s.pending[j]
            BY <2>3, <4>2, <5>1
          <6>2. u.pending[i] = s.pending[i]
            BY <4>2, <5>1
          <6> QED BY <2>7, <6>1, <6>2
        <5>4. \A j \in 1..i : ~CanPlace(s.nodes, s.pending[j])
          BY <2>3, <2>7, <3>2, <5>1, <5>2
        <5> QED BY <5>2, <5>3, <5>4
      <4>6. Stuck(s) => Len(u.pending) = i
        BY <2>3, <4>4
      <4>7. ToSet(u.pending) \subseteq ToSet(s.pending)
        BY <2>3, <2>5, <4>2
      <4> QED BY <2>3, <2>6, <4>1, <4>3, <4>4, <4>5, <4>6, <4>7
    <3> QED BY <3>1, <3>2
  <2> HIDE DEF Tried
  <2> QED BY <2>2, <2>9
<1> HIDE DEF W
<1>6. n \in W
  <2>1. n \in Nat
    BY <1>1
  <2> HIDE DEF n
  <2>2. \A i \in 0..n : i \in W
    BY <1>4, <1>5, <2>1, Steps
  <2> QED BY <2>1, <2>2
<1>7. PICK t : t = DrainPass(s)
  OBVIOUS
<1>8. Tried(n, t)
  BY <1>0, <1>6, <1>7 DEF W
<1>9. t.pending \in Seq(WaitingOf(I)) /\ t = [clock |-> t.clock, nodes |-> t.nodes, pending |-> t.pending]
  BY <1>8 DEF RGAStates
<1>10. Drained(s, t)
  <2>1. \A op \in ToSet(s.pending) : op.id \in Ids(t.nodes) \/ op \in ToSet(t.pending)
    BY <1>1, <1>8 DEF ToSet
  <2> QED BY <1>8, <2>1 DEF Drained
<1>11. ASSUME Stuck(s) PROVE t = s
  <2>1. Len(t.pending) = n
    BY <1>8, <1>11
  <2>2. /\ t.nodes = s.nodes /\ t.clock = s.clock
        /\ \A j \in 1..n : t.pending[j] = s.pending[j]
    BY <1>8, <2>1
  <2>3. t.pending = s.pending
    BY <1>1, <1>9, <2>1, <2>2
  <2> QED BY <1>2, <1>9, <2>2, <2>3
<1>12. ASSUME ~Stuck(s) PROVE Len(t.pending) < n
  <2>1. ASSUME Len(t.pending) = n PROVE FALSE
    <3>1. \A j \in 1..n : ~CanPlace(s.nodes, s.pending[j])
      BY <1>8, <2>1
    <3> QED BY <1>1, <1>12, <3>1 DEF Stuck, ToSet
  <2>2. Len(t.pending) <= n
    BY <1>8
  <2> QED BY <1>1, <1>9, <2>1, <2>2
<1> QED BY <1>7, <1>8, <1>10, <1>11, <1>12


\* The passes that Drain makes.
LEMMA DrainSteps ==
    ASSUME NEW I, NEW s \in RGAStates(I)
    PROVE  \E h : /\ h[0] = s
                  /\ \A i \in 1..Len(s.pending) : h[i] = DrainPass(h[i - 1])
                  /\ Drain(s) = h[Len(s.pending)]
<1> DEFINE n == Len(s.pending)
           X == RGAStates(I)
           Runs(f) == f = [k \in 0..n |-> IF k = 0 THEN s ELSE DrainPass(f[k - 1])]
           G == [x \in X \X (1..n) |-> DrainPass(x[1])]
           f == CHOOSE f : Runs(f)
<1>1. n \in Nat
  BY DEF RGAStates
<1>2. G \in [X \X (1..n) -> X] /\ \A x \in X, i \in 1..n : G[<<x, i>>] = DrainPass(x)
  BY DrainPassDrains
<1>3. \E g : Runs(g)
  <2> HIDE DEF n, X, G
  <2>1. PICK h : IsRecursion(h, n, X, s, G)
    BY <1>1, <1>2, RecursionExists DEF X
  <2>2. ASSUME NEW k \in 0..n PROVE h[k] = IF k = 0 THEN s ELSE DrainPass(h[k - 1])
    <3>1. k # 0 => k \in 1..n /\ k - 1 \in 0..n
      BY <1>1
    <3> QED BY <1>2, <2>1, <3>1 DEF IsRecursion
  <2>3. h = [k \in 0..n |-> h[k]]
    BY <2>1 DEF IsRecursion
  <2>4. Runs(h)
    BY <2>2, <2>3
  <2> HIDE DEF Runs
  <2> QED BY <2>4
<1>4. Runs(f)
  <2> HIDE DEF Runs
  <2> QED BY <1>3
<1>5. Drain(s) = f[n]
  BY DEF Drain
<1> HIDE DEF f
<1>6. f[0] = s /\ \A i \in 1..n : f[i] = DrainPass(f[i - 1])
  BY <1>1, <1>4
<1> HIDE DEF Runs
<1> QED BY <1>5, <1>6

\* Drain makes Len(pending) passes, each of which places an insert or finds
\* that none can be placed.
LEMMA DrainDrains ==
    ASSUME NEW I, NEW s \in RGAStates(I)
    PROVE  /\ Drain(s) \in RGAStates(I)
           /\ Drained(s, Drain(s))
           /\ Stuck(Drain(s))
<1> DEFINE n == Len(s.pending)
<1>1. n \in Nat
  BY DEF RGAStates
<1>2. PICK f : /\ f[0] = s
               /\ \A i \in 1..n : f[i] = DrainPass(f[i - 1])
               /\ Drain(s) = f[n]
  BY DrainSteps
<1> DEFINE Passed(i, t) == /\ t \in RGAStates(I)
                           /\ Drained(s, t)
                           /\ Stuck(t) \/ Len(t.pending) <= n - i
           W == {i \in 0..n : Passed(i, f[i])}
<1>3. 0 \in W
  <2>1. Drained(s, s)
    BY DEF Drained
  <2> QED BY <1>1, <1>2, <2>1
<1>4. ASSUME NEW i \in 1..n, i - 1 \in W PROVE i \in W
  <2>1. PICK t : t = f[i - 1]
    OBVIOUS
  <2>2. PICK u : u = DrainPass(t)
    OBVIOUS
  <2>3. f[i] = u
    BY <1>2, <2>1, <2>2
  <2>4. Passed(i - 1, t)
    BY <1>4, <2>1
  <2>5. t \in RGAStates(I)
    BY <2>4
  <2>6. /\ u \in RGAStates(I) /\ Drained(t, u)
        /\ Stuck(t) => u = t
        /\ ~Stuck(t) => Len(u.pending) < Len(t.pending)
    BY <2>2, <2>5, DrainPassDrains
  <2>7. Drained(s, u)
    BY <2>4, <2>6, DrainedTransitive
  <2>8. Stuck(u) \/ Len(u.pending) <= n - i
    <3>1. Len(u.pending) \in Nat /\ Len(t.pending) \in Nat
      BY <2>5, <2>6 DEF RGAStates
    <3> QED BY <1>1, <2>4, <2>6, <3>1
  <2>9. Passed(i, u)
    BY <2>6, <2>7, <2>8
  <2> HIDE DEF Passed
  <2> QED BY <2>3, <2>9
<1> HIDE DEF W
<1>5. n \in W
  <2> HIDE DEF n
  <2>1. \A i \in 0..n : i \in W
    BY <1>1, <1>3, <1>4, Steps
  <2> QED BY <1>1, <2>1
<1>6. PICK t : t = Drain(s)
  OBVIOUS
<1>7. Passed(n, t)
  BY <1>2, <1>5, <1>6 DEF W
<1>8. Stuck(t)
  <2>1. ASSUME Len(t.pending) <= 0 PROVE ToSet(t.pending) = {}
    <3>1. t.pending \in Seq(WaitingOf(I))
      BY <1>7 DEF RGAStates
    <3> QED BY <2>1, <3>1 DEF ToSet
  <2> QED BY <1>1, <1>7, <2>1 DEF Stuck
<1> QED BY <1>6, <1>7, <1>8

-----------------------------------------------------------------------------
\* What both Delete and merge do to the nodes with the ids in D.
Marked(nodes, D) ==
    [i \in DOMAIN nodes |->
        IF nodes[i].id \in D THEN [nodes[i] EXCEPT !.deleted = TRUE] ELSE nodes[i]]

\* Marking changes the flag of these ids only.
LEMMA MarkedMarks ==
    ASSUME NEW I, NEW nodes \in Seq(NodesOf(I)), NEW D
    PROVE  /\ Marked(nodes, D) \in Seq(NodesOf(I))
           /\ Ids(Marked(nodes, D)) = Ids(nodes)
           /\ \A x \in ToSet(nodes) : x.deleted => x \in ToSet(Marked(nodes, D))
           /\ \A x \in ToSet(Marked(nodes, D)) :
                 x.deleted => x.id \in D \/ x \in ToSet(nodes)
           /\ \A x \in ToSet(Marked(nodes, D)) : x.id \in D => x.deleted
<1> DEFINE t == Marked(nodes, D)
<1>1. DOMAIN nodes = 1..Len(nodes) /\ Len(nodes) \in Nat /\ DOMAIN t = DOMAIN nodes
  BY DEF Marked
<1>2. \A i \in DOMAIN nodes :
         /\ nodes[i] \in NodesOf(I)
         /\ t[i] \in NodesOf(I)
         /\ t[i].id = nodes[i].id
         /\ nodes[i].deleted => t[i] = nodes[i]
         /\ t[i].deleted => t[i].id \in D \/ t[i] = nodes[i]
         /\ t[i].id \in D => t[i].deleted
  <2> TAKE i \in DOMAIN nodes
  <2>1. nodes[i] \in NodesOf(I)
    OBVIOUS
  <2>2. t[i] = IF nodes[i].id \in D THEN [nodes[i] EXCEPT !.deleted = TRUE] ELSE nodes[i]
    BY DEF Marked
  <2>3. nodes[i] = [id |-> nodes[i].id, deleted |-> nodes[i].deleted]
    BY <2>1 DEF NodesOf
  <2> HIDE DEF t
  <2>4. CASE nodes[i].id \in D
    <3>1. t[i] = [id |-> nodes[i].id, deleted |-> TRUE]
      BY <2>2, <2>3, <2>4
    <3> QED BY <2>1, <2>3, <2>4, <3>1 DEF NodesOf
  <2>5. CASE nodes[i].id \notin D
    BY <2>1, <2>2, <2>5
  <2> QED BY <2>4, <2>5
<1>3. t = [i \in 1..Len(nodes) |-> t[i]]
  BY <1>1 DEF Marked
<1> HIDE DEF t
<1>4. t \in Seq(NodesOf(I))
  BY <1>1, <1>2, <1>3
<1>5. Ids(t) = Ids(nodes)
  BY <1>1, <1>2 DEF Ids
<1> QED BY <1>1, <1>2, <1>4, <1>5 DEF ToSet, t

LEMMA MarkDeletedMarks ==
    ASSUME NEW I, NEW nodes \in Seq(NodesOf(I)), NEW id
    PROVE  /\ MarkDeleted(nodes, id) \in Seq(NodesOf(I))
           /\ Ids(MarkDeleted(nodes, id)) = Ids(nodes)
           /\ \A x \in ToSet(nodes) : x.deleted => x \in ToSet(MarkDeleted(nodes, id))
           /\ \A x \in ToSet(MarkDeleted(nodes, id)) :
                 x.deleted => x.id = id \/ x \in ToSet(nodes)
           /\ \A x \in ToSet(MarkDeleted(nodes, id)) : x.id = id => x.deleted
<1>1. MarkDeleted(nodes, id) = Marked(nodes, {id})
  BY DEF MarkDeleted, Marked
<1>2. \A x : x \in {id} <=> x = id
  OBVIOUS
<1> QED BY <1>1, <1>2, MarkedMarks

\* The operations over the ids in I.
DeletesOf(I) == [type : {"Delete"}, id : I]
OpsOver(I) == WaitingOf(I) \cup DeletesOf(I)

IsInsert(op) == op.type = "Insert"

\* What apply does: the clock is the greater one; every tombstone stays, a new
\* one is of the deleted id, which has one if it is there; every node that is new is the insert or one that
\* waited, and its anchor is there; nothing that waited or arrived is lost, and
\* nothing waits that could be placed.
Applied(s, op, t) ==
    /\ t.clock = IF op.id.clock > s.clock THEN op.id.clock ELSE s.clock
    /\ Ids(s.nodes) \subseteq Ids(t.nodes)
    /\ \A x \in ToSet(s.nodes) : x.deleted => x \in ToSet(t.nodes)
    /\ \A x \in ToSet(t.nodes) : x.deleted => \/ x \in ToSet(s.nodes)
                                              \/ ~IsInsert(op) /\ x.id = op.id
    /\ \A i \in Ids(t.nodes) \ Ids(s.nodes) :
          \E e \in ToSet(s.pending) \cup {op} :
             /\ IsInsert(e) /\ e.id = i
             /\ e.after = Head0 \/ e.after \in Ids(t.nodes)
    /\ ToSet(t.pending) \subseteq ToSet(s.pending) \cup {e \in {op} : IsInsert(e)}
    /\ \A e \in ToSet(s.pending) : e.id \in Ids(t.nodes) \/ e \in ToSet(t.pending)
    /\ IsInsert(op) => op.id \in Ids(t.nodes) \/ op \in ToSet(t.pending)
    /\ IsInsert(op) /\ CanPlace(s.nodes, op) =>
          op.id \in Ids(t.nodes) /\ ToSet(t.pending) \subseteq ToSet(s.pending)
    /\ ~IsInsert(op) /\ op.id \in Ids(s.nodes) =>
          \E x \in ToSet(t.nodes) : x.id = op.id /\ x.deleted
    /\ Stuck(s) => Stuck(t)


LEMMA SeenTakesGreater ==
    ASSUME NEW I, NEW s \in RGAStates(I), NEW c \in Nat
    PROVE  /\ Seen(s, c) \in RGAStates(I)
           /\ Seen(s, c) = [clock |-> IF c > s.clock THEN c ELSE s.clock,
                            nodes |-> s.nodes, pending |-> s.pending]
<1>1. s = [clock |-> s.clock, nodes |-> s.nodes, pending |-> s.pending]
  BY DEF RGAStates
<1>2. Seen(s, c) = [clock |-> IF c > s.clock THEN c ELSE s.clock,
                    nodes |-> s.nodes, pending |-> s.pending]
  BY <1>1 DEF Seen
<1>3. s.clock \in Nat /\ s.nodes \in Seq(NodesOf(I)) /\ s.pending \in Seq(WaitingOf(I))
  BY DEF RGAStates
<1> QED BY <1>2, <1>3 DEF RGAStates

LEMMA ApplyApplies ==
    ASSUME NEW I, NEW s \in RGAStates(I), NEW op \in OpsOver(I), op.id.clock \in Nat
    PROVE  /\ SeqApply(s, op) \in RGAStates(I)
           /\ Applied(s, op, SeqApply(s, op))
<1> DEFINE c == IF op.id.clock > s.clock THEN op.id.clock ELSE s.clock
<1>0. PICK v : v = Seen(s, op.id.clock)
  OBVIOUS
<1>1. /\ v \in RGAStates(I)
      /\ v = [clock |-> c, nodes |-> s.nodes, pending |-> s.pending]
  BY <1>0, SeenTakesGreater
<1>2. c \in Nat /\ s.nodes \in Seq(NodesOf(I)) /\ s.pending \in Seq(WaitingOf(I))
  BY DEF RGAStates
<1>3. v.clock = c /\ v.nodes = s.nodes /\ v.pending = s.pending
  BY <1>1
<1> HIDE DEF c
<1>4. CASE op.type = "Delete"
  <2>0. PICK m : m = MarkDeleted(s.nodes, op.id)
    OBVIOUS
  <2>1. /\ m \in Seq(NodesOf(I)) /\ Ids(m) = Ids(s.nodes)
        /\ \A x \in ToSet(s.nodes) : x.deleted => x \in ToSet(m)
        /\ \A x \in ToSet(m) : x.deleted => x.id = op.id \/ x \in ToSet(s.nodes)
        /\ \A x \in ToSet(m) : x.id = op.id => x.deleted
    BY <1>2, <2>0, MarkDeletedMarks
  <2>2. PICK w : w = [clock |-> c, nodes |-> m, pending |-> s.pending]
    OBVIOUS
  <2>3. w \in RGAStates(I)
    BY <1>2, <2>1, <2>2 DEF RGAStates
  <2>4. [v EXCEPT !.nodes = MarkDeleted(@, op.id)] = w
    BY <1>1, <2>0, <2>2
  <2>5. SeqApply(s, op) = Drain(w)
    BY <1>0, <1>4, <2>4 DEF SeqApply
  <2>6. PICK t : t = Drain(w)
    OBVIOUS
  <2>7. t \in RGAStates(I) /\ Drained(w, t) /\ Stuck(t)
    BY <2>3, <2>6, DrainDrains
  <2>8. Ids(s.nodes) \subseteq Ids(t.nodes)
    BY <2>1, <2>2, <2>7, IdsOfMembers DEF Drained
  <2>9. ~IsInsert(op)
    BY <1>4 DEF IsInsert
  <2>10. ASSUME NEW i \in Ids(t.nodes) \ Ids(s.nodes)
         PROVE  \E e \in ToSet(s.pending) \cup {op} :
                   /\ IsInsert(e) /\ e.id = i
                   /\ e.after = Head0 \/ e.after \in Ids(t.nodes)
    <3>1. PICK e \in ToSet(s.pending) : e.id = i /\ (e.after = Head0 \/ e.after \in Ids(t.nodes))
      BY <2>1, <2>2, <2>7, <2>10 DEF Drained
    <3>2. e \in WaitingOf(I)
      BY <1>2, <3>1 DEF ToSet
    <3> QED BY <3>1, <3>2 DEF WaitingOf, IsInsert
  <2>11. /\ t.clock = c
         /\ \A x \in ToSet(s.nodes) : x.deleted => x \in ToSet(t.nodes)
         /\ \A x \in ToSet(t.nodes) : x.deleted => x \in ToSet(s.nodes) \/ x.id = op.id
         /\ ToSet(t.pending) \subseteq ToSet(s.pending)
         /\ \A e \in ToSet(s.pending) : e.id \in Ids(t.nodes) \/ e \in ToSet(t.pending)
    BY <2>1, <2>2, <2>7 DEF Drained
  <2>12. ASSUME op.id \in Ids(s.nodes)
         PROVE  \E x \in ToSet(t.nodes) : x.id = op.id /\ x.deleted
    <3>1. PICK x \in ToSet(m) : x.id = op.id
      BY <2>1, <2>12, IdsOfMembers
    <3>2. x \in ToSet(t.nodes)
      BY <2>1, <2>2, <2>7, <3>1 DEF Drained
    <3> QED BY <2>1, <3>1, <3>2
  <2>13. Applied(s, op, t)
    BY <2>7, <2>8, <2>9, <2>10, <2>11, <2>12 DEF Applied, c
  <2> QED BY <2>5, <2>6, <2>7, <2>13
<1>5. CASE op.type # "Delete" /\ CanPlace(s.nodes, op)
  <2>a. op \in WaitingOf(I) /\ IsInsert(op)
    BY <1>5 DEF OpsOver, DeletesOf, WaitingOf, IsInsert
  <2>0. PICK m : m = Place(s.nodes, op)
    OBVIOUS
  <2>1. /\ m \in Seq(NodesOf(I)) /\ Ids(m) = Ids(s.nodes) \cup {op.id}
        /\ ToSet(s.nodes) \subseteq ToSet(m)
        /\ \A x \in ToSet(m) : x.deleted => x \in ToSet(s.nodes)
    BY <1>2, <1>5, <2>a, <2>0, PlaceAdds
  <2>2. PICK w : w = [clock |-> c, nodes |-> m, pending |-> s.pending]
    OBVIOUS
  <2>3. w \in RGAStates(I)
    BY <1>2, <2>1, <2>2 DEF RGAStates
  <2>4. [v EXCEPT !.nodes = Place(@, op)] = w
    BY <1>1, <2>0, <2>2
  <2>5. SeqApply(s, op) = Drain(w)
    BY <1>0, <1>3, <1>5, <2>4 DEF SeqApply
  <2>6. PICK t : t = Drain(w)
    OBVIOUS
  <2>7. t \in RGAStates(I) /\ Drained(w, t) /\ Stuck(t)
    BY <2>3, <2>6, DrainDrains
  <2>8. Ids(s.nodes) \cup {op.id} \subseteq Ids(t.nodes)
    BY <2>1, <2>2, <2>7, IdsOfMembers DEF Drained
  <2>10. ASSUME NEW i \in Ids(t.nodes) \ Ids(s.nodes)
         PROVE  \E e \in ToSet(s.pending) \cup {op} :
                   /\ IsInsert(e) /\ e.id = i
                   /\ e.after = Head0 \/ e.after \in Ids(t.nodes)
    <3>1. CASE i = op.id
      <4>1. op.after = Head0 \/ op.after \in Ids(t.nodes)
        BY <1>5, <2>8, <2>10, <3>1 DEF CanPlace
      <4> QED BY <2>a, <3>1, <4>1
    <3>2. CASE i # op.id
      <4>1. PICK e \in ToSet(s.pending) :
               e.id = i /\ (e.after = Head0 \/ e.after \in Ids(t.nodes))
        BY <2>1, <2>2, <2>7, <2>10, <3>2 DEF Drained
      <4>2. e \in WaitingOf(I)
        BY <1>2, <4>1 DEF ToSet
      <4> QED BY <4>1, <4>2 DEF WaitingOf, IsInsert
    <3> QED BY <3>1, <3>2
  <2>11. /\ t.clock = c
         /\ \A x \in ToSet(s.nodes) : x.deleted => x \in ToSet(t.nodes)
         /\ \A x \in ToSet(t.nodes) : x.deleted => x \in ToSet(s.nodes)
         /\ ToSet(t.pending) \subseteq ToSet(s.pending)
         /\ \A e \in ToSet(s.pending) : e.id \in Ids(t.nodes) \/ e \in ToSet(t.pending)
    BY <2>1, <2>2, <2>7 DEF Drained
  <2>12. Applied(s, op, t)
    BY <2>a, <2>7, <2>8, <2>10, <2>11 DEF Applied, c
  <2> QED BY <2>5, <2>6, <2>7, <2>12
<1>6. CASE op.type # "Delete" /\ ~CanPlace(s.nodes, op)
  <2>a. op \in WaitingOf(I) /\ IsInsert(op)
    BY <1>6 DEF OpsOver, DeletesOf, WaitingOf, IsInsert
  <2>0. PICK q : q = Append(s.pending, op)
    OBVIOUS
  <2>1. q \in Seq(WaitingOf(I)) /\ ToSet(q) = ToSet(s.pending) \cup {op}
    BY <1>2, <2>a, <2>0, AppendAdds
  <2>2. PICK t : t = [clock |-> c, nodes |-> s.nodes, pending |-> q]
    OBVIOUS
  <2>3. t \in RGAStates(I)
    BY <1>2, <2>1, <2>2 DEF RGAStates
  <2>4. [v EXCEPT !.pending = Append(@, op)] = t
    <3>1. Append(v.pending, op) = q
      BY <1>3, <2>0
    <3>2. [v EXCEPT !.pending = q] = t
      BY <1>1, <2>2
    <3>3. [v EXCEPT !.pending = Append(@, op)] = [v EXCEPT !.pending = q]
      BY ONLY <3>1, Zenon
    <3> QED BY ONLY <3>2, <3>3, Zenon
  <2>5. SeqApply(s, op) = t
    BY <1>0, <1>3, <1>6, <2>4 DEF SeqApply
  <2>6. Stuck(s) => Stuck(t)
    BY <1>6, <2>1, <2>2 DEF Stuck
  <2>7. Applied(s, op, t)
    BY <1>6, <2>a, <2>1, <2>2, <2>6 DEF Applied, c
  <2> QED BY <2>3, <2>5, <2>7
<1> QED BY <1>4, <1>5, <1>6


\* The ids of a replica do not run ahead of its counter.
Counted(s) ==
    /\ \A id \in Ids(s.nodes) : id.clock <= s.clock
    /\ \A op \in ToSet(s.pending) : op.id.clock <= s.clock

\* What the first loop of merge has done to s after some of the nodes of o: as
\* much as applying them, and nothing is deleted.
Absorbed(s, ids, t) ==
    /\ t.clock = s.clock
    /\ Ids(s.nodes) \cup ids \subseteq Ids(t.nodes)
    /\ \A x \in ToSet(s.nodes) : x.deleted => x \in ToSet(t.nodes)
    /\ \A x \in ToSet(t.nodes) : x.deleted => x \in ToSet(s.nodes)
    /\ \A i \in Ids(t.nodes) \ (Ids(s.nodes) \cup ids) :
          \E e \in ToSet(s.pending) :
             e.id = i /\ (e.after = Head0 \/ e.after \in Ids(t.nodes))
    /\ ToSet(t.pending) \subseteq ToSet(s.pending)
    /\ \A e \in ToSet(s.pending) : e.id \in Ids(t.nodes) \/ e \in ToSet(t.pending)
    /\ Stuck(s) => Stuck(t)

LEMMA MergeNodeAbsorbs ==
    ASSUME NEW I, \A id \in I : id.clock \in Nat,
           NEW s \in RGAStates(I), NEW o \in RGAStates(I), NEW i \in DOMAIN o.nodes,
           o.nodes[i].id.clock <= s.clock
    PROVE  /\ MergeNode(s, o, i) \in RGAStates(I)
           /\ Absorbed(s, {o.nodes[i].id}, MergeNode(s, o, i))
<1> DEFINE id == o.nodes[i].id
           before == {j \in 1..(i - 1) : o.nodes[j].id \in Ids(s.nodes)}
           after == IF before = {} THEN Head0
                    ELSE o.nodes[CHOOSE j \in before : \A k \in before : k <= j].id
<1>1. /\ i \in Nat /\ o.nodes \in Seq(NodesOf(I)) /\ s.nodes \in Seq(NodesOf(I))
      /\ s.pending \in Seq(WaitingOf(I)) /\ s.clock \in Nat
  BY DEF RGAStates
<1>2. o.nodes[i] \in NodesOf(I)
  BY <1>1
<1>3. id \in I /\ id.clock \in Nat
  BY <1>2 DEF NodesOf
<1>4. after = Head0 \/ (after \in Ids(s.nodes) /\ after \in I)
  <2>1. CASE before = {}
    BY <2>1
  <2>2. CASE before # {}
    <3>1. before \in SUBSET (0..i)
      BY <1>1
    <3> DEFINE c == CHOOSE j \in before : \A k \in before : k <= j
    <3>2. Max(before) \in before /\ \A k \in before : k <= Max(before)
      BY <1>1, <2>2, <3>1, MaxIsGreatest
    <3>3. c \in before
      BY <3>2
    <3>4. after = o.nodes[c].id
      BY <2>2
    <3>5. o.nodes[c].id \in Ids(s.nodes)
      BY <3>3
    <3> QED BY <1>1, <3>4, <3>5, IdsTyped
  <2> QED BY <2>1, <2>2
<1>5. MergeNode(s, o, i) = IF id \in Ids(s.nodes) THEN s ELSE SeqApply(s, InsertOp(id, after))
  BY DEF MergeNode
<1> HIDE DEF id, after
<1>6. CASE id \in Ids(s.nodes)
  <2>1. Absorbed(s, {id}, s)
    BY <1>6 DEF Absorbed
  <2> QED BY <1>5, <1>6, <2>1 DEF id
<1>7. CASE id \notin Ids(s.nodes)
  <2>1. PICK op : op = InsertOp(id, after)
    OBVIOUS
  <2>2. op = [type |-> "Insert", id |-> id, after |-> after]
    BY <2>1 DEF InsertOp
  <2>3. op \in OpsOver(I) /\ op.id = id /\ op.after = after /\ IsInsert(op)
    BY <1>3, <1>4, <2>2 DEF OpsOver, WaitingOf, IsInsert
  <2>4. CanPlace(s.nodes, op)
    BY <1>4, <2>3 DEF CanPlace
  <2>5. PICK t : t = SeqApply(s, op)
    OBVIOUS
  <2>6. t \in RGAStates(I) /\ Applied(s, op, t)
    BY <1>3, <2>3, <2>5, ApplyApplies
  <2>7. t.clock = s.clock
    BY <1>1, <1>3, <2>3, <2>6 DEF Applied, id
  <2>8. id \in Ids(t.nodes) /\ ToSet(t.pending) \subseteq ToSet(s.pending)
    BY <2>3, <2>4, <2>6 DEF Applied
  <2>9. Absorbed(s, {id}, t)
    <3>1. \A x \in ToSet(t.nodes) : x.deleted => x \in ToSet(s.nodes)
      BY <2>3, <2>6 DEF Applied
    <3>2. ASSUME NEW j \in Ids(t.nodes) \ (Ids(s.nodes) \cup {id})
          PROVE  \E e \in ToSet(s.pending) :
                    e.id = j /\ (e.after = Head0 \/ e.after \in Ids(t.nodes))
      BY <2>3, <2>6 DEF Applied
    <3>3. /\ Ids(s.nodes) \subseteq Ids(t.nodes)
          /\ \A x \in ToSet(s.nodes) : x.deleted => x \in ToSet(t.nodes)
          /\ \A e \in ToSet(s.pending) : e.id \in Ids(t.nodes) \/ e \in ToSet(t.pending)
          /\ Stuck(s) => Stuck(t)
      BY <2>6 DEF Applied
    <3> QED BY <2>7, <2>8, <3>1, <3>2, <3>3 DEF Absorbed
  <2> QED BY <1>5, <1>7, <2>1, <2>5, <2>6, <2>9 DEF id
<1> QED BY <1>6, <1>7

LEMMA AbsorbedTransitive ==
    ASSUME NEW s, NEW t, NEW u, NEW a, NEW b, Absorbed(s, a, t), Absorbed(t, b, u)
    PROVE  Absorbed(s, a \cup b, u)
<1>1. Ids(s.nodes) \cup a \subseteq Ids(t.nodes) /\ Ids(t.nodes) \cup b \subseteq Ids(u.nodes)
  BY DEF Absorbed
<1>2. ASSUME NEW i \in Ids(u.nodes) \ (Ids(s.nodes) \cup (a \cup b))
      PROVE  \E e \in ToSet(s.pending) :
                e.id = i /\ (e.after = Head0 \/ e.after \in Ids(u.nodes))
  <2>1. CASE i \in Ids(t.nodes)
    BY <1>1, <1>2, <2>1 DEF Absorbed
  <2>2. CASE i \notin Ids(t.nodes)
    BY <1>2, <2>2 DEF Absorbed
  <2> QED BY <2>1, <2>2
<1> QED BY <1>1, <1>2 DEF Absorbed

\* The part of a merge before the deletions.
Gone(o) == {o.nodes[i].id : i \in {j \in DOMAIN o.nodes : o.nodes[j].deleted}}

LEMMA MergeSteps ==
    ASSUME NEW I, \A id \in I : id.clock \in Nat,
           NEW s \in RGAStates(I), NEW o \in RGAStates(I), Counted(o)
    PROVE  \E h : /\ h[0] = Seen(s, o.clock)
                  /\ \A i \in 1..Len(o.nodes) : h[i] = MergeNode(h[i - 1], o, i)
                  /\ SeqMerge(s, o) =
                       [h[Len(o.nodes)] EXCEPT !.nodes = Marked(@, Gone(o))]
<1> DEFINE n == Len(o.nodes)
           base == Seen(s, o.clock)
           X == {x \in RGAStates(I) : x.clock = base.clock}
           pos == [i \in DOMAIN o.nodes |-> i]
           Folds(f) == f = [S \in SUBSET (1..n) |->
                              IF S = {} THEN base
                              ELSE MergeNode(f[S \ {Max(S)}], o, pos[Max(S)])]
           G == [x \in X \X (1..n) |-> MergeNode(x[1], o, x[2])]
           it == CHOOSE f : Folds(f)
           h == [i \in 0..n |-> it[1..i]]
<1>1. n \in Nat /\ DOMAIN o.nodes = 1..n /\ o.nodes \in Seq(NodesOf(I)) /\ o.clock \in Nat
  BY DEF RGAStates
<1>2. base \in X /\ base.clock >= o.clock /\ base.clock \in Nat
  <2>1. base \in RGAStates(I)
    BY <1>1, SeenTakesGreater
  <2>2. base.clock = IF o.clock > s.clock THEN o.clock ELSE s.clock
    BY <1>1, SeenTakesGreater
  <2>3. s.clock \in Nat
    BY DEF RGAStates
  <2> QED BY <1>1, <2>1, <2>2, <2>3
<1>3. ASSUME NEW x \in X, NEW i \in 1..n PROVE MergeNode(x, o, i) \in X
  <2>1. o.nodes[i].id \in I /\ o.nodes[i].id \in Ids(o.nodes)
    <3>1. Ids(o.nodes) \subseteq I
      BY <1>1, IdsTyped
    <3> QED BY <1>1, <3>1 DEF Ids
  <2>2. o.nodes[i].id.clock <= o.clock /\ o.nodes[i].id.clock \in Nat
    BY <2>1 DEF Counted
  <2>3. o.nodes[i].id.clock <= x.clock
    BY <1>1, <1>2, <2>2
  <2>4. i \in DOMAIN o.nodes /\ x \in RGAStates(I)
    BY <1>1
  <2>5. MergeNode(x, o, i) \in RGAStates(I) /\ Absorbed(x, {o.nodes[i].id}, MergeNode(x, o, i))
    BY <2>3, <2>4, MergeNodeAbsorbs
  <2> QED BY <2>5 DEF Absorbed
<1>4. /\ G \in [X \X (1..n) -> X]
      /\ \A x \in X, i \in 1..n : G[<<x, i>>] = MergeNode(x, o, i)
  <2> HIDE DEF X, n
  <2> QED BY <1>3
<1>a. DOMAIN pos = 1..n /\ \A i \in 1..n : pos[i] = i
  BY <1>1
<1>b. \A S \in SUBSET (1..n) : S # {} => Max(S) \in 1..n
  <2> TAKE S \in SUBSET (1..n)
  <2>1. S \in SUBSET (0..n)
    BY <1>1
  <2> HIDE DEF n
  <2> QED BY <1>1, <2>1, MaxIsGreatest
<1>5. \E f : Folds(f)
  <2>0. n \in Nat /\ base \in X
    BY <1>1, <1>2
  <2> HIDE DEF n, base, X, G, pos
  <2>2. PICK f : IsFold(f, n, X, base, G)
    BY <2>0, <1>4, FoldExists
  <2>3. ASSUME NEW S \in SUBSET (1..n)
        PROVE  f[S] = IF S = {} THEN base ELSE MergeNode(f[S \ {Max(S)}], o, pos[Max(S)])
    <3>1. CASE S = {}
      BY <2>2, <3>1 DEF IsFold
    <3>2. CASE S # {}
      <4>1. Max(S) \in 1..n /\ pos[Max(S)] = Max(S)
        BY <1>a, <1>b, <3>2
      <4>2. f[S \ {Max(S)}] \in X
        BY <2>2 DEF IsFold
      <4> QED BY <1>4, <2>2, <3>2, <4>1, <4>2 DEF IsFold
    <3> QED BY <3>1, <3>2
  <2>4. Folds(f)
    BY <2>2, <2>3 DEF IsFold
  <2> HIDE DEF Folds
  <2> QED BY <2>4
<1>6. Folds(it)
  <2> HIDE DEF Folds
  <2> QED BY <1>5
<1> DEFINE merged == FoldLeftDomain(LAMBDA x, i : MergeNode(x, o, i), base, o.nodes)
<1>7. merged = it[1..n]
  BY <1>a DEF FoldLeftDomain, FoldLeft, MapThenFoldSet
<1>8. SeqMerge(s, o) = [merged EXCEPT !.nodes = Marked(@, Gone(o))]
  BY DEF SeqMerge, Marked, Gone
<1> HIDE DEF it, merged, pos
<1>9. h[0] = base
  <2>1. 1..0 = {}
    OBVIOUS
  <2> QED BY <1>1, <1>6, <2>1
<1>10. ASSUME NEW i \in 1..n PROVE h[i] = MergeNode(h[i - 1], o, i)
  <2>1. (1..i) \in SUBSET (1..n) /\ i \in Nat \ {0} /\ i \in 0..n /\ i - 1 \in 0..n
    BY <1>1
  <2>2. Max(1..i) = i /\ (1..i) # {} /\ (1..i) \ {i} = 1..(i - 1)
    BY <2>1, MaxOfInterval
  <2>3. it[1..i] = MergeNode(it[1..(i - 1)], o, i)
    <3>1. it[1..i] = MergeNode(it[(1..i) \ {Max(1..i)}], o, pos[Max(1..i)])
      BY <1>6, <2>1, <2>2
    <3>2. pos[i] = i
      BY <1>a
    <3> QED BY ONLY <2>2, <3>1, <3>2
  <2> QED BY <2>1, <2>3
<1>11. n \in 0..n /\ h[n] = it[1..n]
  BY <1>1
<1> HIDE DEF h
<1> QED BY <1>7, <1>8, <1>9, <1>10, <1>11


\* What merge does: every node of both is there, with the tombstones of both
\* and no other; every other new node waited, and its anchor is there; what
\* still waits waited before.
Merged(s, o, t) ==
    /\ t.clock = IF o.clock > s.clock THEN o.clock ELSE s.clock
    /\ Ids(s.nodes) \cup Ids(o.nodes) \subseteq Ids(t.nodes)
    /\ \A x \in ToSet(s.nodes) : x.deleted => x \in ToSet(t.nodes)
    /\ \A x \in ToSet(t.nodes) : x.deleted => x \in ToSet(s.nodes) \/ x.id \in Gone(o)
    /\ \A x \in ToSet(t.nodes) : x.id \in Gone(o) => x.deleted
    /\ \A i \in Ids(t.nodes) \ (Ids(s.nodes) \cup Ids(o.nodes)) :
          \E e \in ToSet(s.pending) :
             e.id = i /\ (e.after = Head0 \/ e.after \in Ids(t.nodes))
    /\ ToSet(t.pending) \subseteq ToSet(s.pending)
    /\ \A e \in ToSet(s.pending) : e.id \in Ids(t.nodes) \/ e \in ToSet(t.pending)
    /\ Stuck(s) => Stuck(t)

\* Stuck depends on which ids are present only.
LEMMA StuckByIds ==
    ASSUME NEW s, NEW t, Stuck(s), Ids(t.nodes) = Ids(s.nodes), t.pending = s.pending
    PROVE  Stuck(t)
BY DEF Stuck, CanPlace

LEMMA MergeMerges ==
    ASSUME NEW I, \A id \in I : id.clock \in Nat,
           NEW s \in RGAStates(I), NEW o \in RGAStates(I), Counted(o)
    PROVE  /\ SeqMerge(s, o) \in RGAStates(I)
           /\ Merged(s, o, SeqMerge(s, o))
<1> DEFINE n == Len(o.nodes)
           ids(i) == {o.nodes[j].id : j \in 1..i}
<1>0. PICK h : /\ h[0] = Seen(s, o.clock)
               /\ \A i \in 1..n : h[i] = MergeNode(h[i - 1], o, i)
               /\ SeqMerge(s, o) = [h[n] EXCEPT !.nodes = Marked(@, Gone(o))]
  BY MergeSteps
<1>1. n \in Nat /\ DOMAIN o.nodes = 1..n /\ o.nodes \in Seq(NodesOf(I)) /\ o.clock \in Nat
  BY DEF RGAStates
<1>2. PICK base : base = Seen(s, o.clock)
  OBVIOUS
<1>3. /\ base \in RGAStates(I) /\ base.nodes = s.nodes /\ base.pending = s.pending
      /\ base.clock = IF o.clock > s.clock THEN o.clock ELSE s.clock
      /\ base.clock \in Nat /\ base.clock >= o.clock
  <2>1. base \in RGAStates(I)
    BY <1>1, <1>2, SeenTakesGreater
  <2>2. base = [clock |-> IF o.clock > s.clock THEN o.clock ELSE s.clock,
                nodes |-> s.nodes, pending |-> s.pending]
    BY <1>1, <1>2, SeenTakesGreater
  <2>3. s.clock \in Nat
    BY DEF RGAStates
  <2> QED BY <1>1, <2>1, <2>2, <2>3
<1> DEFINE Done(i, t) == t \in RGAStates(I) /\ Absorbed(base, ids(i), t)
           W == {i \in 0..n : Done(i, h[i])}
<1>4. 0 \in W
  <2>1. ids(0) = {}
    OBVIOUS
  <2>2. Absorbed(base, {}, base)
    BY DEF Absorbed
  <2>3. Done(0, base)
    BY <1>3, <2>1, <2>2
  <2> HIDE DEF Done
  <2> QED BY <1>0, <1>1, <1>2, <2>3
<1>5. ASSUME NEW i \in 1..n, i - 1 \in W PROVE i \in W
  <2>1. PICK t : t = h[i - 1]
    OBVIOUS
  <2>2. PICK u : u = h[i]
    OBVIOUS
  <2>3. t \in RGAStates(I) /\ Absorbed(base, ids(i - 1), t)
    BY <1>5, <2>1
  <2>4. u = MergeNode(t, o, i)
    BY <1>0, <2>1, <2>2
  <2>5. o.nodes[i].id \in Ids(o.nodes) /\ i \in DOMAIN o.nodes
    BY <1>1 DEF Ids
  <2>6. o.nodes[i].id.clock <= t.clock
    <3>1. t.clock = base.clock
      BY <2>3 DEF Absorbed
    <3>2. o.nodes[i].id.clock <= o.clock
      BY <2>5 DEF Counted
    <3>3. o.nodes[i].id.clock \in Nat
      BY <1>1, <2>5, IdsTyped
    <3> QED BY <1>1, <1>3, <3>1, <3>2, <3>3
  <2>7. u \in RGAStates(I) /\ Absorbed(t, {o.nodes[i].id}, u)
    <3>1. t \in RGAStates(I)
      BY <2>3
    <3> QED BY <2>4, <2>5, <2>6, <3>1, MergeNodeAbsorbs
  <2>8. ids(i) = ids(i - 1) \cup {o.nodes[i].id}
    <3>1. \A j \in 1..i : j = i \/ j \in 1..(i - 1)
      OBVIOUS
    <3>2. \A j \in 1..(i - 1) : j \in 1..i
      OBVIOUS
    <3>3. i \in 1..i
      OBVIOUS
    <3> QED BY <3>1, <3>2, <3>3
  <2> HIDE DEF ids
  <2>9. Absorbed(base, ids(i - 1) \cup {o.nodes[i].id}, u)
    BY <2>3, <2>7, AbsorbedTransitive
  <2>10. Done(i, u)
    BY <2>7, <2>8, <2>9
  <2> HIDE DEF Done
  <2> QED BY <2>2, <2>10
<1>6. n \in W
  <2> HIDE DEF n, W
  <2>1. \A i \in 0..n : i \in W
    BY <1>1, <1>4, <1>5, Steps
  <2> QED BY <1>1, <2>1
<1>7. PICK u : u = h[n]
  OBVIOUS
<1>8. ids(n) = Ids(o.nodes)
  BY <1>1 DEF Ids
<1>9. u \in RGAStates(I) /\ Absorbed(base, Ids(o.nodes), u)
  <2> HIDE DEF ids
  <2> QED BY <1>6, <1>7, <1>8
<1>10. u = [clock |-> u.clock, nodes |-> u.nodes, pending |-> u.pending]
       /\ u.clock \in Nat /\ u.nodes \in Seq(NodesOf(I)) /\ u.pending \in Seq(WaitingOf(I))
  BY <1>9 DEF RGAStates
<1>11. PICK m : m = Marked(u.nodes, Gone(o))
  OBVIOUS
<1>12. PICK t : t = [clock |-> u.clock, nodes |-> m, pending |-> u.pending]
  OBVIOUS
<1>13. SeqMerge(s, o) = t
  BY <1>0, <1>7, <1>10, <1>11, <1>12
<1>14. /\ m \in Seq(NodesOf(I)) /\ Ids(m) = Ids(u.nodes)
       /\ \A x \in ToSet(u.nodes) : x.deleted => x \in ToSet(m)
       /\ \A x \in ToSet(m) : x.deleted => x.id \in Gone(o) \/ x \in ToSet(u.nodes)
       /\ \A x \in ToSet(m) : x.id \in Gone(o) => x.deleted
  BY <1>10, <1>11, MarkedMarks
<1>15. t \in RGAStates(I)
  BY <1>10, <1>12, <1>14 DEF RGAStates
<1>16. Merged(s, o, t)
  <2>1. /\ t.clock = base.clock
        /\ Ids(s.nodes) \cup Ids(o.nodes) \subseteq Ids(t.nodes)
        /\ \A x \in ToSet(s.nodes) : x.deleted => x \in ToSet(t.nodes)
        /\ \A x \in ToSet(t.nodes) : x.deleted => x \in ToSet(s.nodes) \/ x.id \in Gone(o)
    BY <1>3, <1>9, <1>12, <1>14 DEF Absorbed
  <2>2. /\ \A i \in Ids(t.nodes) \ (Ids(s.nodes) \cup Ids(o.nodes)) :
             \E e \in ToSet(s.pending) :
                e.id = i /\ (e.after = Head0 \/ e.after \in Ids(t.nodes))
        /\ ToSet(t.pending) \subseteq ToSet(s.pending)
        /\ \A e \in ToSet(s.pending) : e.id \in Ids(t.nodes) \/ e \in ToSet(t.pending)
    BY <1>3, <1>9, <1>12, <1>14 DEF Absorbed
  <2>3. Stuck(s) => Stuck(t)
    <3>1. Stuck(s) => Stuck(base)
      BY <1>3, StuckByIds
    <3>2. Stuck(base) => Stuck(u)
      BY <1>9 DEF Absorbed
    <3>3. Stuck(u) => Stuck(t)
      BY <1>12, <1>14, StuckByIds
    <3> QED BY <3>1, <3>2, <3>3
  <2> QED BY <1>3, <1>12, <1>14, <2>1, <2>2, <2>3 DEF Merged
<1> QED BY <1>13, <1>15, <1>16

-----------------------------------------------------------------------------
\* f is the fold that appends e[i] for every position i with keep[i].
IsKeeping(f, n, keep, e) ==
    f = [S \in SUBSET (1..n) |->
           IF S = {} THEN <<>>
           ELSE IF keep[Max(S)] THEN Append(f[S \ {Max(S)}], e[Max(S)])
                                ELSE f[S \ {Max(S)}]]

\* What it keeps.
Kept(n, keep, e) == {e[i] : i \in {j \in 1..n : keep[j]}}

LEMMA KeepingExists ==
    ASSUME NEW n \in Nat, NEW S, NEW keep, NEW e, \A i \in 1..n : e[i] \in S
    PROVE  \E f : IsKeeping(f, n, keep, e)
<1> DEFINE X == Seq(S)
           Step(x, i) == IF keep[i] THEN Append(x, e[i]) ELSE x
           G == [x \in X \X (1..n) |-> Step(x[1], x[2])]
<1>1. PICK base : base = <<>>
  OBVIOUS
<1>2. base \in X
  BY <1>1
<1>3. /\ G \in [X \X (1..n) -> X]
      /\ \A x \in X, i \in 1..n : G[<<x, i>>] = Step(x, i)
  <2>1. ASSUME NEW x \in X, NEW i \in 1..n PROVE Step(x, i) \in X
    OBVIOUS
  <2> HIDE DEF X, Step
  <2> QED BY <2>1
<1>4. \A T \in SUBSET (1..n) : T # {} => Max(T) \in 1..n
  <2> TAKE T \in SUBSET (1..n)
  <2>1. T \in SUBSET (0..n)
    OBVIOUS
  <2> QED BY <2>1, MaxIsGreatest
<1> HIDE DEF X, G
<1>5. PICK f : IsFold(f, n, X, base, G)
  BY <1>2, <1>3, FoldExists
<1>6. ASSUME NEW T \in SUBSET (1..n)
      PROVE  f[T] = IF T = {} THEN <<>>
                    ELSE IF keep[Max(T)] THEN Append(f[T \ {Max(T)}], e[Max(T)])
                                         ELSE f[T \ {Max(T)}]
  <2>1. CASE T = {}
    BY <1>1, <1>5, <2>1 DEF IsFold
  <2>2. CASE T # {}
    <3>1. Max(T) \in 1..n /\ f[T \ {Max(T)}] \in X
      BY <1>4, <1>5, <2>2 DEF IsFold
    <3>2. f[T] = Step(f[T \ {Max(T)}], Max(T))
      BY <1>3, <1>5, <2>2, <3>1 DEF IsFold
    <3> QED BY <2>2, <3>2
  <2> QED BY <2>1, <2>2
<1>7. IsKeeping(f, n, keep, e)
  BY <1>5, <1>6 DEF IsFold, IsKeeping
<1> QED BY <1>7

\* One step of it.
LEMMA KeepingStep ==
    ASSUME NEW n \in Nat, NEW keep, NEW e, NEW f, IsKeeping(f, n, keep, e),
           NEW i \in 1..n
    PROVE  f[1..i] = IF keep[i] THEN Append(f[1..(i - 1)], e[i]) ELSE f[1..(i - 1)]
<1>1. (1..i) \in SUBSET (1..n) /\ i \in Nat \ {0}
  OBVIOUS
<1>2. Max(1..i) = i /\ (1..i) # {} /\ (1..i) \ {i} = 1..(i - 1)
  BY <1>1, MaxOfInterval
<1>3. f[1..i] = IF keep[Max(1..i)]
                THEN Append(f[(1..i) \ {Max(1..i)}], e[Max(1..i)])
                ELSE f[(1..i) \ {Max(1..i)}]
  BY <1>1, <1>2, Zenon DEF IsKeeping
<1> QED BY ONLY <1>2, <1>3

\* h filters e[1..n]: step by step it takes the elements with keep[i].
IsFilter(h, n, keep, e, S) ==
    /\ h \in [0..n -> Seq(S)]
    /\ h[0] = <<>>
    /\ \A i \in 1..n : h[i] = IF keep[i] THEN Append(h[i - 1], e[i]) ELSE h[i - 1]

Filtered(x, n, keep, e, S) == \E h : IsFilter(h, n, keep, e, S) /\ h[n] = x

\* x is the part of e whose elements are in P.
IsPart(x, e, P, S) == Filtered(x, Len(e), [i \in 1..Len(e) |-> e[i] \in P], e, S)

\* The fold that IsKeeping describes goes through these steps.
LEMMA KeepingFilters ==
    ASSUME NEW n \in Nat, NEW S, NEW keep, NEW e, \A i \in 1..n : e[i] \in S,
           NEW f, IsKeeping(f, n, keep, e)
    PROVE  Filtered(f[1..n], n, keep, e, S)
<1> DEFINE h == [i \in 0..n |-> f[1..i]]
           W == {i \in 0..n : h[i] \in Seq(S)}
<1>1. h[0] = <<>>
  <2>1. 1..0 = {} /\ {} \in SUBSET (1..n)
    OBVIOUS
  <2>2. f[{}] = <<>>
    BY <2>1, Zenon DEF IsKeeping
  <2> QED BY <2>1, <2>2
<1>2. ASSUME NEW i \in 1..n
      PROVE  h[i] = IF keep[i] THEN Append(h[i - 1], e[i]) ELSE h[i - 1]
  <2>1. i \in 0..n /\ i - 1 \in 0..n
    OBVIOUS
  <2>2. f[1..i] = IF keep[i] THEN Append(f[1..(i - 1)], e[i]) ELSE f[1..(i - 1)]
    BY KeepingStep
  <2>3. h[i] = f[1..i] /\ h[i - 1] = f[1..(i - 1)]
    BY <2>1
  <2> QED BY ONLY <2>2, <2>3
<1>3. h = [i \in 0..n |-> h[i]] /\ h[n] = f[1..n]
  OBVIOUS
<1> HIDE DEF h
<1>4. 0 \in W
  <2>1. <<>> \in Seq(S)
    OBVIOUS
  <2>2. h[0] \in Seq(S) /\ 0 \in 0..n
    BY <1>1, <2>1
  <2> QED BY <2>2
<1>5. ASSUME NEW i \in 1..n, i - 1 \in W PROVE i \in W
  <2>1. h[i - 1] \in Seq(S) /\ e[i] \in S
    BY <1>5
  <2>2. Append(h[i - 1], e[i]) \in Seq(S)
    BY <2>1
  <2>3. h[i] \in Seq(S)
    BY <1>2, <2>1, <2>2
  <2> QED BY <2>3
<1> HIDE DEF W
<1>6. \A i \in 0..n : i \in W
  BY <1>4, <1>5, Steps
<1>7. \A i \in 0..n : h[i] \in Seq(S)
  BY <1>6 DEF W
<1>8. IsFilter(h, n, keep, e, S)
  BY <1>1, <1>2, <1>3, <1>7 DEF IsFilter
<1> QED BY <1>3, <1>8 DEF Filtered

\* Filtering a sequence that another one is appended to: the rest adds nothing,
\* or all of it.
LEMMA FilterConcat ==
    ASSUME NEW S, NEW a \in Seq(S), NEW b \in Seq(S), NEW P,
           NEW e, e = Concat(a, b), NEW some, IsPart(some, a, P, S), NEW all, IsPart(all, e, P, S)
    PROVE  /\ (\A i \in 1..Len(b) : b[i] \notin P) => all = some
           /\ (\A i \in 1..Len(b) : b[i] \in P) => all = Concat(some, b)
           /\ some \in Seq(S)
<1>a. PICK g : /\ IsFilter(g, Len(a), [i \in 1..Len(a) |-> a[i] \in P], a, S)
               /\ some = g[Len(a)]
  BY Zenon DEF IsPart, Filtered
<1>b. PICK h : /\ IsFilter(h, Len(e), [i \in 1..Len(e) |-> e[i] \in P], e, S)
               /\ all = h[Len(e)]
  BY Zenon DEF IsPart, Filtered
<1> DEFINE n == Len(a)
           m == Len(b)
<1>1. /\ n \in Nat /\ m \in Nat /\ Len(e) = n + m
      /\ \A i \in 1..n : e[i] = a[i]
      /\ \A i \in 1..m : e[n + i] = b[i] /\ b[i] \in S
  <2>1. n \in Nat /\ m \in Nat /\ \A i \in 1..m : b[i] \in S
    OBVIOUS
  <2>2. Len(e) = n + m
    BY ConcatAt
  <2>3. \A i \in 1..n : e[i] = a[i]
    BY ConcatAt
  <2>4. \A i \in 1..m : e[n + i] = b[i]
    <3>1. a \in Seq(S) /\ b \in Seq(S)
      OBVIOUS
    <3>2. \A i \in 1..Len(b) : Concat(a, b)[Len(a) + i] = b[i]
      BY ONLY <3>1, ConcatAt
    <3> QED BY <3>2
  <2> QED BY <2>1, <2>2, <2>3, <2>4
<1> HIDE DEF n, m
<1>2. /\ g[0] = <<>> /\ h[0] = <<>>
      /\ \A i \in 1..n : g[i] = IF a[i] \in P THEN Append(g[i - 1], a[i]) ELSE g[i - 1]
      /\ \A i \in 1..(n + m) : h[i] = IF e[i] \in P THEN Append(h[i - 1], e[i]) ELSE h[i - 1]
      /\ g[n] \in Seq(S)
  <2>1. IsFilter(g, n, [i \in 1..n |-> a[i] \in P], a, S)
    BY <1>a DEF n
  <2>2. IsFilter(h, n + m, [i \in 1..(n + m) |-> e[i] \in P], e, S)
    BY <1>1, <1>b
  <2>3. /\ g[0] = <<>> /\ g[n] \in Seq(S)
        /\ \A i \in 1..n : g[i] = IF a[i] \in P THEN Append(g[i - 1], a[i]) ELSE g[i - 1]
    <3> DEFINE keep == [i \in 1..n |-> a[i] \in P]
    <3>1. \A i \in 1..n : keep[i] = (a[i] \in P)
      OBVIOUS
    <3>2. IsFilter(g, n, keep, a, S)
      BY <2>1
    <3> HIDE DEF keep
    <3>3. /\ g[0] = <<>> /\ g \in [0..n -> Seq(S)]
          /\ \A i \in 1..n : g[i] = IF keep[i] THEN Append(g[i - 1], a[i]) ELSE g[i - 1]
      BY <3>2 DEF IsFilter
    <3>4. g[n] \in Seq(S)
      BY <1>1, <3>3
    <3> QED BY <3>1, <3>3, <3>4
  <2>4. /\ h[0] = <<>>
        /\ \A i \in 1..(n + m) : h[i] = IF e[i] \in P THEN Append(h[i - 1], e[i]) ELSE h[i - 1]
    BY <1>1, <2>2 DEF IsFilter
  <2> QED BY <2>3, <2>4
<1>3. h[n] = g[n]
  <2> DEFINE W == {i \in 0..n : h[i] = g[i]}
  <2>1. 0 \in W
    BY <1>1, <1>2
  <2>2. ASSUME NEW i \in 1..n, i - 1 \in W PROVE i \in W
    <3>1. i \in 1..(n + m) /\ i \in 0..n
      BY <1>1
    <3>2. h[i - 1] = g[i - 1] /\ e[i] = a[i]
      BY <1>1, <2>2
    <3>3. h[i] = g[i]
      BY <1>2, <3>1, <3>2
    <3> QED BY <3>1, <3>3
  <2>3. n \in 0..n
    BY <1>1
  <2> HIDE DEF W
  <2>4. n \in W
    BY <1>1, <2>1, <2>2, <2>3, Steps
  <2> QED BY <2>4 DEF W
<1>4. ASSUME \A i \in 1..m : b[i] \notin P PROVE h[n + m] = g[n]
  <2> DEFINE W == {i \in 0..m : h[n + i] = g[n]}
  <2>1. 0 \in W
    BY <1>1, <1>3
  <2>2. ASSUME NEW i \in 1..m, i - 1 \in W PROVE i \in W
    <3>1. n + i \in 1..(n + m) /\ i \in 0..m /\ (n + i) - 1 = n + (i - 1)
      BY <1>1
    <3>2. h[n + (i - 1)] = g[n] /\ e[n + i] \notin P
      BY <1>1, <1>4, <2>2
    <3>3. h[n + i] = g[n]
      BY <1>2, <3>1, <3>2
    <3> QED BY <3>1, <3>3
  <2>3. m \in 0..m
    BY <1>1
  <2> HIDE DEF W
  <2>4. m \in W
    BY <1>1, <2>1, <2>2, <2>3, Steps
  <2> QED BY <2>4 DEF W
<1>5. ASSUME \A i \in 1..m : b[i] \in P PROVE h[n + m] = Concat(g[n], b)
  <2> DEFINE c == Concat(g[n], b)
             k == Len(g[n])
             W == {i \in 0..m : /\ h[n + i] \in Seq(S) /\ Len(h[n + i]) = k + i
                                /\ \A j \in 1..(k + i) : h[n + i][j] = c[j]}
  <2>0. /\ k \in Nat /\ c \in Seq(S) /\ Len(c) = k + m
        /\ \A j \in 1..k : c[j] = g[n][j]
        /\ \A j \in 1..m : c[k + j] = b[j]
    <3>1. PICK x : x = g[n]
      OBVIOUS
    <3>2. x \in Seq(S) /\ b \in Seq(S)
      BY <1>2, <3>1
    <3>3. Concat(x, b) \in Seq(S) /\ Len(Concat(x, b)) = Len(x) + Len(b)
      BY <3>2, ConcatAt
    <3>4. \A j \in 1..Len(x) : Concat(x, b)[j] = x[j]
      BY <3>2, ConcatAt
    <3>5. \A j \in 1..Len(b) : Concat(x, b)[Len(x) + j] = b[j]
      BY <3>2, ConcatAt
    <3> QED BY <3>1, <3>2, <3>3, <3>4, <3>5 DEF m
  <2> HIDE DEF c, k
  <2>1. 0 \in W
    BY <1>1, <1>2, <1>3, <2>0 DEF k
  <2>2. ASSUME NEW i \in 1..m, i - 1 \in W PROVE i \in W
    <3>1. n + i \in 1..(n + m) /\ i \in 0..m /\ (n + i) - 1 = n + (i - 1)
      BY <1>1
    <3>2. PICK x : x = h[n + (i - 1)]
      OBVIOUS
    <3>3. /\ x \in Seq(S) /\ Len(x) = k + (i - 1)
          /\ \A j \in 1..(k + (i - 1)) : x[j] = c[j]
      BY <2>2, <3>2
    <3>4. e[n + i] = b[i] /\ b[i] \in P /\ b[i] \in S
      BY <1>1, <1>5
    <3>5. h[n + i] = Append(x, b[i])
      BY <1>2, <3>1, <3>2, <3>4
    <3>6. /\ h[n + i] \in Seq(S) /\ Len(h[n + i]) = k + i
          /\ \A j \in 1..(k + (i - 1)) : h[n + i][j] = x[j]
          /\ h[n + i][k + i] = b[i]
      BY <2>0, <3>3, <3>4, <3>5
    <3>7. c[k + i] = b[i]
      BY <2>0
    <3>8. ASSUME NEW j \in 1..(k + i) PROVE h[n + i][j] = c[j]
      <4>1. j \in 1..(k + (i - 1)) \/ j = k + i
        BY <2>0
      <4> QED BY <3>3, <3>6, <3>7, <4>1
    <3> QED BY <3>1, <3>6, <3>8
  <2>3. m \in 0..m
    BY <1>1
  <2> HIDE DEF W
  <2>4. m \in W
    BY <1>1, <2>1, <2>2, <2>3, Steps
  <2>5. PICK y : y = h[n + m]
    OBVIOUS
  <2>6. y \in Seq(S) /\ Len(y) = k + m /\ \A j \in 1..(k + m) : y[j] = c[j]
    BY <2>4, <2>5 DEF W
  <2>7. y = c
    BY <2>0, <2>6, SeqEqual
  <2> QED BY <2>5, <2>7 DEF c
<1>6. some = g[n] /\ all = h[n + m] /\ some \in Seq(S)
  BY <1>1, <1>2, <1>a, <1>b DEF n
<1> QED BY <1>4, <1>5, <1>6 DEF m

\* The members of x stand in the order R.
SortedSeq(x, R) == \A a, b \in 1..Len(x) : a < b => <<x[a], x[b]>> \in R

\* x has these members.
Shows(x, ids) == ToSet(x) = ids

\* What is kept of e is in the order R.
KeptSorted(n, keep, e, R) ==
    \A i, j \in 1..n : keep[i] /\ keep[j] /\ i < j => <<e[i], e[j]>> \in R

\* The fold has the members that are kept, in their order.
LEMMA KeepingSorts ==
    ASSUME NEW n \in Nat, NEW S, NEW keep, NEW e, \A i \in 1..n : e[i] \in S,
           NEW f, IsKeeping(f, n, keep, e), NEW R, KeptSorted(n, keep, e, R)
    PROVE  /\ f[1..n] \in Seq(S)
           /\ Shows(f[1..n], Kept(n, keep, e))
           /\ SortedSeq(f[1..n], R)
<1> DEFINE kept(i) == {e[j] : j \in {k \in 1..i : keep[k]}}
           Done(i, x) == x \in Seq(S) /\ ToSet(x) = kept(i) /\ SortedSeq(x, R)
           W == {i \in 0..n : Done(i, f[1..i])}
<1>1. 0 \in W
  <2>1. (1..0) = {} /\ {} \in SUBSET (1..n)
    OBVIOUS
  <2>2. f[1..0] = <<>>
    BY <2>1 DEF IsKeeping
  <2>3. Done(0, <<>>)
    BY DEF ToSet, SortedSeq
  <2> HIDE DEF Done
  <2> QED BY <2>2, <2>3
<1>2. ASSUME NEW i \in 1..n, i - 1 \in W PROVE i \in W
  <2>3. PICK x : x = f[1..(i - 1)]
    OBVIOUS
  <2>4. PICK y : y = f[1..i]
    OBVIOUS
  <2>5. y = IF keep[i] THEN Append(x, e[i]) ELSE x
    BY <2>3, <2>4, KeepingStep
  <2>6. x \in Seq(S) /\ ToSet(x) = kept(i - 1) /\ SortedSeq(x, R)
    BY <1>2, <2>3
  <2>7. kept(i) = kept(i - 1) \cup (IF keep[i] THEN {e[i]} ELSE {})
    <3>1. \A j \in 1..i : j = i \/ j \in 1..(i - 1)
      OBVIOUS
    <3>2. \A j \in 1..(i - 1) : j \in 1..i
      OBVIOUS
    <3>3. i \in 1..i
      OBVIOUS
    <3> QED BY <3>1, <3>2, <3>3
  <2>8. ASSUME keep[i], NEW c \in ToSet(x) PROVE <<c, e[i]>> \in R
    <3>1. PICK j \in 1..(i - 1) : keep[j] /\ c = e[j]
      BY <2>6, <2>8
    <3>2. j \in 1..n /\ j < i
      BY <3>1
    <3> QED BY <2>8, <3>1, <3>2 DEF KeptSorted
  <2> HIDE DEF kept
  <2>9. y \in Seq(S) /\ ToSet(y) = kept(i) /\ SortedSeq(y, R)
    <3>1. CASE keep[i]
      <4>1. PICK z : z = Append(x, e[i])
        OBVIOUS
      <4>2. /\ z \in Seq(S) /\ Len(z) = Len(x) + 1 /\ ToSet(z) = ToSet(x) \cup {e[i]}
            /\ \A a \in 1..Len(x) : z[a] = x[a]
            /\ z[Len(x) + 1] = e[i]
        BY <2>6, <4>1, AppendAdds
      <4>3. ASSUME NEW a \in 1..Len(z), NEW b \in 1..Len(z), a < b
            PROVE  <<z[a], z[b]>> \in R
        <5>1. Len(x) \in Nat /\ a \in 1..Len(x) /\ x[a] \in ToSet(x)
          BY <2>6, <4>2, <4>3 DEF ToSet
        <5>2. CASE b = Len(x) + 1
          BY <2>8, <3>1, <4>2, <5>1, <5>2
        <5>3. CASE b # Len(x) + 1
          <6>1. b \in 1..Len(x)
            BY <4>2, <5>1, <5>3
          <6> QED BY <2>6, <4>2, <4>3, <5>1, <6>1 DEF SortedSeq
        <5> QED BY <5>2, <5>3
      <4> QED BY <2>5, <2>6, <2>7, <3>1, <4>1, <4>2, <4>3 DEF SortedSeq
    <3>2. CASE ~keep[i]
      BY <2>5, <2>6, <2>7, <3>2
    <3> QED BY <3>1, <3>2
  <2> HIDE DEF Done
  <2>10. Done(i, y)
    BY <2>9 DEF Done
  <2> QED BY <2>4, <2>10
<1> HIDE DEF W
<1>3. n \in W
  <2>1. \A i \in 0..n : i \in W
    BY <1>1, <1>2, Steps
  <2> QED BY <2>1
<1> QED BY <1>3 DEF W, Kept, Shows

LEMMA KeepingKeeps ==
    ASSUME NEW n \in Nat, NEW S, NEW keep, NEW e, \A i \in 1..n : e[i] \in S,
           NEW f, IsKeeping(f, n, keep, e)
    PROVE  /\ f[1..n] \in Seq(S)
           /\ ToSet(f[1..n]) = Kept(n, keep, e)
<1> DEFINE R == {<<e[i], e[j]>> : i, j \in 1..n}
<1>1. KeptSorted(n, keep, e, R)
  BY DEF KeptSorted
<1> HIDE DEF R
<1>2. f[1..n] \in Seq(S)
  BY <1>1, KeepingSorts
<1>3. Shows(f[1..n], Kept(n, keep, e))
  BY <1>1, KeepingSorts
<1> QED BY <1>2, <1>3 DEF Shows

\* The nodes stand in the order R of their ids.
SortedBy(nodes, R) ==
    \A i, j \in DOMAIN nodes : i < j => <<nodes[i].id, nodes[j].id>> \in R

\* The visible elements are the ids of the nodes that are not deleted, in the
\* order of the nodes.
LEMMA VisibleShowsInOrder ==
    ASSUME NEW I, NEW nodes \in Seq(NodesOf(I)), NEW R, SortedBy(nodes, R)
    PROVE  /\ Visible(nodes) \in Seq(I)
           /\ ToSet(Visible(nodes)) = {x.id : x \in {y \in ToSet(nodes) : ~y.deleted}}
           /\ SortedSeq(Visible(nodes), R)
<1> DEFINE n == Len(nodes)
           keep == [i \in 1..n |-> ~nodes[i].deleted]
           e == [i \in 1..n |-> nodes[i].id]
           Folds(f) == f = [S \in SUBSET (1..n) |->
                              IF S = {} THEN <<>>
                              ELSE IF nodes[Max(S)].deleted THEN f[S \ {Max(S)}]
                                   ELSE Append(f[S \ {Max(S)}], nodes[Max(S)].id)]
           it == CHOOSE f : Folds(f)
<1>1. /\ n \in Nat /\ DOMAIN nodes = 1..n /\ \A i \in 1..n : nodes[i] \in NodesOf(I)
      /\ \A i \in 1..n : e[i] \in I /\ e[i] = nodes[i].id /\ keep[i] = ~nodes[i].deleted
  <2>1. n \in Nat /\ DOMAIN nodes = 1..n /\ \A i \in 1..n : nodes[i] \in NodesOf(I)
    OBVIOUS
  <2>2. \A i \in 1..n : nodes[i].id \in I
    BY <2>1 DEF NodesOf
  <2>3. \A i \in 1..n : e[i] = nodes[i].id /\ keep[i] = ~nodes[i].deleted
    OBVIOUS
  <2> HIDE DEF n, e, keep
  <2> QED BY <2>1, <2>2, <2>3
<1>2. \A S \in SUBSET (1..n) : S # {} => Max(S) \in 1..n
  <2> TAKE S \in SUBSET (1..n)
  <2>1. S \in SUBSET (0..n)
    BY <1>1
  <2> HIDE DEF n
  <2> QED BY <1>1, <2>1, MaxIsGreatest
<1>3. ASSUME NEW f PROVE Folds(f) <=> IsKeeping(f, n, keep, e)
  <2>1. \A S \in SUBSET (1..n) : S # {} =>
           /\ e[Max(S)] = nodes[Max(S)].id
           /\ keep[Max(S)] = ~nodes[Max(S)].deleted
    BY <1>1, <1>2
  <2> HIDE DEF n, keep, e
  <2> QED BY <2>1 DEF IsKeeping
<1>4. Visible(nodes) = it[1..n]
  BY <1>1 DEF Visible, FoldLeft, MapThenFoldSet
<1> HIDE DEF n, keep, e
<1>5. \E f : IsKeeping(f, n, keep, e)
  BY <1>1, KeepingExists
<1>6. IsKeeping(it, n, keep, e)
  <2>1. \E f : Folds(f)
    <3> HIDE DEF Folds
    <3> QED BY <1>3, <1>5
  <2>2. Folds(it)
    <3> HIDE DEF Folds
    <3> QED BY <2>1
  <2> HIDE DEF Folds, it
  <2> QED BY <1>3, <2>2
<1> HIDE DEF it
<1>c. n \in Nat /\ \A i \in 1..n : e[i] \in I
  BY <1>1
<1>d. KeptSorted(n, keep, e, R)
  BY <1>1 DEF KeptSorted, SortedBy
<1>7. /\ it[1..n] \in Seq(I) /\ ToSet(it[1..n]) = Kept(n, keep, e)
      /\ SortedSeq(it[1..n], R)
  <2>1. it[1..n] \in Seq(I)
    BY <1>c, <1>d, <1>6, KeepingSorts
  <2>2. Shows(it[1..n], Kept(n, keep, e))
    BY <1>c, <1>d, <1>6, KeepingSorts
  <2>3. SortedSeq(it[1..n], R)
    BY <1>c, <1>d, <1>6, KeepingSorts
  <2> QED BY <2>1, <2>2, <2>3 DEF Shows
<1>8. Kept(n, keep, e) = {x.id : x \in {y \in ToSet(nodes) : ~y.deleted}}
  <2>1. ToSet(nodes) = {nodes[i] : i \in 1..n}
    BY <1>1 DEF ToSet
  <2>2. \A i \in 1..n : e[i] = nodes[i].id /\ keep[i] = ~nodes[i].deleted
    BY <1>1
  <2> DEFINE shown == {x.id : x \in {y \in ToSet(nodes) : ~y.deleted}}
  <2>3. \A i \in 1..n : keep[i] => nodes[i] \in ToSet(nodes) /\ e[i] \in shown
    BY <2>1, <2>2
  <2>4. ASSUME NEW x \in shown PROVE \E i \in 1..n : keep[i] /\ x = e[i]
    <3>1. PICK y \in ToSet(nodes) : ~y.deleted /\ x = y.id
      OBVIOUS
    <3>2. PICK i \in 1..n : y = nodes[i]
      BY <2>1
    <3> QED BY <2>2, <3>1, <3>2
  <2> HIDE DEF shown
  <2>5. Kept(n, keep, e) \subseteq shown
    BY <2>3 DEF Kept
  <2>6. shown \subseteq Kept(n, keep, e)
    BY <2>4 DEF Kept
  <2> QED BY <2>5, <2>6 DEF shown
<1> QED BY <1>4, <1>7, <1>8

LEMMA VisibleShows ==
    ASSUME NEW I, NEW nodes \in Seq(NodesOf(I))
    PROVE  /\ Visible(nodes) \in Seq(I)
           /\ ToSet(Visible(nodes)) = {x.id : x \in {y \in ToSet(nodes) : ~y.deleted}}
<1> DEFINE R == {<<nodes[i].id, nodes[j].id>> : i, j \in DOMAIN nodes}
<1>1. SortedBy(nodes, R)
  BY DEF SortedBy
<1> HIDE DEF R
<1> QED BY <1>1, VisibleShowsInOrder

\* Pruning drops the old tombstones and nothing else, and moves nothing.
LEMMA PruneDropsInOrder ==
    ASSUME NEW I, NEW s \in RGAStates(I), NEW before_ts, NEW R, SortedBy(s.nodes, R)
    PROVE  /\ SeqPrune(s, before_ts) \in RGAStates(I)
           /\ SortedBy(SeqPrune(s, before_ts).nodes, R)
           /\ SeqPrune(s, before_ts).clock = s.clock
           /\ SeqPrune(s, before_ts).pending = s.pending
           /\ ToSet(SeqPrune(s, before_ts).nodes) =
                {x \in ToSet(s.nodes) : ~(x.deleted /\ x.id.clock <= before_ts)}
<1> DEFINE e == s.nodes
           n == Len(e)
           keep == [i \in 1..n |-> ~(e[i].deleted /\ e[i].id.clock <= before_ts)]
           Folds(f) == f = [S \in SUBSET (1..n) |->
                              IF S = {} THEN <<>>
                              ELSE IF e[Max(S)].deleted /\ e[Max(S)].id.clock <= before_ts
                                   THEN f[S \ {Max(S)}]
                                   ELSE Append(f[S \ {Max(S)}], e[Max(S)])]
           it == CHOOSE f : Folds(f)
<1>0. s = [clock |-> s.clock, nodes |-> e, pending |-> s.pending]
      /\ s.clock \in Nat /\ s.pending \in Seq(WaitingOf(I)) /\ e \in Seq(NodesOf(I))
  BY DEF RGAStates
<1>1. /\ n \in Nat /\ DOMAIN e = 1..n /\ \A i \in 1..n : e[i] \in NodesOf(I)
      /\ \A i \in 1..n : keep[i] = ~(e[i].deleted /\ e[i].id.clock <= before_ts)
  BY <1>0
<1>2. \A S \in SUBSET (1..n) : S # {} => Max(S) \in 1..n
  <2> TAKE S \in SUBSET (1..n)
  <2>1. S \in SUBSET (0..n)
    BY <1>1
  <2> HIDE DEF n
  <2> QED BY <1>1, <2>1, MaxIsGreatest
<1>3. ASSUME NEW f PROVE Folds(f) <=> IsKeeping(f, n, keep, e)
  <2>1. \A S \in SUBSET (1..n) : S # {} =>
           keep[Max(S)] = ~(e[Max(S)].deleted /\ e[Max(S)].id.clock <= before_ts)
    BY <1>1, <1>2
  <2> HIDE DEF n, keep, e
  <2> QED BY <2>1 DEF IsKeeping
<1>4. SeqPrune(s, before_ts) = [s EXCEPT !.nodes = it[1..n]]
  BY <1>1 DEF SeqPrune, FoldLeft, MapThenFoldSet
<1> HIDE DEF n, keep, e
<1>5. \E f : IsKeeping(f, n, keep, e)
  BY <1>1, KeepingExists
<1>6. IsKeeping(it, n, keep, e)
  <2>1. \E f : Folds(f)
    <3> HIDE DEF Folds
    <3> QED BY <1>3, <1>5
  <2>2. Folds(it)
    <3> HIDE DEF Folds
    <3> QED BY <2>1
  <2> HIDE DEF Folds, it
  <2> QED BY <1>3, <2>2
<1>7. PICK q : q = it[1..n]
  OBVIOUS
<1> HIDE DEF it
<1>8. q \in Seq(NodesOf(I)) /\ ToSet(q) = Kept(n, keep, e) /\ SortedBy(q, R)
  <2>1. n \in Nat /\ \A i \in 1..n : e[i] \in NodesOf(I)
    BY <1>1
  <2>2. PICK D : D = NodesOf(I)
    OBVIOUS
  <2>3. \A i \in 1..n : e[i] \in D
    BY <2>1, <2>2
  <2>4. PICK a : a = e
    OBVIOUS
  <2>5. PICK Q : Q = {r \in D \X D : <<r[1].id, r[2].id>> \in R}
    OBVIOUS
  <2>6. KeptSorted(n, keep, a, Q)
    <3>1. \A i, j \in 1..n : i < j => <<e[i].id, e[j].id>> \in R
      BY <1>1 DEF SortedBy, e
    <3> QED BY <2>3, <2>4, <2>5, <3>1 DEF KeptSorted
  <2>7. n \in Nat /\ (\A i \in 1..n : a[i] \in D) /\ IsKeeping(it, n, keep, a)
    BY <2>1, <2>3, <2>4, <1>6
  <2>8. q \in Seq(D)
    BY <2>6, <2>7, <1>7, KeepingSorts
  <2>9. Shows(q, Kept(n, keep, a))
    BY <2>6, <2>7, <1>7, KeepingSorts
  <2>10. SortedSeq(q, Q)
    BY <2>6, <2>7, <1>7, KeepingSorts
  <2>11. SortedBy(q, R)
    <3>1. \A x, y : <<x, y>> \in Q => <<x.id, y.id>> \in R
      BY <2>5
    <3>2. DOMAIN q = 1..Len(q)
      BY <2>8
    <3>3. \A i, j \in 1..Len(q) : i < j => <<q[i], q[j]>> \in Q
      BY <2>10 DEF SortedSeq
    <3>4. ASSUME NEW i \in DOMAIN q, NEW j \in DOMAIN q, i < j
          PROVE  <<q[i].id, q[j].id>> \in R
      <4>1. PICK x, y : x = q[i] /\ y = q[j]
        OBVIOUS
      <4>2. <<x, y>> \in Q
        BY <3>2, <3>3, <3>4, <4>1
      <4> QED BY ONLY <3>1, <4>1, <4>2
    <3> QED BY ONLY <3>4 DEF SortedBy
  <2> QED BY <2>2, <2>4, <2>8, <2>9, <2>11 DEF Shows
<1>9. Kept(n, keep, e) =
        {x \in ToSet(e) : ~(x.deleted /\ x.id.clock <= before_ts)}
  BY <1>1 DEF ToSet, Kept
<1>10. SeqPrune(s, before_ts) = [clock |-> s.clock, nodes |-> q, pending |-> s.pending]
  BY <1>0, <1>4, <1>7
<1> QED BY <1>0, <1>8, <1>9, <1>10 DEF RGAStates, e

LEMMA PruneDrops ==
    ASSUME NEW I, NEW s \in RGAStates(I), NEW before_ts
    PROVE  /\ SeqPrune(s, before_ts) \in RGAStates(I)
           /\ SeqPrune(s, before_ts).clock = s.clock
           /\ SeqPrune(s, before_ts).pending = s.pending
           /\ ToSet(SeqPrune(s, before_ts).nodes) =
                {x \in ToSet(s.nodes) : ~(x.deleted /\ x.id.clock <= before_ts)}
<1> DEFINE R == {<<s.nodes[i].id, s.nodes[j].id>> : i, j \in DOMAIN s.nodes}
<1>1. SortedBy(s.nodes, R)
  BY DEF SortedBy
<1> HIDE DEF R
<1> QED BY <1>1, PruneDropsInOrder

-----------------------------------------------------------------------------
\* What the operations keep of a list of nodes.  G is a set of lists, O one of
\* inserts: placing an insert of O leads from G to G, and so does marking.
PlacesIn(G, O) ==
    \A nodes \in G : \A op \in O : CanPlace(nodes, op) => Place(nodes, op) \in G
MarksIn(G) == \A nodes \in G : \A D : Marked(nodes, D) \in G

\* A replica with a list in G and inserts of O that wait.
Keeps(I, G, O, s) == s \in RGAStates(I) /\ s.nodes \in G /\ ToSet(s.pending) \subseteq O

LEMMA DrainPassKeeps ==
    ASSUME NEW I, NEW G, NEW O, PlacesIn(G, O), NEW s, Keeps(I, G, O, s)
    PROVE  Keeps(I, G, O, DrainPass(s))
<1> DEFINE n == Len(s.pending)
<1>0. s \in RGAStates(I) /\ s.nodes \in G /\ ToSet(s.pending) \subseteq O
  BY DEF Keeps
<1>1. PICK h : /\ h[0] = [s EXCEPT !.pending = <<>>]
               /\ \A i \in 1..n : h[i] = DrainStep(h[i - 1], s.pending[i])
               /\ DrainPass(s) = h[n]
  BY <1>0, DrainPassSteps
<1>2. /\ n \in Nat /\ DOMAIN s.pending = 1..n
      /\ \A i \in 1..n : s.pending[i] \in WaitingOf(I) /\ s.pending[i] \in O
  BY <1>0 DEF RGAStates, ToSet
<1> DEFINE W == {i \in 0..n : h[i] \in RGAStates(I) /\ h[i].nodes \in G}
<1>3. 0 \in W
  <2>1. s = [clock |-> s.clock, nodes |-> s.nodes, pending |-> s.pending]
        /\ s.clock \in Nat /\ s.nodes \in Seq(NodesOf(I))
    BY <1>0 DEF RGAStates
  <2>2. h[0] = [clock |-> s.clock, nodes |-> s.nodes, pending |-> <<>>]
    BY <1>1, <2>1
  <2>3. <<>> \in Seq(WaitingOf(I))
    OBVIOUS
  <2>4. h[0] \in RGAStates(I)
    BY <2>1, <2>2, <2>3 DEF RGAStates
  <2>5. h[0].nodes \in G
    BY <1>0, <2>2
  <2> QED BY <1>2, <2>4, <2>5
<1>4. ASSUME NEW i \in 1..n, i - 1 \in W PROVE i \in W
  <2>1. PICK x : x = h[i - 1]
    OBVIOUS
  <2>2. PICK op : op = s.pending[i]
    OBVIOUS
  <2>3. x \in RGAStates(I) /\ x.nodes \in G /\ op \in WaitingOf(I) /\ op \in O
    BY <1>2, <1>4, <2>1, <2>2
  <2>4. h[i] = DrainStep(x, op)
    BY <1>1, <2>1, <2>2
  <2>5. DrainStep(x, op) \in RGAStates(I)
    BY <2>3, DrainStepPlacesOrWaits
  <2>6. x = [clock |-> x.clock, nodes |-> x.nodes, pending |-> x.pending]
    BY <2>3 DEF RGAStates
  <2>7. DrainStep(x, op).nodes \in G
    <3>1. CASE CanPlace(x.nodes, op)
      <4>1. PICK m : m = Place(x.nodes, op)
        OBVIOUS
      <4>2. m \in G
        BY <2>3, <3>1, <4>1 DEF PlacesIn
      <4>3. [x EXCEPT !.nodes = m].nodes = m
        BY <2>6
      <4>4. DrainStep(x, op) = [x EXCEPT !.nodes = m]
        BY <3>1, <4>1 DEF DrainStep
      <4> QED BY <4>2, <4>3, <4>4
    <3>2. CASE ~CanPlace(x.nodes, op)
      <4>1. PICK q : q = Append(x.pending, op)
        OBVIOUS
      <4>2. [x EXCEPT !.pending = q].nodes = x.nodes
        BY <2>6
      <4>3. DrainStep(x, op) = [x EXCEPT !.pending = q]
        BY <3>2, <4>1 DEF DrainStep
      <4> QED BY <2>3, <4>2, <4>3
    <3> QED BY <3>1, <3>2
  <2> QED BY <2>4, <2>5, <2>7
<1> HIDE DEF W
<1>5. n \in W
  <2> HIDE DEF n
  <2>1. \A i \in 0..n : i \in W
    BY <1>2, <1>3, <1>4, Steps
  <2> QED BY <1>2, <2>1
<1>6. DrainPass(s).nodes \in G
  BY <1>1, <1>5 DEF W
<1>7. PICK t : t = DrainPass(s)
  OBVIOUS
<1>8. t \in RGAStates(I) /\ Drained(s, t)
  BY <1>0, <1>7, DrainPassDrains
<1> QED BY <1>0, <1>6, <1>7, <1>8 DEF Keeps, Drained

LEMMA DrainKeeps ==
    ASSUME NEW I, NEW G, NEW O, PlacesIn(G, O), NEW s, Keeps(I, G, O, s)
    PROVE  Keeps(I, G, O, Drain(s))
<1> DEFINE n == Len(s.pending)
<1>1. s \in RGAStates(I) /\ n \in Nat
  BY DEF Keeps, RGAStates
<1>2. PICK h : /\ h[0] = s
               /\ \A i \in 1..n : h[i] = DrainPass(h[i - 1])
               /\ Drain(s) = h[n]
  BY <1>1, DrainSteps
<1> DEFINE W == {i \in 0..n : Keeps(I, G, O, h[i])}
<1>3. 0 \in W
  BY <1>1, <1>2
<1>4. ASSUME NEW i \in 1..n, i - 1 \in W PROVE i \in W
  <2>1. PICK x : x = h[i - 1]
    OBVIOUS
  <2>2. Keeps(I, G, O, x)
    BY <1>4, <2>1
  <2>3. Keeps(I, G, O, DrainPass(x))
    BY <2>2, DrainPassKeeps
  <2> QED BY <1>2, <2>1, <2>3
<1> HIDE DEF W
<1>5. n \in W
  <2> HIDE DEF n
  <2>1. \A i \in 0..n : i \in W
    BY <1>1, <1>3, <1>4, Steps
  <2> QED BY <1>1, <2>1
<1> QED BY <1>2, <1>5 DEF W

\* Applying a delete, an insert of O, or another insert whose placement leads
\* to G.
LEMMA ApplyKeepsList ==
    ASSUME NEW I, NEW G, NEW O, PlacesIn(G, O), MarksIn(G), NEW s, Keeps(I, G, O, s),
           NEW op \in OpsOver(I), op.id.clock \in Nat,
           IsInsert(op) /\ op \notin O => CanPlace(s.nodes, op) /\ Place(s.nodes, op) \in G
    PROVE  Keeps(I, G, O, SeqApply(s, op))
<1>0. s \in RGAStates(I) /\ s.nodes \in G /\ ToSet(s.pending) \subseteq O
  BY DEF Keeps
<1> DEFINE c == IF op.id.clock > s.clock THEN op.id.clock ELSE s.clock
<1>a. PICK v : v = Seen(s, op.id.clock)
  OBVIOUS
<1>1. v = [clock |-> c, nodes |-> s.nodes, pending |-> s.pending]
  BY <1>0, <1>a, SeenTakesGreater
<1>2. c \in Nat /\ s.nodes \in Seq(NodesOf(I)) /\ s.pending \in Seq(WaitingOf(I))
  BY <1>0 DEF RGAStates
<1>3. v.clock = c /\ v.nodes = s.nodes /\ v.pending = s.pending
  BY <1>1
<1> HIDE DEF c
<1>4. ASSUME NEW m \in G, m \in Seq(NodesOf(I)), NEW w, w = [v EXCEPT !.nodes = m]
      PROVE  Keeps(I, G, O, Drain(w))
  <2>1. w = [clock |-> c, nodes |-> m, pending |-> s.pending]
    BY <1>1, <1>4
  <2>0. m \in Seq(NodesOf(I))
    BY <1>4
  <2>2. w \in RGAStates(I)
    BY <1>2, <2>0, <2>1 DEF RGAStates
  <2>3. w.nodes = m /\ w.pending = s.pending
    BY <2>1
  <2>4. Keeps(I, G, O, w)
    BY <1>0, <1>4, <2>2, <2>3 DEF Keeps
  <2> QED BY <2>4, DrainKeeps
<1>5. CASE op.type = "Delete"
  <2>1. PICK m : m = MarkDeleted(s.nodes, op.id)
    OBVIOUS
  <2>2. m \in Seq(NodesOf(I))
    BY <1>2, <2>1, MarkDeletedMarks
  <2>3. m = Marked(s.nodes, {op.id})
    BY <2>1 DEF MarkDeleted, Marked
  <2>4. m \in G
    BY <1>0, <2>3 DEF MarksIn
  <2>5. PICK w : w = [v EXCEPT !.nodes = m]
    OBVIOUS
  <2>6. SeqApply(s, op) = Drain(w)
    BY <1>a, <1>1, <1>5, <2>1, <2>5 DEF SeqApply
  <2> QED BY <1>4, <2>2, <2>4, <2>5, <2>6
<1>6. CASE op.type # "Delete" /\ CanPlace(s.nodes, op)
  <2>a. op \in WaitingOf(I) /\ IsInsert(op)
    BY <1>6 DEF OpsOver, DeletesOf, WaitingOf, IsInsert
  <2>1. PICK m : m = Place(s.nodes, op)
    OBVIOUS
  <2>2. m \in Seq(NodesOf(I))
    BY <1>2, <1>6, <2>a, <2>1, PlaceAdds
  <2>3. m \in G
    BY <1>0, <1>6, <2>a, <2>1 DEF PlacesIn
  <2>4. PICK w : w = [v EXCEPT !.nodes = m]
    OBVIOUS
  <2>5. SeqApply(s, op) = Drain(w)
    BY <1>a, <1>1, <1>3, <1>6, <2>1, <2>4 DEF SeqApply
  <2> QED BY <1>4, <2>2, <2>3, <2>4, <2>5
<1>7. CASE op.type # "Delete" /\ ~CanPlace(s.nodes, op)
  <2>a. op \in WaitingOf(I) /\ IsInsert(op) /\ op \in O
    BY <1>7 DEF OpsOver, DeletesOf, WaitingOf, IsInsert
  <2>1. PICK q : q = Append(s.pending, op)
    OBVIOUS
  <2>2. q \in Seq(WaitingOf(I)) /\ ToSet(q) = ToSet(s.pending) \cup {op}
    BY <1>2, <2>a, <2>1, AppendAdds
  <2>3. PICK t : t = [clock |-> c, nodes |-> s.nodes, pending |-> q]
    OBVIOUS
  <2>4. Keeps(I, G, O, t)
    BY <1>0, <1>2, <2>a, <2>2, <2>3 DEF RGAStates, Keeps
  <2>5. [v EXCEPT !.pending = Append(@, op)] = t
    <3>1. Append(v.pending, op) = q
      BY <1>3, <2>1
    <3>2. [v EXCEPT !.pending = q] = t
      BY <1>1, <2>3
    <3>3. [v EXCEPT !.pending = Append(@, op)] = [v EXCEPT !.pending = q]
      BY ONLY <3>1, Zenon
    <3> QED BY ONLY <3>2, <3>3, Zenon
  <2>6. SeqApply(s, op) = t
    BY <1>a, <1>3, <1>7, <2>5 DEF SeqApply
  <2> QED BY <2>4, <2>6
<1> QED BY <1>5, <1>6, <1>7

\* The nodes of o can be taken over one after the other, each after the one
\* before it.
LinksIn(G, o) ==
    \A i \in DOMAIN o.nodes : \A nodes \in G :
       (\A j \in 1..(i - 1) : o.nodes[j].id \in Ids(nodes)) =>
          Place(nodes, InsertOp(o.nodes[i].id, IF i = 1 THEN Head0 ELSE o.nodes[i - 1].id)) \in G

LEMMA MergeNodeKeeps ==
    ASSUME NEW I, \A id \in I : id.clock \in Nat,
           NEW G, NEW O, PlacesIn(G, O), MarksIn(G), NEW s, Keeps(I, G, O, s),
           NEW o \in RGAStates(I), LinksIn(G, o), NEW i \in DOMAIN o.nodes,
           \A j \in 1..(i - 1) : o.nodes[j].id \in Ids(s.nodes)
    PROVE  Keeps(I, G, O, MergeNode(s, o, i))
<1> DEFINE id == o.nodes[i].id
           before == {j \in 1..(i - 1) : o.nodes[j].id \in Ids(s.nodes)}
           after == IF before = {} THEN Head0
                    ELSE o.nodes[CHOOSE j \in before : \A k \in before : k <= j].id
           last == IF i = 1 THEN Head0 ELSE o.nodes[i - 1].id
<1>1. /\ i \in Nat \ {0} /\ o.nodes \in Seq(NodesOf(I)) /\ s.nodes \in Seq(NodesOf(I))
      /\ s.nodes \in G
  BY DEF RGAStates, Keeps
<1>2. o.nodes[i] \in NodesOf(I)
  BY <1>1
<1>3. id \in I /\ id.clock \in Nat
  BY <1>2 DEF NodesOf
<1>4. after = last
  <2>1. before = 1..(i - 1)
    OBVIOUS
  <2>2. CASE i = 1
    BY <2>1, <2>2
  <2>3. CASE i # 1
    <3>1. i - 1 \in before /\ \A k \in before : k <= i - 1
      BY <1>1, <2>1, <2>3
    <3>2. \A j \in before : (\A k \in before : k <= j) => j = i - 1
      BY <1>1, <2>1, <3>1
    <3>3. (CHOOSE j \in before : \A k \in before : k <= j) = i - 1
      BY <3>1, <3>2
    <3> HIDE DEF before
    <3> QED BY <2>3, <3>1, <3>3
  <2> QED BY <2>2, <2>3
<1>5. MergeNode(s, o, i) = IF id \in Ids(s.nodes) THEN s ELSE SeqApply(s, InsertOp(id, after))
  BY DEF MergeNode
<1> HIDE DEF after
<1>6. PICK op : op = InsertOp(id, last)
  OBVIOUS
<1>7. last = Head0 \/ (last \in Ids(s.nodes) /\ last \in I)
  <2>1. ASSUME i # 1 PROVE last \in Ids(s.nodes)
    <3>1. i - 1 \in 1..(i - 1)
      BY <1>1, <2>1
    <3> QED BY <2>1, <3>1
  <2>2. Ids(s.nodes) \subseteq I
    BY <1>1, IdsTyped
  <2> QED BY <2>1, <2>2
<1>8. Place(s.nodes, op) \in G
  BY <1>1, <1>6 DEF LinksIn
<1> HIDE DEF id, last
<1>9. op = [type |-> "Insert", id |-> id, after |-> last]
  BY <1>6 DEF InsertOp
<1>10. op \in OpsOver(I) /\ op.id = id /\ op.after = last
  BY <1>3, <1>7, <1>9 DEF OpsOver, WaitingOf
<1>11. CanPlace(s.nodes, op)
  BY <1>7, <1>10 DEF CanPlace
<1>12. Keeps(I, G, O, SeqApply(s, op))
  BY <1>3, <1>8, <1>10, <1>11, ApplyKeepsList
<1> QED BY <1>4, <1>5, <1>6, <1>12

LEMMA MergeKeepsList ==
    ASSUME NEW I, \A id \in I : id.clock \in Nat,
           NEW G, NEW O, PlacesIn(G, O), MarksIn(G), NEW s, Keeps(I, G, O, s),
           NEW o \in RGAStates(I), Counted(o), LinksIn(G, o)
    PROVE  Keeps(I, G, O, SeqMerge(s, o))
<1> DEFINE n == Len(o.nodes)
           ids(i) == {o.nodes[j].id : j \in 1..i}
<1>s. s \in RGAStates(I) /\ s.nodes \in G /\ ToSet(s.pending) \subseteq O
  BY DEF Keeps
<1>0. PICK h : /\ h[0] = Seen(s, o.clock)
               /\ \A i \in 1..n : h[i] = MergeNode(h[i - 1], o, i)
               /\ SeqMerge(s, o) = [h[n] EXCEPT !.nodes = Marked(@, Gone(o))]
  BY <1>s, MergeSteps
<1>1. n \in Nat /\ DOMAIN o.nodes = 1..n /\ o.nodes \in Seq(NodesOf(I)) /\ o.clock \in Nat
  BY DEF RGAStates
<1>2. PICK base : base = Seen(s, o.clock)
  OBVIOUS
<1>3. Keeps(I, G, O, base) /\ base.clock \in Nat /\ base.clock >= o.clock
  <2>1. base \in RGAStates(I)
    BY <1>s, <1>1, <1>2, SeenTakesGreater
  <2>2. base = [clock |-> IF o.clock > s.clock THEN o.clock ELSE s.clock,
                nodes |-> s.nodes, pending |-> s.pending]
    BY <1>s, <1>1, <1>2, SeenTakesGreater
  <2>3. s.clock \in Nat
    BY <1>s DEF RGAStates
  <2> QED BY <1>s, <1>1, <2>1, <2>2, <2>3 DEF Keeps
<1> DEFINE Done(i, t) == /\ Keeps(I, G, O, t) /\ ids(i) \subseteq Ids(t.nodes)
                         /\ t.clock = base.clock
           W == {i \in 0..n : Done(i, h[i])}
<1>4. 0 \in W
  <2>1. ids(0) = {}
    OBVIOUS
  <2>2. Done(0, base)
    BY <1>3, <2>1
  <2> HIDE DEF Done
  <2> QED BY <1>0, <1>1, <1>2, <2>2
<1>5. ASSUME NEW i \in 1..n, i - 1 \in W PROVE i \in W
  <2>1. PICK t : t = h[i - 1]
    OBVIOUS
  <2>2. PICK u : u = h[i]
    OBVIOUS
  <2>3. Keeps(I, G, O, t) /\ ids(i - 1) \subseteq Ids(t.nodes) /\ t.clock = base.clock
    BY <1>5, <2>1
  <2>4. u = MergeNode(t, o, i)
    BY <1>0, <2>1, <2>2
  <2>5. o.nodes[i].id \in Ids(o.nodes) /\ i \in DOMAIN o.nodes
    BY <1>1 DEF Ids
  <2>6. o.nodes[i].id.clock <= t.clock
    <3>1. o.nodes[i].id.clock <= o.clock
      BY <2>5 DEF Counted
    <3>2. o.nodes[i].id.clock \in Nat
      BY <1>1, <2>5, IdsTyped
    <3> QED BY <1>1, <1>3, <2>3, <3>1, <3>2
  <2>7. Absorbed(t, {o.nodes[i].id}, u)
    <3>1. t \in RGAStates(I)
      BY <2>3 DEF Keeps
    <3> QED BY <2>4, <2>5, <2>6, <3>1, MergeNodeAbsorbs
  <2>8. ids(i) = ids(i - 1) \cup {o.nodes[i].id}
    <3>1. \A j \in 1..i : j = i \/ j \in 1..(i - 1)
      OBVIOUS
    <3>2. \A j \in 1..(i - 1) : j \in 1..i
      OBVIOUS
    <3>3. i \in 1..i
      OBVIOUS
    <3> QED BY <3>1, <3>2, <3>3
  <2>9. \A j \in 1..(i - 1) : o.nodes[j].id \in Ids(t.nodes)
    BY <2>3
  <2>10. Keeps(I, G, O, u)
    BY <2>3, <2>4, <2>5, <2>9, MergeNodeKeeps
  <2> HIDE DEF ids
  <2>11. Done(i, u)
    BY <2>3, <2>7, <2>8, <2>10 DEF Absorbed
  <2> HIDE DEF Done
  <2> QED BY <2>2, <2>11
<1>6. n \in W
  <2> HIDE DEF n, W
  <2>1. \A i \in 0..n : i \in W
    BY <1>1, <1>4, <1>5, Steps
  <2> QED BY <1>1, <2>1
<1>7. PICK u : u = h[n]
  OBVIOUS
<1>9. u \in RGAStates(I) /\ u.nodes \in G /\ ToSet(u.pending) \subseteq O
  <2> HIDE DEF ids
  <2> QED BY <1>6, <1>7 DEF Keeps
<1>10. u = [clock |-> u.clock, nodes |-> u.nodes, pending |-> u.pending]
       /\ u.clock \in Nat /\ u.nodes \in Seq(NodesOf(I)) /\ u.pending \in Seq(WaitingOf(I))
  BY <1>9 DEF RGAStates
<1>11. PICK m : m = Marked(u.nodes, Gone(o))
  OBVIOUS
<1>12. PICK t : t = [clock |-> u.clock, nodes |-> m, pending |-> u.pending]
  OBVIOUS
<1>13. SeqMerge(s, o) = t
  BY <1>0, <1>7, <1>10, <1>11, <1>12
<1>14. m \in Seq(NodesOf(I))
  BY <1>10, <1>11, MarkedMarks
<1>15. m \in G
  BY <1>9, <1>11 DEF MarksIn
<1>16. t \in RGAStates(I)
  BY <1>10, <1>12, <1>14 DEF RGAStates
<1> QED BY <1>9, <1>12, <1>13, <1>15, <1>16 DEF Keeps

-----------------------------------------------------------------------------
(* A replica's counter stays ahead of its ids.                             *)

\* The clocks of the ids that a replica over I is made of.
LEMMA StateIds ==
    ASSUME NEW I, NEW s \in RGAStates(I)
    PROVE  /\ s.clock \in Nat
           /\ Ids(s.nodes) \subseteq I
           /\ \A e \in ToSet(s.pending) : e.id \in I
<1>1. s.clock \in Nat /\ s.nodes \in Seq(NodesOf(I))
  BY DEF RGAStates
<1>2. \A e \in ToSet(s.pending) : e \in WaitingOf(I)
  BY DEF RGAStates, ToSet
<1> QED BY <1>1, <1>2, IdsTyped DEF WaitingOf

LEMMA ApplyCounts ==
    ASSUME NEW I, \A id \in I : id.clock \in Nat,
           NEW s \in RGAStates(I), NEW op \in OpsOver(I), Counted(s),
           NEW t, t = SeqApply(s, op)
    PROVE  /\ t \in RGAStates(I) /\ Counted(t)
           /\ t.clock = s.clock \/ t.clock = op.id.clock
           /\ s.clock <= t.clock /\ op.id.clock <= t.clock
<1>1. op.id \in I /\ op.id.clock \in Nat
  BY DEF OpsOver, WaitingOf, DeletesOf
<1>2. t \in RGAStates(I) /\ Applied(s, op, t)
  BY <1>1, ApplyApplies
<1>3. /\ s.clock \in Nat /\ t.clock \in Nat
      /\ t.clock = IF op.id.clock > s.clock THEN op.id.clock ELSE s.clock
  BY <1>2, StateIds DEF Applied
<1>4. s.clock <= t.clock /\ op.id.clock <= t.clock
  BY <1>1, <1>3
<1>5. ASSUME NEW i \in Ids(t.nodes) PROVE i.clock <= t.clock
  <2>1. i \in Ids(s.nodes) \/ \E e \in ToSet(s.pending) \cup {op} : e.id = i
    BY <1>2, <1>5 DEF Applied
  <2>2. i.clock <= s.clock \/ i.clock = op.id.clock
    BY <2>1 DEF Counted
  <2>3. i.clock \in Nat
    BY <1>2, <1>5, StateIds
  <2> QED BY <1>1, <1>3, <1>4, <2>2, <2>3
<1>6. ASSUME NEW e \in ToSet(t.pending) PROVE e.id.clock <= t.clock
  <2>1. e \in ToSet(s.pending) \/ e = op
    BY <1>2, <1>6 DEF Applied
  <2>2. e.id.clock <= s.clock \/ e.id.clock = op.id.clock
    BY <2>1 DEF Counted
  <2>3. e.id.clock \in Nat
    BY <1>2, <1>6, StateIds
  <2> QED BY <1>1, <1>3, <1>4, <2>2, <2>3
<1> QED BY <1>2, <1>3, <1>4, <1>5, <1>6 DEF Counted

LEMMA MergeCounts ==
    ASSUME NEW I, \A id \in I : id.clock \in Nat,
           NEW s \in RGAStates(I), NEW o \in RGAStates(I), Counted(s), Counted(o),
           NEW t, t = SeqMerge(s, o)
    PROVE  /\ t \in RGAStates(I) /\ Counted(t)
           /\ t.clock = s.clock \/ t.clock = o.clock
           /\ s.clock <= t.clock /\ o.clock <= t.clock
<1>1. t \in RGAStates(I) /\ Merged(s, o, t)
  BY MergeMerges
<1>2. /\ s.clock \in Nat /\ t.clock \in Nat /\ o.clock \in Nat
      /\ t.clock = IF o.clock > s.clock THEN o.clock ELSE s.clock
  BY <1>1, StateIds DEF Merged
<1>3. s.clock <= t.clock /\ o.clock <= t.clock
  BY <1>2
<1>4. ASSUME NEW i \in Ids(t.nodes) PROVE i.clock <= t.clock
  <2>1. i \in Ids(s.nodes) \/ i \in Ids(o.nodes) \/ \E e \in ToSet(s.pending) : e.id = i
    BY <1>1, <1>4 DEF Merged
  <2>2. i.clock <= s.clock \/ i.clock <= o.clock
    BY <2>1 DEF Counted
  <2>3. i.clock \in Nat
    BY <1>1, <1>4, StateIds
  <2> QED BY <1>2, <1>3, <2>2, <2>3
<1>5. ASSUME NEW e \in ToSet(t.pending) PROVE e.id.clock <= t.clock
  <2>1. e \in ToSet(s.pending)
    BY <1>1, <1>5 DEF Merged
  <2>2. e.id.clock <= s.clock /\ e.id.clock \in Nat
    BY <2>1, StateIds DEF Counted
  <2> QED BY <1>2, <1>3, <2>2
<1> QED BY <1>1, <1>2, <1>3, <1>4, <1>5 DEF Counted

-----------------------------------------------------------------------------
(* The document order of a sequence.                                       *)

\* An insert's anchor was made before it.
Anchored(P) ==
    \A e \in P : \/ e.after = Head0
                 \/ e.after \in {f.id : f \in P} /\ e.after.clock < e.id.clock

\* f gives the path of every id in D.
IsPath(f, D, anchor) ==
    f = [i \in D |-> IF anchor[i] = Head0 THEN <<i>> ELSE Append(f[anchor[i]], i)]

\* The clocks of the ids in A are at most n, and an anchor's is below its id's.
Older(n, A, anchor) ==
    /\ \A i \in A : i.clock \in 0..n
    /\ \A i \in A : anchor[i] = Head0 \/ (anchor[i] \in A /\ anchor[i].clock < i.clock)

\* Paths exist because anchors are older.
LEMMA PathExists ==
    ASSUME NEW n \in Nat, NEW A, NEW anchor, Older(n, A, anchor)
    PROVE  \E f : IsPath(f, A, anchor)
<1> DEFINE Upto(k) == {i \in A : i.clock <= k}
           W == {k \in 0..n : \E f : IsPath(f, Upto(k), anchor)}
<1>1. 0 \in W
  <2> DEFINE f == [i \in Upto(0) |-> <<i>>]
  <2>1. \A i \in Upto(0) : anchor[i] = Head0
    BY DEF Older
  <2>2. IsPath(f, Upto(0), anchor)
    BY <2>1 DEF IsPath
  <2> HIDE DEF f, Upto
  <2>3. 0 \in 0..n
    OBVIOUS
  <2> QED BY <2>2, <2>3
<1>2. ASSUME NEW k \in 1..n, k - 1 \in W PROVE k \in W
  <2>1. PICK f : IsPath(f, Upto(k - 1), anchor)
    BY <1>2
  <2> DEFINE step(i) == IF anchor[i] = Head0 THEN <<i>> ELSE Append(f[anchor[i]], i)
             g == [i \in Upto(k) |-> step(i)]
  <2>2. \A i \in Upto(k - 1) : i \in Upto(k) /\ f[i] = step(i)
    <3>1. \A i \in Upto(k - 1) : i \in Upto(k)
      BY DEF Older
    <3> HIDE DEF Upto
    <3> QED BY <2>1, <3>1 DEF IsPath
  <2>3. \A i \in Upto(k) : g[i] = step(i)
    OBVIOUS
  <2>4. ASSUME NEW i \in Upto(k), anchor[i] # Head0 PROVE anchor[i] \in Upto(k - 1)
    BY <2>4 DEF Older
  <2>5. g = [i \in Upto(k) |-> g[i]]
    OBVIOUS
  <2> HIDE DEF g
  <2>6. \A i \in Upto(k) :
           g[i] = IF anchor[i] = Head0 THEN <<i>> ELSE Append(g[anchor[i]], i)
    <3> TAKE i \in Upto(k)
    <3>1. CASE anchor[i] = Head0
      BY <2>3, <3>1
    <3>2. CASE anchor[i] # Head0
      <4>1. anchor[i] \in Upto(k - 1)
        BY <2>4, <3>2
      <4>2. g[anchor[i]] = f[anchor[i]]
        BY <2>2, <2>3, <4>1
      <4> QED BY <2>3, <3>2, <4>2
    <3> QED BY <3>1, <3>2
  <2>7. IsPath(g, Upto(k), anchor)
    <3> HIDE DEF Upto, step
    <3> QED BY <2>5, <2>6 DEF IsPath
  <2> QED BY <2>7
<1> HIDE DEF W
<1>3. n \in W
  BY <1>1, <1>2, Steps
<1>4. Upto(n) = A
  BY DEF Older
<1> QED BY <1>3, <1>4 DEF W

\* f leads through the anchors.
FollowsAnchors(f, A, anchor) ==
    \A i \in A :
       ToSet(f[i]) = {i} \cup (IF anchor[i] = Head0 THEN {} ELSE ToSet(f[anchor[i]]))

\* A path is the id itself after the path of its anchor.
LEMMA PathMembers ==
    ASSUME NEW n \in Nat, NEW A, NEW anchor, Older(n, A, anchor), NEW f, IsPath(f, A, anchor)
    PROVE  FollowsAnchors(f, A, anchor)
<1> DEFINE W == {k \in 0..n : \A i \in A : i.clock <= k => f[i] \in Seq(A)}
<1>1. \A i \in A : f[i] = IF anchor[i] = Head0 THEN <<i>> ELSE Append(f[anchor[i]], i)
  BY DEF IsPath
<1>2. ASSUME NEW i \in A PROVE <<i>> \in Seq(A) /\ ToSet(<<i>>) = {i}
  BY DEF ToSet
<1>3. 0 \in W
  <2>1. ASSUME NEW i \in A, i.clock <= 0 PROVE anchor[i] = Head0
    BY <2>1 DEF Older
  <2>2. \A i \in A : i.clock <= 0 => f[i] \in Seq(A)
    BY <1>1, <1>2, <2>1
  <2> QED BY <2>2
<1>4. ASSUME NEW k \in 1..n, k - 1 \in W PROVE k \in W
  <2>1. ASSUME NEW i \in A, i.clock <= k PROVE f[i] \in Seq(A)
    <3>1. CASE anchor[i] = Head0
      BY <1>1, <1>2, <3>1
    <3>2. CASE anchor[i] # Head0
      <4>1. anchor[i] \in A /\ anchor[i].clock <= k - 1
        BY <2>1, <3>2 DEF Older
      <4>2. PICK s : s = f[anchor[i]]
        OBVIOUS
      <4>3. s \in Seq(A)
        BY <1>4, <4>1, <4>2
      <4>4. Append(s, i) \in Seq(A)
        BY <4>3
      <4> QED BY <1>1, <3>2, <4>2, <4>4
    <3> QED BY <3>1, <3>2
  <2> QED BY <2>1
<1> HIDE DEF W
<1>5. n \in W
  BY <1>3, <1>4, Steps
<1>6. \A i \in A : f[i] \in Seq(A)
  BY <1>5 DEF W, Older
<1>7. ASSUME NEW i \in A
      PROVE  ToSet(f[i]) = {i} \cup (IF anchor[i] = Head0 THEN {} ELSE ToSet(f[anchor[i]]))
  <2>1. CASE anchor[i] = Head0
    BY <1>1, <1>2, <2>1
  <2>2. CASE anchor[i] # Head0
    <3>1. PICK s : s = f[anchor[i]]
      OBVIOUS
    <3>2. s \in Seq(A)
      BY <1>6, <2>2, <3>1 DEF Older
    <3>3. ToSet(Append(s, i)) = ToSet(s) \cup {i}
      BY <3>2, AppendAdds
    <3>4. f[i] = Append(s, i)
      BY <1>1, <2>2, <3>1
    <3> QED BY <2>2, <3>1, <3>3, <3>4
  <2> QED BY <2>1, <2>2
<1> QED BY <1>7 DEF FollowsAnchors

\* The document order on paths, position by position.
PathBefore(p, q) ==
    \/ Len(p) < Len(q) /\ \A k \in 1..Len(p) : p[k] = q[k]
    \/ \E d \in 1..Len(p) : /\ d <= Len(q) /\ \A j \in 1..(d - 1) : p[j] = q[j]
                            /\ IdGreater(p[d], q[d])

\* Ids whose parts are numbers are totally ordered.
Numbered(A) == \A i \in A : /\ i.clock \in Nat /\ i.node \in Nat
                            /\ i = [clock |-> i.clock, node |-> i.node]

LEMMA IdsOrdered ==
    ASSUME NEW A, Numbered(A)
    PROVE  /\ \A a \in A : ~IdGreater(a, a)
           /\ \A a, b, c \in A : IdGreater(a, b) /\ IdGreater(b, c) => IdGreater(a, c)
           /\ \A a, b \in A : a # b => IdGreater(a, b) \/ IdGreater(b, a)
           /\ \A a, b \in A : a.clock > b.clock => IdGreater(a, b)
BY DEF Numbered, IdGreater, Later

LEMMA PrefixByPositions ==
    ASSUME NEW A, NEW p \in Seq(A), NEW q \in Seq(A)
    PROVE  IsStrictPrefix(p, q) <=> Len(p) < Len(q) /\ \A k \in 1..Len(p) : p[k] = q[k]
<1> DEFINE l == Len(p)
<1>1. l \in Nat /\ Len(q) \in Nat
  OBVIOUS
<1>2. ASSUME l <= Len(q)
      PROVE  SubSeq(p, 1, l) = SubSeq(q, 1, l) <=> \A k \in 1..l : p[k] = q[k]
  <2>1. SubSeq(p, 1, l) \in Seq(A) /\ Len(SubSeq(p, 1, l)) = l
        /\ \A k \in 1..l : SubSeq(p, 1, l)[k] = p[k]
    OBVIOUS
  <2>2. SubSeq(q, 1, l) \in Seq(A) /\ Len(SubSeq(q, 1, l)) = l
        /\ \A k \in 1..l : SubSeq(q, 1, l)[k] = q[k]
    BY <1>1, <1>2
  <2>3. PICK a : a = SubSeq(p, 1, l)
    OBVIOUS
  <2>4. PICK b : b = SubSeq(q, 1, l)
    OBVIOUS
  <2>5. /\ a \in Seq(A) /\ b \in Seq(A) /\ Len(a) = l /\ Len(b) = l
        /\ \A k \in 1..l : a[k] = p[k] /\ b[k] = q[k]
    BY <2>1, <2>2, <2>3, <2>4
  <2>6. (\A k \in 1..l : a[k] = b[k]) => a = b
    BY <2>5
  <2> QED BY <2>3, <2>4, <2>5, <2>6
<1>3. ASSUME l = Len(q), \A k \in 1..l : p[k] = q[k] PROVE p = q
  BY <1>3
<1>4. l < Len(q) => p # q
  BY <1>1
<1> QED BY <1>1, <1>2, <1>3, <1>4 DEF IsStrictPrefix, IsPrefix

LEMMA DocumentByPositions ==
    ASSUME NEW A, NEW p \in Seq(A), NEW q \in Seq(A)
    PROVE  DocumentBefore(p, q) <=> PathBefore(p, q)
<1>1. DOMAIN p \cap DOMAIN q = {d \in 1..Len(p) : d <= Len(q)} /\ Len(p) \in Nat /\ Len(q) \in Nat
  OBVIOUS
<1>2. \A d : d \in DOMAIN p \cap DOMAIN q <=> d \in 1..Len(p) /\ d <= Len(q)
  BY <1>1
<1>3. IsStrictPrefix(p, q) <=> Len(p) < Len(q) /\ \A k \in 1..Len(p) : p[k] = q[k]
  BY PrefixByPositions
<1> QED BY <1>2, <1>3 DEF DocumentBefore, PathBefore

LEMMA BeforeOrders ==
    ASSUME NEW A, Numbered(A), NEW p \in Seq(A), NEW q \in Seq(A), NEW r \in Seq(A)
    PROVE  /\ ~PathBefore(p, p)
           /\ PathBefore(p, q) /\ PathBefore(q, r) => PathBefore(p, r)
<1>1. Len(p) \in Nat /\ Len(q) \in Nat /\ Len(r) \in Nat
  OBVIOUS
<1>2. /\ \A k \in 1..Len(p) : p[k] \in A
      /\ \A k \in 1..Len(q) : q[k] \in A
      /\ \A k \in 1..Len(r) : r[k] \in A
  OBVIOUS
<1>3. /\ \A a \in A : ~IdGreater(a, a)
      /\ \A a, b, c \in A : IdGreater(a, b) /\ IdGreater(b, c) => IdGreater(a, c)
  BY IdsOrdered
<1>4. ~PathBefore(p, p)
  BY <1>1, <1>2, <1>3 DEF PathBefore
<1> DEFINE Shorter(x, y) == Len(x) < Len(y) /\ \A k \in 1..Len(x) : x[k] = y[k]
           Parts(x, y, d) == /\ d \in 1..Len(x) /\ d <= Len(y)
                             /\ \A j \in 1..(d - 1) : x[j] = y[j]
                             /\ IdGreater(x[d], y[d])
<1>5. ASSUME Shorter(p, q), Shorter(q, r) PROVE Shorter(p, r)
  BY <1>1, <1>5
<1>6. ASSUME NEW d, Shorter(p, q), Parts(q, r, d) PROVE Shorter(p, r) \/ Parts(p, r, d)
  <2>1. CASE d <= Len(p)
    BY <1>1, <1>6, <2>1
  <2>2. CASE Len(p) < d
    BY <1>1, <1>6, <2>2
  <2> QED BY <1>1, <1>6, <2>1, <2>2
<1>7. ASSUME NEW d, Parts(p, q, d), Shorter(q, r) PROVE Parts(p, r, d)
  BY <1>1, <1>7
<1>8. ASSUME NEW d, NEW e, Parts(p, q, d), Parts(q, r, e)
      PROVE  \E f : Parts(p, r, f)
  <2>1. CASE d < e
    <3>1. Parts(p, r, d)
      BY <1>1, <1>8, <2>1
    <3> QED BY <3>1
  <2>2. CASE e < d
    <3>1. Parts(p, r, e)
      BY <1>1, <1>8, <2>2
    <3> QED BY <3>1
  <2>3. CASE d = e
    <3>1. IdGreater(p[d], r[d])
      BY <1>1, <1>2, <1>3, <1>8, <2>3
    <3>2. Parts(p, r, d)
      BY <1>1, <1>8, <2>3, <3>1
    <3> QED BY <3>2
  <2> QED BY <1>1, <1>8, <2>1, <2>2, <2>3
<1>9. ASSUME NEW x, NEW y PROVE PathBefore(x, y) <=> Shorter(x, y) \/ \E d : Parts(x, y, d)
  BY DEF PathBefore
<1> HIDE DEF Shorter, Parts
<1> QED BY <1>4, <1>5, <1>6, <1>7, <1>8, <1>9

\* Paths that differ, and do so in their last id when they are equally long,
\* are in order one way or the other.
LEMMA BeforeTotal ==
    ASSUME NEW A, Numbered(A), NEW p \in Seq(A), NEW q \in Seq(A),
           Len(p) = Len(q) => \E k \in 1..Len(p) : p[k] # q[k]
    PROVE  PathBefore(p, q) \/ PathBefore(q, p)
<1> DEFINE Differ == {k \in 1..Len(p) : k <= Len(q) /\ p[k] # q[k]}
<1>1. Len(p) \in Nat /\ Len(q) \in Nat
  OBVIOUS
<1>2. CASE Differ = {}
  <2>1. \A k \in 1..Len(p) : k <= Len(q) => p[k] = q[k]
    BY <1>2
  <2>2. Len(p) < Len(q) \/ Len(q) < Len(p)
    BY <1>1, <2>1
  <2> QED BY <1>1, <2>1, <2>2 DEF PathBefore
<1>3. CASE Differ # {}
  <2>1. Differ \in SUBSET Nat
    OBVIOUS
  <2>2. PICK d \in Differ : \A k \in Differ : d <= k
    BY <1>3, <2>1, Least
  <2>3. p[d] \in A /\ q[d] \in A /\ p[d] # q[d] /\ d \in 1..Len(p) /\ d \in 1..Len(q)
    BY <1>1, <2>2
  <2>4. IdGreater(p[d], q[d]) \/ IdGreater(q[d], p[d])
    BY <2>3, IdsOrdered
  <2>5. \A j \in 1..(d - 1) : p[j] = q[j] /\ q[j] = p[j]
    BY <1>1, <2>2, <2>3
  <2> QED BY <1>1, <2>3, <2>4, <2>5 DEF PathBefore
<1> QED BY <1>2, <1>3

\* What a path is made of: it ends with its id; cut after any of its ids it is
\* the path of that id; its ids are older towards the start.
Link(f, A, i) ==
    /\ f[i] \in Seq(A) /\ Len(f[i]) >= 1 /\ f[i][Len(f[i])] = i
    /\ \A k \in 1..Len(f[i]) :
          Len(f[f[i][k]]) = k /\ \A j \in 1..k : f[f[i][k]][j] = f[i][j]
    /\ \A k \in 1..(Len(f[i]) - 1) : f[i][k].clock < i.clock

\* A path continues the path of its anchor.
Continues(f, anchor, i) ==
    IF anchor[i] = Head0 THEN Len(f[i]) = 1
    ELSE /\ Len(f[i]) = Len(f[anchor[i]]) + 1
         /\ \A j \in 1..Len(f[anchor[i]]) : f[i][j] = f[anchor[i]][j]

LEMMA PathLinks ==
    ASSUME NEW n \in Nat, NEW A, NEW anchor, Older(n, A, anchor), NEW f, IsPath(f, A, anchor)
    PROVE  /\ \A i \in A : Link(f, A, i)
           /\ \A i \in A : Continues(f, anchor, i)
<1>1. \A i \in A : f[i] = IF anchor[i] = Head0 THEN <<i>> ELSE Append(f[anchor[i]], i)
  BY DEF IsPath
<1>2. \A i \in A : /\ i.clock \in 0..n
                   /\ anchor[i] = Head0 \/ (anchor[i] \in A /\ anchor[i].clock < i.clock)
  BY DEF Older
<1>3. ASSUME NEW i \in A, anchor[i] = Head0
      PROVE  /\ f[i] \in Seq(A) /\ Len(f[i]) = 1 /\ f[i][1] = i
             /\ Link(f, A, i)
  <2>1. f[i] = <<i>>
    BY <1>1, <1>3
  <2>2. f[i] \in Seq(A) /\ Len(f[i]) = 1 /\ f[i][1] = i
    BY <2>1
  <2>3. \A k \in 1..1 : k = 1
    OBVIOUS
  <2> QED BY <2>2, <2>3 DEF Link
<1>4. ASSUME NEW i \in A, anchor[i] # Head0, f[anchor[i]] \in Seq(A)
      PROVE  LET a == anchor[i]
                 l == Len(f[a])
             IN  /\ f[i] \in Seq(A) /\ l \in Nat /\ Len(f[i]) = l + 1 /\ f[i][l + 1] = i
                 /\ \A j \in 1..l : f[i][j] = f[a][j]
  <2>1. PICK p : p = f[anchor[i]]
    OBVIOUS
  <2>2. p \in Seq(A) /\ f[i] = Append(p, i)
    BY <1>1, <1>4, <2>1
  <2>3. /\ Append(p, i) \in Seq(A) /\ Len(Append(p, i)) = Len(p) + 1
        /\ \A j \in 1..Len(p) : Append(p, i)[j] = p[j]
        /\ Append(p, i)[Len(p) + 1] = i
    BY <2>2, AppendAdds
  <2>4. Len(p) \in Nat
    BY <2>2
  <2> QED BY <2>1, <2>2, <2>3, <2>4
<1>5. ASSUME NEW i \in A, anchor[i] # Head0, Link(f, A, anchor[i]) PROVE Link(f, A, i)
  <2>1. PICK a : a = anchor[i]
    OBVIOUS
  <2>2. PICK l : l = Len(f[a])
    OBVIOUS
  <2>3. a \in A /\ a.clock < i.clock /\ i.clock \in Nat /\ a.clock \in Nat /\ Link(f, A, a)
    BY <1>2, <1>5, <2>1
  <2>4. /\ f[i] \in Seq(A) /\ l \in Nat /\ Len(f[i]) = l + 1 /\ f[i][l + 1] = i
        /\ \A j \in 1..l : f[i][j] = f[a][j]
    BY <1>4, <1>5, <2>1, <2>2, <2>3 DEF Link
  <2>5. ASSUME NEW k \in 1..Len(f[i])
        PROVE  Len(f[f[i][k]]) = k /\ \A j \in 1..k : f[f[i][k]][j] = f[i][j]
    <3>1. CASE k = l + 1
      BY <2>4, <3>1
    <3>2. CASE k \in 1..l
      <4>1. Len(f[f[a][k]]) = k /\ \A j \in 1..k : f[f[a][k]][j] = f[a][j]
        BY <2>2, <2>3, <3>2 DEF Link
      <4>2. f[i][k] = f[a][k] /\ \A j \in 1..k : f[i][j] = f[a][j]
        BY <2>4, <3>2
      <4> QED BY <4>1, <4>2
    <3> QED BY <2>4, <3>1, <3>2
  <2>6. ASSUME NEW k \in 1..(Len(f[i]) - 1) PROVE f[i][k].clock < i.clock
    <3>1. k \in 1..l /\ f[i][k] = f[a][k]
      BY <2>4
    <3>2. f[a][l] = a /\ \A j \in 1..(l - 1) : f[a][j].clock < a.clock
      BY <2>2, <2>3 DEF Link
    <3>3. f[i][k] \in A
      BY <2>4
    <3>4. f[i][k].clock \in Nat
      BY <1>2, <3>3
    <3>5. k = l \/ k \in 1..(l - 1)
      BY <2>4, <3>1
    <3>6. f[i][k].clock <= a.clock
      BY <2>3, <3>1, <3>2, <3>4, <3>5
    <3> QED BY <2>3, <3>4, <3>6
  <2> QED BY <2>4, <2>5, <2>6 DEF Link
<1> DEFINE W == {k \in 0..n : \A i \in A : i.clock <= k => Link(f, A, i)}
<1>6. 0 \in W
  <2>1. ASSUME NEW i \in A, i.clock <= 0 PROVE anchor[i] = Head0
    BY <1>2, <2>1
  <2>2. \A i \in A : i.clock <= 0 => Link(f, A, i)
    BY <1>3, <2>1
  <2> QED BY <2>2
<1>7. ASSUME NEW k \in 1..n, k - 1 \in W PROVE k \in W
  <2>1. ASSUME NEW i \in A, i.clock <= k PROVE Link(f, A, i)
    <3>1. CASE anchor[i] = Head0
      BY <1>3, <3>1
    <3>2. CASE anchor[i] # Head0
      <4>1. anchor[i] \in A /\ anchor[i].clock <= k - 1
        BY <1>2, <2>1, <3>2
      <4>2. Link(f, A, anchor[i])
        BY <1>7, <4>1
      <4> QED BY <1>5, <3>2, <4>2
    <3> QED BY <3>1, <3>2
  <2> QED BY <2>1
<1> HIDE DEF W
<1>8. n \in W
  BY <1>6, <1>7, Steps
<1>9. \A i \in A : Link(f, A, i)
  BY <1>2, <1>8 DEF W
<1>10. ASSUME NEW i \in A PROVE Continues(f, anchor, i)
  <2>1. CASE anchor[i] = Head0
    BY <1>3, <2>1 DEF Continues
  <2>2. CASE anchor[i] # Head0
    <3>1. f[anchor[i]] \in Seq(A)
      BY <1>2, <1>9, <2>2 DEF Link
    <3> QED BY <1>4, <2>2, <3>1 DEF Continues
  <2> QED BY <2>1, <2>2
<1> QED BY <1>9, <1>10

\* The pairs of ids that the paths put in order.
Ordering(f, A) == {r \in A \X A : DocumentBefore(f[r[1]], f[r[2]])}

\* R orders A.
TotalOrder(R, A) ==
    /\ \A i \in A : <<i, i>> \notin R
    /\ \A i, j, k \in A : <<i, j>> \in R /\ <<j, k>> \in R => <<i, k>> \in R
    /\ \A i, j \in A : i # j => <<i, j>> \in R \/ <<j, i>> \in R

\* An id follows its anchor, and what is between the two is greater.
AfterAnchor(R, A, anchor) ==
    /\ \A x \in A : anchor[x] # Head0 => <<anchor[x], x>> \in R
    /\ \A x, z \in A : /\ anchor[x] = Head0 \/ <<anchor[x], z>> \in R
                       /\ <<z, x>> \in R
                       => IdGreater(z, x)

LEMMA DocumentOrders ==
    ASSUME NEW n \in Nat, NEW A, NEW anchor, Older(n, A, anchor), Numbered(A),
           NEW f, IsPath(f, A, anchor), NEW R, R = Ordering(f, A)
    PROVE  TotalOrder(R, A) /\ AfterAnchor(R, A, anchor)
<1>1. /\ \A i \in A : Link(f, A, i)
      /\ \A i \in A : Continues(f, anchor, i)
  BY PathLinks
<1>2. \A i \in A : /\ f[i] \in Seq(A) /\ Len(f[i]) \in Nat /\ Len(f[i]) >= 1
                   /\ f[i][Len(f[i])] = i
                   /\ \A k \in 1..Len(f[i]) : f[i][k] \in A
  BY <1>1 DEF Link
<1>3. \A i, j \in A : <<i, j>> \in R <=> PathBefore(f[i], f[j])
  <2> TAKE i \in A, j \in A
  <2>1. <<i, j>> \in R <=> DocumentBefore(f[i], f[j])
    BY DEF Ordering
  <2>2. PICK p : p = f[i]
    OBVIOUS
  <2>3. PICK q : q = f[j]
    OBVIOUS
  <2>4. p \in Seq(A) /\ q \in Seq(A)
    BY <1>2, <2>2, <2>3
  <2>5. DocumentBefore(p, q) <=> PathBefore(p, q)
    BY <2>4, DocumentByPositions
  <2> QED BY <2>1, <2>2, <2>3, <2>5
<1>4. \A i, j \in A : i.clock > j.clock => IdGreater(i, j)
  BY IdsOrdered
<1>5. TotalOrder(R, A)
  <2>1. ASSUME NEW i \in A PROVE ~PathBefore(f[i], f[i])
    BY <1>2, BeforeOrders
  <2>2. ASSUME NEW i \in A, NEW j \in A, NEW k \in A, PathBefore(f[i], f[j]), PathBefore(f[j], f[k])
        PROVE  PathBefore(f[i], f[k])
    <3>1. PICK p : p = f[i]
      OBVIOUS
    <3>2. PICK q : q = f[j]
      OBVIOUS
    <3>3. PICK r : r = f[k]
      OBVIOUS
    <3>4. p \in Seq(A) /\ q \in Seq(A) /\ r \in Seq(A) /\ PathBefore(p, q) /\ PathBefore(q, r)
      BY <1>2, <2>2, <3>1, <3>2, <3>3
    <3>5. PathBefore(p, r)
      BY <3>4, BeforeOrders
    <3> QED BY <3>1, <3>3, <3>5
  <2>3. ASSUME NEW i \in A, NEW j \in A, i # j PROVE PathBefore(f[i], f[j]) \/ PathBefore(f[j], f[i])
    <3>1. PICK p : p = f[i]
      OBVIOUS
    <3>2. PICK q : q = f[j]
      OBVIOUS
    <3>3. /\ p \in Seq(A) /\ q \in Seq(A)
          /\ Len(p) = Len(q) => \E k \in 1..Len(p) : p[k] # q[k]
      BY <1>2, <2>3, <3>1, <3>2
    <3>4. PathBefore(p, q) \/ PathBefore(q, p)
      BY <3>3, BeforeTotal
    <3> QED BY <3>1, <3>2, <3>4
  <2> QED BY <1>3, <2>1, <2>2, <2>3 DEF TotalOrder
\* The path of an id on the path of i leads to i.
<1>6. ASSUME NEW i \in A, NEW k \in 1..Len(f[i])
      PROVE  LET c == f[i][k]
             IN  /\ c \in A /\ Len(f[c]) = k /\ \A j \in 1..k : f[c][j] = f[i][j]
                 /\ c = i \/ (c.clock < i.clock /\ PathBefore(f[c], f[i]))
  <2>1. Link(f, A, i)
    BY <1>1
  <2>2. /\ Len(f[f[i][k]]) = k /\ \A j \in 1..k : f[f[i][k]][j] = f[i][j]
        /\ k = Len(f[i]) \/ f[i][k].clock < i.clock
    BY <1>2, <2>1 DEF Link
  <2>3. k < Len(f[i]) => PathBefore(f[f[i][k]], f[i])
    BY <2>2 DEF PathBefore
  <2> QED BY <1>2, <2>2, <2>3
<1>7. ASSUME NEW x \in A, anchor[x] # Head0 PROVE anchor[x] \in A /\ PathBefore(f[anchor[x]], f[x])
  <2>1. anchor[x] \in A
    BY <1>7 DEF Older
  <2>2. Continues(f, anchor, x)
    BY <1>1
  <2> QED BY <1>2, <1>7, <2>1, <2>2 DEF Continues, PathBefore
\* An id that parts from the path of x at the last id of it.
<1>8. ASSUME NEW x \in A, NEW z \in A, NEW d \in 1..Len(f[z]), d = Len(f[x]), IdGreater(f[z][d], x)
      PROVE  IdGreater(z, x)
  <2>1. PICK c : c = f[z][d]
    OBVIOUS
  <2>2. c \in A /\ IdGreater(c, x) /\ (c = z \/ c.clock < z.clock)
    BY <1>6, <1>8, <2>1
  <2>3. \A a, b, e \in A : IdGreater(a, b) /\ IdGreater(b, e) => IdGreater(a, e)
    BY IdsOrdered
  <2>4. c = z \/ IdGreater(z, c)
    <3>1. z.clock \in Nat /\ c.clock \in Nat
      BY <2>2 DEF Numbered
    <3> QED BY <1>4, <2>2, <3>1
  <2> QED BY <2>2, <2>3, <2>4
<1>9. AfterAnchor(R, A, anchor)
  <2>1. ASSUME NEW x \in A, NEW z \in A, anchor[x] = Head0 \/ <<anchor[x], z>> \in R,
               <<z, x>> \in R
        PROVE  IdGreater(z, x)
    <3>1. PathBefore(f[z], f[x])
      BY <1>3, <2>1
    <3>2. f[x][Len(f[x])] = x /\ Len(f[x]) \in Nat /\ Len(f[z]) \in Nat
          /\ Len(f[x]) >= 1 /\ Len(f[z]) >= 1
      BY <1>2
    <3>3. CASE anchor[x] = Head0
      <4>1. Len(f[x]) = 1
        BY <1>1, <3>3 DEF Continues
      <4>2. IdGreater(f[z][1], x)
        BY <3>1, <3>2, <4>1 DEF PathBefore
      <4>3. 1 \in 1..Len(f[z])
        BY <3>2
      <4> QED BY <1>8, <4>1, <4>2, <4>3
    <3>4. CASE anchor[x] # Head0
      <4>1. PICK a : a = anchor[x]
        OBVIOUS
      <4>2. PICK l : l = Len(f[a])
        OBVIOUS
      <4>3. /\ a \in A /\ l \in Nat /\ l >= 1 /\ Len(f[x]) = l + 1
            /\ \A j \in 1..l : f[x][j] = f[a][j]
        <5>1. a \in A
          BY <1>7, <3>4, <4>1
        <5>2. Continues(f, anchor, x)
          BY <1>1
        <5> QED BY <1>2, <3>4, <4>1, <4>2, <5>1, <5>2 DEF Continues
      <4>4. <<a, z>> \in R /\ z # a /\ ~PathBefore(f[z], f[a])
        <5>1. <<a, z>> \in R
          BY <2>1, <3>4, <4>1
        <5>2. z # a /\ <<z, a>> \notin R
          BY <1>5, <4>3, <5>1 DEF TotalOrder
        <5> QED BY <1>3, <4>3, <5>1, <5>2
      <4>5. ~(Len(f[z]) < Len(f[x]) /\ \A k \in 1..Len(f[z]) : f[z][k] = f[x][k])
        <5> SUFFICES ASSUME Len(f[z]) <= l, \A k \in 1..Len(f[z]) : f[z][k] = f[a][k]
                     PROVE  FALSE
          BY <3>2, <4>3
        <5>1. CASE Len(f[z]) < l
          BY <4>2, <4>4, <5>1 DEF PathBefore
        <5>2. CASE Len(f[z]) = l
          <6>1. f[z][l] = z /\ f[a][l] = a
            BY <1>2, <4>2, <4>3, <5>2
          <6> QED BY <3>2, <4>3, <4>4, <5>2, <6>1
        <5> QED BY <3>2, <4>3, <5>1, <5>2
      <4>6. PICK d \in 1..Len(f[z]) :
               /\ d <= Len(f[x]) /\ \A j \in 1..(d - 1) : f[z][j] = f[x][j]
               /\ IdGreater(f[z][d], f[x][d])
        BY <3>1, <4>5 DEF PathBefore
      <4>7. CASE d <= l
        <5>1. /\ f[x][d] = f[a][d]
              /\ \A j \in 1..(d - 1) : f[z][j] = f[a][j]
          BY <4>3, <4>6, <4>7
        <5>2. PathBefore(f[z], f[a])
          BY <4>2, <4>6, <4>7, <5>1 DEF PathBefore
        <5> QED BY <4>4, <5>2
      <4>8. CASE d = l + 1
        <5>1. d = Len(f[x]) /\ f[x][d] = x
          BY <3>2, <4>3, <4>8
        <5>2. IdGreater(f[z][d], x)
          BY <4>6, <5>1
        <5> QED BY <1>8, <5>1, <5>2
      <4> QED BY <4>3, <4>6, <4>7, <4>8
    <3> QED BY <3>3, <3>4
  <2> QED BY <1>3, <1>7, <2>1 DEF AfterAnchor
<1> QED BY <1>5, <1>9

\* Ids have numbers, and their anchors are among them and older.
Rooted(A, anchor) ==
    /\ Head0 \notin A
    /\ \A i \in A : i.clock \in Nat /\ i.node \in Nat
    /\ \A i \in A : anchor[i] = Head0 \/ (anchor[i] \in A /\ anchor[i].clock < i.clock)

\* What is known of the order of the ids in A.
Document(R, A, anchor) ==
    TotalOrder(R, A) /\ AfterAnchor(R, A, anchor) /\ Rooted(A, anchor)

\* A list of nodes in the order R, with the anchors of all its ids.
InOrder(nodes, R, A, anchor) ==
    /\ Ids(nodes) \subseteq A
    /\ \A i \in Ids(nodes) : anchor[i] = Head0 \/ anchor[i] \in Ids(nodes)
    /\ SortedBy(nodes, R)

OrderedLists(I, R, A, anchor) ==
    {nodes \in Seq(NodesOf(I)) : InOrder(nodes, R, A, anchor)}

\* Placing an insert keeps the list in order, when it is placed after its
\* anchor or after a node that is between its anchor and it.
Between(op, R, anchor) ==
    /\ op.after = Head0 => anchor[op.id] = Head0
    /\ op.after # Head0 => /\ <<op.after, op.id>> \in R
                           /\ \/ anchor[op.id] = Head0 \/ anchor[op.id] = op.after
                              \/ <<anchor[op.id], op.after>> \in R

\* Where a new node lands: after its anchor and all greater ids that follow, so
\* it pushes back the first id that is not greater.
Lands(nodes, op, start, pos, new) ==
    /\ start \in 1..(Len(nodes) + 1) /\ pos \in start..(Len(nodes) + 1)
    /\ IF op.after = Head0 THEN start = 1
       ELSE start - 1 \in 1..Len(nodes) /\ nodes[start - 1].id = op.after
    /\ \A q \in start..(pos - 1) : IdGreater(nodes[q].id, op.id)
    /\ pos <= Len(nodes) => ~IdGreater(nodes[pos].id, op.id)
    /\ DOMAIN new = 1..(Len(nodes) + 1) /\ new[pos].id = op.id
    /\ \A q \in 1..Len(nodes) : IF q < pos THEN new[q] = nodes[q] ELSE new[q + 1] = nodes[q]

LEMMA PlaceLands ==
    ASSUME NEW I, NEW nodes \in Seq(NodesOf(I)), NEW op \in WaitingOf(I),
           CanPlace(nodes, op), op.id \notin Ids(nodes)
    PROVE  \E start, pos : Lands(nodes, op, start, pos, Place(nodes, op))
<1> DEFINE N == Len(nodes)
           x == op.id
           start == IF op.after = Head0 THEN 1 ELSE PosOf(nodes, op.after) + 1
           stops == {p \in start..N : ~IdGreater(nodes[p].id, x)}
           pos == InsertPos(nodes, op)
<1>1. DOMAIN nodes = 1..N /\ N \in Nat
  OBVIOUS
<1>2. op.after # Head0 => /\ PosOf(nodes, op.after) \in 1..N
                          /\ nodes[PosOf(nodes, op.after)].id = op.after
  BY <1>1, InsertPosInside DEF CanPlace
<1>3. /\ start \in 1..(N + 1)
      /\ IF op.after = Head0 THEN start = 1
         ELSE start - 1 \in 1..N /\ nodes[start - 1].id = op.after
  BY <1>1, <1>2
<1>4. /\ pos \in start..(N + 1)
      /\ \A q \in start..(pos - 1) : IdGreater(nodes[q].id, x)
      /\ pos <= N => ~IdGreater(nodes[pos].id, x)
  <2>1. CASE stops = {}
    <3>1. pos = N + 1
      BY <2>1 DEF InsertPos
    <3> QED BY <1>1, <1>3, <2>1, <3>1
  <2>2. CASE stops # {}
    <3>1. stops \in SUBSET Nat
      BY <1>3
    <3>2. PICK p \in stops : \A q \in stops : p <= q
      BY <2>2, <3>1, Least
    <3>3. pos = CHOOSE y \in stops : \A q \in stops : y <= q
      BY <2>2 DEF InsertPos
    <3>4. pos \in stops /\ \A q \in stops : pos <= q
      BY <3>2, <3>3
    <3> QED BY <1>1, <1>3, <3>4
  <2> QED BY <2>1, <2>2
<1> HIDE DEF start, stops
<1>5. PICK p : p = pos
  OBVIOUS
<1>6. PICK e : e = NewNode(op)
  OBVIOUS
<1>7. PICK D : D = NodesOf(I)
  OBVIOUS
<1>8. e \in D /\ e.id = x
  BY <1>6, <1>7 DEF NewNode, NodesOf, WaitingOf
<1>9. p \in 1..(Len(nodes) + 1)
  BY <1>1, <1>3, <1>4, <1>5
<1>10. PICK new : new = InsertAt(nodes, p, e)
  OBVIOUS
<1>11. Place(nodes, op) = new
  BY <1>5, <1>6, <1>10 DEF Place, NewNode
<1>12. nodes \in Seq(D)
  BY <1>7
<1>13. \A i \in 1..(Len(nodes) + 1) :
          new[i] = IF i < p THEN nodes[i] ELSE IF i = p THEN e ELSE nodes[i - 1]
  <2>1. \A i \in 1..(Len(nodes) + 1) :
           InsertAt(nodes, p, e)[i] =
             IF i < p THEN nodes[i] ELSE IF i = p THEN e ELSE nodes[i - 1]
    BY ONLY <1>8, <1>9, <1>12, InsertAtAdds
  <2> QED BY ONLY <1>10, <2>1
<1>14. new \in Seq(D) /\ Len(new) = Len(nodes) + 1
  BY ONLY <1>8, <1>9, <1>10, <1>12, InsertAtAdds
<1>15. DOMAIN new = 1..(Len(nodes) + 1)
  BY <1>14
<1>16. new[p].id = x
  BY <1>8, <1>9, <1>13
<1>17. ASSUME NEW q \in 1..N
       PROVE  IF q < p THEN new[q] = nodes[q] ELSE new[q + 1] = nodes[q]
  BY <1>1, <1>9, <1>13
<1>18. Lands(nodes, op, start, p, new)
  BY <1>3, <1>4, <1>5, <1>15, <1>16, <1>17 DEF Lands
<1> QED BY <1>11, <1>18

\* The positions of the other nodes, before and after.
LEMMA LandsMoves ==
    ASSUME NEW I, NEW nodes \in Seq(NodesOf(I)), NEW op, NEW start, NEW pos, NEW new,
           Lands(nodes, op, start, pos, new)
    PROVE  /\ pos \in 1..(Len(nodes) + 1) /\ DOMAIN nodes = 1..Len(nodes) /\ Len(nodes) \in Nat
           /\ \A j \in DOMAIN new \ {pos} :
                 \E q \in 1..Len(nodes) :
                    new[j] = nodes[q] /\ (IF j < pos THEN j = q ELSE j = q + 1 /\ pos <= q)
<1>1. pos \in 1..(Len(nodes) + 1) /\ DOMAIN nodes = 1..Len(nodes) /\ Len(nodes) \in Nat
  <2>1. DOMAIN nodes = 1..Len(nodes) /\ Len(nodes) \in Nat
    OBVIOUS
  <2> QED BY <2>1 DEF Lands
<1>2. /\ DOMAIN new = 1..(Len(nodes) + 1)
      /\ \A q \in 1..Len(nodes) : IF q < pos THEN new[q] = nodes[q] ELSE new[q + 1] = nodes[q]
  BY DEF Lands
<1>3. ASSUME NEW j \in DOMAIN new \ {pos}
      PROVE  \E q \in 1..Len(nodes) :
                new[j] = nodes[q] /\ (IF j < pos THEN j = q ELSE j = q + 1 /\ pos <= q)
  <2>1. CASE j < pos
    <3>1. j \in 1..Len(nodes) /\ new[j] = nodes[j]
      BY <1>1, <1>2, <2>1
    <3> QED BY <2>1, <3>1
  <2>2. CASE ~(j < pos)
    <3>1. j - 1 \in 1..Len(nodes) /\ pos <= j - 1 /\ j = (j - 1) + 1
      BY <1>1, <1>2, <2>2
    <3>2. new[j] = nodes[j - 1]
      BY <1>1, <1>2, <3>1
    <3> QED BY <2>2, <3>1, <3>2
  <2> QED BY <2>1, <2>2
<1> QED BY <1>1, <1>3

\* The new list is sorted if the new id is between the ids that it separates.
LEMMA LandsSorted ==
    ASSUME NEW I, NEW nodes \in Seq(NodesOf(I)), NEW op, NEW start, NEW pos, NEW new,
           Lands(nodes, op, start, pos, new), NEW Q, SortedBy(nodes, Q),
           \A q \in 1..Len(nodes) : IF q < pos THEN <<nodes[q].id, op.id>> \in Q
                                               ELSE <<op.id, nodes[q].id>> \in Q
    PROVE  SortedBy(new, Q)
<1>1. /\ pos \in 1..(Len(nodes) + 1) /\ DOMAIN nodes = 1..Len(nodes) /\ Len(nodes) \in Nat
      /\ \A j \in DOMAIN new \ {pos} :
            \E q \in 1..Len(nodes) :
               new[j] = nodes[q] /\ (IF j < pos THEN j = q ELSE j = q + 1 /\ pos <= q)
  BY LandsMoves
<1>2. DOMAIN new = 1..(Len(nodes) + 1) /\ new[pos].id = op.id
  BY DEF Lands
<1>3. ASSUME NEW i \in DOMAIN new, NEW j \in DOMAIN new, i < j
      PROVE  <<new[i].id, new[j].id>> \in Q
  <2>1. CASE i = pos
    <3>1. PICK q \in 1..Len(nodes) : new[j] = nodes[q] /\ j = q + 1 /\ pos <= q
      BY <1>1, <1>2, <1>3, <2>1
    <3>2. ~(q < pos)
      BY <1>1, <3>1
    <3> QED BY <1>2, <2>1, <3>1, <3>2
  <2>2. CASE j = pos
    <3>1. i \in 1..Len(nodes) /\ i < pos
      BY <1>1, <1>2, <1>3, <2>2
    <3>2. new[i] = nodes[i]
      BY <3>1 DEF Lands
    <3> QED BY <1>2, <2>2, <3>1, <3>2
  <2>3. CASE i # pos /\ j # pos
    <3>1. PICK p \in 1..Len(nodes) :
             new[i] = nodes[p] /\ (IF i < pos THEN i = p ELSE i = p + 1 /\ pos <= p)
      BY <1>1, <2>3
    <3>2. PICK q \in 1..Len(nodes) :
             new[j] = nodes[q] /\ (IF j < pos THEN j = q ELSE j = q + 1 /\ pos <= q)
      BY <1>1, <2>3
    <3>3. p < q
      BY <1>1, <1>2, <1>3, <2>3, <3>1, <3>2
    <3> QED BY <1>1, <3>1, <3>2, <3>3 DEF SortedBy
  <2> QED BY <2>1, <2>2, <2>3
<1> QED BY <1>3 DEF SortedBy

\* What a list in order is, position by position.
LEMMA OrderedAt ==
    ASSUME NEW A, NEW R, NEW anchor, NEW I,
           NEW nodes \in OrderedLists(I, R, A, anchor)
    PROVE  /\ nodes \in Seq(NodesOf(I)) /\ DOMAIN nodes = 1..Len(nodes) /\ Len(nodes) \in Nat
           /\ \A q \in 1..Len(nodes) : nodes[q].id \in Ids(nodes) /\ nodes[q].id \in A
           /\ \A z \in Ids(nodes) : \E q \in 1..Len(nodes) : z = nodes[q].id
           /\ \A p, q \in 1..Len(nodes) : p < q => <<nodes[p].id, nodes[q].id>> \in R
<1>1. nodes \in Seq(NodesOf(I)) /\ InOrder(nodes, R, A, anchor)
  BY DEF OrderedLists
<1>2. DOMAIN nodes = 1..Len(nodes) /\ Len(nodes) \in Nat
  BY <1>1
<1>3. \A q \in 1..Len(nodes) : nodes[q].id \in Ids(nodes) /\ nodes[q].id \in A
  BY <1>1, <1>2 DEF InOrder, Ids
<1>4. \A z \in Ids(nodes) : \E q \in 1..Len(nodes) : z = nodes[q].id
  BY <1>2 DEF Ids
<1>5. \A p, q \in 1..Len(nodes) : p < q => <<nodes[p].id, nodes[q].id>> \in R
  BY <1>1, <1>2 DEF InOrder, SortedBy
<1> QED BY <1>1, <1>2, <1>3, <1>4, <1>5

\* An insert is placed after its anchor or after an id between the two.
LEMMA PlaceInOrder ==
    ASSUME NEW A, NEW R, NEW anchor, Document(R, A, anchor),
           NEW I, NEW nodes \in OrderedLists(I, R, A, anchor), NEW op \in WaitingOf(I),
           CanPlace(nodes, op), op.id \in A, Between(op, R, anchor),
           anchor[op.id] = Head0 \/ anchor[op.id] \in Ids(nodes)
    PROVE  Place(nodes, op) \in OrderedLists(I, R, A, anchor)
<1> DEFINE N == Len(nodes)
           x == op.id
<1>0. CASE x \in Ids(nodes)
  BY <1>0 DEF Place
<1>a. ASSUME x \notin Ids(nodes) PROVE Place(nodes, op) \in OrderedLists(I, R, A, anchor)
  <2>1. /\ nodes \in Seq(NodesOf(I)) /\ DOMAIN nodes = 1..N /\ N \in Nat
        /\ \A q \in 1..N : nodes[q].id \in Ids(nodes) /\ nodes[q].id \in A
        /\ \A z \in Ids(nodes) : \E q \in 1..N : z = nodes[q].id
        /\ \A p, q \in 1..N : p < q => <<nodes[p].id, nodes[q].id>> \in R
    BY OrderedAt
  <2>2. PICK new : new = Place(nodes, op)
    OBVIOUS
  <2>3. PICK start, pos : Lands(nodes, op, start, pos, new)
    BY <1>a, <2>1, <2>2, PlaceLands
  <2>4. /\ x \in A
        /\ \A i \in A : i.clock \in Nat /\ i.node \in Nat
        /\ \A i \in A : anchor[i] = Head0 \/ (anchor[i] \in A /\ anchor[i].clock < i.clock)
        /\ Head0 \notin A
    BY DEF Document, Rooted
  <2>5. /\ \A i \in A : <<i, i>> \notin R
        /\ \A i, j, k \in A : <<i, j>> \in R /\ <<j, k>> \in R => <<i, k>> \in R
        /\ \A i, j \in A : i # j => <<i, j>> \in R \/ <<j, i>> \in R
        /\ \A i \in A : anchor[i] # Head0 => <<anchor[i], i>> \in R
        /\ \A i, z \in A : (anchor[i] = Head0 \/ <<anchor[i], z>> \in R) /\ <<z, i>> \in R
                             => IdGreater(z, i)
    BY DEF Document, TotalOrder, AfterAnchor
  <2>6. InOrder(nodes, R, A, anchor)
    BY DEF OrderedLists
  <2>7. /\ start \in 1..(N + 1) /\ pos \in 1..(N + 1) /\ start <= pos
        /\ \A q \in 1..N : start <= q /\ q < pos => IdGreater(nodes[q].id, x)
        /\ pos <= N => ~IdGreater(nodes[pos].id, x)
        /\ op.after = Head0 => start = 1
        /\ op.after # Head0 => start - 1 \in 1..N /\ nodes[start - 1].id = op.after
    BY <2>1, <2>3 DEF Lands
  <2>8. \A z \in A : IdGreater(z, x) => ~IdGreater(x, z)
    BY <2>4 DEF IdGreater, Later
  \* What stands before the anchor is before x.
  <2>9. ASSUME NEW q \in 1..N, q < start
        PROVE  <<nodes[q].id, x>> \in R
    <3>1. op.after # Head0 /\ <<op.after, x>> \in R /\ op.after \in A
      BY <2>1, <2>7, <2>9 DEF Between
    <3>2. q = start - 1 \/ q < start - 1
      BY <2>7, <2>9
    <3>3. nodes[q].id = op.after \/ <<nodes[q].id, op.after>> \in R
      BY <2>1, <2>7, <2>9, <3>1, <3>2
    <3>4. ASSUME <<nodes[q].id, op.after>> \in R PROVE <<nodes[q].id, x>> \in R
      BY <2>1, <2>4, <2>5, <3>1, <3>4
    <3> QED BY <3>1, <3>3, <3>4
  \* What stands after it and is before x is greater.
  <2>10. ASSUME NEW q \in 1..N, start <= q, <<nodes[q].id, x>> \in R
         PROVE  IdGreater(nodes[q].id, x)
    <3>1. anchor[x] = Head0 \/ <<anchor[x], nodes[q].id>> \in R
      <4>1. CASE op.after = Head0
        BY <4>1 DEF Between
      <4>2. CASE op.after # Head0
        <5>1. start - 1 \in 1..N /\ start - 1 < q /\ nodes[start - 1].id = op.after
          BY <2>7, <2>10, <4>2
        <5>2. <<op.after, nodes[q].id>> \in R /\ op.after \in A
          BY <2>1, <2>10, <5>1
        <5>3. anchor[x] = Head0 \/ anchor[x] = op.after \/ <<anchor[x], op.after>> \in R
          BY <4>2 DEF Between
        <5>4. ASSUME anchor[x] # Head0, <<anchor[x], op.after>> \in R
              PROVE  <<anchor[x], nodes[q].id>> \in R
          BY <2>1, <2>4, <2>5, <5>2, <5>4
        <5> QED BY <5>2, <5>3, <5>4
      <4> QED BY <4>1, <4>2
    <3> QED BY <2>1, <2>4, <2>5, <2>10, <3>1
  \* The first id that is after x is smaller than x: its anchor is not after x.
  <2>11. ASSUME NEW q \in 1..N, q < pos PROVE <<nodes[q].id, x>> \in R
    <3> SUFFICES ASSUME <<x, nodes[q].id>> \in R PROVE FALSE
      BY <1>a, <2>1, <2>4, <2>5
    <3> DEFINE W == {p \in 1..N : <<x, nodes[p].id>> \in R}
    <3>1. W \in SUBSET Nat /\ q \in W
      BY <2>11
    <3>2. PICK p \in W : \A r \in W : p <= r
      <4> HIDE DEF W
      <4> QED BY <3>1, Least
    <3>3. p \in 1..N /\ <<x, nodes[p].id>> \in R /\ p <= q
      BY <3>1, <3>2
    <3>4. PICK z : z = nodes[p].id
      OBVIOUS
    <3>5. z \in A /\ z \in Ids(nodes) /\ ~(<<z, x>> \in R)
      BY <2>1, <2>4, <2>5, <3>3, <3>4
    <3>6. start <= p
      BY <2>7, <2>9, <3>3, <3>4, <3>5
    <3>7. IdGreater(z, x) /\ ~IdGreater(x, z)
      BY <2>7, <2>8, <2>11, <3>3, <3>4, <3>5, <3>6
    <3>8. anchor[z] # Head0 /\ anchor[z] \in Ids(nodes)
      BY <2>4, <2>5, <2>6, <3>3, <3>4, <3>5, <3>7 DEF InOrder
    <3>9. PICK r \in 1..N : anchor[z] = nodes[r].id
      BY <2>1, <3>8
    <3>10. anchor[z] \in A /\ <<anchor[z], z>> \in R /\ anchor[z] # x
      BY <1>a, <2>1, <2>5, <3>5, <3>8, <3>9
    <3>11. <<x, anchor[z]>> \in R
      BY <2>4, <2>5, <3>3, <3>4, <3>5, <3>7, <3>10
    <3>12. p <= r
      <4>1. r \in W
        BY <3>9, <3>11
      <4> QED BY <3>2, <4>1
    <3>13. p # r
      BY <2>5, <3>4, <3>5, <3>9, <3>10
    <3>14. <<z, anchor[z]>> \in R
      BY <2>1, <3>3, <3>4, <3>9, <3>12, <3>13
    <3> QED BY <2>5, <3>5, <3>10, <3>14
  <2>12. ASSUME NEW q \in 1..N, pos <= q PROVE <<x, nodes[q].id>> \in R
    <3> SUFFICES ASSUME <<nodes[q].id, x>> \in R PROVE FALSE
      BY <1>a, <2>1, <2>4, <2>5
    <3>1. pos \in 1..N
      BY <2>1, <2>7, <2>12
    <3>2. pos = q \/ <<nodes[pos].id, nodes[q].id>> \in R
      BY <2>1, <2>12, <3>1
    <3>3. ASSUME <<nodes[pos].id, nodes[q].id>> \in R PROVE <<nodes[pos].id, x>> \in R
      BY <2>1, <2>4, <2>5, <3>1, <3>3
    <3>4. <<nodes[pos].id, x>> \in R
      BY <3>2, <3>3
    <3> QED BY <2>7, <2>10, <3>1, <3>4
  <2>13. SortedBy(new, R)
    <3>1. \A q \in 1..N : IF q < pos THEN <<nodes[q].id, x>> \in R
                                     ELSE <<x, nodes[q].id>> \in R
      BY <2>1, <2>7, <2>11, <2>12
    <3> QED BY <2>1, <2>3, <2>6, <3>1, LandsSorted DEF InOrder
  <2>14. new \in Seq(NodesOf(I)) /\ Ids(new) = Ids(nodes) \cup {x}
    BY <2>1, <2>2, PlaceAdds
  <2>15. InOrder(new, R, A, anchor)
    BY <2>4, <2>6, <2>13, <2>14 DEF InOrder
  <2> QED BY <2>2, <2>14, <2>15 DEF OrderedLists
<1> QED BY <1>0, <1>a

LEMMA MarkKeepsOrder ==
    ASSUME NEW A, NEW R, NEW anchor, NEW I
    PROVE  MarksIn(OrderedLists(I, R, A, anchor))
<1> SUFFICES ASSUME NEW nodes \in OrderedLists(I, R, A, anchor), NEW D
             PROVE  Marked(nodes, D) \in OrderedLists(I, R, A, anchor)
  BY DEF MarksIn
<1>1. nodes \in Seq(NodesOf(I)) /\ InOrder(nodes, R, A, anchor)
  BY DEF OrderedLists
<1>2. PICK m : m = Marked(nodes, D)
  OBVIOUS
<1>3. m \in Seq(NodesOf(I)) /\ Ids(m) = Ids(nodes)
  BY <1>1, <1>2, MarkedMarks
<1>4. DOMAIN m = DOMAIN nodes /\ \A i \in DOMAIN nodes : m[i].id = nodes[i].id
  <2>1. \A i \in DOMAIN nodes : nodes[i] \in NodesOf(I)
    BY <1>1
  <2>2. DOMAIN m = DOMAIN nodes
    BY <1>2 DEF Marked
  <2>3. ASSUME NEW i \in DOMAIN nodes PROVE m[i].id = nodes[i].id
    <3>1. m[i] = IF nodes[i].id \in D THEN [nodes[i] EXCEPT !.deleted = TRUE] ELSE nodes[i]
      BY <1>2 DEF Marked
    <3>2. [nodes[i] EXCEPT !.deleted = TRUE].id = nodes[i].id
      BY <2>1 DEF NodesOf
    <3> QED BY <3>1, <3>2
  <2> QED BY <2>2, <2>3
<1>5. SortedBy(m, R)
  BY <1>1, <1>4 DEF InOrder, SortedBy
<1> QED BY <1>1, <1>2, <1>3, <1>5 DEF OrderedLists, InOrder

\* The inserts of the ids in A, each after its anchor.
InsertsOver(I, A, anchor) ==
    {e \in WaitingOf(I) : e.id \in A /\ e.after = anchor[e.id]}

LEMMA InsertsKeepOrder ==
    ASSUME NEW A, NEW R, NEW anchor, NEW I, Document(R, A, anchor)
    PROVE  PlacesIn(OrderedLists(I, R, A, anchor), InsertsOver(I, A, anchor))
<1> SUFFICES ASSUME NEW nodes \in OrderedLists(I, R, A, anchor),
                    NEW op \in InsertsOver(I, A, anchor), CanPlace(nodes, op)
             PROVE  Place(nodes, op) \in OrderedLists(I, R, A, anchor)
  BY DEF PlacesIn
<1>1. op \in WaitingOf(I) /\ op.id \in A /\ op.after = anchor[op.id]
  BY DEF InsertsOver
<1>2. CASE op.id \in Ids(nodes)
  BY <1>2 DEF Place
<1>3. CASE op.id \notin Ids(nodes)
  <2>1. anchor[op.id] = Head0 \/ anchor[op.id] \in Ids(nodes)
    BY <1>1, <1>3 DEF CanPlace
  <2>2. Between(op, R, anchor)
    BY <1>1 DEF Between, Document, AfterAnchor
  <2> QED BY <1>1, <2>1, <2>2, PlaceInOrder
<1> QED BY <1>2, <1>3

\* The nodes of a list in order can be taken over one by one.
LEMMA LinksInOrder ==
    ASSUME NEW A, NEW R, NEW anchor, NEW I, Document(R, A, anchor),
           NEW o, o.nodes \in OrderedLists(I, R, A, anchor)
    PROVE  LinksIn(OrderedLists(I, R, A, anchor), o)
<1> SUFFICES ASSUME NEW i \in DOMAIN o.nodes,
                    NEW nodes \in OrderedLists(I, R, A, anchor),
                    \A j \in 1..(i - 1) : o.nodes[j].id \in Ids(nodes)
             PROVE  Place(nodes, InsertOp(o.nodes[i].id,
                                          IF i = 1 THEN Head0 ELSE o.nodes[i - 1].id))
                      \in OrderedLists(I, R, A, anchor)
  BY DEF LinksIn
<1>1. PICK l : l = o.nodes
  OBVIOUS
<1>2. PICK after : after = IF i = 1 THEN Head0 ELSE l[i - 1].id
  OBVIOUS
<1>3. PICK op : op = InsertOp(l[i].id, after)
  OBVIOUS
<1>4. l \in OrderedLists(I, R, A, anchor)
  BY <1>1
<1>5. /\ l \in Seq(NodesOf(I)) /\ DOMAIN l = 1..Len(l) /\ Len(l) \in Nat /\ i \in 1..Len(l)
      /\ \A j \in 1..Len(l) : l[j].id \in Ids(l) /\ l[j].id \in A
      /\ \A a \in Ids(l) : \E j \in 1..Len(l) : a = l[j].id
      /\ \A j, k \in 1..Len(l) : j < k => <<l[j].id, l[k].id>> \in R
  <2>1. /\ l \in Seq(NodesOf(I)) /\ DOMAIN l = 1..Len(l) /\ Len(l) \in Nat
        /\ \A j \in 1..Len(l) : l[j].id \in Ids(l) /\ l[j].id \in A
        /\ \A a \in Ids(l) : \E j \in 1..Len(l) : a = l[j].id
        /\ \A j, k \in 1..Len(l) : j < k => <<l[j].id, l[k].id>> \in R
    BY <1>4, OrderedAt
  <2> QED BY <1>1, <2>1
<1>6. Ids(nodes) \subseteq I /\ Ids(l) \subseteq I
  BY <1>5, IdsTyped DEF OrderedLists
<1>7. i # 1 => /\ i - 1 \in 1..Len(l) /\ i - 1 \in 1..(i - 1) /\ after = l[i - 1].id
               /\ after \in Ids(nodes)
  BY <1>1, <1>2, <1>5
<1>8. op = [type |-> "Insert", id |-> l[i].id, after |-> after]
  BY <1>3 DEF InsertOp
<1>9. op \in WaitingOf(I) /\ op.id = l[i].id /\ op.after = after /\ op.id \in A
  <2>1. after \in I \cup {Head0}
    BY <1>2, <1>6, <1>7
  <2>2. l[i].id \in I
    BY <1>5, <1>6
  <2> QED BY <1>5, <1>8, <2>1, <2>2 DEF WaitingOf
<1>10. CanPlace(nodes, op)
  BY <1>2, <1>7, <1>9 DEF CanPlace
<1>11. CASE op.id \in Ids(nodes)
  <2>1. Place(nodes, op) = nodes
    BY <1>11 DEF Place
  <2> QED BY <1>1, <1>2, <1>3, <2>1
\* The anchor of a node that is missing is in the other list before it.
<1>12. ASSUME op.id \notin Ids(nodes)
       PROVE  Place(nodes, op) \in OrderedLists(I, R, A, anchor)
  <2>1. /\ Head0 \notin A
        /\ \A j \in A : <<j, j>> \notin R
        /\ \A a, b, c \in A : <<a, b>> \in R /\ <<b, c>> \in R => <<a, c>> \in R
        /\ \A j \in A : anchor[j] # Head0 => <<anchor[j], j>> \in R
    BY DEF Document, Rooted, TotalOrder, AfterAnchor
  <2>2. ASSUME anchor[op.id] # Head0
        PROVE  \E j \in 1..(i - 1) : anchor[op.id] = l[j].id
    <3>1. anchor[op.id] \in Ids(l)
      BY <1>4, <1>5, <1>9, <2>2 DEF OrderedLists, InOrder
    <3>2. PICK j \in 1..Len(l) : anchor[op.id] = l[j].id
      BY <1>5, <3>1
    <3>3. <<l[j].id, l[i].id>> \in R
      BY <1>9, <2>1, <2>2, <3>2
    <3>4. i # j
      BY <1>5, <2>1, <3>3
    <3>5. ASSUME i < j PROVE FALSE
      <4>1. <<l[i].id, l[j].id>> \in R /\ l[i].id \in A /\ l[j].id \in A
        BY <1>5, <3>5
      <4> QED BY <2>1, <3>3, <4>1
    <3>6. j \in 1..(i - 1)
      BY <1>5, <3>4, <3>5
    <3> QED BY <3>2, <3>6
  <2>3. anchor[op.id] = Head0 \/ anchor[op.id] \in Ids(nodes)
    BY <1>1, <2>2
  <2>4. after = Head0 => anchor[op.id] = Head0
    <3>1. CASE i = 1
      BY <1>5, <2>2, <3>1
    <3>2. CASE i # 1
      BY <1>5, <1>7, <2>1, <3>2
    <3> QED BY <3>1, <3>2
  <2>5. ASSUME after # Head0
        PROVE  /\ <<after, op.id>> \in R
               /\ anchor[op.id] = Head0 \/ anchor[op.id] = after \/ <<anchor[op.id], after>> \in R
    <3>1. i # 1
      BY <1>2, <2>5
    <3>2. <<after, op.id>> \in R
      <4>1. i - 1 \in 1..Len(l) /\ i \in 1..Len(l) /\ i - 1 < i
        BY <1>5, <1>7, <3>1
      <4>2. <<l[i - 1].id, l[i].id>> \in R
        BY <1>5, <4>1
      <4> QED BY <1>7, <1>9, <3>1, <4>2
    <3>3. ASSUME NEW j \in 1..(i - 1)
          PROVE  l[j].id = after \/ <<l[j].id, after>> \in R
      <4>1. j = i - 1 \/ (j < i - 1 /\ j \in 1..Len(l))
        BY <1>5
      <4> QED BY <1>5, <1>7, <3>1, <4>1
    <3> QED BY <2>2, <3>2, <3>3
  <2>6. Between(op, R, anchor)
    BY <1>9, <2>4, <2>5 DEF Between
  <2> QED BY <1>9, <1>10, <2>3, <2>6, PlaceInOrder
<1> QED BY <1>1, <1>2, <1>3, <1>11, <1>12

\* A path does not change when inserts are made.
LEMMA PathsExtend ==
    ASSUME NEW n \in Nat, NEW A, NEW a, Older(n, A, a), NEW f, IsPath(f, A, a),
           NEW B, NEW b, NEW g, IsPath(g, B, b), A \subseteq B, \A i \in A : b[i] = a[i]
    PROVE  \A i \in A : g[i] = f[i]
<1>1. \A i \in A : f[i] = IF a[i] = Head0 THEN <<i>> ELSE Append(f[a[i]], i)
  BY DEF IsPath
<1>2. \A i \in A : g[i] = IF a[i] = Head0 THEN <<i>> ELSE Append(g[a[i]], i)
  BY DEF IsPath
<1>3. \A i \in A : /\ i.clock \in 0..n
                   /\ a[i] = Head0 \/ (a[i] \in A /\ a[i].clock < i.clock)
  BY DEF Older
<1> DEFINE W == {k \in 0..n : \A i \in A : i.clock <= k => g[i] = f[i]}
<1>4. 0 \in W
  <2>1. ASSUME NEW i \in A, i.clock <= 0 PROVE g[i] = f[i]
    <3>1. a[i] = Head0
      BY <1>3, <2>1
    <3> QED BY <1>1, <1>2, <3>1
  <2> QED BY <2>1
<1>5. ASSUME NEW k \in 1..n, k - 1 \in W PROVE k \in W
  <2>1. ASSUME NEW i \in A, i.clock <= k PROVE g[i] = f[i]
    <3>1. CASE a[i] = Head0
      BY <1>1, <1>2, <3>1
    <3>2. CASE a[i] # Head0
      <4>1. a[i] \in A /\ a[i].clock <= k - 1
        BY <1>3, <2>1, <3>2
      <4>2. g[a[i]] = f[a[i]]
        BY <1>5, <4>1
      <4> QED BY ZenonT(40), <1>1, <1>2, <3>2, <4>2
    <3> QED BY <3>1, <3>2
  <2> QED BY <2>1
<1> HIDE DEF W
<1>6. n \in W
  BY <1>4, <1>5, Steps
<1> QED BY <1>3, <1>6 DEF W

LEMMA GoneMembers ==
    ASSUME NEW s
    PROVE  Gone(s) = {x.id : x \in {y \in ToSet(s.nodes) : y.deleted}}
BY DEF Gone, ToSet

\* A list in order has no member twice.
LEMMA SortedOnce ==
    ASSUME NEW A, NEW R, TotalOrder(R, A), NEW p \in Seq(A), SortedSeq(p, R),
           NEW i \in 1..Len(p), NEW j \in 1..Len(p), p[i] = p[j]
    PROVE  i = j
<1>1. i \in Nat /\ j \in Nat /\ p[i] \in A
  OBVIOUS
<1>2. <<p[i], p[i]>> \notin R
  BY <1>1 DEF TotalOrder
<1>3. ~(i < j) /\ ~(j < i)
  BY <1>2 DEF SortedSeq
<1> QED BY <1>1, <1>3

\* Two lists in the same order that have the same members are the same.
LEMMA SortedIsUnique ==
    ASSUME NEW A, NEW R, TotalOrder(R, A), NEW p \in Seq(A), NEW q \in Seq(A),
           SortedSeq(p, R), SortedSeq(q, R), ToSet(p) = ToSet(q)
    PROVE  p = q
<1>1. /\ Len(p) \in Nat /\ DOMAIN p = 1..Len(p) /\ \A i \in 1..Len(p) : p[i] \in A
      /\ Len(q) \in Nat /\ DOMAIN q = 1..Len(q) /\ \A i \in 1..Len(q) : q[i] \in A
  OBVIOUS
<1>2. /\ \A i \in 1..Len(p) : \E j \in 1..Len(q) : p[i] = q[j]
      /\ \A i \in 1..Len(q) : \E j \in 1..Len(p) : q[i] = p[j]
  BY <1>1 DEF ToSet
<1>3. /\ \A i, j \in 1..Len(p) : p[i] = p[j] => i = j
      /\ \A i, j \in 1..Len(q) : q[i] = q[j] => i = j
  BY SortedOnce
<1> DEFINE Same(i) == i <= Len(p) /\ i <= Len(q) /\ p[i] = q[i]
           Both == {i \in Nat \ {0} : i <= Len(p) \/ i <= Len(q)}
           Differ == {i \in Both : ~Same(i)}
<1>4. Differ = {}
  <2> SUFFICES ASSUME Differ # {} PROVE FALSE
    OBVIOUS
  <2>1. PICK d \in Differ : \A i \in Differ : d <= i
    <3>1. Differ \in SUBSET Nat
      OBVIOUS
    <3> HIDE DEF Differ
    <3> QED BY <3>1, Least
  <2>2. \A i \in 1..(d - 1) : i \in 1..Len(p) /\ i \in 1..Len(q) /\ p[i] = q[i]
    <3>1. \A i \in 1..(d - 1) : i \in Both /\ i \notin Differ
      BY <1>1, <2>1
    <3> QED BY <3>1
  <2>3. d \in Nat \ {0} /\ (d <= Len(p) \/ d <= Len(q))
    BY <2>1
  <2>4. CASE d <= Len(p) /\ d <= Len(q)
    <3>1. p[d] # q[d] /\ d \in 1..Len(p) /\ d \in 1..Len(q)
      BY <1>1, <2>1, <2>4
    <3>2. PICK j \in 1..Len(q) : p[d] = q[j]
      BY <1>2, <3>1
    <3>3. PICK k \in 1..Len(p) : q[d] = p[k]
      BY <1>2, <3>1
    <3>4. d < j
      <4>1. ~(j < d)
        <5>1. SUFFICES ASSUME j < d PROVE FALSE
          OBVIOUS
        <5>2. p[j] = q[j] /\ j \in 1..Len(p)
          BY <2>2, <2>3, <3>2, <5>1
        <5> QED BY <1>3, <3>1, <3>2, <5>1, <5>2
      <4> QED BY <1>1, <2>3, <3>1, <3>2, <4>1
    <3>5. d < k
      <4>1. ~(k < d)
        <5>1. SUFFICES ASSUME k < d PROVE FALSE
          OBVIOUS
        <5>2. p[k] = q[k] /\ k \in 1..Len(q)
          BY <2>2, <2>3, <3>3, <5>1
        <5> QED BY <1>3, <3>1, <3>3, <5>1, <5>2
      <4> QED BY <1>1, <2>3, <3>1, <3>3, <4>1
    <3>6. <<q[d], p[d]>> \in R /\ <<p[d], q[d]>> \in R
      BY <3>1, <3>2, <3>3, <3>4, <3>5 DEF SortedSeq
    <3> QED BY <1>1, <3>1, <3>6 DEF TotalOrder
  <2>5. CASE d <= Len(p) /\ ~(d <= Len(q))
    <3>1. PICK j \in 1..Len(q) : p[d] = q[j]
      BY <1>2, <2>3, <2>5
    <3>2. j \in 1..(d - 1)
      BY <1>1, <2>3, <2>5, <3>1
    <3> QED BY <1>1, <1>3, <2>2, <2>3, <2>5, <3>1, <3>2
  <2>6. CASE ~(d <= Len(p)) /\ d <= Len(q)
    <3>1. PICK j \in 1..Len(p) : q[d] = p[j]
      BY <1>2, <2>3, <2>6
    <3>2. j \in 1..(d - 1)
      BY <1>1, <2>3, <2>6, <3>1
    <3> QED BY <1>1, <1>3, <2>2, <2>3, <2>6, <3>1, <3>2
  <2> QED BY <2>3, <2>4, <2>5, <2>6
<1>5. \A i \in Both : Same(i)
  BY <1>4
<1>6. Len(p) = Len(q)
  <2>1. ASSUME Len(p) > Len(q) PROVE FALSE
    <3>1. Len(p) \in Both
      BY <1>1, <2>1
    <3> QED BY <1>1, <1>5, <2>1, <3>1
  <2>2. ASSUME Len(q) > Len(p) PROVE FALSE
    <3>1. Len(q) \in Both
      BY <1>1, <2>2
    <3> QED BY <1>1, <1>5, <2>2, <3>1
  <2>3. Len(p) \in Nat /\ Len(q) \in Nat
    BY <1>1
  <2> QED BY <2>1, <2>2, <2>3
<1>7. \A i \in 1..Len(p) : p[i] = q[i]
  BY <1>1, <1>5
<1> QED BY <1>1, <1>6, <1>7

\* A list in order has one node for each of its ids.
LEMMA OneNodeEach ==
    ASSUME NEW I, NEW nodes \in Seq(NodesOf(I)), NEW R, NEW A,
           TotalOrder(R, A), Ids(nodes) \subseteq A, SortedBy(nodes, R)
    PROVE  \A x, y \in ToSet(nodes) : x.id = y.id => x = y
<1>1. DOMAIN nodes = 1..Len(nodes) /\ Len(nodes) \in Nat
  OBVIOUS
<1>2. ASSUME NEW i \in DOMAIN nodes, NEW j \in DOMAIN nodes, nodes[i].id = nodes[j].id
      PROVE  i = j
  <2>1. i \in Nat /\ j \in Nat
    BY <1>1
  <2>2. nodes[i].id \in A /\ <<nodes[i].id, nodes[i].id>> \notin R
    BY DEF Ids, TotalOrder
  <2>3. ~(i < j) /\ ~(j < i)
    BY <1>2, <2>2 DEF SortedBy
  <2> QED BY <2>1, <2>3
<1> QED BY <1>2 DEF ToSet

\* A replica in that order: its list, and the inserts that wait.
Orders(I, R, A, anchor, s) ==
    Keeps(I, OrderedLists(I, R, A, anchor), InsertsOver(I, A, anchor), s)

LEMMA ApplyKeepsOrder ==
    ASSUME NEW A, NEW R, NEW anchor, NEW I, Document(R, A, anchor),
           NEW s, Orders(I, R, A, anchor, s), NEW op \in OpsOver(I), op.id.clock \in Nat,
           IsInsert(op) => op.id \in A /\ op.after = anchor[op.id]
    PROVE  Orders(I, R, A, anchor, SeqApply(s, op))
<1>1. PICK G : G = OrderedLists(I, R, A, anchor)
  OBVIOUS
<1>2. PICK O : O = InsertsOver(I, A, anchor)
  OBVIOUS
<1>3. PlacesIn(G, O) /\ MarksIn(G)
  BY <1>1, <1>2, InsertsKeepOrder, MarkKeepsOrder
<1>4. Keeps(I, G, O, s)
  BY <1>1, <1>2 DEF Orders
<1>5. IsInsert(op) => op \in O
  BY <1>2 DEF OpsOver, DeletesOf, InsertsOver, IsInsert
<1>6. Keeps(I, G, O, SeqApply(s, op))
  BY <1>3, <1>4, <1>5, ApplyKeepsList
<1> QED BY <1>1, <1>2, <1>6 DEF Orders

LEMMA MergeKeepsOrder ==
    ASSUME NEW A, NEW R, NEW anchor, NEW I, Document(R, A, anchor),
           \A id \in I : id.clock \in Nat, NEW s, Orders(I, R, A, anchor, s),
           NEW o \in RGAStates(I), Counted(o), o.nodes \in OrderedLists(I, R, A, anchor)
    PROVE  Orders(I, R, A, anchor, SeqMerge(s, o))
<1>1. PICK G : G = OrderedLists(I, R, A, anchor)
  OBVIOUS
<1>2. PICK O : O = InsertsOver(I, A, anchor)
  OBVIOUS
<1>3. PlacesIn(G, O) /\ MarksIn(G)
  BY <1>1, <1>2, InsertsKeepOrder, MarkKeepsOrder
<1>4. Keeps(I, G, O, s)
  BY <1>1, <1>2 DEF Orders
<1>5. LinksIn(G, o)
  BY <1>1, LinksInOrder
<1>6. Keeps(I, G, O, SeqMerge(s, o))
  BY <1>3, <1>4, <1>5, MergeKeepsList
<1> QED BY <1>1, <1>2, <1>6 DEF Orders

\* A list stays in order when new inserts are made.
LEMMA GrowthKeepsList ==
    ASSUME NEW I, NEW J, I \subseteq J, NEW R, NEW A, NEW a, NEW Q, NEW C, NEW c,
           A \subseteq C, \A i \in A : c[i] = a[i], R \subseteq Q,
           NEW nodes \in OrderedLists(I, R, A, a)
    PROVE  nodes \in OrderedLists(J, Q, C, c)
<1>1. nodes \in Seq(NodesOf(I)) /\ InOrder(nodes, R, A, a)
  BY DEF OrderedLists
<1>2. nodes \in Seq(NodesOf(J))
  <2>1. NodesOf(I) \subseteq NodesOf(J)
    BY DEF NodesOf
  <2> QED BY <1>1, <2>1
<1>3. SortedBy(nodes, Q)
  BY <1>1 DEF InOrder, SortedBy
<1>4. /\ Ids(nodes) \subseteq C
      /\ \A i \in Ids(nodes) : c[i] = Head0 \/ c[i] \in Ids(nodes)
  BY <1>1 DEF InOrder
<1> QED BY <1>2, <1>3, <1>4 DEF OrderedLists, InOrder

LEMMA GrowthKeepsOrder ==
    ASSUME NEW I, NEW J, I \subseteq J, NEW R, NEW A, NEW a, NEW Q, NEW C, NEW c,
           A \subseteq C, \A i \in A : c[i] = a[i], R \subseteq Q,
           NEW s, Orders(I, R, A, a, s)
    PROVE  Orders(J, Q, C, c, s)
<1>1. /\ s \in RGAStates(I) /\ s.nodes \in OrderedLists(I, R, A, a)
      /\ ToSet(s.pending) \subseteq InsertsOver(I, A, a)
  BY DEF Orders, Keeps
<1>2. WaitingOf(I) \subseteq WaitingOf(J) /\ NodesOf(I) \subseteq NodesOf(J)
  BY DEF WaitingOf, NodesOf
<1>3. s \in RGAStates(J)
  <2>1. Seq(WaitingOf(I)) \subseteq Seq(WaitingOf(J)) /\ Seq(NodesOf(I)) \subseteq Seq(NodesOf(J))
    BY <1>2
  <2> QED BY <1>1, <2>1 DEF RGAStates
<1>4. s.nodes \in OrderedLists(J, Q, C, c)
  BY <1>1, GrowthKeepsList
<1>5. InsertsOver(I, A, a) \subseteq InsertsOver(J, C, c)
  BY <1>2 DEF InsertsOver
<1> QED BY <1>1, <1>3, <1>4, <1>5 DEF Orders, Keeps

\* What a list in order shows: the ids of the live nodes, each of which has one
\* node, in the order.
LEMMA OrderShows ==
    ASSUME NEW A, NEW R, NEW anchor, NEW I, TotalOrder(R, A),
           NEW s, Orders(I, R, A, anchor, s), NEW v, v = Visible(s.nodes)
    PROVE  v \in Seq(A) /\ SortedSeq(v, R) /\ Shows(v, Ids(s.nodes) \ Gone(s))
<1>2. /\ s.nodes \in Seq(NodesOf(I)) /\ SortedBy(s.nodes, R)
      /\ Ids(s.nodes) \subseteq A
  BY DEF Orders, Keeps, OrderedLists, InOrder
<1>3. v \in Seq(I)
  BY <1>2, VisibleShowsInOrder
<1>4. SortedSeq(v, R)
  BY <1>2, VisibleShowsInOrder
<1>5. ToSet(v) = {x.id : x \in {y \in ToSet(s.nodes) : ~y.deleted}}
  BY <1>2, VisibleShows
<1>6. \A x, y \in ToSet(s.nodes) : x.id = y.id => x = y
  BY <1>2, OneNodeEach
<1>7. Ids(s.nodes) = {x.id : x \in ToSet(s.nodes)}
  BY IdsOfMembers
<1>8. Gone(s) = {x.id : x \in {y \in ToSet(s.nodes) : y.deleted}}
  BY GoneMembers
<1>9. ToSet(v) = Ids(s.nodes) \ Gone(s)
  BY <1>5, <1>6, <1>7, <1>8
<1>10. \A i \in 1..Len(v) : v[i] \in ToSet(v)
  BY <1>3 DEF ToSet
<1>11. v \in Seq(A)
  BY <1>2, <1>3, <1>9, <1>10
<1> QED BY <1>4, <1>9, <1>11 DEF Shows

-----------------------------------------------------------------------------
(* The inserts of one sequence, and the lists they make.                   *)

\* Ids with numbers, the clocks at most n.
IdsBelow(I, n) ==
    /\ n \in Nat /\ Numbered(I) /\ \A i \in I : i.clock \in 1..n

\* P are inserts with ids in I: no two have one id, and their anchors are older.
Insertions(I, P) ==
    /\ P \subseteq WaitingOf(I)
    /\ \A a, b \in P : a.id = b.id => a = b
    /\ Anchored(P)

\* Their ids, anchors and paths, and the document order.
IdsIn(P)    == {e.id : e \in P}
AnchorIn(P) == [i \in IdsIn(P) |-> (CHOOSE e \in P : e.id = i).after]
PathsIn(P)  == CHOOSE f : IsPath(f, IdsIn(P), AnchorIn(P))
OrderIn(P)  == Ordering(PathsIn(P), IdsIn(P))

\* The lists in that order, and the replicas that have one.
ListsOf(I, P)    == OrderedLists(I, OrderIn(P), IdsIn(P), AnchorIn(P))
HasListOf(s, I, P) == Orders(I, OrderIn(P), IdsIn(P), AnchorIn(P), s)

\* Every insert has its anchor there, and every id its insert.
LEMMA AnchorsAre ==
    ASSUME NEW I, NEW P, Insertions(I, P)
    PROVE  /\ \A e \in P : e.id \in IdsIn(P) /\ AnchorIn(P)[e.id] = e.after
           /\ \A i \in IdsIn(P) : \E e \in P : i = e.id
<1>1. ASSUME NEW e \in P PROVE e.id \in IdsIn(P) /\ AnchorIn(P)[e.id] = e.after
  <2>1. e.id \in IdsIn(P)
    BY DEF IdsIn
  <2>2. (CHOOSE x \in P : x.id = e.id) = e
    BY DEF Insertions
  <2> QED BY <2>1, <2>2 DEF AnchorIn
<1>2. \A i \in IdsIn(P) : \E e \in P : i = e.id
  BY DEF IdsIn
<1> QED BY <1>1, <1>2

\* They are in one document order.
LEMMA DocumentIs ==
    ASSUME NEW I, NEW n, IdsBelow(I, n), NEW P, Insertions(I, P)
    PROVE  /\ Document(OrderIn(P), IdsIn(P), AnchorIn(P))
           /\ Older(n, IdsIn(P), AnchorIn(P))
           /\ IsPath(PathsIn(P), IdsIn(P), AnchorIn(P))
<1>1. PICK A : A = IdsIn(P)
  OBVIOUS
<1>2. PICK a : a = AnchorIn(P)
  OBVIOUS
<1>3. PICK f : f = PathsIn(P)
  OBVIOUS
<1>4. PICK R : R = OrderIn(P)
  OBVIOUS
<1>5. /\ \A e \in P : e.id \in A /\ a[e.id] = e.after
      /\ \A i \in A : \E e \in P : i = e.id
  BY <1>1, <1>2, AnchorsAre
<1>6. A \subseteq I
  BY <1>5 DEF Insertions, WaitingOf
<1>7. n \in Nat /\ Numbered(A) /\ Head0 \notin A /\ \A i \in A : i.clock \in 1..n /\ i.node \in Nat
  BY <1>6 DEF IdsBelow, Numbered, Head0, Id
<1>8. \A i \in A : a[i] = Head0 \/ (a[i] \in A /\ a[i].clock < i.clock)
  <2> TAKE i \in A
  <2>1. PICK e \in P : i = e.id
    BY <1>5
  <2>2. \/ e.after = Head0
        \/ \E x \in P : e.after = x.id /\ e.after.clock < e.id.clock
    BY DEF Insertions, Anchored
  <2> QED BY <1>5, <2>1, <2>2
<1>9. Older(n, A, a)
  BY <1>7, <1>8 DEF Older
<1>10. IsPath(f, A, a)
  <2>1. \E g : IsPath(g, A, a)
    BY <1>7, <1>9, PathExists
  <2> QED BY <1>1, <1>2, <1>3, <2>1 DEF PathsIn
<1>11. R = Ordering(f, A)
  BY <1>1, <1>3, <1>4 DEF OrderIn
<1>12. TotalOrder(R, A) /\ AfterAnchor(R, A, a)
  BY <1>7, <1>9, <1>10, <1>11, DocumentOrders
<1>13. Rooted(A, a)
  BY <1>7, <1>8 DEF Rooted
<1> QED BY <1>1, <1>2, <1>3, <1>4, <1>9, <1>10, <1>12, <1>13 DEF Document

\* An operation of the sequence keeps a replica's list in order.
LEMMA AppliedInOrder ==
    ASSUME NEW I, NEW n, IdsBelow(I, n), NEW P, Insertions(I, P),
           NEW s, HasListOf(s, I, P), NEW op \in OpsOver(I), IsInsert(op) => op \in P
    PROVE  HasListOf(SeqApply(s, op), I, P)
<1>1. PICK A : A = IdsIn(P)
  OBVIOUS
<1>2. PICK a : a = AnchorIn(P)
  OBVIOUS
<1>3. PICK R : R = OrderIn(P)
  OBVIOUS
<1>4. op.id \in I
  BY DEF OpsOver, WaitingOf, DeletesOf
<1>5. op.id.clock \in Nat
  BY <1>4 DEF IdsBelow
<1>6. IsInsert(op) => op.id \in A /\ op.after = a[op.id]
  BY <1>1, <1>2, AnchorsAre
<1>7. Document(R, A, a) /\ Orders(I, R, A, a, s)
  BY <1>1, <1>2, <1>3, DocumentIs DEF HasListOf
<1>8. Orders(I, R, A, a, SeqApply(s, op))
  BY <1>5, <1>6, <1>7, ApplyKeepsOrder
<1> QED BY <1>1, <1>2, <1>3, <1>8 DEF HasListOf

\* Merging another list in order keeps a replica's list in order.
LEMMA MergedInOrder ==
    ASSUME NEW I, NEW n, IdsBelow(I, n), NEW P, Insertions(I, P), NEW s, HasListOf(s, I, P),
           NEW o \in RGAStates(I), Counted(o), o.nodes \in ListsOf(I, P)
    PROVE  HasListOf(SeqMerge(s, o), I, P)
<1>1. PICK A : A = IdsIn(P)
  OBVIOUS
<1>2. PICK a : a = AnchorIn(P)
  OBVIOUS
<1>3. PICK R : R = OrderIn(P)
  OBVIOUS
<1>4. \A id \in I : id.clock \in Nat
  BY DEF IdsBelow
<1>5. /\ Document(R, A, a) /\ Orders(I, R, A, a, s)
      /\ o.nodes \in OrderedLists(I, R, A, a)
  BY <1>1, <1>2, <1>3, DocumentIs DEF HasListOf, ListsOf
<1>6. Orders(I, R, A, a, SeqMerge(s, o))
  BY <1>4, <1>5, MergeKeepsOrder
<1> QED BY <1>1, <1>2, <1>3, <1>6 DEF HasListOf

\* More inserts change neither the anchors nor the order of the others.
LEMMA OrderGrows ==
    ASSUME NEW I, NEW n, IdsBelow(I, n), NEW P, Insertions(I, P), NEW Q, Insertions(I, Q),
           P \subseteq Q
    PROVE  /\ \A s : HasListOf(s, I, P) => HasListOf(s, I, Q)
           /\ ListsOf(I, P) \subseteq ListsOf(I, Q)
<1>1. PICK A : A = IdsIn(P)
  OBVIOUS
<1>2. PICK a : a = AnchorIn(P)
  OBVIOUS
<1>3. PICK R : R = OrderIn(P)
  OBVIOUS
<1>4. PICK f : f = PathsIn(P)
  OBVIOUS
<1>5. PICK C : C = IdsIn(Q)
  OBVIOUS
<1>6. PICK c : c = AnchorIn(Q)
  OBVIOUS
<1>7. PICK S : S = OrderIn(Q)
  OBVIOUS
<1>8. PICK g : g = PathsIn(Q)
  OBVIOUS
<1>9. /\ n \in Nat /\ Older(n, A, a) /\ IsPath(f, A, a) /\ R = Ordering(f, A)
      /\ \A i \in A : \E e \in P : i = e.id
      /\ \A e \in P : a[e.id] = e.after
  BY <1>1, <1>2, <1>3, <1>4, DocumentIs, AnchorsAre DEF OrderIn, IdsBelow
<1>10. /\ Older(n, C, c) /\ IsPath(g, C, c) /\ S = Ordering(g, C)
       /\ \A e \in Q : e.id \in C /\ c[e.id] = e.after
  BY <1>5, <1>6, <1>7, <1>8, DocumentIs, AnchorsAre DEF OrderIn
<1>11. A \subseteq C /\ \A i \in A : c[i] = a[i]
  BY <1>9, <1>10
<1>12. \A i \in A : g[i] = f[i]
  BY <1>9, <1>10, <1>11, PathsExtend
<1>13. R \subseteq S
  BY <1>9, <1>10, <1>11, <1>12 DEF Ordering
<1>14. \A s : Orders(I, R, A, a, s) => Orders(I, S, C, c, s)
  BY <1>11, <1>13, GrowthKeepsOrder
<1>15. \A nodes \in OrderedLists(I, R, A, a) : nodes \in OrderedLists(I, S, C, c)
  BY <1>11, <1>13, GrowthKeepsList
<1> QED BY <1>1, <1>2, <1>3, <1>5, <1>6, <1>7, <1>14, <1>15 DEF HasListOf, ListsOf

\* Replicas with the same ids and the same tombstones show the same list.
LEMMA SameIdsSameList ==
    ASSUME NEW I, NEW n, IdsBelow(I, n), NEW P, Insertions(I, P),
           NEW s, HasListOf(s, I, P), NEW t, HasListOf(t, I, P),
           Ids(s.nodes) = Ids(t.nodes), Gone(s) = Gone(t)
    PROVE  Visible(s.nodes) = Visible(t.nodes)
<1>1. PICK A : A = IdsIn(P)
  OBVIOUS
<1>2. PICK a : a = AnchorIn(P)
  OBVIOUS
<1>3. PICK R : R = OrderIn(P)
  OBVIOUS
<1>4. PICK v : v = Visible(s.nodes)
  OBVIOUS
<1>5. PICK w : w = Visible(t.nodes)
  OBVIOUS
<1>6. /\ TotalOrder(R, A) /\ Orders(I, R, A, a, s) /\ Orders(I, R, A, a, t)
  BY <1>1, <1>2, <1>3, DocumentIs DEF HasListOf, Document
<1>7. v \in Seq(A) /\ SortedSeq(v, R) /\ Shows(v, Ids(s.nodes) \ Gone(s))
  BY <1>4, <1>6, OrderShows
<1>8. w \in Seq(A) /\ SortedSeq(w, R) /\ Shows(w, Ids(t.nodes) \ Gone(t))
  BY <1>5, <1>6, OrderShows
<1>9. ToSet(v) = ToSet(w)
  BY <1>7, <1>8 DEF Shows
<1>10. v = w
  BY <1>6, <1>7, <1>8, <1>9, SortedIsUnique
<1> QED BY <1>4, <1>5, <1>10

\* An empty replica has such a list.
LEMMA EmptyInOrder == \A I, P : P = {} => HasListOf(EmptyRGA, I, P)
<1> SUFFICES ASSUME NEW I, NEW P, P = {} PROVE HasListOf(EmptyRGA, I, P)
  OBVIOUS
<1>1. IdsIn(P) = {}
  BY DEF IdsIn
<1>2. EmptyRGA = [clock |-> ClockInit, nodes |-> <<>>, pending |-> <<>>]
  BY DEF EmptyRGA
<1>3. /\ Ids(<<>>) = {} /\ ToSet(<<>>) = {} /\ DOMAIN <<>> = {}
      /\ <<>> \in Seq(NodesOf(I)) /\ <<>> \in Seq(WaitingOf(I))
  BY DEF Ids, ToSet
<1>4. EmptyRGA \in RGAStates(I)
  BY <1>2, <1>3 DEF RGAStates, ClockInit
<1>5. \A R : SortedBy(<<>>, R)
  BY <1>3 DEF SortedBy
<1>6. <<>> \in OrderedLists(I, OrderIn(P), IdsIn(P), AnchorIn(P))
  BY <1>1, <1>3, <1>5 DEF OrderedLists, InOrder
<1> QED BY <1>2, <1>3, <1>4, <1>6 DEF HasListOf, Orders, Keeps
=============================================================================
