---------------------------- MODULE ORSetProofs ----------------------------
(***************************************************************************)
(* Proofs about ORSetReplicas, for any nodes, values, tokens and bounds.   *)
(***************************************************************************)
EXTENDS ORSetReplicas, TLAPS

AddedTokens(ops) == {op.token : op \in Adds(ops)}

-----------------------------------------------------------------------------
(* How one more operation changes what a set of operations adds and        *)
(* removes.                                                                *)

LEMMA OneMoreAdd ==
    ASSUME NEW ops, NEW op, op.type = "Add"
    PROVE  /\ AddedPairs(ops \cup {op}) = AddedPairs(ops) \cup {<<op.value, op.token>>}
           /\ AddedTokens(ops \cup {op}) = AddedTokens(ops) \cup {op.token}
           /\ RemovedTokens(ops \cup {op}) = RemovedTokens(ops)
<1>1. Adds(ops \cup {op}) = Adds(ops) \cup {op}
  BY DEF Adds
<1>2. (ops \cup {op}) \ Adds(ops \cup {op}) = ops \ Adds(ops)
  BY DEF Adds
<1> QED
  BY <1>1, <1>2 DEF AddedPairs, AddedTokens, RemovedTokens

LEMMA OneMoreRemove ==
    ASSUME NEW ops, NEW op, op.type = "Remove"
    PROVE  /\ AddedPairs(ops \cup {op}) = AddedPairs(ops)
           /\ AddedTokens(ops \cup {op}) = AddedTokens(ops)
           /\ RemovedTokens(ops \cup {op}) = RemovedTokens(ops) \cup op.tokens
<1>1. Adds(ops \cup {op}) = Adds(ops)
  BY DEF Adds
<1>2. (ops \cup {op}) \ Adds(ops \cup {op})
          = (ops \ Adds(ops)) \cup {op}
  BY <1>1 DEF Adds
<1> QED
  BY <1>1, <1>2 DEF AddedPairs, AddedTokens, RemovedTokens

\* More operations add and remove no less.
LEMMA Monotone ==
    ASSUME NEW small, NEW large, small \subseteq large
    PROVE  /\ Adds(small) \subseteq Adds(large)
           /\ AddedPairs(small) \subseteq AddedPairs(large)
           /\ AddedTokens(small) \subseteq AddedTokens(large)
           /\ RemovedTokens(small) \subseteq RemovedTokens(large)
BY DEF Adds, AddedPairs, AddedTokens, RemovedTokens

\* A live token joins the pairs that pass the filter of SetConvergence.
LEMMA FilterOneMore ==
    ASSUME NEW pairs, NEW removed, NEW v, NEW t, t \notin removed
    PROVE  {p \in pairs \cup {<<v, t>>} : p[2] \notin removed}
              = {p \in pairs : p[2] \notin removed} \cup {<<v, t>>}
<1>1. <<v, t>>[2] = t
  OBVIOUS
<1> QED BY <1>1

LEMMA ProduceOps ==
    ASSUME NEW n, NEW op, Produce(n, op)
    PROVE  Ops' = Ops \cup {op}
<1> DEFINE new == [op |-> op, past |-> known[n]]
<1>1. net' = net \cup {new} /\ new.op = op
  BY DEF Produce
<1>2. Ops' = {m.op : m \in net \cup {new}}
  BY <1>1 DEF Ops
<1> QED BY <1>1, <1>2, Zenon DEF Ops

-----------------------------------------------------------------------------
(* AddWins is an invariant of Spec.                                        *)

\* AddWins of one replica or copy: its entries, what it reflects, and the
\* tokens removed by anybody.
Wins(es, ops, removed) ==
    /\ {p \in AddedPairs(ops) : p[2] \notin removed} \subseteq es
    /\ es \subseteq AddedPairs(ops)

CopyOK ==
    copy.taken => /\ copy.entries \in SUBSET (Value \X Token)
                  /\ copy.known \subseteq Ops
                  /\ Wins(copy.entries, copy.known, RemovedTokens(Ops))

\* The inductive invariant for AddWins.
WInv == TypeOK /\ CopyOK /\ AddWins

LEMMA AddWinsIsWins ==
    AddWins <=> \A n \in Node : Wins(entries[n], known[n], RemovedTokens(Ops))
BY DEF AddWins, Wins

\* Tokens removed elsewhere ask less of a replica.
LEMMA WinsMonotone ==
    ASSUME NEW es, NEW ops, NEW r1, NEW r2, r1 \subseteq r2, Wins(es, ops, r1)
    PROVE  Wins(es, ops, r2)
BY DEF Wins

LEMMA WinsMerge ==
    ASSUME NEW e1, NEW e2, NEW k1, NEW k2, NEW r, Wins(e1, k1, r), Wins(e2, k2, r)
    PROVE  Wins(SetMerge(e1, e2), k1 \cup k2, r)
<1>1. AddedPairs(k1 \cup k2) = AddedPairs(k1) \cup AddedPairs(k2)
  BY DEF AddedPairs, Adds
<1> QED BY <1>1 DEF Wins, SetMerge

\* A replica that applies an operation gains what it adds and loses only
\* tokens that have been removed.
LEMMA WinsApply ==
    ASSUME NEW es, NEW ops, NEW r, NEW op \in OpType, Wins(es, ops, r),
           op.type = "Remove" => op.tokens \subseteq r
    PROVE  Wins(SetApply(es, op), ops \cup {op}, r)
<1>1. CASE op.type = "Add"
  <2>1. SetApply(es, op) = es \cup {<<op.value, op.token>>}
    BY <1>1 DEF SetApply
  <2>2. AddedPairs(ops \cup {op}) = AddedPairs(ops) \cup {<<op.value, op.token>>}
    BY <1>1, OneMoreAdd
  <2> QED BY <2>1, <2>2 DEF Wins
<1>2. CASE op.type = "Remove"
  <2>1. SetApply(es, op) = {p \in es : p[2] \notin op.tokens}
    BY <1>2 DEF SetApply
  <2>2. AddedPairs(ops \cup {op}) = AddedPairs(ops)
    BY <1>2, OneMoreRemove
  <2> QED BY <1>2, <2>1, <2>2 DEF Wins
<1> QED BY <1>1, <1>2 DEF OpType

LEMMA ApplyTyped ==
    ASSUME NEW es \in SUBSET (Value \X Token), NEW op \in OpType
    PROVE  SetApply(es, op) \in SUBSET (Value \X Token)
<1>1. CASE op.type = "Add"
  BY <1>1 DEF SetApply, OpType
<1>2. CASE op.type = "Remove"
  BY <1>2 DEF SetApply
<1> QED BY <1>1, <1>2 DEF OpType

\* One replica applying an operation that is, or just became, known to the
\* network keeps the invariant.
LEMMA OneApplies ==
    ASSUME WInv, NEW n \in Node, NEW op \in OpType,
           entries' = [entries EXCEPT ![n] = SetApply(@, op)],
           known' = [known EXCEPT ![n] = @ \cup {op}],
           Ops' = Ops \cup {op}, UNCHANGED copy
    PROVE  WInv'
<1>1. RemovedTokens(Ops) \subseteq RemovedTokens(Ops')
  BY Monotone
<1>2. op.type = "Remove" => op.tokens \subseteq RemovedTokens(Ops')
  BY DEF RemovedTokens, Adds
<1>3. TypeOK'
  <2>1. SetApply(entries[n], op) \in SUBSET (Value \X Token)
    BY ApplyTyped DEF WInv, TypeOK
  <2> QED BY <2>1 DEF WInv, TypeOK
<1>4. CopyOK'
  BY <1>1, WinsMonotone DEF WInv, CopyOK
<1>5. ASSUME NEW m \in Node
      PROVE  Wins(entries'[m], known'[m], RemovedTokens(Ops'))
  <2>1. Wins(entries[m], known[m], RemovedTokens(Ops'))
    BY <1>1, AddWinsIsWins, WinsMonotone DEF WInv
  <2>2. CASE m = n
    <3>1. entries'[m] = SetApply(entries[m], op) /\ known'[m] = known[m] \cup {op}
      BY <2>2 DEF WInv, TypeOK
    <3> QED BY <1>2, <2>1, <3>1, WinsApply
  <2>3. CASE m # n
    BY <2>1, <2>3 DEF WInv, TypeOK
  <2> QED BY <2>2, <2>3
<1>6. AddWins'
  BY <1>5 DEF AddWins, Wins
<1> QED BY <1>3, <1>4, <1>6 DEF WInv

LEMMA InitWInv == Init => WInv
BY DEF Init, WInv, TypeOK, CopyOK, AddWins, NoCopy, EmptySet, Ops, Adds,
       AddedPairs, RemovedTokens

LEMMA WNext ==
    ASSUME WInv, [Next]_vars
    PROVE  WInv'
<1>1. CASE UNCHANGED vars
  BY <1>1 DEF vars, WInv, TypeOK, CopyOK, AddWins, Ops
<1>2. ASSUME NEW n \in Node, NEW v \in Value, Add(n, v) PROVE WInv'
  <2>1. PICK token \in Token : Produce(n, AddOp(v, token))
    BY <1>2 DEF Add
  <2>2. AddOp(v, token) \in OpType
    BY DEF AddOp, OpType
  <2>3. Ops' = Ops \cup {AddOp(v, token)}
    BY <2>1, ProduceOps
  <2> QED BY <2>1, <2>2, <2>3, OneApplies DEF Produce
<1>3. ASSUME NEW n \in Node, NEW v \in Value, Remove(n, v) PROVE WInv'
  <2> DEFINE op == RemoveOp(entries[n], v)
  <2>1. Produce(n, op)
    BY <1>3 DEF Remove
  <2>2. TokensOf(entries[n], v) \in SUBSET Token
    BY DEF WInv, TypeOK, TokensOf
  <2>3. op \in OpType
    BY <2>2 DEF RemoveOp, OpType
  <2>4. Ops' = Ops \cup {op}
    BY <2>1, ProduceOps
  <2> QED BY <2>1, <2>3, <2>4, OneApplies DEF Produce
<1>4. ASSUME NEW n \in Node, Deliver(n) PROVE WInv'
  <2>1. PICK m \in net : Apply(n, m.op)
    BY <1>4 DEF Deliver
  <2>2. m.op \in Ops /\ m.op \in OpType /\ Ops' = Ops
    BY <2>1 DEF Apply, Ops, WInv, TypeOK
  <2>3. Ops' = Ops \cup {m.op}
    BY <2>2
  <2> QED BY <2>1, <2>2, <2>3, OneApplies DEF Apply
<1>5. ASSUME NEW n \in Node, TakeCopy(n) PROVE WInv'
  <2>1. Ops' = Ops
    BY <1>5 DEF TakeCopy, Ops
  <2>2. TypeOK' /\ AddWins'
    BY <1>5, <2>1 DEF TakeCopy, WInv, TypeOK, AddWins
  <2>3. Wins(entries[n], known[n], RemovedTokens(Ops))
    BY AddWinsIsWins DEF WInv
  <2>4. copy'.entries = entries[n] /\ copy'.known = known[n]
    BY <1>5 DEF TakeCopy
  <2>5. CopyOK'
    BY <2>1, <2>3, <2>4 DEF CopyOK, WInv, TypeOK
  <2> QED BY <2>2, <2>5 DEF WInv
<1>6. ASSUME NEW n \in Node, Merge(n) PROVE WInv'
  <2>1. Ops' = Ops /\ copy' = copy /\ copy.taken
    BY <1>6 DEF Merge, Ops
  <2>2. CopyOK'
    BY <2>1 DEF WInv, CopyOK
  <2>3. TypeOK'
    BY <1>6, <2>1 DEF Merge, SetMerge, WInv, TypeOK, CopyOK
  <2>4. ASSUME NEW m \in Node
        PROVE  Wins(entries'[m], known'[m], RemovedTokens(Ops))
    <3>1. Wins(entries[m], known[m], RemovedTokens(Ops))
      BY AddWinsIsWins DEF WInv
    <3>2. Wins(copy.entries, copy.known, RemovedTokens(Ops))
      BY <2>1 DEF WInv, CopyOK
    <3>3. CASE m = n
      <4>1. /\ entries'[m] = SetMerge(entries[m], copy.entries)
            /\ known'[m] = known[m] \cup copy.known
        BY <1>6, <3>3 DEF Merge, WInv, TypeOK
      <4> QED BY <3>1, <3>2, <4>1, WinsMerge
    <3>4. CASE m # n
      BY <1>6, <3>1, <3>4 DEF Merge, WInv, TypeOK
    <3> QED BY <3>3, <3>4
  <2>5. AddWins'
    BY <2>1, <2>4 DEF AddWins, Wins
  <2> QED BY <2>2, <2>3, <2>5 DEF WInv
<1> QED
  BY <1>1, <1>2, <1>3, <1>4, <1>5, <1>6 DEF Next, LocalStep

\* An add that nobody removed is never lost, for any number of replicas and
\* whatever is reordered, replayed, lost or merged.
THEOREM AddsAreNotLost == Spec => []AddWins
<1>1. WInv => AddWins
  BY DEF WInv
<1> QED BY InitWInv, WNext, <1>1, PTL DEF Spec

-----------------------------------------------------------------------------
(* SetConvergence is an invariant of Spec.                                 *)

\* SetConvergence of one replica or copy, and what keeps it: the Add of every
\* token that it reflects as removed is reflected too.
Exact(es, ops) ==
    /\ RemovedTokens(ops) \subseteq AddedTokens(ops)
    /\ es = {p \in AddedPairs(ops) : p[2] \notin RemovedTokens(ops)}

\* A Remove, whoever produced it, names only tokens whose Add its producer knew.
NetOK == \A m \in net : /\ m.past \subseteq Ops
                        /\ m.op.type = "Remove" =>
                              m.op.tokens \subseteq AddedTokens(m.past)

\* No token is drawn twice.
UniqueTokens == \A a, b \in Adds(Ops) : a.token = b.token => a = b

OrderlyExact ==
    /\ \A n \in Orderly : Exact(entries[n], known[n])
    /\ copy.taken => (copy.from \in Orderly => Exact(copy.entries, copy.known))

\* The inductive invariant for SetConvergence.
IInv == WInv /\ NetOK /\ UniqueTokens /\ OrderlyExact

\* An Add whose token has not been removed ...
LEMMA ExactAdd ==
    ASSUME NEW es, NEW ops, NEW op, Exact(es, ops),
           op.type = "Add", op.token \notin RemovedTokens(ops)
    PROVE  Exact(SetApply(es, op), ops \cup {op})
<1>1. /\ AddedPairs(ops \cup {op}) = AddedPairs(ops) \cup {<<op.value, op.token>>}
      /\ AddedTokens(ops \cup {op}) = AddedTokens(ops) \cup {op.token}
      /\ RemovedTokens(ops \cup {op}) = RemovedTokens(ops)
  BY OneMoreAdd
<1>2. SetApply(es, op) = es \cup {<<op.value, op.token>>}
  BY DEF SetApply
<1>3. {p \in AddedPairs(ops) \cup {<<op.value, op.token>>} : p[2] \notin RemovedTokens(ops)}
        = {p \in AddedPairs(ops) : p[2] \notin RemovedTokens(ops)}
            \cup {<<op.value, op.token>>}
  BY FilterOneMore
<1> QED BY <1>1, <1>2, <1>3 DEF Exact

\* ... and a Remove of tokens that are all known keep a replica exact.
LEMMA ExactRemove ==
    ASSUME NEW es, NEW ops, NEW op, Exact(es, ops),
           op.type = "Remove", op.tokens \subseteq AddedTokens(ops)
    PROVE  Exact(SetApply(es, op), ops \cup {op})
<1>1. /\ AddedPairs(ops \cup {op}) = AddedPairs(ops)
      /\ AddedTokens(ops \cup {op}) = AddedTokens(ops)
      /\ RemovedTokens(ops \cup {op}) = RemovedTokens(ops) \cup op.tokens
  BY OneMoreRemove
<1>2. SetApply(es, op) = {p \in es : p[2] \notin op.tokens}
  BY DEF SetApply
<1> QED BY <1>1, <1>2 DEF Exact

\* One replica applies an operation; if it is orderly, it stays exact.
LEMMA ExactOneApplies ==
    ASSUME IInv, NEW n \in Node, NEW op,
           entries' = [entries EXCEPT ![n] = SetApply(@, op)],
           known' = [known EXCEPT ![n] = @ \cup {op}],
           UNCHANGED copy,
           n \in Orderly => Exact(SetApply(entries[n], op), known[n] \cup {op})
    PROVE  OrderlyExact'
<1>1. ASSUME NEW m \in Orderly PROVE Exact(entries'[m], known'[m])
  <2>1. m \in Node
    BY OrderlyAssumption
  <2>2. CASE m = n
    <3>1. entries'[m] = SetApply(entries[n], op) /\ known'[m] = known[n] \cup {op}
      BY <2>1, <2>2 DEF IInv, WInv, TypeOK
    <3> QED BY <2>2, <3>1
  <2>3. CASE m # n
    <3>1. entries'[m] = entries[m] /\ known'[m] = known[m]
      BY <2>1, <2>3 DEF IInv, WInv, TypeOK
    <3> QED BY <3>1 DEF IInv, OrderlyExact
  <2> QED BY <2>2, <2>3
<1> QED BY <1>1 DEF IInv, OrderlyExact

\* What a producer sends extends the network as NetOK demands.
LEMMA NetProduce ==
    ASSUME IInv, NEW n \in Node, NEW op, Produce(n, op),
           op.type = "Remove" => op.tokens \subseteq AddedTokens(known[n])
    PROVE  NetOK'
<1> SUFFICES ASSUME NEW m \in net'
             PROVE  /\ m.past \subseteq Ops'
                    /\ m.op.type = "Remove" =>
                          m.op.tokens \subseteq AddedTokens(m.past)
  BY DEF NetOK
<1>1. m \in net \/ m = [op |-> op, past |-> known[n]]
  BY DEF Produce
<1>2. known[n] \subseteq Ops
  BY DEF IInv, WInv, TypeOK
<1>3. Ops' = Ops \cup {op}
  BY ProduceOps
<1>4. CASE m \in net
  BY <1>3, <1>4 DEF IInv, NetOK
<1>5. CASE m = [op |-> op, past |-> known[n]]
  <2>1. m.op = op /\ m.past = known[n]
    BY <1>5
  <2> QED BY <1>2, <1>3, <2>1
<1> QED BY <1>1, <1>4, <1>5

\* The producer of an Add draws a token nobody knows, hence nobody removed.
LEMMA AddStep ==
    ASSUME IInv, NEW n \in Node, NEW v \in Value, Add(n, v)
    PROVE  NetOK' /\ UniqueTokens' /\ OrderlyExact'
<1>1. PICK token \in Token \ {op.token : op \in Adds(Ops)} :
          Produce(n, AddOp(v, token))
  BY DEF Add
<1>2. PICK op : op = AddOp(v, token)
  OBVIOUS
<1>3. Produce(n, op) /\ op.type = "Add" /\ op.token = token
  BY <1>1, <1>2 DEF AddOp
<1>4. Ops' = Ops \cup {op}
  BY <1>3, ProduceOps
<1>5. NetOK'
  BY <1>3, NetProduce
<1>6. UniqueTokens'
  BY <1>1, <1>3, <1>4 DEF IInv, UniqueTokens, Adds
<1>7. ASSUME n \in Orderly
      PROVE  Exact(SetApply(entries[n], op), known[n] \cup {op})
  <2>1. Exact(entries[n], known[n])
    BY <1>7 DEF IInv, OrderlyExact
  <2>2. AddedTokens(known[n]) \subseteq AddedTokens(Ops)
    BY Monotone DEF IInv, WInv, TypeOK
  <2>3. op.token \notin RemovedTokens(known[n])
    BY <1>1, <1>3, <2>1, <2>2 DEF Exact, AddedTokens
  <2> QED BY <1>3, <2>1, <2>3, ExactAdd
<1>8. OrderlyExact'
  BY <1>3, <1>7, ExactOneApplies DEF Produce
<1> QED BY <1>5, <1>6, <1>8

\* A producer removes only tokens it has, and it has none that it does not
\* know was added.
LEMMA RemoveStep ==
    ASSUME IInv, NEW n \in Node, NEW v \in Value, Remove(n, v)
    PROVE  NetOK' /\ UniqueTokens' /\ OrderlyExact'
<1>1. PICK op : op = RemoveOp(entries[n], v)
  OBVIOUS
<1>2. Produce(n, op) /\ op.type = "Remove" /\ op.tokens = TokensOf(entries[n], v)
  BY <1>1 DEF Remove, RemoveOp
<1>3. op.tokens \subseteq AddedTokens(known[n])
  <2>1. entries[n] \subseteq AddedPairs(known[n])
    BY DEF IInv, WInv, AddWins
  <2> QED
    BY <1>2, <2>1 DEF TokensOf, AddedPairs, AddedTokens
<1>4. NetOK'
  BY <1>2, <1>3, NetProduce
<1>5. Ops' = Ops \cup {op}
  BY <1>2, ProduceOps
<1>6. UniqueTokens'
  BY <1>2, <1>5 DEF IInv, UniqueTokens, Adds
<1>7. n \in Orderly => Exact(SetApply(entries[n], op), known[n] \cup {op})
  BY <1>2, <1>3, ExactRemove DEF IInv, OrderlyExact
<1>8. OrderlyExact'
  BY <1>2, <1>7, ExactOneApplies DEF Produce
<1> QED BY <1>4, <1>6, <1>8

\* What arrives in causal order is either an Add whose token has not been
\* removed, or a Remove whose tokens are all known.
LEMMA DeliverStep ==
    ASSUME IInv, NEW n \in Node, Deliver(n)
    PROVE  NetOK' /\ UniqueTokens' /\ OrderlyExact'
<1>1. PICK m \in net : (n \in Orderly => Causal(n, m)) /\ Apply(n, m.op)
  BY DEF Deliver
<1>2. PICK op : op = m.op
  OBVIOUS
<1>3. op \in Ops /\ op \in OpType
  BY <1>2 DEF Ops, IInv, WInv, TypeOK
<1>4. Ops' = Ops /\ net' = net
  BY <1>1 DEF Apply, Ops
<1>5. NetOK' /\ UniqueTokens'
  BY <1>4 DEF IInv, NetOK, UniqueTokens
<1>6. ASSUME n \in Orderly
      PROVE  Exact(SetApply(entries[n], op), known[n] \cup {op})
  <2>1. op \notin known[n] /\ m.past \subseteq known[n]
    BY <1>1, <1>2, <1>6 DEF Causal
  <2>2. Exact(entries[n], known[n])
    BY <1>6 DEF IInv, OrderlyExact
  <2>3. CASE op.type = "Remove"
    <3>1. op.tokens \subseteq AddedTokens(m.past)
      BY <1>2, <2>3 DEF IInv, NetOK
    <3>2. AddedTokens(m.past) \subseteq AddedTokens(known[n])
      BY <2>1, Monotone
    <3> QED BY <2>2, <2>3, <3>1, <3>2, ExactRemove
  <2>4. CASE op.type = "Add"
    <3>1. op.token \notin RemovedTokens(known[n])
      <4> SUFFICES ASSUME op.token \in RemovedTokens(known[n]) PROVE FALSE
        OBVIOUS
      <4>1. PICK a \in Adds(known[n]) : a.token = op.token
        BY <2>2 DEF Exact, AddedTokens
      <4>2. a \in Adds(Ops) /\ op \in Adds(Ops) /\ a \in known[n]
        BY <1>3, <2>4 DEF IInv, WInv, TypeOK, Adds
      <4>3. a = op
        BY <4>1, <4>2 DEF IInv, UniqueTokens
      <4> QED BY <2>1, <4>2, <4>3
    <3> QED BY <2>2, <2>4, <3>1, ExactAdd
  <2> QED BY <1>3, <2>3, <2>4 DEF OpType
<1>7. OrderlyExact'
  BY <1>1, <1>2, <1>6, ExactOneApplies DEF Apply
<1> QED BY <1>5, <1>7

LEMMA TakeCopyStep ==
    ASSUME IInv, NEW n \in Node, TakeCopy(n)
    PROVE  NetOK' /\ UniqueTokens' /\ OrderlyExact'
<1>1. UNCHANGED <<entries, net, known>> /\ Ops' = Ops
  BY DEF TakeCopy, Ops
<1>2. copy'.from = n /\ copy'.entries = entries[n] /\ copy'.known = known[n]
  BY DEF TakeCopy
<1>3. NetOK' /\ UniqueTokens'
  BY <1>1 DEF IInv, NetOK, UniqueTokens
<1>4. OrderlyExact'
  BY <1>1, <1>2 DEF IInv, OrderlyExact
<1> QED BY <1>3, <1>4

\* An orderly replica merges only when it reflects nothing, so that it becomes
\* the copy.
LEMMA MergeStep ==
    ASSUME IInv, NEW n \in Node, Merge(n)
    PROVE  NetOK' /\ UniqueTokens' /\ OrderlyExact'
<1>1. UNCHANGED <<net, copy>> /\ Ops' = Ops
  BY DEF Merge, Ops
<1>2. NetOK' /\ UniqueTokens'
  BY <1>1 DEF IInv, NetOK, UniqueTokens
<1>3. ASSUME NEW m \in Orderly PROVE Exact(entries'[m], known'[m])
  <2>1. m \in Node
    BY OrderlyAssumption
  <2>2. Exact(entries[m], known[m])
    BY DEF IInv, OrderlyExact
  <2>3. CASE m = n
    <3>1. copy.taken /\ copy.from \in Orderly /\ known[m] = {}
      BY <2>3 DEF Merge
    <3>2. entries[m] = {}
      BY <2>2, <3>1 DEF Exact, AddedPairs, Adds
    <3>3. entries'[m] = entries[m] \cup copy.entries /\ known'[m] = known[m] \cup copy.known
      BY <2>1, <2>3 DEF Merge, SetMerge, IInv, WInv, TypeOK
    <3>4. entries'[m] = copy.entries /\ known'[m] = copy.known
      BY <3>1, <3>2, <3>3
    <3>5. Exact(copy.entries, copy.known)
      BY <3>1 DEF IInv, OrderlyExact
    <3> QED BY <3>4, <3>5
  <2>4. CASE m # n
    <3>1. entries'[m] = entries[m] /\ known'[m] = known[m]
      BY <2>1, <2>4 DEF Merge, IInv, WInv, TypeOK
    <3> QED BY <2>2, <3>1
  <2> QED BY <2>3, <2>4
<1>4. OrderlyExact'
  BY <1>1, <1>3 DEF IInv, OrderlyExact
<1> QED BY <1>2, <1>4

\* Strong convergence of the replicas that get operations in causal order, for
\* any number of replicas, elements and operations, although other replicas
\* get theirs in any order, more than once and by merging.
THEOREM CausalConvergence == Spec => []SetConvergence
<1>1. IInv /\ [Next]_vars => IInv'
  <2> SUFFICES ASSUME IInv, [Next]_vars PROVE IInv'
    OBVIOUS
  <2>1. WInv'
    BY WNext DEF IInv
  <2>2. NetOK' /\ UniqueTokens' /\ OrderlyExact'
    <3>1. CASE UNCHANGED vars
      BY <3>1 DEF vars, IInv, NetOK, UniqueTokens, OrderlyExact, Ops
    <3>2. CASE Next
      <4>1. PICK n \in Node : LocalStep(n) \/ Deliver(n) \/ TakeCopy(n) \/ Merge(n)
        BY <3>2 DEF Next
      <4>2. CASE LocalStep(n)
        BY <4>2, AddStep, RemoveStep DEF LocalStep
      <4> QED BY <4>1, <4>2, DeliverStep, TakeCopyStep, MergeStep
    <3> QED BY <3>1, <3>2
  <2> QED BY <2>1, <2>2 DEF IInv
<1>2. IInv => SetConvergence
  BY DEF IInv, OrderlyExact, Exact, SetConvergence
<1>3. Init => IInv
  <2> SUFFICES ASSUME Init PROVE IInv
    OBVIOUS
  <2>1. WInv
    BY InitWInv
  <2>2. NetOK /\ UniqueTokens
    BY DEF Init, NetOK, UniqueTokens, Ops, Adds
  <2>3. OrderlyExact
    BY OrderlyAssumption DEF Init, OrderlyExact, Exact, NoCopy, EmptySet, Adds, AddedPairs,
       AddedTokens, RemovedTokens
  <2> QED BY <2>1, <2>2, <2>3 DEF IInv
<1> QED BY <1>1, <1>2, <1>3, PTL DEF Spec

=============================================================================
