--------------------------- MODULE SyncSystemProofs ---------------------------
(***************************************************************************)
(* Proofs about StateStore, for any nodes, keys, values and bounds: what   *)
(* its timestamps say, that its registers converge, that its sets are      *)
(* those of ORSetReplicas, and what pruning leaves of its sequences.       *)
(* Then, about clients and a relay, for any clients, stores, programs and  *)
(* bounds: where a write is, in which order the writes arrive, who has all *)
(* that the relay has, and that programs that have got the same writes     *)
(* read the same registers, sets and lists.                                *)
(***************************************************************************)
EXTENDS SyncSystem, SetRefinement, DataLemmas

-----------------------------------------------------------------------------
(* The stores alone.                                                       *)

\* What a set of envelopes of a store or snapshot has to do with its clock.
Covers(time, envs) ==
    /\ time \in 0..MaxClock
    /\ envs \subseteq net
    /\ \A e \in envs : e.timestamp <= time

\* The history part of the inductive invariant: a store's clock has reached
\* the timestamp of all it reflects, its own envelopes included.
HInv ==
    /\ clock \in [Node -> 0..MaxClock]
    /\ known \in [Node -> SUBSET net]
    /\ DOMAIN past = net
    /\ \A e \in net : e.timestamp \in 1..MaxClock /\ e.node \in Node /\ e \in known[e.node]
    /\ \A n \in Node : Covers(clock[n], known[n])
    /\ snapshot.taken => Covers(snapshot.clock, snapshot.known)
    /\ LamportCausality
    /\ UniqueStamps

LEMMA BoundsAreInt == MaxClock \in Int /\ MaxOps \in Int
BY BoundAssumption

LEMMA HInit == Init => HInv
BY BoundAssumption
DEF Init, HInv, Covers, ClockInit, LamportCausality, UniqueStamps, NoSnapshot

\* The clock only moves: nothing is produced or learned.
LEMMA HTick ==
    ASSUME HInv, NEW n \in Node, TickClock(n),
           UNCHANGED <<net, snapshot, known, past>>
    PROVE  HInv'
<1>1. clock' \in [Node -> 0..MaxClock] /\ \A m \in Node : clock[m] <= clock'[m]
  BY BoundsAreInt DEF HInv, TickClock, Tick
<1>2. \A m \in Node : Covers(clock[m], known[m])' 
  BY <1>1, BoundsAreInt DEF HInv, Covers
<1> QED
  BY <1>1, <1>2 DEF HInv, Covers, LamportCausality, UniqueStamps

\* A new envelope is later than all its producer knows, hence new.
LEMMA HEmit ==
    ASSUME HInv, NEW n \in Node, NEW kind, NEW key, NEW op,
           TickClock(n), Emit(n, kind, key, op), UNCHANGED snapshot
    PROVE  HInv'
<1> DEFINE env == Envelope(Tick(clock[n]), n, kind, key, op)
<1>1. /\ net' = net \cup {env}
      /\ known' = [known EXCEPT ![n] = @ \cup {env}]
      /\ past' = [e \in net' |-> IF e = env THEN known[n] ELSE past[e]]
  BY DEF Emit
<1>2. env.timestamp = clock[n] + 1 /\ env.node = n
  BY DEF Envelope, Tick
<1>3. clock[n] \in 0..MaxClock /\ clock[n] < MaxClock
  BY DEF HInv, TickClock
<1>4. /\ clock' \in [Node -> 0..MaxClock]
      /\ clock'[n] = clock[n] + 1
      /\ \A m \in Node \ {n} : clock'[m] = clock[m]
  BY <1>3, BoundsAreInt DEF HInv, TickClock, Tick
<1>5. env.timestamp \in 1..MaxClock
  BY <1>2, <1>3, BoundsAreInt
<1>6. \A e \in known[n] : e.timestamp \in 1..MaxClock /\ e.timestamp < env.timestamp
  BY <1>2, <1>3, BoundsAreInt DEF HInv, Covers
<1>7. known' \in [Node -> SUBSET net']
  BY <1>1 DEF HInv
<1>8. \A e \in net : e.node = n => e.timestamp < env.timestamp
  BY <1>6 DEF HInv
<1>9. env \notin net
  BY <1>2, <1>5, <1>8, BoundsAreInt
<1>10. /\ DOMAIN past' = net'
       /\ past'[env] = known[n]
       /\ \A f \in net : past'[f] = past[f]
  BY <1>1, <1>9 DEF HInv
<1>11. \A e \in net' : e.timestamp \in 1..MaxClock /\ e.node \in Node /\ e \in known'[e.node]
  BY <1>1, <1>2, <1>5 DEF HInv
<1>12. ASSUME NEW m \in Node PROVE Covers(clock[m], known[m])'
  <2>1. CASE m = n
    <3>1. known'[m] = known[n] \cup {env}
      BY <1>1, <2>1 DEF HInv
    <3> QED
      BY <1>1, <1>2, <1>3, <1>4, <1>6, <1>7, <2>1, <3>1, BoundsAreInt DEF Covers
  <2>2. CASE m # n
    BY <1>1, <1>4, <2>2 DEF HInv, Covers
  <2> QED BY <2>1, <2>2
<1>13. (snapshot.taken => Covers(snapshot.clock, snapshot.known))'
  BY <1>1 DEF HInv, Covers
<1>14. LamportCausality'
  BY <1>1, <1>6, <1>10 DEF HInv, LamportCausality
<1>15. UniqueStamps'
  <2> SUFFICES ASSUME NEW e \in net', NEW f \in net',
                      e.timestamp = f.timestamp, e.node = f.node
               PROVE  e = f
    BY DEF UniqueStamps
  <2>1. CASE e \in net /\ f \in net
    BY <2>1 DEF HInv, UniqueStamps
  <2>2. CASE e = env /\ f \in net
    BY <1>2, <1>5, <1>8, <2>2, BoundsAreInt
  <2>3. CASE e \in net /\ f = env
    BY <1>2, <1>5, <1>8, <2>3, BoundsAreInt
  <2>4. CASE e = env /\ f = env
    BY <2>4
  <2> QED BY <1>1, <2>1, <2>2, <2>3, <2>4
<1> QED BY <1>4, <1>7, <1>10, <1>11, <1>12, <1>13, <1>14, <1>15 DEF HInv

\* What a store learns, from one envelope or a snapshot, its clock passes.
LEMMA HLearn ==
    ASSUME HInv, NEW n \in Node, NEW time, NEW envs, Covers(time, envs),
           UpdateClock(n, time), known' = [known EXCEPT ![n] = @ \cup envs],
           UNCHANGED <<net, snapshot, past>>
    PROVE  HInv'
<1>1. time \in Int /\ clock[n] \in Int
  BY BoundsAreInt DEF Covers, HInv
<1>2. /\ clock' \in [Node -> 0..MaxClock]
      /\ clock'[n] >= time /\ clock'[n] >= clock[n]
      /\ \A m \in Node \ {n} : clock'[m] = clock[m]
  BY <1>1, BoundsAreInt DEF HInv, UpdateClock, Update, Covers
<1>3. known' \in [Node -> SUBSET net']
      /\ \A m \in Node : known[m] \subseteq known'[m]
  BY DEF HInv, Covers
<1>4. ASSUME NEW m \in Node PROVE Covers(clock[m], known[m])'
  <2>1. CASE m = n
    <3>1. known'[m] = known[m] \cup envs
      BY <2>1 DEF HInv
    <3>2. \A e \in net : e.timestamp \in Int
      BY BoundsAreInt DEF HInv
    <3> QED
      BY <1>1, <1>2, <1>3, <2>1, <3>1, <3>2, BoundsAreInt DEF HInv, Covers
  <2>2. CASE m # n
    BY <1>2, <2>2 DEF HInv, Covers
  <2> QED BY <2>1, <2>2
<1>5. \A e \in net' : e.timestamp \in 1..MaxClock /\ e.node \in Node /\ e \in known'[e.node]
  BY <1>3 DEF HInv
<1> QED
  BY <1>2, <1>3, <1>4, <1>5 DEF HInv, Covers, LamportCausality, UniqueStamps

LEMMA HTakeSnapshot ==
    ASSUME HInv, NEW n \in Node, TakeSnapshot(n)
    PROVE  HInv'
<1>1. UNCHANGED <<clock, net, known, past>>
  BY DEF TakeSnapshot, StoreCopy, store, history
<1>2. /\ snapshot'.clock = clock[n]
      /\ snapshot'.known \subseteq known[n]
  BY DEF TakeSnapshot, StoreCopy, Carried
<1>3. Covers(snapshot.clock, snapshot.known)'
  BY <1>1, <1>2 DEF HInv, Covers
<1> QED
  BY <1>1, <1>3 DEF HInv, Covers, LamportCausality, UniqueStamps

LEMMA HReceive ==
    ASSUME HInv, NEW n \in Node, NEW env \in net, ApplyEnvelope(n, env)
    PROVE  HInv'
<1>1. Covers(env.timestamp, {env})
  BY BoundsAreInt DEF HInv, Covers
<1>2. UpdateClock(n, env.timestamp) /\ known' = [known EXCEPT ![n] = @ \cup {env}]
      /\ UNCHANGED <<net, snapshot, past>>
  BY DEF ApplyEnvelope
<1> QED BY <1>1, <1>2, HLearn

LEMMA HMergeSnapshot ==
    ASSUME HInv, NEW n \in Node, MergeSnapshot(n)
    PROVE  HInv'
<1>1. Covers(snapshot.clock, snapshot.known)
  BY DEF HInv, MergeSnapshot
<1>2. UpdateClock(n, snapshot.clock)
      /\ known' = [known EXCEPT ![n] = @ \cup snapshot.known]
      /\ UNCHANGED <<net, snapshot, past>>
  BY DEF MergeSnapshot, Merge
<1> QED BY <1>1, <1>2, HLearn

LEMMA HLocal ==
    ASSUME HInv, NEW n \in Node, LocalOperation(n)
    PROVE  HInv'
<1>1. ASSUME NEW k \in RegKey, NEW v \in Value, SetRegister(n, k, v) PROVE HInv'
  BY <1>1, HEmit DEF SetRegister
<1>2. ASSUME NEW k \in SetKey, NEW v \in Value, SetAdd(n, k, v) PROVE HInv'
  BY <1>2, HEmit DEF SetAdd
<1>3. ASSUME NEW k \in SetKey, NEW v \in Value, SetRemove(n, k, v) PROVE HInv'
  BY <1>3, HEmit DEF SetRemove
<1>4. ASSUME NEW k \in SetKey, NEW v \in Value, SetRemoveAbsent(n, k, v) PROVE HInv'
  BY <1>4, HTick DEF SetRemoveAbsent
<1>5. ASSUME NEW k \in SeqKey, NEW i, SeqInsert(n, k, i) PROVE HInv'
  BY <1>5, HEmit DEF SeqInsert
<1>6. ASSUME NEW k \in SeqKey, NEW i, SeqDelete(n, k, i) PROVE HInv'
  BY <1>6, HEmit DEF SeqDelete
<1>7. ASSUME SeqDeleteNone(n) PROVE HInv'
  BY <1>7, HTick DEF SeqDeleteNone
<1> QED
  BY <1>1, <1>2, <1>3, <1>4, <1>5, <1>6, <1>7 DEF LocalOperation

\* Tombstones play no part in the clocks.
LEMMA HPrune ==
    ASSUME HInv, NEW n \in Node, Prune(n)
    PROVE  HInv'
<1>1. UNCHANGED <<clock, net, snapshot, known, past>>
  BY DEF Prune, PruneTombstones
<1> QED BY <1>1 DEF HInv, Covers, LamportCausality, UniqueStamps

LEMMA HNext == HInv /\ [Next]_vars => HInv'
<1> SUFFICES ASSUME HInv, [Next]_vars PROVE HInv'
  OBVIOUS
<1>1. CASE UNCHANGED vars
  BY <1>1 DEF vars, HInv, Covers, LamportCausality, UniqueStamps
<1>2. CASE Next
  <2>1. PICK n \in Node : \/ LocalOperation(n) \/ Receive(n)
                          \/ TakeSnapshot(n) \/ MergeSnapshot(n) \/ Prune(n)
    BY <1>2 DEF Next
  <2> QED
    BY <2>1, HLocal, HReceive, HTakeSnapshot, HMergeSnapshot, HPrune DEF Receive
<1> QED BY <1>1, <1>2

\* Every envelope is later than all its producer's state reflected, over any
\* network and with any snapshots.
THEOREM TimestampsFollowCausality == Spec => []LamportCausality
<1>1. HInv => LamportCausality
  BY DEF HInv
<1> QED BY HInit, HNext, <1>1, PTL DEF Spec

\* A timestamp and its producer identify an envelope.
THEOREM StampsIdentify == Spec => []UniqueStamps
<1>1. HInv => UniqueStamps
  BY DEF HInv
<1> QED BY HInit, HNext, <1>1, PTL DEF Spec

-----------------------------------------------------------------------------
(* Registers.                                                              *)

Write == [set : {TRUE}, value : Value, timestamp : 1..MaxClock, node : Node]

\* Writes that no timestamp and node is shared by.
Comparable(ws) ==
    /\ ws \subseteq Write
    /\ \A a, b \in ws : (a.timestamp = b.timestamp /\ a.node = b.node) => a = b

\* The register holds the greatest of the writes.
Holds(reg, ws) ==
    IF ws = {} THEN reg = Unset
    ELSE reg \in ws /\ \A w \in ws \ {reg} : Newer(reg, w)

LEMMA WriteStamps ==
    ASSUME NEW w \in Write
    PROVE  w.timestamp \in Int /\ w.node \in Int
<1>1. w.timestamp \in 1..MaxClock /\ w.node \in Node
  BY DEF Write
<1>2. w.node \in Nat
  BY <1>1, NodeAssumption
<1> QED BY <1>1, <1>2, BoundsAreInt

LEMMA NewerTransitive ==
    ASSUME NEW a \in Write, NEW b \in Write, NEW c \in Write, Newer(a, b), Newer(b, c)
    PROVE  Newer(a, c)
BY WriteStamps DEF Newer, Later

LEMMA NewerTotal ==
    ASSUME NEW a \in Write, NEW b \in Write, ~Newer(a, b)
    PROVE  Newer(b, a) \/ (a.timestamp = b.timestamp /\ a.node = b.node)
BY WriteStamps DEF Newer, Later

\* apply keeps the greatest write, wherever the new one falls in the order.
LEMMA HoldsApply ==
    ASSUME NEW ws, NEW op \in Write, NEW reg, Comparable(ws \cup {op}), Holds(reg, ws)
    PROVE  Holds(RegApply(reg, op), ws \cup {op})
<1>1. CASE ws = {}
  BY <1>1 DEF Holds, RegApply, Unset
<1>2. CASE ws # {}
  <2>1. reg \in ws /\ (\A w \in ws \ {reg} : Newer(reg, w)) /\ ws \subseteq Write
    BY <1>2 DEF Holds, Comparable
  <2>2. reg.set = TRUE
    BY <2>1 DEF Write
  <2>3. CASE Newer(op, reg)
    <3>1. RegApply(reg, op) = op
      BY <2>3 DEF RegApply
    <3>2. \A w \in ws : Newer(op, w)
      BY <2>1, <2>3, NewerTransitive
    <3> QED BY <3>1, <3>2 DEF Holds
  <2>4. CASE ~Newer(op, reg)
    <3>1. RegApply(reg, op) = reg
      BY <2>2, <2>4 DEF RegApply
    <3>2. op = reg \/ Newer(reg, op)
      BY <2>1, <2>4, NewerTotal DEF Comparable
    <3> QED BY <2>1, <3>1, <3>2 DEF Holds
  <2> QED BY <2>3, <2>4
<1> QED BY <1>1, <1>2

\* merge keeps the greatest of the writes of both.
LEMMA HoldsMerge ==
    ASSUME NEW w1, NEW w2, NEW r1, NEW r2, Comparable(w1 \cup w2),
           Holds(r1, w1), Holds(r2, w2)
    PROVE  Holds(RegMerge(r1, r2), w1 \cup w2)
<1>1. CASE w2 = {}
  BY <1>1 DEF Holds, RegMerge, Unset
<1>2. CASE w2 # {}
  <2>1. /\ r2 \in w2 /\ (\A w \in w2 \ {r2} : Newer(r2, w))
        /\ w2 \subseteq Write /\ r2 \in Write
    BY <1>2 DEF Holds, Comparable
  <2>2. RegMerge(r1, r2) = RegApply(r1, r2)
    BY <2>1 DEF RegMerge, Write
  <2>3. Comparable(w1 \cup {r2})
    BY <2>1 DEF Comparable
  <2>4. Holds(RegApply(r1, r2), w1 \cup {r2})
    BY <2>1, <2>3, HoldsApply
  <2> DEFINE r == RegApply(r1, r2)
  <2>5. /\ r \in w1 \cup {r2} /\ r \in Write
        /\ \A w \in (w1 \cup {r2}) \ {r} : Newer(r, w)
    BY <2>3, <2>4 DEF Holds, Comparable
  <2> HIDE DEF r
  <2>6. \A w \in w2 \ {r} : Newer(r, w)
    <3> SUFFICES ASSUME NEW w \in w2 \ {r} PROVE Newer(r, w)
      OBVIOUS
    <3>1. CASE w = r2
      BY <2>5, <3>1
    <3>2. CASE w # r2 /\ r = r2
      BY <2>1, <3>2
    <3>3. CASE w # r2 /\ r # r2
      <4>1. Newer(r, r2) /\ Newer(r2, w) /\ w \in Write
        BY <2>1, <2>5, <3>3
      <4> QED BY <2>1, <2>5, <4>1, NewerTransitive
    <3> QED BY <3>1, <3>2, <3>3
  <2>7. Holds(r, w1 \cup w2)
    BY <1>2, <2>1, <2>5, <2>6 DEF Holds
  <2> QED BY <2>2, <2>7 DEF r
<1> QED BY <1>1, <1>2

\* An envelope that writes a register carries its own stamp.
WritesOK ==
    \A e \in net : e.kind = "Register" =>
        /\ e.key \in RegKey /\ e.op \in Write
        /\ e.op.timestamp = e.timestamp /\ e.op.node = e.node

\* The register part of the inductive invariant.
RInv ==
    /\ registers \in [Node -> [RegKey -> RegType]]
    /\ WritesOK
    /\ \A n \in Node, k \in RegKey : Holds(registers[n][k], Writes(known[n], k))
    /\ snapshot.taken =>
          /\ snapshot.registers \in [RegKey -> RegType]
          /\ \A k \in RegKey : Holds(snapshot.registers[k], Writes(snapshot.known, k))

LEMMA WritesComparable ==
    ASSUME HInv, WritesOK, NEW k, NEW envs \in SUBSET net
    PROVE  Comparable(Writes(envs, k))
BY DEF HInv, UniqueStamps, WritesOK, Comparable, Writes

\* A step that leaves the registers of a store as they are and produces or
\* learns no write keeps the register part.
LEMMA REmitOther ==
    ASSUME HInv, RInv, NEW n \in Node, NEW kind, NEW key, NEW op, kind # "Register",
           Emit(n, kind, key, op), UNCHANGED <<registers, snapshot>>
    PROVE  RInv'
<1> DEFINE env == Envelope(Tick(clock[n]), n, kind, key, op)
<1>1. /\ net' = net \cup {env}
      /\ known' = [known EXCEPT ![n] = @ \cup {env}]
      /\ env.kind # "Register"
  BY DEF Emit, Envelope
<1> HIDE DEF env
<1>2. \A k \in RegKey, m \in Node : Writes(known'[m], k) = Writes(known[m], k)
  BY <1>1 DEF HInv, Writes
<1> QED BY <1>1, <1>2 DEF RInv, WritesOK

\* The register write of a store.
LEMMA RSetRegister ==
    ASSUME HInv, HInv', RInv, NEW n \in Node, NEW k \in RegKey, NEW v \in Value,
           SetRegister(n, k, v)
    PROVE  RInv'
<1> DEFINE op == LWWOp(v, Tick(clock[n]), n)
           env == Envelope(Tick(clock[n]), n, "Register", k, op)
<1>1. /\ registers' = [registers EXCEPT ![n][k] = RegApply(@, op)]
      /\ net' = net \cup {env}
      /\ known' = [known EXCEPT ![n] = @ \cup {env}]
      /\ UNCHANGED snapshot
  BY DEF SetRegister, Emit
<1>2. Tick(clock[n]) \in 1..MaxClock
  BY BoundsAreInt DEF SetRegister, TickClock, Tick, HInv
<1>3. op \in Write /\ op.timestamp = Tick(clock[n]) /\ op.node = n
  BY <1>2 DEF LWWOp, Write
<1>4. /\ env.kind = "Register" /\ env.key = k /\ env.op = op
      /\ env.timestamp = Tick(clock[n]) /\ env.node = n
  BY DEF Envelope
<1> HIDE DEF op, env
<1>5. WritesOK'
  BY <1>1, <1>3, <1>4 DEF RInv, WritesOK
<1>6. registers' \in [Node -> [RegKey -> RegType]]
  <2>1. RegApply(registers[n][k], op) \in RegType
    BY <1>3 DEF RInv, RegApply, RegType, Write
  <2> QED BY <1>1, <2>1 DEF RInv
<1>7. ASSUME NEW m \in Node, NEW j \in RegKey
      PROVE  Holds(registers'[m][j], Writes(known'[m], j))
  <2>1. Holds(registers[m][j], Writes(known[m], j))
    BY DEF RInv
  <2>2. CASE m = n /\ j = k
    <3>1. known'[m] = known[m] \cup {env} /\ known'[m] \in SUBSET net'
      BY <1>1, <2>2 DEF HInv
    <3>2. Writes(known'[m], j) = Writes(known[m], j) \cup {op}
      BY <1>4, <2>2, <3>1 DEF Writes
    <3>3. Comparable(Writes(known[m], j) \cup {op})
      <4>1. Comparable(Writes(known'[m], j))
        BY <1>5, <3>1 DEF HInv, UniqueStamps, WritesOK, Comparable, Writes
      <4> QED BY <3>2, <4>1
    <3>4. registers'[m][j] = RegApply(registers[m][j], op)
      BY <1>1, <2>2 DEF RInv
    <3> QED BY <1>3, <2>1, <3>2, <3>3, <3>4, HoldsApply
  <2>3. CASE ~(m = n /\ j = k)
    <3>1. registers'[m][j] = registers[m][j]
      BY <1>1, <2>3 DEF RInv
    <3>2. Writes(known'[m], j) = Writes(known[m], j)
      BY <1>1, <1>4, <2>3 DEF HInv, Writes
    <3> QED BY <2>1, <3>1, <3>2
  <2> QED BY <2>2, <2>3
<1> QED BY <1>1, <1>5, <1>6, <1>7 DEF RInv

LEMMA RReceive ==
    ASSUME HInv, RInv, NEW n \in Node, NEW env \in net, ApplyEnvelope(n, env)
    PROVE  RInv'
<1>1. /\ known' = [known EXCEPT ![n] = @ \cup {env}]
      /\ registers' = IF env.kind # "Register" THEN registers
                      ELSE [registers EXCEPT ![n][env.key] = RegApply(@, env.op)]
      /\ UNCHANGED <<net, snapshot>>
  BY DEF ApplyEnvelope
<1>2. CASE env.kind # "Register"
  <2>1. \A m \in Node, k \in RegKey : Writes(known'[m], k) = Writes(known[m], k)
    BY <1>1, <1>2 DEF HInv, Writes
  <2> QED BY <1>1, <1>2, <2>1 DEF RInv, WritesOK
<1>3. CASE env.kind = "Register"
  <2>1. env.key \in RegKey /\ env.op \in Write
    BY <1>3 DEF RInv, WritesOK
  <2>2. registers' = [registers EXCEPT ![n][env.key] = RegApply(@, env.op)]
    BY <1>1, <1>3
  <2>3. registers' \in [Node -> [RegKey -> RegType]]
    <3>1. registers[n][env.key] \in RegType
      BY <2>1 DEF RInv
    <3>2. env.op \in RegType
      BY <2>1 DEF RegType, Write
    <3>3. RegApply(registers[n][env.key], env.op) \in RegType
      BY <3>1, <3>2 DEF RegApply
    <3> QED BY <2>1, <2>2, <3>3 DEF RInv
  <2>4. ASSUME NEW m \in Node, NEW j \in RegKey
        PROVE  Holds(registers'[m][j], Writes(known'[m], j))
    <3>1. Holds(registers[m][j], Writes(known[m], j))
      BY DEF RInv
    <3>2. CASE m = n /\ j = env.key
      <4>1. known'[m] = known[m] \cup {env} /\ known[m] \cup {env} \in SUBSET net
        BY <1>1, <3>2 DEF HInv
      <4>2. Writes(known'[m], j) = Writes(known[m], j) \cup {env.op}
        BY <1>3, <3>2, <4>1 DEF Writes
      <4>3. Comparable(Writes(known[m], j) \cup {env.op})
        BY <4>1, <4>2, WritesComparable DEF RInv
      <4>4. registers'[m][j] = RegApply(registers[m][j], env.op)
        BY <2>2, <3>2 DEF RInv
      <4> QED BY <2>1, <3>1, <4>2, <4>3, <4>4, HoldsApply
    <3>3. CASE ~(m = n /\ j = env.key)
      <4>1. registers'[m][j] = registers[m][j]
        BY <2>2, <3>3 DEF RInv
      <4>2. Writes(known'[m], j) = Writes(known[m], j)
        BY <1>1, <3>3 DEF HInv, Writes
      <4> QED BY <3>1, <4>1, <4>2
    <3> QED BY <3>2, <3>3
  <2> QED BY <1>1, <2>3, <2>4 DEF RInv, WritesOK
<1> QED BY <1>2, <1>3

\* What a snapshot leaves out of what its store reflects is no write.
LEMMA RTakeSnapshot ==
    ASSUME HInv, RInv, NEW n \in Node, TakeSnapshot(n)
    PROVE  RInv'
<1>1. UNCHANGED <<registers, net, known>>
  BY DEF TakeSnapshot, StoreCopy, store, history
<1>2. snapshot'.registers = registers[n] /\ snapshot'.known = Carried(n)
  BY DEF TakeSnapshot, StoreCopy
<1>3. \A k \in RegKey : Writes(Carried(n), k) = Writes(known[n], k)
  BY DEF Carried, Writes
<1> QED BY <1>1, <1>2, <1>3 DEF RInv, WritesOK

\* A store that is merged has the greatest of the writes it reflects.
HasWrites(other) ==
    /\ other.known \subseteq net
    /\ other.registers \in [RegKey -> RegType]
    /\ \A k \in RegKey : Holds(other.registers[k], Writes(other.known, k))

LEMMA RMerges ==
    ASSUME HInv, RInv, NEW n \in Node, NEW other, Merge(n, other), HasWrites(other)
    PROVE  RInv'
<1>1. /\ known' = [known EXCEPT ![n] = @ \cup other.known]
      /\ registers' = [registers EXCEPT ![n] =
              [k \in RegKey |-> RegMerge(registers[n][k], other.registers[k])]]
      /\ UNCHANGED <<net, snapshot>>
  BY DEF Merge
<1>2. other.registers \in [RegKey -> RegType]
  BY DEF HasWrites
<1>3. registers' \in [Node -> [RegKey -> RegType]]
  <2>1. \A k \in RegKey :
            RegMerge(registers[n][k], other.registers[k]) \in RegType
    BY <1>2 DEF RInv, RegMerge, RegApply
  <2> QED BY <1>1, <2>1 DEF RInv
<1>4. ASSUME NEW m \in Node, NEW j \in RegKey
      PROVE  Holds(registers'[m][j], Writes(known'[m], j))
  <2>1. Holds(registers[m][j], Writes(known[m], j))
    BY DEF RInv
  <2>2. CASE m = n
    <3>1. /\ known'[m] = known[m] \cup other.known
          /\ known[m] \cup other.known \in SUBSET net
      BY <1>1, <2>2 DEF HInv, HasWrites
    <3>2. Writes(known'[m], j) = Writes(known[m], j) \cup Writes(other.known, j)
      BY <3>1 DEF Writes
    <3>3. Comparable(Writes(known[m], j) \cup Writes(other.known, j))
      BY <3>1, <3>2, WritesComparable DEF RInv
    <3>4. Holds(other.registers[j], Writes(other.known, j))
      BY DEF HasWrites
    <3>5. registers'[m][j] = RegMerge(registers[m][j], other.registers[j])
      BY <1>1, <2>2 DEF RInv
    <3> QED BY <2>1, <3>2, <3>3, <3>4, <3>5, HoldsMerge
  <2>3. CASE m # n
    BY <1>1, <2>1, <2>3 DEF RInv, HInv
  <2> QED BY <2>2, <2>3
<1> QED BY <1>1, <1>3, <1>4 DEF RInv, WritesOK

LEMMA RMergeSnapshot ==
    ASSUME HInv, RInv, NEW n \in Node, MergeSnapshot(n)
    PROVE  RInv'
<1>1. Merge(n, snapshot) /\ HasWrites(snapshot)
  BY DEF MergeSnapshot, HInv, Covers, RInv, HasWrites
<1> QED BY <1>1, RMerges

\* An operation that only ticks the clock.
LEMMA RTick ==
    ASSUME RInv, UNCHANGED <<registers, net, snapshot, known>>
    PROVE  RInv'
BY DEF RInv, WritesOK

LEMMA RLocal ==
    ASSUME HInv, HInv', RInv, NEW n \in Node, LocalOperation(n)
    PROVE  RInv'
<1>1. ASSUME NEW k \in RegKey, NEW v \in Value, SetRegister(n, k, v) PROVE RInv'
  BY <1>1, RSetRegister
<1>2. ASSUME NEW k \in SetKey, NEW v \in Value, SetAdd(n, k, v) PROVE RInv'
  BY <1>2, REmitOther DEF SetAdd
<1>3. ASSUME NEW k \in SetKey, NEW v \in Value, SetRemove(n, k, v) PROVE RInv'
  BY <1>3, REmitOther DEF SetRemove
<1>4. ASSUME NEW k \in SetKey, NEW v \in Value, SetRemoveAbsent(n, k, v) PROVE RInv'
  BY <1>4, RTick DEF SetRemoveAbsent
<1>5. ASSUME NEW k \in SeqKey, NEW i, SeqInsert(n, k, i) PROVE RInv'
  BY <1>5, REmitOther DEF SeqInsert
<1>6. ASSUME NEW k \in SeqKey, NEW i, SeqDelete(n, k, i) PROVE RInv'
  BY <1>6, REmitOther DEF SeqDelete
<1>7. ASSUME SeqDeleteNone(n) PROVE RInv'
  BY <1>7, RTick DEF SeqDeleteNone
<1> QED
  BY <1>1, <1>2, <1>3, <1>4, <1>5, <1>6, <1>7 DEF LocalOperation

LEMMA RPrune ==
    ASSUME RInv, NEW n \in Node, Prune(n)
    PROVE  RInv'
BY RTick DEF Prune, PruneTombstones

LEMMA RNext == HInv /\ HInv' /\ RInv /\ [Next]_vars => RInv'
<1> SUFFICES ASSUME HInv, HInv', RInv, [Next]_vars PROVE RInv'
  OBVIOUS
<1>1. CASE UNCHANGED vars
  BY <1>1, RTick DEF vars
<1>2. CASE Next
  <2>1. PICK n \in Node : \/ LocalOperation(n) \/ Receive(n)
                          \/ TakeSnapshot(n) \/ MergeSnapshot(n) \/ Prune(n)
    BY <1>2 DEF Next
  <2> QED
    BY <2>1, RLocal, RReceive, RTakeSnapshot, RMergeSnapshot, RPrune DEF Receive
<1> QED BY <1>1, <1>2

\* Strong convergence of the registers: on any number of replicas, whatever is
\* reordered, replayed, lost or merged from old snapshots, a register holds
\* the greatest of the writes its replica reflects.
THEOREM RegistersConverge == Spec => []RegisterConvergence
<1>1. RInv => RegisterConvergence
  BY DEF RInv, RegisterConvergence, Holds
<1>2. Init => HInv /\ RInv
  <2>1. Init => RInv
    BY DEF Init, RInv, WritesOK, Holds, Writes, NoSnapshot, RegType
  <2> QED BY <2>1, HInit
<1>3. (HInv /\ RInv) /\ [Next]_vars => (HInv /\ RInv)'
  BY HNext, RNext
<1> QED BY <1>1, <1>2, <1>3, PTL DEF Spec

-----------------------------------------------------------------------------
(* Sets: each one is a set of ORSet replicas.                              *)

\* An operation on a set names a set, and the token of an Add is the producer
\* and the timestamp of its envelope.
SetOpOK(e) ==
    e.kind = "Set" =>
        /\ e.key \in SetKey
        /\ e.op.type = "Add" => e.op.value \in Value /\ e.op.token = <<e.node, e.timestamp>>

EntriesType == [SetKey -> SUBSET (Value \X Token)]

\* The inductive invariant for the sets.
SetsInv ==
    /\ HInv
    /\ IsFiniteSet(net)
    /\ \A e \in net : SetOpOK(e)
    /\ sets \in [Node -> EntriesType]
    /\ snapshot.taken => snapshot.sets \in EntriesType

LEMMA SetsInit == Init => SetsInv
BY HInit, FS_EmptySet DEF Init, SetsInv, SetOpOK, EntriesType, EmptySet, NoSnapshot

LEMMA ApplyKeepsEntries ==
    ASSUME NEW s \in SUBSET (Value \X Token), NEW op,
           op.type = "Add" => op.value \in Value /\ op.token \in Token
    PROVE  SetApply(s, op) \in SUBSET (Value \X Token)
BY DEF SetApply

LEMMA OpsOfOne ==
    ASSUME NEW e, NEW kind, NEW k
    PROVE  OpsOf({e}, kind, k) = IF e.kind = kind /\ e.key = k THEN {e.op} ELSE {}
BY DEF OpsOf

LEMMA NetGrows ==
    ASSUME HInv, NEW n \in Node, NEW env, env \notin net, net' = net \cup {env},
           past' = [e \in net' |-> IF e = env THEN known[n] ELSE past[e]],
           NEW kind, NEW k
    PROVE  NetOf(kind, k)' = NetOf(kind, k) \cup
             (IF env.kind = kind /\ env.key = k
              THEN {[op |-> env.op, past |-> KnownOf(kind, k)[n]]} ELSE {})
<1>1. \A e \in net : past'[e] = past[e]
  OBVIOUS
<1>2. past'[env] = known[n] /\ KnownOf(kind, k)[n] = OpsOf(known[n], kind, k)
  BY DEF KnownOf
<1> QED BY <1>1, <1>2 DEF NetOf

\* No key has more operations than the network has envelopes.
LEMMA NetOfIsSmall ==
    ASSUME IsFiniteSet(net), NEW kind, NEW k
    PROVE  /\ IsFiniteSet(NetOf(kind, k)) /\ Cardinality(NetOf(kind, k)) \in Nat
           /\ Cardinality(net) \in Nat /\ Cardinality(NetOf(kind, k)) <= Cardinality(net)
<1> DEFINE mine == {e \in net : e.kind = kind /\ e.key = k}
           f == [e \in mine |-> [op |-> e.op, past |-> OpsOf(past[e], kind, k)]]
           image == NetOf(kind, k)
<1>1. IsFiniteSet(mine) /\ Cardinality(mine) <= Cardinality(net)
  BY FS_Subset
<1>2. \A m \in image : \E e \in mine : f[e] = m
  BY DEF NetOf
<1>3. f \in [mine -> image]
  BY DEF NetOf
<1> HIDE DEF f, mine, image
<1>4. f \in Surjection(mine, image)
  BY <1>2, <1>3 DEF Surjection
<1>5. IsFiniteSet(image) /\ Cardinality(image) <= Cardinality(mine)
  BY <1>1, <1>4, FS_Surjection
<1>6. Cardinality(image) \in Nat /\ Cardinality(mine) \in Nat /\ Cardinality(net) \in Nat
  BY <1>1, <1>5, FS_CardinalityType
<1> QED BY <1>1, <1>5, <1>6 DEF image

\* What SetAdd and SetRemove do to the store.
SetOperation(n, k, op) ==
    /\ TickClock(n)
    /\ sets' = [sets EXCEPT ![n][k] = SetApply(@, op)]
    /\ Emit(n, "Set", k, op)
    /\ UNCHANGED snapshot
    /\ op.type = "Add" => op.value \in Value /\ op.token = <<n, Tick(clock[n])>>

\* A local operation on set k is one of the replicas of k, and shows in no other.
LEMMA SetProduces ==
    ASSUME SetsInv, NEW n \in Node, NEW k \in SetKey, NEW op, SetOperation(n, k, op)
    PROVE  /\ SetsInv'
           /\ NamedORSet(k)!Produce(n, op)
           /\ \A j \in SetKey \ {k} : UNCHANGED NamedORSet(j)!vars
<1> DEFINE env == Envelope(Tick(clock[n]), n, "Set", k, op)
<1>1. /\ net' = net \cup {env} /\ Cardinality(net) < MaxOps
      /\ known' = [known EXCEPT ![n] = @ \cup {env}]
      /\ past' = [e \in net' |-> IF e = env THEN known[n] ELSE past[e]]
  BY DEF SetOperation, Emit
<1>2. HInv'
  BY HEmit DEF SetOperation, SetsInv
<1>3. env.kind = "Set" /\ env.key = k /\ env.op = op /\ env.node = n /\ env.timestamp = Tick(clock[n])
  BY DEF Envelope
<1>4. Tick(clock[n]) \in 1..MaxClock /\ clock[n] \in Nat
  BY BoundsAreInt DEF SetOperation, TickClock, Tick, SetsInv, HInv
<1>5. env \notin net
  BY <1>3, <1>4, BoundsAreInt DEF SetsInv, HInv, Covers, Tick
<1> DEFINE now == sets[n][k]  after == SetApply(now, op)
<1>6. after \in SUBSET (Value \X Token)
  <2>1. op.type = "Add" => op.value \in Value /\ op.token \in Token
    BY <1>4 DEF SetOperation, Token
  <2>2. now \in SUBSET (Value \X Token)
    BY DEF SetsInv, EntriesType
  <2> HIDE DEF now
  <2> QED BY <2>1, <2>2, ApplyKeepsEntries
<1>7. sets' = [sets EXCEPT ![n][k] = after]
  BY DEF SetOperation
<1> HIDE DEF env, after
<1>8. /\ sets' \in [Node -> EntriesType]
      /\ \A m \in Node, j \in SetKey :
            sets'[m][j] = IF m = n /\ j = k THEN after ELSE sets[m][j]
  <2>1. sets \in [Node -> EntriesType] /\ sets[n] \in EntriesType
    BY DEF SetsInv
  <2>2. sets' = [sets EXCEPT ![n] = [sets[n] EXCEPT ![k] = after]]
    BY <1>7
  <2>3. [sets[n] EXCEPT ![k] = after] \in EntriesType
    BY <1>6, <2>1 DEF EntriesType
  <2>4. sets' \in [Node -> EntriesType]
    BY <2>1, <2>2, <2>3
  <2>5. \A m \in Node, j \in SetKey :
          sets'[m][j] = IF m = n /\ j = k THEN after ELSE sets[m][j]
    BY <2>1, <2>2 DEF EntriesType
  <2> QED BY <2>4, <2>5
<1>9. SetsInv'
  <2>1. IsFiniteSet(net')
    BY <1>1, FS_AddElement DEF SetsInv
  <2>2. \A e \in net' : SetOpOK(e)
    BY <1>1, <1>3 DEF SetOperation, SetsInv, SetOpOK
  <2> QED BY <1>2, <1>8, <2>1, <2>2 DEF SetOperation, SetsInv
<1>10. HInv /\ DOMAIN known = Node /\ IsFiniteSet(net)
  BY DEF SetsInv, HInv
<1>11. ASSUME NEW j \in SetKey
       PROVE  /\ KnownOf("Set", j)' = [m \in Node |->
                   IF m = n THEN OpsOf(known[m], "Set", j) \cup (IF j = k THEN {op} ELSE {})
                            ELSE OpsOf(known[m], "Set", j)]
              /\ NetOf("Set", j)' = NetOf("Set", j) \cup
                   (IF j = k THEN {[op |-> op, past |-> KnownOf("Set", j)[n]]} ELSE {})
  <2>1. OpsOf({env}, "Set", j) = IF j = k THEN {op} ELSE {}
    BY <1>3, OpsOfOne
  <2>2. \A m \in Node : known'[m] = IF m = n THEN known[m] \cup {env} ELSE known[m]
    BY <1>1, <1>10
  <2>3. KnownOf("Set", j)' = [m \in Node |->
           IF m = n THEN OpsOf(known[m], "Set", j) \cup OpsOf({env}, "Set", j)
                    ELSE OpsOf(known[m], "Set", j)]
    <3>1. OpsOf(known[n] \cup {env}, "Set", j) = OpsOf(known[n], "Set", j) \cup OpsOf({env}, "Set", j)
      BY DEF OpsOf
    <3> QED BY <2>2, <3>1 DEF KnownOf
  <2>4. NetOf("Set", j)' = NetOf("Set", j) \cup
          (IF env.kind = "Set" /\ env.key = j
           THEN {[op |-> env.op, past |-> KnownOf("Set", j)[n]]} ELSE {})
    BY <1>1, <1>5, <1>10, NetGrows
  <2> QED BY <1>3, <2>1, <2>3, <2>4
<1>12. NamedORSet(k)!Produce(n, op)
  <2>1. Cardinality(NetOf("Set", k)) < MaxOps
    BY <1>1, <1>10, NetOfIsSmall, BoundsAreInt
  <2>2. KnownOf("Set", k)' = [KnownOf("Set", k) EXCEPT ![n] = @ \cup {op}]
    BY <1>11 DEF KnownOf
  <2>3. NetOf("Set", k)' = NetOf("Set", k) \cup {[op |-> op, past |-> KnownOf("Set", k)[n]]}
    BY <1>11
  <2>4. NamedORSet(k)!SetApply(sets[n][k], op) = after
    BY DEF NamedORSet!SetApply, SetApply, after
  <2>5. [m \in Node |-> sets'[m][k]]
           = [[m \in Node |-> sets[m][k]] EXCEPT ![n] = after]
    BY <1>8
  <2>6. [m \in Node |-> sets'[m][k]]
           = [[m \in Node |-> sets[m][k]] EXCEPT ![n] = NamedORSet(k)!SetApply(@, op)]
    BY <2>4, <2>5
  <2>7. NamedORSet(k)!Cardinality(NetOf("Set", k)) = Cardinality(NetOf("Set", k))
    BY DEF NamedORSet!Cardinality, Cardinality
  <2> QED BY <2>1, <2>2, <2>3, <2>6, <2>7 DEF SetOperation, NamedORSet!Produce
<1>13. ASSUME NEW j \in SetKey \ {k} PROVE UNCHANGED NamedORSet(j)!vars
  <2>1. NetOf("Set", j)' = NetOf("Set", j) /\ KnownOf("Set", j)' = KnownOf("Set", j)
    BY ZenonT(40), <1>11 DEF KnownOf
  <2>2. [m \in Node |-> sets'[m][j]] = [m \in Node |-> sets[m][j]]
    BY <1>8
  <2> QED BY <2>1, <2>2 DEF SetOperation, NamedORSet!vars
<1> QED BY <1>9, <1>12, <1>13

\* The sets stay as they are: the replicas of a key see nothing.
LEMMA SetsStill ==
    ASSUME SetsInv, HInv', UNCHANGED <<sets, snapshot, net, known, past>>
    PROVE  SetsInv' /\ \A k \in SetKey : UNCHANGED NamedORSet(k)!vars
<1>1. SetsInv'
  BY DEF SetsInv, SetOpOK
<1>2. \A k \in SetKey : KnownOf("Set", k)' = KnownOf("Set", k) /\ NetOf("Set", k)' = NetOf("Set", k)
  BY DEF KnownOf, NetOf, OpsOf
<1> QED BY <1>1, <1>2 DEF NamedORSet!vars, OpsOf

\* An operation on a register or a sequence.
LEMMA OtherProduces ==
    ASSUME SetsInv, NEW n \in Node, NEW kind, kind # "Set", NEW key, NEW op,
           TickClock(n), Emit(n, kind, key, op), UNCHANGED <<sets, snapshot>>
    PROVE  SetsInv' /\ \A k \in SetKey : UNCHANGED NamedORSet(k)!vars
<1> DEFINE env == Envelope(Tick(clock[n]), n, kind, key, op)
<1>1. /\ net' = net \cup {env} 
      /\ known' = [known EXCEPT ![n] = @ \cup {env}]
      /\ past' = [e \in net' |-> IF e = env THEN known[n] ELSE past[e]]
  BY DEF Emit
<1>2. HInv'
  BY HEmit DEF SetsInv
<1>3. env.kind # "Set" /\ env.node = n /\ env.timestamp = Tick(clock[n])
  BY DEF Envelope
<1>4. Tick(clock[n]) \in 1..MaxClock /\ clock[n] \in Nat
  BY BoundsAreInt DEF TickClock, Tick, SetsInv, HInv
<1>5. env \notin net
  BY <1>3, <1>4, BoundsAreInt DEF SetsInv, HInv, Covers, Tick
<1> HIDE DEF env
<1>6. SetsInv'
  <2>1. IsFiniteSet(net')
    BY <1>1, FS_AddElement DEF SetsInv
  <2>2. \A e \in net' : SetOpOK(e)
    BY <1>1, <1>3 DEF SetsInv, SetOpOK
  <2>3. sets' \in [Node -> EntriesType] /\ (snapshot'.taken => snapshot'.sets \in EntriesType)
    BY DEF SetsInv
  <2> QED BY <1>2, <2>1, <2>2, <2>3 DEF SetsInv
<1>7. HInv /\ DOMAIN known = Node
  BY DEF SetsInv, HInv
<1>8. ASSUME NEW k \in SetKey
      PROVE  NetOf("Set", k)' = NetOf("Set", k) /\ KnownOf("Set", k)' = KnownOf("Set", k)
  <2>1. NetOf("Set", k)' = NetOf("Set", k) \cup
          (IF env.kind = "Set" /\ env.key = k
           THEN {[op |-> env.op, past |-> KnownOf("Set", k)[n]]} ELSE {})
    BY <1>1, <1>5, <1>7, NetGrows
  <2>2. OpsOf(known[n] \cup {env}, "Set", k) = OpsOf(known[n], "Set", k)
    BY <1>3 DEF OpsOf
  <2> QED BY <1>1, <1>3, <1>7, <2>1, <2>2 DEF KnownOf
<1> QED BY <1>6, <1>8 DEF NamedORSet!vars, OpsOf

LEMMA SetsLocal ==
    ASSUME SetsInv, NEW n \in Node, LocalOperation(n)
    PROVE  /\ SetsInv'
           /\ \A k \in SetKey : NamedORSet(k)!Next \/ UNCHANGED NamedORSet(k)!vars
<1>1. HInv'
  BY HLocal DEF SetsInv
<1>2. CASE UNCHANGED <<sets, net, snapshot, known, past>>
  BY <1>1, <1>2, SetsStill
<1>3. ASSUME NEW k \in RegKey, NEW v \in Value, SetRegister(n, k, v)
      PROVE  SetsInv' /\ \A j \in SetKey : UNCHANGED NamedORSet(j)!vars
  BY <1>3, OtherProduces DEF SetRegister
<1>4. ASSUME NEW k \in SeqKey, NEW i, SeqInsert(n, k, i) \/ SeqDelete(n, k, i)
      PROVE  SetsInv' /\ \A j \in SetKey : UNCHANGED NamedORSet(j)!vars
  BY <1>4, OtherProduces DEF SeqInsert, SeqDelete
<1>5. ASSUME NEW k \in SetKey, NEW v \in Value, SetAdd(n, k, v)
      PROVE  SetsInv' /\ \A j \in SetKey : NamedORSet(j)!Next \/ UNCHANGED NamedORSet(j)!vars
  <2> PICK token : token = <<n, Tick(clock[n])>>
    OBVIOUS
  <2> PICK op : op = AddOp(v, token)
    OBVIOUS
  <2>1. op.type = "Add" /\ op.value = v /\ op.token = token
    BY DEF AddOp
  <2>2. /\ TickClock(n) /\ Emit(n, "Set", k, op)
        /\ sets' = [sets EXCEPT ![n][k] = SetApply(@, op)] /\ UNCHANGED snapshot
    BY <1>5 DEF SetAdd
  <2>3. /\ SetsInv' /\ NamedORSet(k)!Produce(n, op)
        /\ \A j \in SetKey \ {k} : UNCHANGED NamedORSet(j)!vars
    <3>1. SetOperation(n, k, op)
      BY <2>1, <2>2 DEF SetOperation
    <3> QED BY <3>1, SetProduces
  <2>4. token \in Node \X (1..MaxClock)
    BY <2>2, BoundsAreInt DEF TickClock, Tick, SetsInv, HInv
  <2>5. ASSUME NEW m \in NetOf("Set", k), m.op.type = "Add" PROVE m.op.token # token
    <3>1. PICK e \in net : e.kind = "Set" /\ e.key = k /\ m.op = e.op
      BY DEF NetOf
    <3>2. m.op.token = <<e.node, e.timestamp>>
      BY <2>5, <3>1 DEF SetsInv, SetOpOK
    <3>3. e.node = n => e.timestamp # Tick(clock[n])
      BY BoundsAreInt DEF SetsInv, HInv, Covers, Tick
    <3> QED BY <3>2, <3>3
  <2>6. token \notin {x.token : x \in NamedORSet(k)!Adds(NamedORSet(k)!Ops)}
    BY <2>5 DEF NamedORSet!Adds, NamedORSet!Ops
  <2>7. NamedORSet(k)!AddOp(v, token) = op
    BY DEF NamedORSet!AddOp, AddOp
  <2>8. NamedORSet(k)!Add(n, v)
    BY <2>3, <2>4, <2>6, <2>7 DEF NamedORSet!Add
  <2>9. NamedORSet(k)!Next
    BY <2>8 DEF NamedORSet!Next, NamedORSet!LocalStep
  <2> QED BY <2>3, <2>9
<1>6. ASSUME NEW k \in SetKey, NEW v \in Value, SetRemove(n, k, v)
      PROVE  SetsInv' /\ \A j \in SetKey : NamedORSet(j)!Next \/ UNCHANGED NamedORSet(j)!vars
  <2> PICK op : op = RemoveOp(sets[n][k], v)
    OBVIOUS
  <2>1. op.type # "Add"
    BY DEF RemoveOp
  <2>2. /\ TickClock(n) /\ Emit(n, "Set", k, op) /\ SetContains(sets[n][k], v)
        /\ sets' = [sets EXCEPT ![n][k] = SetApply(@, op)] /\ UNCHANGED snapshot
    BY <1>6 DEF SetRemove
  <2>3. /\ NamedORSet(k)!RemoveOp(sets[n][k], v) = op
        /\ NamedORSet(k)!SetContains(sets[n][k], v)
    BY <2>2 DEF NamedORSet!RemoveOp, NamedORSet!TokensOf, NamedORSet!SetContains,
                RemoveOp, TokensOf, SetContains
  <2>4. /\ SetsInv' /\ NamedORSet(k)!Produce(n, op)
        /\ \A j \in SetKey \ {k} : UNCHANGED NamedORSet(j)!vars
    <3>1. SetOperation(n, k, op)
      BY <2>1, <2>2 DEF SetOperation
    <3> QED BY <3>1, SetProduces
  <2>5. NamedORSet(k)!Remove(n, v)
    <3>1. [m \in Node |-> sets[m][k]][n] = sets[n][k]
      OBVIOUS
    <3>2. NamedORSet(k)!RemoveOp([m \in Node |-> sets[m][k]][n], v) = op
      BY <2>3, <3>1
    <3>3. NamedORSet(k)!SetContains([m \in Node |-> sets[m][k]][n], v)
      BY <2>3, <3>1
    <3> QED BY <2>4, <3>2, <3>3 DEF NamedORSet!Remove, NamedORSet!Produce
  <2>6. NamedORSet(k)!Next
    BY <2>5 DEF NamedORSet!Next, NamedORSet!LocalStep
  <2> QED BY <2>4, <2>6
<1> QED
  BY <1>2, <1>3, <1>4, <1>5, <1>6 DEF LocalOperation, SetRemoveAbsent, SeqDeleteNone

\* One envelope arrives.
LEMMA SetsReceive ==
    ASSUME SetsInv, NEW n \in Node, NEW env \in net, ApplyEnvelope(n, env)
    PROVE  /\ SetsInv'
           /\ \A k \in SetKey : NamedORSet(k)!Next \/ UNCHANGED NamedORSet(k)!vars
<1>1. HInv'
  BY HReceive DEF SetsInv
<1>2. known' = [known EXCEPT ![n] = @ \cup {env}] /\ UNCHANGED <<net, snapshot, past>>
  BY DEF ApplyEnvelope
<1>3. HInv /\ known \in [Node -> SUBSET net] /\ sets \in [Node -> EntriesType]
  BY DEF SetsInv, HInv
<1>4. \A m \in Node : known'[m] = IF m = n THEN known[m] \cup {env} ELSE known[m]
  BY <1>2, <1>3
<1>5. \A k \in SetKey : UNCHANGED <<NetOf("Set", k), NamedORSet(k)!NoCopy>>
  BY <1>2 DEF NetOf, OpsOf, NamedORSet!NoCopy
<1>6. ASSUME NEW k \in SetKey, ~(env.kind = "Set" /\ env.key = k)
      PROVE  KnownOf("Set", k)' = KnownOf("Set", k)
  <2>1. OpsOf(known[n] \cup {env}, "Set", k) = OpsOf(known[n], "Set", k)
    BY <1>6 DEF OpsOf
  <2> QED BY <1>4, <2>1 DEF KnownOf
<1>7. CASE env.kind # "Set"
  <2>1. sets' = sets
    BY <1>7 DEF ApplyEnvelope
  <2>2. SetsInv'
    BY <1>1, <1>2, <2>1 DEF SetsInv, SetOpOK
  <2>3. \A k \in SetKey : KnownOf("Set", k)' = KnownOf("Set", k)
    BY <1>6, <1>7
  <2> QED BY <1>2, <1>5, <2>1, <2>2, <2>3 DEF NamedORSet!vars, OpsOf
<1>8. CASE env.kind = "Set"
  <2> PICK key \in SetKey : key = env.key
    BY <1>8 DEF SetsInv, SetOpOK
  <2> PICK op : op = env.op
    OBVIOUS
  <2> DEFINE now == sets[n][key]  after == SetApply(now, op)
  <2>1. sets' = [sets EXCEPT ![n][key] = after]
    BY <1>8 DEF ApplyEnvelope
  <2>2. after \in SUBSET (Value \X Token)
    <3>1. op.type = "Add" => op.value \in Value /\ op.token \in Token
      <4>1. env.timestamp \in 1..MaxClock /\ env.node \in Node
        BY <1>3 DEF HInv
      <4>2. op.type = "Add" => op.value \in Value /\ op.token = <<env.node, env.timestamp>>
        BY <1>8 DEF SetsInv, SetOpOK
      <4> QED BY <4>1, <4>2 DEF Token
    <3>2. now \in SUBSET (Value \X Token)
      BY <1>3 DEF EntriesType
    <3> HIDE DEF now
    <3> QED BY <3>1, <3>2, ApplyKeepsEntries
  <2> HIDE DEF after
  <2>3. /\ sets' \in [Node -> EntriesType]
        /\ \A m \in Node, j \in SetKey :
              sets'[m][j] = IF m = n /\ j = key THEN after ELSE sets[m][j]
    <3>1. sets' = [sets EXCEPT ![n] = [sets[n] EXCEPT ![key] = after]]
      BY <2>1
    <3>2. [sets[n] EXCEPT ![key] = after] \in EntriesType
      BY <1>3, <2>2 DEF EntriesType
    <3>3. sets' \in [Node -> EntriesType]
      BY <1>3, <3>1, <3>2
    <3>4. \A m \in Node, j \in SetKey :
            sets'[m][j] = IF m = n /\ j = key THEN after ELSE sets[m][j]
      BY <1>3, <3>1 DEF EntriesType
    <3> QED BY <3>3, <3>4
  <2>4. SetsInv'
    BY <1>1, <1>2, <2>3 DEF SetsInv, SetOpOK
  <2>5. ASSUME NEW j \in SetKey \ {key} PROVE UNCHANGED NamedORSet(j)!vars
    <3>1. KnownOf("Set", j)' = KnownOf("Set", j)
      BY <1>6
    <3>2. [m \in Node |-> sets'[m][j]] = [m \in Node |-> sets[m][j]]
      BY <2>3
    <3> QED BY <1>2, <1>5, <3>1, <3>2 DEF NamedORSet!vars, OpsOf
  <2>6. NamedORSet(key)!Apply(n, op)
    <3>1. OpsOf(known[n] \cup {env}, "Set", key) = OpsOf(known[n], "Set", key) \cup {op}
      BY <1>8 DEF OpsOf
    <3>2. KnownOf("Set", key)' = [KnownOf("Set", key) EXCEPT ![n] = @ \cup {op}]
      BY <1>4, <3>1 DEF KnownOf
    <3>3. NamedORSet(key)!SetApply(sets[n][key], op) = after
      BY DEF NamedORSet!SetApply, SetApply, after
    <3>4. [m \in Node |-> sets'[m][key]] = [[m \in Node |-> sets[m][key]] EXCEPT ![n] = after]
      BY <2>3
    <3>5. [m \in Node |-> sets'[m][key]]
            = [[m \in Node |-> sets[m][key]] EXCEPT ![n] = NamedORSet(key)!SetApply(@, op)]
      BY <3>3, <3>4
    <3> QED BY <1>2, <1>5, <3>2, <3>5 DEF NamedORSet!Apply, OpsOf
  <2>7. NamedORSet(key)!Next
    <3>1. PICK m \in NetOf("Set", key) : m.op = op
      <4> DEFINE m == [op |-> env.op, past |-> OpsOf(past[env], "Set", key)]
      <4>1. m \in NetOf("Set", key)
        BY <1>8 DEF NetOf
      <4>2. m.op = op
        OBVIOUS
      <4> HIDE DEF m
      <4> QED BY <4>1, <4>2
    <3>2. NamedORSet(key)!Deliver(n)
      BY <2>6, <3>1 DEF NamedORSet!Deliver, NamedORSet!Apply
    <3> QED BY <3>2 DEF NamedORSet!Next
  <2> QED BY <2>4, <2>5, <2>7
<1> QED BY <1>7, <1>8

LEMMA SetsTakeSnapshot ==
    ASSUME SetsInv, NEW n \in Node, TakeSnapshot(n)
    PROVE  SetsInv' /\ \A k \in SetKey : NamedORSet(k)!TakeCopy(n)
<1>1. HInv'
  BY HTakeSnapshot DEF SetsInv
<1>2. /\ snapshot' = StoreCopy(n)
      /\ UNCHANGED <<sets, net, known, past>>
  BY DEF TakeSnapshot, store, history
<1>3. /\ snapshot'.taken /\ snapshot'.node = n /\ snapshot'.sets = sets[n]
      /\ snapshot'.known = Carried(n)
  BY <1>2 DEF StoreCopy
<1>4. SetsInv'
  BY <1>1, <1>2, <1>3 DEF SetsInv, SetOpOK
<1>5. ASSUME NEW k \in SetKey PROVE NamedORSet(k)!TakeCopy(n)
  <2>1. OpsOf(Carried(n), "Set", k) = OpsOf(known[n], "Set", k)
    BY DEF OpsOf, Carried
  <2>2. OpsOf(snapshot'.known, "Set", k) = KnownOf("Set", k)[n]
    BY <1>3, <2>1 DEF KnownOf
  <2>3. UNCHANGED <<NetOf("Set", k), KnownOf("Set", k)>>
    BY <1>2 DEF NetOf, KnownOf, OpsOf
  <2>4. OpsOf(snapshot.known, "Set", k)' = OpsOf(snapshot'.known, "Set", k)
    BY DEF OpsOf
  <2> QED BY <1>2, <1>3, <2>2, <2>3, <2>4 DEF NamedORSet!TakeCopy
<1> QED BY <1>4, <1>5

LEMMA SetsMerge ==
    ASSUME SetsInv, NEW n \in Node, MergeSnapshot(n)
    PROVE  SetsInv' /\ \A k \in SetKey : NamedORSet(k)!Merge(n)
<1>1. HInv'
  BY HMergeSnapshot DEF SetsInv
<1>2. /\ snapshot.taken
      /\ sets' = [sets EXCEPT ![n] =
                    [k \in SetKey |-> SetMerge(sets[n][k], snapshot.sets[k])]]
      /\ known' = [known EXCEPT ![n] = @ \cup snapshot.known]
      /\ UNCHANGED <<net, snapshot, past>>
  BY DEF MergeSnapshot, Merge
<1>3. /\ known \in [Node -> SUBSET net] /\ sets \in [Node -> EntriesType]
      /\ snapshot.sets \in EntriesType
  BY <1>2 DEF SetsInv, HInv
<1>4. [k \in SetKey |-> SetMerge(sets[n][k], snapshot.sets[k])] \in EntriesType
  BY <1>3 DEF EntriesType, SetMerge
<1>5. /\ sets' \in [Node -> EntriesType]
      /\ \A m \in Node, k \in SetKey : sets'[m][k] =
            IF m = n THEN SetMerge(sets[n][k], snapshot.sets[k]) ELSE sets[m][k]
  BY <1>2, <1>3, <1>4
<1>6. SetsInv'
  BY <1>1, <1>2, <1>5 DEF SetsInv, SetOpOK
<1>7. ASSUME NEW k \in SetKey PROVE NamedORSet(k)!Merge(n)
  <2>1. OpsOf(known[n] \cup snapshot.known, "Set", k)
          = OpsOf(known[n], "Set", k) \cup OpsOf(snapshot.known, "Set", k)
    BY DEF OpsOf
  <2>2. KnownOf("Set", k)'
          = [KnownOf("Set", k) EXCEPT ![n] = @ \cup OpsOf(snapshot.known, "Set", k)]
    BY <1>2, <1>3, <2>1 DEF KnownOf
  <2>3. NamedORSet(k)!SetMerge(sets[n][k], snapshot.sets[k])
          = SetMerge(sets[n][k], snapshot.sets[k])
    BY DEF NamedORSet!SetMerge, SetMerge
  <2>4. [m \in Node |-> sets'[m][k]] = [[m \in Node |-> sets[m][k]] EXCEPT
            ![n] = NamedORSet(k)!SetMerge(@, snapshot.sets[k])]
    BY <1>5, <2>3
  <2>5. UNCHANGED <<NetOf("Set", k), OpsOf(snapshot.known, "Set", k)>>
    BY <1>2 DEF NetOf, OpsOf
  <2> QED BY <1>2, <2>2, <2>4, <2>5 DEF NamedORSet!Merge
<1> QED BY <1>6, <1>7

LEMMA SetsNext ==
    ASSUME SetsInv, [Next]_vars
    PROVE  /\ SetsInv'
           /\ \A k \in SetKey : NamedORSet(k)!Next \/ UNCHANGED NamedORSet(k)!vars
<1>1. CASE UNCHANGED vars
  <2>1. HInv'
    BY HNext DEF SetsInv
  <2> QED BY <1>1, <2>1, SetsStill DEF vars
<1>2. CASE Next
  <2>1. PICK n \in Node : \/ LocalOperation(n) \/ Receive(n)
                          \/ TakeSnapshot(n) \/ MergeSnapshot(n) \/ Prune(n)
    BY <1>2 DEF Next
  <2>2. CASE LocalOperation(n)
    BY <2>2, SetsLocal
  <2>3. CASE Receive(n)
    BY <2>3, SetsReceive DEF Receive
  <2>4. CASE TakeSnapshot(n)
    BY <2>4, SetsTakeSnapshot DEF NamedORSet!Next
  <2>5. CASE MergeSnapshot(n)
    BY <2>5, SetsMerge DEF NamedORSet!Next
  <2>6. CASE Prune(n)
    <3>1. HInv'
      BY <2>6, HPrune DEF SetsInv
    <3> QED BY <2>6, <3>1, SetsStill DEF Prune, PruneTombstones
  <2> QED BY <2>1, <2>2, <2>3, <2>4, <2>5, <2>6
<1> QED BY <1>1, <1>2

LEMMA SetsStart == Init => \A k \in SetKey : NamedORSet(k)!Init
BY DEF Init, NamedORSet!Init, NamedORSet!EmptySet, NamedORSet!NoCopy,
       NetOf, KnownOf, OpsOf, NoSnapshot, EmptySet

\* Every named set of the store is a set of ORSet replicas.
THEOREM StoreImplementsSets == Spec => ImplementsORSet
<1> DEFINE SetSteps == \A k \in SetKey :
                      NamedORSet(k)!Next \/ UNCHANGED NamedORSet(k)!vars
<1>1. SetsInv /\ [Next]_vars => SetsInv' /\ [SetSteps]_vars
  BY SetsNext
<1>2. Init => SetsInv
  BY SetsInit
<1> QED BY <1>1, <1>2, SetsStart, PTL DEF Spec, ImplementsORSet

-----------------------------------------------------------------------------
(* Sequences: their counters and the clock of the store.                   *)

\* A replica of a sequence in a store, or a snapshot, of this time.
Within(seq, time) ==
    /\ seq \in RGAStates(RGAId)
    /\ Counted(seq)
    /\ seq.clock <= time

\* An operation on a sequence names a sequence, and its id is no later than
\* the timestamp of its envelope.
SeqOpOK(e) ==
    e.kind = "Sequence" =>
        e.key \in SeqKey /\ e.op \in OpsOver(RGAId) /\ e.op.id.clock <= e.timestamp

\* The inductive invariant for the sequences.
SeqInv ==
    /\ \A e \in net : SeqOpOK(e)
    /\ sequences \in [Node -> [SeqKey -> RGAStates(RGAId)]]
    /\ \A n \in Node, k \in SeqKey : Within(sequences[n][k], clock[n])
    /\ snapshot.taken => \A k \in SeqKey : Within(snapshot.sequences[k], snapshot.clock)

LEMMA RGAIdsHaveClocks == \A id \in RGAId : id.clock \in Nat /\ id.clock \in 1..MaxClock
BY BoundsAreInt DEF RGAId

LEMMA WithinLater ==
    ASSUME NEW s, NEW t \in Int, NEW u \in Int, Within(s, t), t <= u
    PROVE  Within(s, u)
<1>1. s.clock \in Nat
  BY StateIds DEF Within
<1> QED BY <1>1 DEF Within

\* A sequence of a store whose clock has passed an operation's timestamp.
LEMMA WithinApply ==
    ASSUME NEW s, NEW time \in Int, Within(s, time),
           NEW op \in OpsOver(RGAId), op.id.clock <= time
    PROVE  Within(SeqApply(s, op), time)
<1>1. PICK t : t = SeqApply(s, op)
  OBVIOUS
<1>2. s \in RGAStates(RGAId) /\ Counted(s)
  BY DEF Within
<1>3. t \in RGAStates(RGAId) /\ Counted(t) /\ (t.clock = s.clock \/ t.clock = op.id.clock)
  BY <1>1, <1>2, RGAIdsHaveClocks, ApplyCounts
<1> QED BY <1>1, <1>3 DEF Within

LEMMA WithinMerge ==
    ASSUME NEW s, NEW o, NEW time \in Int, Within(s, time), Within(o, time)
    PROVE  Within(SeqMerge(s, o), time)
<1>1. PICK t : t = SeqMerge(s, o)
  OBVIOUS
<1>2. /\ s \in RGAStates(RGAId) /\ Counted(s)
      /\ o \in RGAStates(RGAId) /\ Counted(o)
  BY DEF Within
<1>3. t \in RGAStates(RGAId) /\ Counted(t) /\ (t.clock = s.clock \/ t.clock = o.clock)
  BY <1>1, <1>2, RGAIdsHaveClocks, MergeCounts
<1> QED BY <1>1, <1>3 DEF Within

LEMMA WithinPrune ==
    ASSUME NEW s, NEW time \in Int, Within(s, time), NEW before_ts
    PROVE  Within(SeqPrune(s, before_ts), time)
<1>1. PICK t : t = SeqPrune(s, before_ts)
  OBVIOUS
<1>2. s \in RGAStates(RGAId) /\ Counted(s)
  BY DEF Within
<1>3. /\ t \in RGAStates(RGAId) /\ t.clock = s.clock /\ t.pending = s.pending
      /\ ToSet(t.nodes) \subseteq ToSet(s.nodes)
  BY <1>1, <1>2, PruneDrops
<1>4. Ids(t.nodes) \subseteq Ids(s.nodes)
  BY <1>3 DEF Ids, ToSet
<1> QED BY <1>1, <1>2, <1>3, <1>4 DEF Within, Counted

\* A step that produces no operation on a sequence and moves one clock at most.
LEMMA SeqStill ==
    ASSUME HInv, HInv', SeqInv, UNCHANGED <<sequences, snapshot>>,
           \A m \in Node : clock[m] <= clock'[m], \A e \in net' \ net : SeqOpOK(e)
    PROVE  SeqInv'
<1>1. ASSUME NEW m \in Node, NEW k \in SeqKey PROVE Within(sequences[m][k], clock'[m])
  <2>1. clock[m] \in Int /\ clock'[m] \in Int
    BY BoundsAreInt DEF HInv
  <2> QED BY <2>1, WithinLater DEF SeqInv
<1>2. \A e \in net' : SeqOpOK(e)
  BY DEF SeqInv
<1> QED BY <1>1, <1>2 DEF SeqInv, SeqOpOK

LEMMA TickMoves ==
    ASSUME HInv, HInv', NEW n \in Node, TickClock(n)
    PROVE  /\ \A m \in Node : clock[m] <= clock'[m]
           /\ clock'[n] = clock[n] + 1
           /\ clock[n] + 1 \in 1..MaxClock
<1>1. \A m \in Node : clock'[m] = IF m = n THEN clock[n] + 1 ELSE clock[m]
  BY DEF HInv, TickClock, Tick
<1>2. \A m \in Node : clock[m] \in 0..MaxClock
  BY DEF HInv
<1> QED BY <1>1, <1>2, BoundsAreInt DEF TickClock

LEMMA UpdateMoves ==
    ASSUME HInv, HInv', NEW n \in Node, NEW time \in Int, UpdateClock(n, time)
    PROVE  /\ \A m \in Node : clock[m] <= clock'[m]
           /\ clock[n] <= clock'[n] /\ time <= clock'[n]
<1>1. \A m \in Node : clock'[m] = IF m = n THEN Update(clock[n], time) ELSE clock[m]
  BY DEF HInv, UpdateClock
<1>2. \A m \in Node : clock[m] \in 0..MaxClock
  BY DEF HInv
<1> QED BY <1>1, <1>2, BoundsAreInt DEF Update

\* An operation on another kind of value.
LEMMA SeqOther ==
    ASSUME HInv, HInv', SeqInv, NEW n \in Node, TickClock(n),
           NEW kind, NEW key, NEW op, kind # "Sequence", Emit(n, kind, key, op),
           UNCHANGED <<sequences, snapshot>>
    PROVE  SeqInv'
<1>1. PICK env : env = Envelope(Tick(clock[n]), n, kind, key, op)
  OBVIOUS
<1>2. env.kind # "Sequence" /\ net' = net \cup {env}
  BY <1>1 DEF Emit, Envelope
<1>3. \A e \in net' \ net : SeqOpOK(e)
  BY <1>2 DEF SeqOpOK
<1> QED BY <1>3, TickMoves, SeqStill

\* What SeqInsert and SeqDelete do to the store.
LEMMA SeqProduces ==
    ASSUME HInv, HInv', SeqInv, NEW n \in Node, TickClock(n),
           NEW k \in SeqKey, NEW op \in OpsOver(RGAId), op.id.clock <= clock[n] + 1,
           sequences' = [sequences EXCEPT ![n][k] = SeqApply(@, op)],
           Emit(n, "Sequence", k, op), UNCHANGED snapshot
    PROVE  SeqInv'
<1>1. PICK env : env = Envelope(Tick(clock[n]), n, "Sequence", k, op)
  OBVIOUS
<1>2. /\ net' = net \cup {env} /\ env.key = k /\ env.op = op
      /\ env.timestamp = clock[n] + 1
  BY <1>1 DEF Emit, Envelope, Tick
<1>3. \A e \in net' : SeqOpOK(e)
  BY <1>2 DEF SeqInv, SeqOpOK
<1>4. PICK t : t = SeqApply(sequences[n][k], op)
  OBVIOUS
<1>5. \A m \in Node, j \in SeqKey :
         sequences'[m][j] = IF m = n /\ j = k THEN t ELSE sequences[m][j]
  BY <1>4 DEF SeqInv
<1>6. clock[n] + 1 \in Int /\ clock[n] \in Int /\ clock[n] <= clock[n] + 1
  BY BoundsAreInt DEF HInv
<1>7. Within(t, clock'[n])
  <2>1. Within(sequences[n][k], clock[n] + 1)
    BY <1>6, WithinLater DEF SeqInv
  <2> QED BY <1>4, <1>6, <2>1, TickMoves, WithinApply
<1>8. ASSUME NEW m \in Node, NEW j \in SeqKey PROVE Within(sequences[m][j], clock[m])'
  <2>1. Within(sequences[m][j], clock'[m])
    <3>1. clock[m] \in Int /\ clock'[m] \in Int /\ clock[m] <= clock'[m]
      BY TickMoves, BoundsAreInt DEF HInv
    <3> QED BY <3>1, WithinLater DEF SeqInv
  <2> QED BY <1>5, <1>7, <2>1 DEF Within
<1>9. sequences' \in [Node -> [SeqKey -> RGAStates(RGAId)]]
  BY <1>4, <1>7 DEF SeqInv, Within
<1> QED BY <1>3, <1>8, <1>9 DEF SeqInv, Within

LEMMA VisibleIds ==
    ASSUME SeqInv, NEW n \in Node, NEW k \in SeqKey, NEW i \in 1..SeqLen(n, k)
    PROVE  /\ Visible(sequences[n][k].nodes)[i] \in RGAId
           /\ Visible(sequences[n][k].nodes)[i] \in Ids(sequences[n][k].nodes)
           /\ Visible(sequences[n][k].nodes)[i].clock <= sequences[n][k].clock
<1>1. PICK s : s = sequences[n][k]
  OBVIOUS
<1>2. s.nodes \in Seq(NodesOf(RGAId)) /\ Counted(s)
  BY <1>1 DEF SeqInv, Within, RGAStates
<1>3. PICK v : v = Visible(s.nodes)
  OBVIOUS
<1>4. v \in Seq(RGAId) /\ ToSet(v) = {x.id : x \in {y \in ToSet(s.nodes) : ~y.deleted}}
  BY <1>2, <1>3, VisibleShows
<1>5. i \in 1..Len(v)
  BY <1>1, <1>3 DEF SeqLen
<1>6. v[i] \in RGAId /\ v[i] \in ToSet(v)
  BY <1>4, <1>5 DEF ToSet
<1>7. v[i] \in Ids(s.nodes)
  BY <1>4, <1>6 DEF Ids, ToSet
<1> QED BY <1>1, <1>2, <1>3, <1>6, <1>7 DEF Counted

\* The operations that SeqInsert and SeqDelete make.
LEMMA InsertMade ==
    ASSUME HInv, HInv', SeqInv, NEW n \in Node, NEW k \in SeqKey,
           NEW index \in 0..SeqLen(n, k), TickClock(n),
           NEW op, op = NewInsert(sequences[n][k], index, n)
    PROVE  /\ op \in OpsOver(RGAId) /\ op.id.clock <= clock[n] + 1 /\ IsInsert(op)
           /\ op.after = Head0 \/ op.after \in Ids(sequences[n][k].nodes)
           /\ op.id.node = n /\ op.id.clock = sequences[n][k].clock + 1
<1>2. PICK c : c = sequences[n][k].clock
  OBVIOUS
<1>3. PICK after : after = IF index = 0 THEN Head0 ELSE Visible(sequences[n][k].nodes)[index]
  OBVIOUS
<1>4. op = [type |-> "Insert", id |-> [clock |-> c + 1, node |-> n], after |-> after]
  BY <1>2, <1>3 DEF NewInsert, InsertOp, Id
<1>5. c \in Nat /\ c <= clock[n]
  BY <1>2, StateIds DEF SeqInv, Within
<1>6. clock[n] \in 0..MaxClock
  BY DEF HInv
<1>7. c + 1 \in 1..MaxClock /\ c + 1 <= clock[n] + 1
  BY <1>5, <1>6, TickMoves, BoundsAreInt
<1>8. after = Head0 \/ (after \in RGAId /\ after \in Ids(sequences[n][k].nodes))
  <2>1. CASE index = 0
    BY <1>3, <2>1
  <2>2. CASE index # 0
    <3>1. index \in 1..SeqLen(n, k)
      BY <2>2
    <3> QED BY <1>3, <2>2, <3>1, VisibleIds
  <2> QED BY <2>1, <2>2
<1>9. op \in OpsOver(RGAId) /\ op.id.clock <= clock[n] + 1
  BY <1>4, <1>7, <1>8 DEF OpsOver, WaitingOf, RGAId
<1> QED BY <1>2, <1>4, <1>8, <1>9 DEF IsInsert

LEMMA DeleteMade ==
    ASSUME HInv, SeqInv, NEW n \in Node, NEW k \in SeqKey,
           NEW index \in 0..(SeqLen(n, k) - 1),
           NEW op, op = NewDelete(sequences[n][k], index)
    PROVE  /\ op \in OpsOver(RGAId) /\ op.id.clock <= clock[n] + 1 /\ ~IsInsert(op)
           /\ op.id \in Ids(sequences[n][k].nodes)
<1>2. PICK id : id = Visible(sequences[n][k].nodes)[index + 1]
  OBVIOUS
<1>3. SeqLen(n, k) \in Nat
  <2>1. Visible(sequences[n][k].nodes) \in Seq(RGAId)
    BY VisibleShows DEF SeqInv, RGAStates
  <2> QED BY <2>1 DEF SeqLen
<1>4. index + 1 \in 1..SeqLen(n, k)
  BY <1>3
<1>5. /\ id \in RGAId /\ id.clock <= sequences[n][k].clock
      /\ id \in Ids(sequences[n][k].nodes)
  BY <1>2, <1>4, VisibleIds
<1>6. op = [type |-> "Delete", id |-> id]
  BY <1>2 DEF NewDelete, DeleteOp
<1>7. sequences[n][k].clock \in Nat /\ sequences[n][k].clock <= clock[n]
  BY StateIds DEF SeqInv, Within
<1>8. clock[n] \in 0..MaxClock
  BY DEF HInv
<1>9. op \in OpsOver(RGAId) /\ op.id.clock <= clock[n] + 1
  BY <1>5, <1>6, <1>7, <1>8, RGAIdsHaveClocks, BoundsAreInt DEF OpsOver, DeletesOf
<1> QED BY <1>5, <1>6, <1>9 DEF IsInsert

LEMMA SeqInserts ==
    ASSUME HInv, HInv', SeqInv, NEW n \in Node, NEW k \in SeqKey,
           NEW index \in 0..SeqLen(n, k), SeqInsert(n, k, index)
    PROVE  SeqInv'
<1>1. PICK op : op = NewInsert(sequences[n][k], index, n)
  OBVIOUS
<1>2. /\ TickClock(n) /\ Emit(n, "Sequence", k, op) /\ UNCHANGED snapshot
      /\ sequences' = [sequences EXCEPT ![n][k] = SeqApply(@, op)]
  BY <1>1 DEF SeqInsert
<1>3. op \in OpsOver(RGAId) /\ op.id.clock <= clock[n] + 1
  BY <1>1, <1>2, InsertMade
<1> QED BY <1>2, <1>3, SeqProduces

LEMMA SeqDeletes ==
    ASSUME HInv, HInv', SeqInv, NEW n \in Node, NEW k \in SeqKey,
           NEW index \in 0..(SeqLen(n, k) - 1), SeqDelete(n, k, index)
    PROVE  SeqInv'
<1>1. PICK op : op = NewDelete(sequences[n][k], index)
  OBVIOUS
<1>2. /\ TickClock(n) /\ Emit(n, "Sequence", k, op) /\ UNCHANGED snapshot
      /\ sequences' = [sequences EXCEPT ![n][k] = SeqApply(@, op)]
  BY <1>1 DEF SeqDelete
<1>3. op \in OpsOver(RGAId) /\ op.id.clock <= clock[n] + 1
  BY <1>1, DeleteMade
<1> QED BY <1>2, <1>3, SeqProduces

LEMMA SeqLocal ==
    ASSUME HInv, HInv', SeqInv, NEW n \in Node, LocalOperation(n)
    PROVE  SeqInv'
<1>1. ASSUME NEW k \in RegKey, NEW v \in Value, SetRegister(n, k, v) PROVE SeqInv'
  BY <1>1, SeqOther DEF SetRegister
<1>2. ASSUME NEW k \in SetKey, NEW v \in Value, SetAdd(n, k, v) PROVE SeqInv'
  BY <1>2, SeqOther DEF SetAdd
<1>3. ASSUME NEW k \in SetKey, NEW v \in Value, SetRemove(n, k, v) PROVE SeqInv'
  BY <1>3, SeqOther DEF SetRemove
<1>4. ASSUME NEW k \in SetKey, NEW v \in Value, SetRemoveAbsent(n, k, v) PROVE SeqInv'
  BY <1>4, TickMoves, SeqStill DEF SetRemoveAbsent
<1>5. ASSUME SeqDeleteNone(n) PROVE SeqInv'
  BY <1>5, TickMoves, SeqStill DEF SeqDeleteNone
<1> QED
  BY <1>1, <1>2, <1>3, <1>4, <1>5, SeqInserts, SeqDeletes DEF LocalOperation

LEMMA SeqReceives ==
    ASSUME HInv, HInv', SeqInv, NEW n \in Node, NEW env \in net, ApplyEnvelope(n, env)
    PROVE  SeqInv'
<1>1. UpdateClock(n, env.timestamp) /\ UNCHANGED <<net, snapshot>>
  BY DEF ApplyEnvelope
<1>2. env.timestamp \in Int
  BY BoundsAreInt DEF HInv
<1>3. CASE env.kind # "Sequence"
  BY <1>1, <1>2, <1>3, UpdateMoves, SeqStill DEF ApplyEnvelope
<1>4. CASE env.kind = "Sequence"
  <2>1. PICK op : op = env.op
    OBVIOUS
  <2>2. PICK k : k = env.key
    OBVIOUS
  <2>3. k \in SeqKey /\ op \in OpsOver(RGAId) /\ op.id.clock <= env.timestamp
    BY <1>4, <2>1, <2>2 DEF SeqInv, SeqOpOK
  <2>4. PICK t : t = SeqApply(sequences[n][k], op)
    OBVIOUS
  <2>5. \A m \in Node, j \in SeqKey :
           sequences'[m][j] = IF m = n /\ j = k THEN t ELSE sequences[m][j]
    BY <1>4, <2>1, <2>2, <2>3, <2>4 DEF SeqInv, ApplyEnvelope
  <2>6. ASSUME NEW m \in Node, NEW j \in SeqKey PROVE Within(sequences[m][j], clock'[m])
    <3>1. clock[m] \in Int /\ clock'[m] \in Int /\ clock[m] <= clock'[m]
      BY <1>1, <1>2, UpdateMoves, BoundsAreInt DEF HInv
    <3> QED BY <3>1, WithinLater DEF SeqInv
  <2>7. Within(t, clock'[n])
    <3>1. op.id \in RGAId /\ op.id.clock \in Nat
      BY <2>3, RGAIdsHaveClocks DEF OpsOver, WaitingOf, DeletesOf
    <3>2. clock'[n] \in Int /\ op.id.clock <= clock'[n]
      BY <1>1, <1>2, <2>3, <3>1, UpdateMoves, BoundsAreInt DEF HInv
    <3> QED BY <2>3, <2>4, <2>6, <3>2, WithinApply
  <2>8. \A m \in Node, j \in SeqKey : Within(sequences[m][j], clock[m])'
    BY <2>5, <2>6, <2>7 DEF Within
  <2>9. sequences' \in [Node -> [SeqKey -> RGAStates(RGAId)]]
    BY <1>4, <2>1, <2>2, <2>3, <2>4, <2>7 DEF SeqInv, Within, ApplyEnvelope
  <2> QED BY <1>1, <2>8, <2>9 DEF SeqInv, SeqOpOK, Within
<1> QED BY <1>3, <1>4

LEMMA SeqTakesSnapshot ==
    ASSUME HInv, SeqInv, NEW n \in Node, TakeSnapshot(n)
    PROVE  SeqInv'
<1>1. /\ UNCHANGED <<clock, sequences, net>>
      /\ snapshot' = StoreCopy(n)
  BY DEF TakeSnapshot, store
<1>2. snapshot'.clock = clock[n] /\ snapshot'.sequences = sequences[n]
  BY <1>1 DEF StoreCopy
<1> QED BY <1>1, <1>2 DEF SeqInv, SeqOpOK, Within

\* A store merges another one, or what a snapshot or a frame holds of one.
LEMMA SeqMerges ==
    ASSUME HInv, HInv', SeqInv, NEW n \in Node, NEW other, Merge(n, other),
           other.clock \in Int, \A k \in SeqKey : Within(other.sequences[k], other.clock)
    PROVE  SeqInv'
<1>1. /\ UpdateClock(n, other.clock) /\ UNCHANGED <<net, snapshot>>
      /\ sequences' = [sequences EXCEPT ![n] =
                         [k \in SeqKey |-> SeqMerge(sequences[n][k], other.sequences[k])]]
  BY DEF Merge
<1>2. ASSUME NEW m \in Node, NEW k \in SeqKey PROVE Within(sequences[m][k], clock'[m])
  <2>1. clock[m] \in Int /\ clock'[m] \in Int /\ clock[m] <= clock'[m]
    BY <1>1, UpdateMoves, BoundsAreInt DEF HInv
  <2> QED BY <2>1, WithinLater DEF SeqInv
<1>3. ASSUME NEW k \in SeqKey
      PROVE  Within(SeqMerge(sequences[n][k], other.sequences[k]), clock'[n])
  <2>1. clock'[n] \in Int /\ other.clock <= clock'[n]
    BY <1>1, UpdateMoves, BoundsAreInt DEF HInv
  <2>2. Within(other.sequences[k], clock'[n])
    BY <2>1, WithinLater
  <2> QED BY <1>2, <2>1, <2>2, WithinMerge
<1>4. \A m \in Node, k \in SeqKey :
         sequences'[m][k] = IF m = n THEN SeqMerge(sequences[n][k], other.sequences[k])
                                     ELSE sequences[m][k]
  BY <1>1 DEF SeqInv
<1>5. \A m \in Node, k \in SeqKey : Within(sequences[m][k], clock[m])'
  BY <1>2, <1>3, <1>4 DEF Within
<1>6. sequences' \in [Node -> [SeqKey -> RGAStates(RGAId)]]
  <2>1. [k \in SeqKey |-> SeqMerge(sequences[n][k], other.sequences[k])]
          \in [SeqKey -> RGAStates(RGAId)]
    BY <1>3 DEF Within
  <2> QED BY <1>1, <2>1 DEF SeqInv
<1> QED BY <1>1, <1>5, <1>6 DEF SeqInv, SeqOpOK, Within

LEMMA SeqMergesSnapshot ==
    ASSUME HInv, HInv', SeqInv, NEW n \in Node, MergeSnapshot(n)
    PROVE  SeqInv'
<1>1. snapshot.taken /\ Merge(n, snapshot) /\ snapshot.clock \in Int
  BY BoundsAreInt DEF MergeSnapshot, HInv, Covers
<1> QED BY <1>1, SeqMerges DEF SeqInv

LEMMA SeqPrunes ==
    ASSUME HInv, SeqInv, NEW n \in Node, Prune(n)
    PROVE  SeqInv'
<1>1. PICK before_ts : PruneTombstones(n, before_ts)
  BY DEF Prune
<1>2. UNCHANGED <<clock, net, snapshot>>
  BY <1>1 DEF PruneTombstones
<1>3. ASSUME NEW k \in SeqKey PROVE Within(SeqPrune(sequences[n][k], before_ts), clock[n])
  <2>1. clock[n] \in Int
    BY BoundsAreInt DEF HInv
  <2> QED BY <2>1, WithinPrune DEF SeqInv
<1>4. \A m \in Node, k \in SeqKey :
         sequences'[m][k] = IF m = n THEN SeqPrune(sequences[n][k], before_ts)
                                     ELSE sequences[m][k]
  BY <1>1 DEF SeqInv, PruneTombstones
<1>5. \A m \in Node, k \in SeqKey : Within(sequences[m][k], clock[m])'
  BY <1>2, <1>3, <1>4 DEF SeqInv, Within
<1>6. sequences' \in [Node -> [SeqKey -> RGAStates(RGAId)]]
  <2>1. [k \in SeqKey |-> SeqPrune(sequences[n][k], before_ts)] \in [SeqKey -> RGAStates(RGAId)]
    BY <1>3 DEF Within
  <2> QED BY <1>1, <2>1 DEF SeqInv, PruneTombstones
<1> QED BY <1>2, <1>5, <1>6 DEF SeqInv, SeqOpOK, Within

LEMMA SeqNext == HInv /\ HInv' /\ SeqInv /\ [Next]_vars => SeqInv'
<1> SUFFICES ASSUME HInv, HInv', SeqInv, [Next]_vars PROVE SeqInv'
  OBVIOUS
<1>1. CASE UNCHANGED vars
  <2>1. UNCHANGED <<clock, sequences, net, snapshot>>
    BY <1>1 DEF vars
  <2>2. \A m \in Node : clock[m] <= clock'[m]
    BY <2>1, BoundsAreInt DEF HInv
  <2> QED BY <2>1, <2>2, SeqStill
<1>2. CASE Next
  <2>1. PICK n \in Node : \/ LocalOperation(n) \/ Receive(n)
                          \/ TakeSnapshot(n) \/ MergeSnapshot(n) \/ Prune(n)
    BY <1>2 DEF Next
  <2> QED BY <2>1, SeqLocal, SeqReceives, SeqTakesSnapshot, SeqMergesSnapshot, SeqPrunes DEF Receive
<1> QED BY <1>1, <1>2

LEMMA SeqInit == Init => SeqInv
<1> SUFFICES ASSUME Init PROVE SeqInv
  OBVIOUS
<1>1. Within(EmptyRGA, 0)
  <2>1. /\ EmptyRGA.clock = 0 /\ EmptyRGA.nodes = <<>> /\ EmptyRGA.pending = <<>>
        /\ EmptyRGA = [clock |-> 0, nodes |-> <<>>, pending |-> <<>>]
    BY DEF EmptyRGA, ClockInit
  <2>2. <<>> \in Seq(NodesOf(RGAId)) /\ <<>> \in Seq(WaitingOf(RGAId))
    OBVIOUS
  <2>3. EmptyRGA \in RGAStates(RGAId)
    BY <2>1, <2>2 DEF RGAStates
  <2>4. Ids(EmptyRGA.nodes) = {} /\ ToSet(EmptyRGA.pending) = {}
    BY <2>1 DEF Ids, ToSet
  <2> QED BY <2>1, <2>3, <2>4 DEF Within, Counted
<1> QED BY <1>1 DEF Init, SeqInv, Within, NoSnapshot, ClockInit

\* The counter of a sequence never runs ahead of the clock of its store, and
\* no operation on a sequence has an id later than its envelope's timestamp:
\* the clock moves past the timestamp of all that is applied or merged before
\* the sequence sees its ids.
THEOREM ClocksBoundSequences == Spec => []SequenceClockBound
<1>1. SeqInv => SequenceClockBound
  BY DEF SeqInv, SeqOpOK, Within, SequenceClockBound
<1> QED BY <1>1, HInit, HNext, SeqInit, SeqNext, PTL DEF Spec

\* Every variable keeps its type, the lists of nodes and the waiting inserts
\* of the sequences included, whatever is applied, merged or pruned.
THEOREM StoreTypes == Spec => []TypeOK
<1>1. HInv /\ RInv /\ SetsInv /\ SeqInv => TypeOK
  <2> SUFFICES ASSUME HInv, RInv, SetsInv, SeqInv PROVE TypeOK
    OBVIOUS
  <2>1. ASSUME NEW n \in Node, NEW k \in SeqKey PROVE sequences[n][k] \in RGAType
    <3>1. /\ sequences[n][k] \in RGAStates(RGAId)
          /\ sequences[n][k].clock <= clock[n] /\ clock[n] \in 0..MaxClock
      BY DEF SeqInv, Within, HInv
    <3>2. sequences[n][k].clock \in 0..MaxClock
      BY <3>1, StateIds, BoundsAreInt
    <3> QED BY <3>1, <3>2 DEF RGAStates, NodesOf, WaitingOf, RGAType
  <2>2. sequences \in [Node -> [SeqKey -> RGAType]]
    BY <2>1 DEF SeqInv
  <2> QED BY <2>2 DEF HInv, RInv, SetsInv, EntriesType, TypeOK
<1>2. Init => RInv
  BY DEF Init, RInv, WritesOK, Holds, Writes, NoSnapshot, RegType
<1>3. SetsInv /\ [Next]_vars => SetsInv'
  BY SetsNext
<1> QED BY <1>1, <1>2, <1>3, HInit, HNext, RNext, SetsInit, SeqInit, SeqNext, PTL DEF Spec

-----------------------------------------------------------------------------
(* Sequences: what pruning leaves.                                         *)

\* A list's tombstones are of elements whose Delete is among these operations.
Buried(seq, ops) == \A x \in ToSet(seq.nodes) : x.deleted => DeleteOp(x.id) \in ops

\* The inserts among them are of these ids, or their Delete is among them too.
Placed(ids, ops) ==
    \A op \in ops : IsInsert(op) => op.id \in ids \/ DeleteOp(op.id) \in ops

Waits(seq) == {op.id : op \in ToSet(seq.pending)}

\* A replica of a sequence that has these operations, and a copy of one.
Full(seq, ops)     == Buried(seq, ops) /\ Placed(Ids(seq.nodes) \cup Waits(seq), ops)
FullCopy(seq, ops) == Buried(seq, ops) /\ Placed(Ids(seq.nodes), ops)

\* The operations on sequence k among some envelopes.
SeqOps(envs, k) == OpsOf(envs, "Sequence", k)

\* The inductive invariant for what stays in the sequences.
KeptInv ==
    /\ \A n \in Node, k \in SeqKey : Full(sequences[n][k], SeqOps(known[n], k))
    /\ snapshot.taken =>
          \A k \in SeqKey : FullCopy(snapshot.sequences[k], SeqOps(snapshot.known, k))

LEMMA SeqOpsAdd ==
    /\ \A A, B, k : SeqOps(A \cup B, k) = SeqOps(A, k) \cup SeqOps(B, k)
    /\ \A e, k : SeqOps({e}, k) = IF e.kind = "Sequence" /\ e.key = k THEN {e.op} ELSE {}
<1>1. \A A, B, k : SeqOps(A \cup B, k) = SeqOps(A, k) \cup SeqOps(B, k)
  BY DEF SeqOps, OpsOf
<1> QED BY <1>1, OpsOfOne DEF SeqOps

LEMMA ApplyKeepsAll ==
    ASSUME NEW s \in RGAStates(RGAId), NEW op \in OpsOver(RGAId), NEW ops, Full(s, ops)
    PROVE  Full(SeqApply(s, op), ops \cup {op})
<1>1. PICK t : t = SeqApply(s, op)
  OBVIOUS
<1>2. op.id \in RGAId /\ op.id.clock \in Nat /\ (~IsInsert(op) => op = DeleteOp(op.id))
  <2>1. op.id \in RGAId /\ (~IsInsert(op) => op = DeleteOp(op.id))
    BY DEF OpsOver, WaitingOf, DeletesOf, IsInsert, DeleteOp
  <2> QED BY <2>1, RGAIdsHaveClocks
<1>3. Applied(s, op, t)
  BY <1>1, <1>2, ApplyApplies
<1>4. Buried(t, ops \cup {op})
  <2>1. ASSUME NEW x \in ToSet(t.nodes), x.deleted PROVE DeleteOp(x.id) \in ops \cup {op}
    <3>1. x \in ToSet(s.nodes) \/ (~IsInsert(op) /\ x.id = op.id)
      BY <1>3, <2>1 DEF Applied
    <3>2. ASSUME x \in ToSet(s.nodes) PROVE DeleteOp(x.id) \in ops
      BY <2>1, <3>2 DEF Full, Buried
    <3> QED BY <1>2, <3>1, <3>2
  <2> QED BY <2>1 DEF Buried
<1>5. Placed(Ids(t.nodes) \cup Waits(t), ops \cup {op})
  <2>1. Ids(s.nodes) \cup Waits(s) \subseteq Ids(t.nodes) \cup Waits(t)
    BY <1>3 DEF Applied, Waits
  <2>2. IsInsert(op) => op.id \in Ids(t.nodes) \cup Waits(t)
    BY <1>3 DEF Applied, Waits
  <2> QED BY <2>1, <2>2 DEF Full, Placed
<1> QED BY <1>1, <1>4, <1>5 DEF Full

LEMMA MergeKeepsAll ==
    ASSUME NEW s \in RGAStates(RGAId), NEW o \in RGAStates(RGAId), Counted(o),
           NEW ops, Full(s, ops), NEW more, FullCopy(o, more)
    PROVE  Full(SeqMerge(s, o), ops \cup more)
<1>1. PICK t : t = SeqMerge(s, o)
  OBVIOUS
<1>2. Merged(s, o, t)
  BY <1>1, RGAIdsHaveClocks, MergeMerges
<1>3. Buried(t, ops \cup more)
  <2>1. ASSUME NEW x \in ToSet(t.nodes), x.deleted PROVE DeleteOp(x.id) \in ops \cup more
    <3>1. x \in ToSet(s.nodes) \/ x.id \in Gone(o)
      BY <1>2, <2>1 DEF Merged
    <3>2. ASSUME x \in ToSet(s.nodes) PROVE DeleteOp(x.id) \in ops
      BY <2>1, <3>2 DEF Full, Buried
    <3>3. ASSUME x.id \in Gone(o) PROVE DeleteOp(x.id) \in more
      BY <3>3, GoneMembers DEF FullCopy, Buried
    <3> QED BY <3>1, <3>2, <3>3
  <2> QED BY <2>1 DEF Buried
<1>4. Placed(Ids(t.nodes) \cup Waits(t), ops \cup more)
  <2>1. Ids(s.nodes) \cup Waits(s) \subseteq Ids(t.nodes) \cup Waits(t)
    BY <1>2 DEF Merged, Waits
  <2>2. Ids(o.nodes) \subseteq Ids(t.nodes)
    BY <1>2 DEF Merged
  <2> QED BY <2>1, <2>2 DEF Full, FullCopy, Placed
<1> QED BY <1>1, <1>3, <1>4 DEF Full

\* What a prune drops has been deleted.
LEMMA PruneKeepsAll ==
    ASSUME NEW s \in RGAStates(RGAId), NEW ops, Full(s, ops), NEW before_ts
    PROVE  Full(SeqPrune(s, before_ts), ops)
<1>1. PICK t : t = SeqPrune(s, before_ts)
  OBVIOUS
<1>2. /\ t.pending = s.pending
      /\ ToSet(t.nodes) = {x \in ToSet(s.nodes) : ~(x.deleted /\ x.id.clock <= before_ts)}
  BY <1>1, PruneDrops
<1>3. Buried(t, ops)
  BY <1>2 DEF Full, Buried
<1>4. ASSUME NEW op \in ops, IsInsert(op)
      PROVE  op.id \in Ids(t.nodes) \cup Waits(t) \/ DeleteOp(op.id) \in ops
  <2>1. op.id \in Ids(s.nodes) \/ op.id \in Waits(s) \/ DeleteOp(op.id) \in ops
    BY <1>4 DEF Full, Placed
  <2>2. CASE op.id \in Ids(s.nodes)
    <3>1. PICK x \in ToSet(s.nodes) : x.id = op.id
      BY <2>2, IdsOfMembers
    <3>2. CASE x \in ToSet(t.nodes)
      BY <3>1, <3>2, IdsOfMembers
    <3>3. CASE x \notin ToSet(t.nodes)
      BY <1>2, <3>1, <3>3 DEF Full, Buried
    <3> QED BY <3>2, <3>3
  <2>3. CASE op.id \in Waits(s)
    BY <1>2, <2>3 DEF Waits
  <2> QED BY <2>1, <2>2, <2>3
<1> QED BY <1>1, <1>3, <1>4 DEF Full, Placed

\* An operation on sequence k reaches n, with its envelope.
LEMMA KeptApplies ==
    ASSUME SeqInv, KeptInv, NEW n \in Node, NEW k \in SeqKey, NEW op \in OpsOver(RGAId),
           NEW env, env.kind = "Sequence", env.key = k, env.op = op,
           sequences' = [sequences EXCEPT ![n][k] = SeqApply(@, op)],
           \A m \in Node : known'[m] = IF m = n THEN known[n] \cup {env} ELSE known[m],
           UNCHANGED snapshot
    PROVE  KeptInv'
<1>1. PICK t : t = SeqApply(sequences[n][k], op)
  OBVIOUS
<1>2. \A m \in Node, j \in SeqKey :
         sequences'[m][j] = IF m = n /\ j = k THEN t ELSE sequences[m][j]
  BY <1>1 DEF SeqInv
<1>3. SeqOps({env}, k) = {op} /\ \A j \in SeqKey \ {k} : SeqOps({env}, j) = {}
  BY SeqOpsAdd
<1>4. ASSUME NEW m \in Node, NEW j \in SeqKey
      PROVE  Full(sequences'[m][j], SeqOps(known'[m], j))
  <2>1. Full(sequences[m][j], SeqOps(known[m], j)) /\ sequences[m][j] \in RGAStates(RGAId)
    BY DEF SeqInv, KeptInv
  <2>2. CASE m = n /\ j = k
    <3>1. known'[m] = known[n] \cup {env}
      BY <2>2
    <3>2. SeqOps(known'[m], j) = SeqOps(known[n], k) \cup SeqOps({env}, k)
      BY <2>2, <3>1, SeqOpsAdd
    <3>3. PICK ops : ops = SeqOps(known[n], k)
      OBVIOUS
    <3>4. PICK s : s = sequences[n][k]
      OBVIOUS
    <3>5. s \in RGAStates(RGAId) /\ Full(s, ops)
      BY <2>1, <2>2, <3>3, <3>4
    <3>6. Full(SeqApply(s, op), ops \cup {op})
      BY <3>5, ApplyKeepsAll
    <3>7. sequences'[m][j] = SeqApply(s, op)
      BY <1>1, <1>2, <2>2, <3>4
    <3>8. SeqOps(known'[m], j) = ops \cup {op}
      BY <1>3, <3>2, <3>3
    <3> QED BY <3>6, <3>7, <3>8
  <2>3. CASE ~(m = n /\ j = k)
    <3>1. SeqOps(known[m] \cup {env}, j) = SeqOps(known[m], j) \cup SeqOps({env}, j)
      BY SeqOpsAdd
    <3>2. SeqOps(known'[m], j) = SeqOps(known[m], j)
      <4>1. CASE m = n
        BY <1>3, <2>3, <3>1, <4>1
      <4>2. CASE m # n
        BY <4>2
      <4> QED BY <4>1, <4>2
    <3> QED BY <1>2, <2>1, <2>3, <3>2
  <2> QED BY <2>2, <2>3
<1>5. snapshot'.taken =>
         \A j \in SeqKey : FullCopy(snapshot'.sequences[j], SeqOps(snapshot'.known, j))
  BY DEF KeptInv
<1> QED BY <1>4, <1>5 DEF KeptInv, Full, FullCopy, Buried, Placed, Waits, SeqOps, OpsOf

\* Nothing reaches a sequence.
LEMMA KeptStill ==
    ASSUME SeqInv, KeptInv, UNCHANGED <<sequences, snapshot>>,
           \A m \in Node : known[m] \subseteq known'[m],
           \A m \in Node : \A e \in known'[m] : e \in known[m] \/ e.kind # "Sequence"
    PROVE  KeptInv'
<1>1. ASSUME NEW m \in Node, NEW k \in SeqKey PROVE SeqOps(known'[m], k) = SeqOps(known[m], k)
  BY DEF SeqOps, OpsOf
<1>2. \A m \in Node, k \in SeqKey : Full(sequences'[m][k], SeqOps(known'[m], k))
  BY <1>1 DEF KeptInv
<1>3. snapshot'.taken =>
         \A k \in SeqKey : FullCopy(snapshot'.sequences[k], SeqOps(snapshot'.known, k))
  BY DEF KeptInv
<1> QED BY <1>2, <1>3 DEF KeptInv, Full, FullCopy, Buried, Placed, Waits, SeqOps, OpsOf

LEMMA KeptOther ==
    ASSUME HInv, SeqInv, KeptInv, NEW n \in Node, NEW kind, NEW key, NEW op,
           kind # "Sequence", Emit(n, kind, key, op), UNCHANGED <<sequences, snapshot>>
    PROVE  KeptInv'
<1>1. PICK env : env = Envelope(Tick(clock[n]), n, kind, key, op)
  OBVIOUS
<1>2. /\ env.kind # "Sequence"
      /\ \A m \in Node : known'[m] = IF m = n THEN known[n] \cup {env} ELSE known[m]
  BY <1>1 DEF Emit, Envelope, HInv
<1> QED BY <1>2, KeptStill

LEMMA KeptProduces ==
    ASSUME HInv, SeqInv, KeptInv, NEW n \in Node, NEW k \in SeqKey, NEW op \in OpsOver(RGAId),
           sequences' = [sequences EXCEPT ![n][k] = SeqApply(@, op)],
           Emit(n, "Sequence", k, op), UNCHANGED snapshot
    PROVE  KeptInv'
<1>1. PICK env : env = Envelope(Tick(clock[n]), n, "Sequence", k, op)
  OBVIOUS
<1>2. /\ env.kind = "Sequence" /\ env.key = k /\ env.op = op
      /\ \A m \in Node : known'[m] = IF m = n THEN known[n] \cup {env} ELSE known[m]
  BY <1>1 DEF Emit, Envelope, HInv
<1> QED BY <1>2, KeptApplies

LEMMA KeptLocal ==
    ASSUME HInv, HInv', SeqInv, KeptInv, NEW n \in Node, LocalOperation(n)
    PROVE  KeptInv'
<1>1. ASSUME NEW k \in RegKey, NEW v \in Value, SetRegister(n, k, v) PROVE KeptInv'
  BY <1>1, KeptOther DEF SetRegister
<1>2. ASSUME NEW k \in SetKey, NEW v \in Value, SetAdd(n, k, v) PROVE KeptInv'
  BY <1>2, KeptOther DEF SetAdd
<1>3. ASSUME NEW k \in SetKey, NEW v \in Value, SetRemove(n, k, v) PROVE KeptInv'
  BY <1>3, KeptOther DEF SetRemove
<1>4. ASSUME UNCHANGED <<sequences, snapshot, known>> PROVE KeptInv'
  BY <1>4, KeptStill
<1>5. ASSUME NEW k \in SetKey, NEW v \in Value, SetRemoveAbsent(n, k, v) PROVE KeptInv'
  BY <1>4, <1>5 DEF SetRemoveAbsent
<1>6. ASSUME SeqDeleteNone(n) PROVE KeptInv'
  BY <1>4, <1>6 DEF SeqDeleteNone
<1>7. ASSUME NEW k \in SeqKey, NEW index \in 0..SeqLen(n, k), SeqInsert(n, k, index)
      PROVE  KeptInv'
  <2>1. PICK op : op = NewInsert(sequences[n][k], index, n)
    OBVIOUS
  <2>2. /\ TickClock(n) /\ Emit(n, "Sequence", k, op) /\ UNCHANGED snapshot
        /\ sequences' = [sequences EXCEPT ![n][k] = SeqApply(@, op)]
    BY <1>7, <2>1 DEF SeqInsert
  <2>3. op \in OpsOver(RGAId)
    BY <2>1, <2>2, InsertMade
  <2> QED BY <2>2, <2>3, KeptProduces
<1>8. ASSUME NEW k \in SeqKey, NEW index \in 0..(SeqLen(n, k) - 1), SeqDelete(n, k, index)
      PROVE  KeptInv'
  <2>1. PICK op : op = NewDelete(sequences[n][k], index)
    OBVIOUS
  <2>2. /\ Emit(n, "Sequence", k, op) /\ UNCHANGED snapshot
        /\ sequences' = [sequences EXCEPT ![n][k] = SeqApply(@, op)]
    BY <1>8, <2>1 DEF SeqDelete
  <2>3. op \in OpsOver(RGAId)
    BY <2>1, DeleteMade
  <2> QED BY <2>2, <2>3, KeptProduces
<1> QED BY <1>1, <1>2, <1>3, <1>5, <1>6, <1>7, <1>8 DEF LocalOperation

LEMMA KeptReceives ==
    ASSUME HInv, SeqInv, KeptInv, NEW n \in Node, NEW env \in net, ApplyEnvelope(n, env)
    PROVE  KeptInv'
<1>1. /\ \A m \in Node : known'[m] = IF m = n THEN known[n] \cup {env} ELSE known[m]
      /\ UNCHANGED snapshot
  BY DEF ApplyEnvelope, HInv
<1>2. CASE env.kind # "Sequence"
  BY <1>1, <1>2, KeptStill DEF ApplyEnvelope
<1>3. CASE env.kind = "Sequence"
  <2>1. PICK op : op = env.op
    OBVIOUS
  <2>2. PICK k : k = env.key
    OBVIOUS
  <2>3. k \in SeqKey /\ op \in OpsOver(RGAId)
    BY <1>3, <2>1, <2>2 DEF SeqInv, SeqOpOK
  <2>4. sequences' = [sequences EXCEPT ![n][k] = SeqApply(@, op)]
    BY <1>3, <2>1, <2>2 DEF ApplyEnvelope
  <2> QED BY <1>1, <1>3, <2>1, <2>2, <2>3, <2>4, KeptApplies
<1> QED BY <1>2, <1>3

LEMMA KeptTakesSnapshot ==
    ASSUME HInv, SeqInv, KeptInv, NEW n \in Node, TakeSnapshot(n)
    PROVE  KeptInv'
<1>1. /\ UNCHANGED <<sequences, known>>
      /\ snapshot'.sequences = sequences[n] /\ snapshot'.known = Carried(n)
  BY DEF TakeSnapshot, StoreCopy, store, history
<1>2. ASSUME NEW k \in SeqKey PROVE FullCopy(sequences[n][k], SeqOps(Carried(n), k))
  <2>1. \A op \in SeqOps(known[n], k) :
           ~IsInsert(op) \/ op.id \in Ids(sequences[n][k].nodes) => op \in SeqOps(Carried(n), k)
    BY DEF SeqOps, OpsOf, Carried, IsInsert
  <2>2. \A op \in SeqOps(Carried(n), k) :
           IsInsert(op) => op.id \in Ids(sequences[n][k].nodes)
    BY DEF SeqOps, OpsOf, Carried, IsInsert
  <2>3. ASSUME NEW x \in ToSet(sequences[n][k].nodes), x.deleted
        PROVE  DeleteOp(x.id) \in SeqOps(Carried(n), k)
    <3>1. DeleteOp(x.id) \in SeqOps(known[n], k)
      BY <2>3 DEF KeptInv, Full, Buried
    <3> QED BY <2>1, <3>1 DEF DeleteOp, IsInsert
  <2> QED BY <2>2, <2>3 DEF FullCopy, Buried, Placed
<1>3. \A m \in Node, k \in SeqKey : Full(sequences'[m][k], SeqOps(known'[m], k))
  BY <1>1 DEF KeptInv
<1>4. \A k \in SeqKey : FullCopy(snapshot'.sequences[k], SeqOps(snapshot'.known, k))
  BY <1>1, <1>2
<1> QED BY <1>3, <1>4 DEF KeptInv, Full, FullCopy, Buried, Placed, Waits, SeqOps, OpsOf

LEMMA KeptMerges ==
    ASSUME HInv, SeqInv, KeptInv, NEW n \in Node, MergeSnapshot(n)
    PROVE  KeptInv'
<1>1. /\ snapshot.taken /\ UNCHANGED snapshot
      /\ sequences' = [sequences EXCEPT ![n] =
                         [k \in SeqKey |-> SeqMerge(sequences[n][k], snapshot.sequences[k])]]
      /\ \A m \in Node : known'[m] = IF m = n THEN known[n] \cup snapshot.known ELSE known[m]
  BY DEF MergeSnapshot, Merge, HInv
<1>2. ASSUME NEW m \in Node, NEW k \in SeqKey
      PROVE  Full(sequences'[m][k], SeqOps(known'[m], k))
  <2>1. Full(sequences[m][k], SeqOps(known[m], k)) /\ sequences[m][k] \in RGAStates(RGAId)
    BY DEF SeqInv, KeptInv
  <2>2. CASE m = n
    <3>1. PICK o : o = snapshot.sequences[k]
      OBVIOUS
    <3>2. /\ o \in RGAStates(RGAId) /\ Counted(o)
          /\ FullCopy(o, SeqOps(snapshot.known, k))
      BY <1>1, <3>1 DEF SeqInv, Within, KeptInv
    <3>3. SeqOps(known'[m], k) = SeqOps(known[m], k) \cup SeqOps(snapshot.known, k)
      BY <1>1, <2>2, SeqOpsAdd
    <3>4. sequences'[m][k] = SeqMerge(sequences[m][k], o)
      BY <1>1, <2>2, <3>1 DEF SeqInv
    <3> QED BY <2>1, <3>2, <3>3, <3>4, MergeKeepsAll
  <2>3. CASE m # n
    BY <1>1, <2>1, <2>3 DEF SeqInv
  <2> QED BY <2>2, <2>3
<1>3. \A k \in SeqKey : FullCopy(snapshot'.sequences[k], SeqOps(snapshot'.known, k))
  BY <1>1 DEF KeptInv
<1> QED BY <1>2, <1>3 DEF KeptInv, Full, FullCopy, Buried, Placed, Waits, SeqOps, OpsOf

LEMMA KeptPrunes ==
    ASSUME SeqInv, KeptInv, NEW n \in Node, Prune(n)
    PROVE  KeptInv'
<1>1. PICK before_ts : PruneTombstones(n, before_ts)
  BY DEF Prune
<1>2. UNCHANGED <<snapshot, known>>
  BY <1>1 DEF PruneTombstones
<1>3. \A m \in Node, k \in SeqKey :
         sequences'[m][k] = IF m = n THEN SeqPrune(sequences[n][k], before_ts)
                                     ELSE sequences[m][k]
  BY <1>1 DEF SeqInv, PruneTombstones
<1>4. ASSUME NEW m \in Node, NEW k \in SeqKey
      PROVE  Full(sequences'[m][k], SeqOps(known'[m], k))
  <2>1. Full(sequences[m][k], SeqOps(known[m], k)) /\ sequences[m][k] \in RGAStates(RGAId)
    BY DEF SeqInv, KeptInv
  <2> QED BY <1>2, <1>3, <2>1, PruneKeepsAll
<1>5. snapshot'.taken =>
         \A k \in SeqKey : FullCopy(snapshot'.sequences[k], SeqOps(snapshot'.known, k))
  BY <1>2 DEF KeptInv
<1> QED BY <1>4, <1>5 DEF KeptInv, Full, FullCopy, Buried, Placed, Waits, SeqOps, OpsOf

LEMMA KeptNext == HInv /\ HInv' /\ SeqInv /\ KeptInv /\ [Next]_vars => KeptInv'
<1> SUFFICES ASSUME HInv, HInv', SeqInv, KeptInv, [Next]_vars PROVE KeptInv'
  OBVIOUS
<1>1. CASE UNCHANGED vars
  <2>1. UNCHANGED <<sequences, snapshot, known>>
    BY <1>1 DEF vars
  <2> QED BY <2>1, KeptStill
<1>2. CASE Next
  <2>1. PICK n \in Node : \/ LocalOperation(n) \/ Receive(n)
                          \/ TakeSnapshot(n) \/ MergeSnapshot(n) \/ Prune(n)
    BY <1>2 DEF Next
  <2> QED
    BY <2>1, KeptLocal, KeptReceives, KeptTakesSnapshot, KeptMerges, KeptPrunes DEF Receive
<1> QED BY <1>1, <1>2

LEMMA KeptInit == Init => KeptInv
<1> SUFFICES ASSUME Init PROVE KeptInv
  OBVIOUS
<1>1. \A k : SeqOps({}, k) = {}
  BY DEF SeqOps, OpsOf
<1>2. EmptyRGA.nodes = <<>> /\ ToSet(<<>>) = {}
  BY DEF EmptyRGA, ToSet
<1>3. Full(EmptyRGA, {})
  BY <1>2 DEF Full, Buried, Placed
<1> QED BY <1>1, <1>3 DEF Init, KeptInv, NoSnapshot

\* A prune takes tombstones only, whatever the timestamp it is asked for: an
\* element that a store has got, and whose Delete it has not got, is shown or
\* waits for its anchor, in any number of stores that prune at any time.
THEOREM NothingLivePruned == Spec => []PruneLosesNothing
<1>1. HInv /\ SeqInv /\ KeptInv => PruneLosesNothing
  <2> SUFFICES ASSUME HInv, SeqInv, KeptInv, NEW n \in Node, NEW e \in known[n],
                      e.kind = "Sequence", e.op.type = "Insert"
               PROVE  \/ e.op.id \in Present(sequences[n][e.key])
                      \/ \E d \in known[n] :
                            d.kind = "Sequence" /\ d.key = e.key /\ d.op = DeleteOp(e.op.id)
    BY DEF PruneLosesNothing
  <2>1. PICK k : k = e.key
    OBVIOUS
  <2>2. PICK i : i = e.op.id
    OBVIOUS
  <2>3. PICK seq : seq = sequences[n][k]
    OBVIOUS
  <2>4. k \in SeqKey
    BY <2>1 DEF HInv, SeqInv, SeqOpOK
  <2>5. seq.nodes \in Seq(NodesOf(RGAId)) /\ Full(seq, SeqOps(known[n], k))
    BY <2>3, <2>4 DEF SeqInv, KeptInv, RGAStates
  <2>6. e.op \in SeqOps(known[n], k) /\ IsInsert(e.op)
    BY <2>1 DEF SeqOps, OpsOf, IsInsert
  <2>7. i \in Ids(seq.nodes) \/ i \in Waits(seq) \/ DeleteOp(i) \in SeqOps(known[n], k)
    BY <2>2, <2>5, <2>6 DEF Full, Placed
  <2>8. CASE i \in Ids(seq.nodes)
    <3>1. PICK x \in ToSet(seq.nodes) : x.id = i
      BY <2>8, IdsOfMembers
    <3>2. x.deleted => DeleteOp(i) \in SeqOps(known[n], k)
      BY <2>5, <3>1 DEF Full, Buried
    <3>3. ~x.deleted => i \in ToSet(Visible(seq.nodes))
      BY <2>5, <3>1, VisibleShows
    <3>4. DeleteOp(i) \in SeqOps(known[n], k) \/ i \in Present(seq)
      BY <3>2, <3>3 DEF Present
    <3> QED BY <2>1, <2>2, <2>3, <3>4 DEF SeqOps, OpsOf
  <2>9. CASE i \in Waits(seq)
    BY <2>1, <2>2, <2>3, <2>9 DEF Waits, Present
  <2>10. CASE DeleteOp(i) \in SeqOps(known[n], k)
    BY <2>1, <2>2, <2>10 DEF SeqOps, OpsOf
  <2> QED BY <2>7, <2>8, <2>9, <2>10
<1> QED BY <1>1, HInit, HNext, SeqInit, SeqNext, KeptInit, KeptNext, PTL DEF Spec

-----------------------------------------------------------------------------
(* Sequences without repetitions, and in causal order.                     *)

Once(s) == \A i, j \in 1..Len(s) : s[i] = s[j] => i = j

Join(s, t) == s \o t

\* The past of every element is in B or before it.
Ordered(p, s, B) ==
    \A i \in 1..Len(s) : p[s[i]] \subseteq B \cup {s[j] : j \in 1..(i - 1)}

LEMMA Members ==
    ASSUME NEW S, NEW s \in Seq(S)
    PROVE  /\ Len(s) \in Nat /\ DOMAIN s = 1..Len(s)
           /\ ToSet(s) = {s[i] : i \in 1..Len(s)} /\ ToSet(s) \subseteq S
           /\ s = <<>> <=> ToSet(s) = {}
<1>1. Len(s) \in Nat /\ DOMAIN s = 1..Len(s) /\ \A i \in 1..Len(s) : s[i] \in S
  OBVIOUS
<1>2. ToSet(s) = {s[i] : i \in 1..Len(s)}
  BY <1>1 DEF ToSet
<1>3. s # <<>> => 1 \in 1..Len(s)
  OBVIOUS
<1> QED BY <1>1, <1>2, <1>3

LEMMA OneMember ==
    ASSUME NEW e
    PROVE  /\ <<e>> \in Seq({e}) /\ Len(<<e>>) = 1 /\ <<e>>[1] = e
           /\ ToSet(<<e>>) = {e} /\ Once(<<e>>)
           /\ \A p, B : Ordered(p, <<e>>, B) <=> p[e] \subseteq B
<1>1. <<e>> \in Seq({e}) /\ Len(<<e>>) = 1 /\ <<e>>[1] = e
  OBVIOUS
<1>2. ToSet(<<e>>) = {e}
  <2>1. DOMAIN <<e>> = 1..1
    OBVIOUS
  <2> QED BY <1>1, <2>1 DEF ToSet
<1>3. 1..1 = {1} /\ 1..(1 - 1) = {}
  OBVIOUS
<1>4. Once(<<e>>)
  BY <1>1, <1>3 DEF Once
<1>5. \A p, B : Ordered(p, <<e>>, B) <=> p[e] \subseteq B
  BY <1>1, <1>3 DEF Ordered
<1> QED BY <1>1, <1>2, <1>4, <1>5

LEMMA HeadFirst ==
    ASSUME NEW S, NEW s \in Seq(S), s # <<>>
    PROVE  /\ Head(s) \in S /\ Head(s) = s[1] /\ Tail(s) \in Seq(S)
           /\ s = <<Head(s)>> \o Tail(s)
<1>1. Head(s) \in S /\ Head(s) = s[1] /\ Tail(s) \in Seq(S) /\ 1 \in 1..Len(s)
  OBVIOUS
<1>2. s = SubSeq(s, 1, Len(s))
  BY SubSeqFull
<1>3. SubSeq(s, 1, Len(s)) = <<s[1]>> \o SubSeq(s, 2, Len(s))
  <2>1. Len(s) \in 1..Len(s)
    BY <1>1
  <2> QED BY <1>1, <2>1, SubSeqRecursiveFirst
<1> QED BY <1>1, <1>2, <1>3, TailIsSubSeq

LEMMA OnceConcat ==
    ASSUME NEW S, NEW a \in Seq(S), NEW b \in Seq(S)
    PROVE  Once(a \o b) <=> Once(a) /\ Once(b) /\ ToSet(a) \cap ToSet(b) = {}
<1> DEFINE n == Len(a)  m == Len(b)  c == a \o b
<1>1. /\ n \in Nat /\ m \in Nat /\ Len(c) = n + m
      /\ \A i \in 1..n : c[i] = a[i]
      /\ \A i \in 1..m : c[n + i] = b[i]
      /\ \A i \in 1..(n + m) : i \in 1..n \/ (i - n \in 1..m /\ i = n + (i - n))
  <2>1. n \in Nat /\ m \in Nat
    OBVIOUS
  <2>2. /\ Len(c) = n + m
        /\ \A i \in 1..(n + m) : c[i] = IF i <= n THEN a[i] ELSE b[i - n]
    BY ConcatProperties
  <2> HIDE DEF n, m, c
  <2>3. ASSUME NEW i \in 1..m PROVE c[n + i] = b[i]
    <3>1. n + i \in 1..(n + m) /\ ~(n + i <= n) /\ (n + i) - n = i
      BY <2>1
    <3> QED BY <2>2, <3>1
  <2> QED BY <2>1, <2>2, <2>3
<1>2. ToSet(a) = {a[i] : i \in 1..n} /\ ToSet(b) = {b[i] : i \in 1..m}
  BY Members
<1> HIDE DEF n, m, c
<1>3. ASSUME Once(c) PROVE Once(a) /\ Once(b) /\ ToSet(a) \cap ToSet(b) = {}
  <2>1. \A i, j \in 1..(n + m) : c[i] = c[j] => i = j
    BY <1>1, <1>3 DEF Once
  <2>2. \A i, j \in 1..n : a[i] = a[j] => i = j
    BY <1>1, <2>1
  <2>3. ASSUME NEW i \in 1..m, NEW j \in 1..m, b[i] = b[j] PROVE i = j
    <3>1. n + i \in 1..(n + m) /\ n + j \in 1..(n + m) /\ c[n + i] = c[n + j]
      BY <1>1, <2>3
    <3>2. n + i = n + j
      BY <2>1, <3>1
    <3> QED BY <1>1, <3>2
  <2>4. ASSUME NEW i \in 1..n, NEW j \in 1..m, a[i] = b[j] PROVE FALSE
    <3>1. i \in 1..(n + m) /\ n + j \in 1..(n + m) /\ c[i] = c[n + j] /\ i # n + j
      BY <1>1, <2>4
    <3> QED BY <2>1, <3>1
  <2> QED BY <1>2, <2>2, <2>3, <2>4 DEF Once, n, m
<1>4. ASSUME Once(a), Once(b), ToSet(a) \cap ToSet(b) = {} PROVE Once(c)
  <2>1. /\ \A i, j \in 1..n : a[i] = a[j] => i = j
        /\ \A i, j \in 1..m : b[i] = b[j] => i = j
        /\ \A i \in 1..n, j \in 1..m : a[i] # b[j]
    BY <1>2, <1>4 DEF Once, n, m
  <2>2. ASSUME NEW i \in 1..(n + m), NEW j \in 1..(n + m), c[i] = c[j] PROVE i = j
    <3>1. CASE i \in 1..n /\ j \in 1..n
      BY <1>1, <2>1, <2>2, <3>1
    <3>2. CASE i \in 1..n /\ j \notin 1..n
      <4>1. j - n \in 1..m /\ c[j] = b[j - n]
        BY <1>1, <3>2
      <4> QED BY <1>1, <2>1, <2>2, <3>2, <4>1
    <3>3. CASE i \notin 1..n /\ j \in 1..n
      <4>1. i - n \in 1..m /\ c[i] = b[i - n]
        BY <1>1, <3>3
      <4> QED BY <1>1, <2>1, <2>2, <3>3, <4>1
    <3>4. CASE i \notin 1..n /\ j \notin 1..n
      <4>1. i - n \in 1..m /\ c[i] = b[i - n] /\ j - n \in 1..m /\ c[j] = b[j - n]
        BY <1>1, <3>4
      <4>2. i - n = j - n
        BY <2>1, <2>2, <4>1
      <4> QED BY <1>1, <4>2
    <3> QED BY <3>1, <3>2, <3>3, <3>4
  <2> QED BY <1>1, <2>2 DEF Once
<1> QED BY <1>3, <1>4 DEF c

LEMMA OrderedConcat ==
    ASSUME NEW S, NEW a \in Seq(S), NEW b \in Seq(S), NEW p, NEW B
    PROVE  Ordered(p, a \o b, B) <=> Ordered(p, a, B) /\ Ordered(p, b, B \cup ToSet(a))
<1> DEFINE n == Len(a)  m == Len(b)  c == a \o b
<1>1. /\ n \in Nat /\ m \in Nat /\ Len(c) = n + m
      /\ \A i \in 1..n : c[i] = a[i]
      /\ \A i \in 1..m : c[n + i] = b[i]
      /\ ToSet(a) = {a[i] : i \in 1..n}
  <2>1. n \in Nat /\ m \in Nat /\ ToSet(a) = {a[i] : i \in 1..n}
    BY Members
  <2>2. /\ Len(c) = n + m
        /\ \A i \in 1..(n + m) : c[i] = IF i <= n THEN a[i] ELSE b[i - n]
    BY ConcatProperties
  <2> HIDE DEF n, m, c
  <2>3. ASSUME NEW i \in 1..m PROVE c[n + i] = b[i]
    <3>1. n + i \in 1..(n + m) /\ ~(n + i <= n) /\ (n + i) - n = i
      BY <2>1
    <3> QED BY <2>2, <3>1
  <2> QED BY <2>1, <2>2, <2>3
<1> HIDE DEF n, m, c
<1>2. \A i \in 1..n : {c[j] : j \in 1..(i - 1)} = {a[j] : j \in 1..(i - 1)}
  <2> TAKE i \in 1..n
  <2>1. \A j \in 1..(i - 1) : j \in 1..n
    BY <1>1
  <2> QED BY <1>1, <2>1
<1>3. \A i \in 1..m : {c[j] : j \in 1..(n + i - 1)} = ToSet(a) \cup {b[j] : j \in 1..(i - 1)}
  <2> TAKE i \in 1..m
  <2>1. ASSUME NEW j \in 1..(n + i - 1) PROVE c[j] \in ToSet(a) \cup {b[k] : k \in 1..(i - 1)}
    <3>1. CASE j \in 1..n
      BY <1>1, <3>1
    <3>2. CASE j \notin 1..n
      <4>1. j - n \in 1..(i - 1) /\ j - n \in 1..m /\ n + (j - n) = j
        BY <1>1, <3>2
      <4> QED BY <1>1, <4>1
    <3> QED BY <3>1, <3>2
  <2>2. ASSUME NEW j \in 1..n PROVE a[j] \in {c[k] : k \in 1..(n + i - 1)}
    <3>1. j \in 1..(n + i - 1)
      BY <1>1
    <3> QED BY <1>1, <3>1
  <2>3. ASSUME NEW j \in 1..(i - 1) PROVE b[j] \in {c[k] : k \in 1..(n + i - 1)}
    <3>1. n + j \in 1..(n + i - 1) /\ j \in 1..m
      BY <1>1
    <3> QED BY <1>1, <3>1
  <2> QED BY SMTT(30), <1>1, <2>1, <2>2, <2>3
<1>4. ASSUME Ordered(p, c, B) PROVE Ordered(p, a, B) /\ Ordered(p, b, B \cup ToSet(a))
  <2>1. \A i \in 1..(n + m) : p[c[i]] \subseteq B \cup {c[j] : j \in 1..(i - 1)}
    BY <1>1, <1>4 DEF Ordered
  <2>2. ASSUME NEW i \in 1..n PROVE p[a[i]] \subseteq B \cup {a[j] : j \in 1..(i - 1)}
    <3>1. i \in 1..(n + m)
      BY <1>1
    <3> QED BY <1>1, <1>2, <2>1, <3>1
  <2>3. ASSUME NEW i \in 1..m
        PROVE  p[b[i]] \subseteq (B \cup ToSet(a)) \cup {b[j] : j \in 1..(i - 1)}
    <3> DEFINE k == n + i
    <3>1. k \in 1..(n + m)
      BY <1>1
    <3> HIDE DEF k
    <3>2. p[c[k]] \subseteq B \cup {c[j] : j \in 1..(k - 1)}
      BY <2>1, <3>1
    <3>3. c[k] = b[i]
      BY <1>1 DEF k
    <3>4. {c[j] : j \in 1..(n + i - 1)} = ToSet(a) \cup {b[j] : j \in 1..(i - 1)}
      BY <1>3
    <3>5. k \in Int /\ k - 1 = n + i - 1
      BY <1>1 DEF k
    <3> QED BY <3>2, <3>3, <3>4, <3>5
  <2> QED BY <2>2, <2>3 DEF Ordered, n, m
<1>5. ASSUME Ordered(p, a, B), Ordered(p, b, B \cup ToSet(a)) PROVE Ordered(p, c, B)
  <2>1. ASSUME NEW i \in 1..(n + m) PROVE p[c[i]] \subseteq B \cup {c[j] : j \in 1..(i - 1)}
    <3>1. CASE i \in 1..n
      BY <1>1, <1>2, <1>5, <3>1 DEF Ordered, n
    <3>2. CASE i \notin 1..n
      <4> DEFINE k == i - n
      <4>1. k \in 1..m /\ n + k = i /\ n + k - 1 = i - 1
        BY <1>1, <3>2
      <4> HIDE DEF k
      <4>2. p[b[k]] \subseteq (B \cup ToSet(a)) \cup {b[j] : j \in 1..(k - 1)}
        BY <1>5, <4>1 DEF Ordered, m
      <4>3. {c[j] : j \in 1..(i - 1)} = ToSet(a) \cup {b[j] : j \in 1..(k - 1)}
        BY <1>3, <4>1
      <4>4. c[i] = b[k]
        BY <1>1, <4>1
      <4> QED BY <4>2, <4>3, <4>4
    <3> QED BY <3>1, <3>2
  <2> QED BY <1>1, <2>1 DEF Ordered
<1> QED BY <1>4, <1>5 DEF c

\* What is known may grow, and what is added does not change a past.
LEMMA OrderedGrows ==
    ASSUME NEW S, NEW s \in Seq(S), NEW p, NEW q, \A e \in S : q[e] = p[e],
           NEW B, NEW C, B \subseteq C, Ordered(p, s, B)
    PROVE  Ordered(q, s, C)
<1>1. \A i \in 1..Len(s) : s[i] \in S
  OBVIOUS
<1> QED BY <1>1 DEF Ordered

\* The sequence of no element and of one.
LEMMA FewToSeq ==
    /\ SetToSeq({}) = <<>>
    /\ \A e : SetToSeq({e}) = <<e>>
<1>1. Cardinality({}) = 0 /\ \A e : Cardinality({e}) = 1
  BY FS_EmptySet, FS_Singleton
<1>2. SetToSeq({}) = <<>>
  <2>1. <<>> \in [1..0 -> {}] /\ \A f \in [1..0 -> {}] : f = <<>>
    OBVIOUS
  <2>2. IsInjective(<<>>)
    BY DEF IsInjective
  <2> QED BY <1>1, <2>1, <2>2 DEF SetToSeq
<1>3. ASSUME NEW e PROVE SetToSeq({e}) = <<e>>
  <2>1. \A f \in [1..1 -> {e}] : f = <<e>>
    OBVIOUS
  <2>2. <<e>> \in [1..1 -> {e}] /\ IsInjective(<<e>>)
    BY DEF IsInjective
  <2> QED BY <1>1, <2>1, <2>2 DEF SetToSeq
<1> QED BY <1>2, <1>3
-----------------------------------------------------------------------------
(* The inductive invariant.                                                *)

PerClient(f) == f = [c \in Client |-> f[c]]

\* What a client has made and the relay has not received, oldest first: calls
\* append to it, and draining and sending do not show.
Line(c) == Join(uplink[c], Join(pending[c], queued[c]))

\* A frame on its way to a client.
FrameOK(f) ==
    IF f.type = "UPDATE" THEN f = UpdateOf(f.data) /\ f.data \in net
    ELSE /\ f = [type |-> "SNAPSHOT", begun |-> f.begun, data |-> f.data]
         /\ IF relay = "ts" THEN f.data \in Seq(net)
            ELSE Covers(f.data.clock, f.data.known)

\* In the "rust" relay a task may have more sends to make, to who is connected.
SendingOK(s) ==
    s = NotSending \/ (/\ relay = "rust" /\ s = [peers |-> s.peers, env |-> s.env]
                       /\ s.peers \subseteq {d \in Client : online[d]} /\ s.env \in net)

\* The types of what is not StateStore's.
Wired ==
    /\ relay \in {"ts", "rust"} /\ log \in Seq(net)
    /\ queued \in [Client -> Seq(net)] /\ pending \in [Client -> Seq(net)]
    /\ uplink \in [Client -> Seq(net)]
    /\ proxied \in [Client -> BOOLEAN] /\ online \in [Client -> BOOLEAN]
    /\ hydrated \in [Client -> BOOLEAN]
    /\ PerClient(downlink) /\ PerClient(sending)
    /\ \A c \in Client :
        /\ \A e \in ToSet(Line(c)) : e.node = c
        /\ proxied[c] => c \in Agent
        /\ proxied[c] \/ queued[c] = <<>>
        /\ downlink[c] \in Seq(ToSet(downlink[c]))
        /\ \A f \in ToSet(downlink[c]) : FrameOK(f)
        /\ SendingOK(sending[c])
        /\ hydrated[c] \/ downlink[c] # <<>> => online[c]
    /\ \A e \in net : e.node \in Client

\* Every write is somewhere, and once.
Accounted ==
    /\ AtRelay \subseteq net /\ lost \subseteq net
    /\ AtRelay \cap lost = {}
    /\ \A c \in Client : Once(Line(c)) /\ ToSet(Line(c)) \cap (AtRelay \cup lost) = {}
    /\ \A e \in net : e \in ToSet(Line(e.node)) \cup AtRelay \cup lost

\* What a frame of the "ts" relay brings, and what frames bring together.
Brings(f)  == IF f.type = "UPDATE" THEN {f.data} ELSE ToSet(f.data)
Coming(fs) == UNION {Brings(f) : f \in ToSet(fs)}

\* What the frames before the i-th bring.
Before(fs, i) == UNION {Brings(fs[j]) : j \in 1..(i - 1)}

\* A client that knows B may apply what a frame brings.
MayApply(p, f, B) ==
    IF f.type = "UPDATE" THEN p[f.data] \subseteq B ELSE Ordered(p, f.data, B)

\* A client that knows B may apply what the frames bring, in order.
Ready(p, fs, B) == \A i \in 1..Len(fs) : MayApply(p, fs[i], B \cup Before(fs, i))

\* The "ts" relay: who is connected knows the log, or it is on its way.
LogCovers ==
    \A c \in Client :
        /\ \A e \in known[c] : e.node = c \/ e \in ToSet(log)
        /\ Coming(downlink[c]) \subseteq ToSet(log)
        /\ online[c] => ToSet(log) \subseteq known[c] \cup Coming(downlink[c])

\* Nothing is lost: everything is in causal order.
LogOrdered ==
    /\ Ordered(past, log, {})
    /\ \A c \in Client : Ordered(past, Line(c), ToSet(log))
    /\ \A c \in Client : Ready(past, downlink[c], known[c])
    /\ disordered = {}

\* The "ts" relay.
Logs == relay = "ts" => LogCovers /\ (lost = {} => LogOrdered)

SInv == HInv /\ Wired /\ Accounted /\ Logs

-----------------------------------------------------------------------------
(* Frames.                                                                 *)

LEMMA PrefixSame ==
    ASSUME NEW fs, NEW gs, NEW i \in Int, \A j \in 1..(i - 1) : fs[j] = gs[j]
    PROVE  Before(fs, i) = Before(gs, i)
BY DEF Before

LEMMA AppendFrame ==
    ASSUME NEW S, NEW fs \in Seq(S), NEW f
    PROVE  /\ Append(fs, f) \in Seq(ToSet(Append(fs, f)))
           /\ ToSet(Append(fs, f)) = ToSet(fs) \cup {f}
           /\ Coming(Append(fs, f)) = Coming(fs) \cup Brings(f)
           /\ \A p, B : (Ready(p, fs, B) /\ MayApply(p, f, B \cup Coming(fs)))
                            => Ready(p, Append(fs, f), B)
<1> DEFINE T == S \cup {f}  n == Len(fs)  gs == Append(fs, f)
<1>1. /\ n \in Nat /\ fs \in Seq(T) /\ gs \in Seq(T) /\ Len(gs) = n + 1
      /\ \A i \in 1..n : gs[i] = fs[i]
      /\ gs[n + 1] = f
  BY SeqMonotonic, AppendProperties
<1> HIDE DEF gs
<1>2. ToSet(fs) = {fs[i] : i \in 1..n} /\ ToSet(gs) = {gs[i] : i \in 1..(n + 1)}
  <2>1. ToSet(fs) = {fs[i] : i \in 1..n}
    BY Members
  <2>2. ToSet(gs) = {gs[i] : i \in 1..Len(gs)}
    BY <1>1, Members
  <2> HIDE DEF n
  <2> QED BY <1>1, <2>1, <2>2
<1> HIDE DEF n
<1>3. ToSet(gs) = ToSet(fs) \cup {f}
  <2>1. \A i \in 1..(n + 1) : i \in 1..n \/ i = n + 1
    BY <1>1
  <2>2. \A i \in 1..n : i \in 1..(n + 1)
    BY <1>1
  <2>3. n + 1 \in 1..(n + 1)
    BY <1>1
  <2> QED BY <1>1, <1>2, <2>1, <2>2, <2>3
<1>4. gs \in Seq(ToSet(gs))
  BY <1>1, <1>2
<1>5. Coming(gs) = Coming(fs) \cup Brings(f)
  BY <1>3 DEF Coming
<1>6. ASSUME NEW p, NEW B, Ready(p, fs, B), MayApply(p, f, B \cup Coming(fs))
      PROVE  Ready(p, gs, B)
  <2>1. ASSUME NEW i \in 1..(n + 1) PROVE MayApply(p, gs[i], B \cup Before(gs, i))
    <3>1. CASE i \in 1..n
      <4>1. MayApply(p, fs[i], B \cup Before(fs, i))
        BY <1>6, <3>1 DEF Ready, n
      <4>2. Before(fs, i) = Before(gs, i)
        <5>1. \A j \in 1..(i - 1) : fs[j] = gs[j]
          BY <1>1, <3>1
        <5> QED BY <5>1, PrefixSame
      <4> QED BY <1>1, <3>1, <4>1, <4>2
    <3>2. CASE i = n + 1
      <4>1. 1..(i - 1) = 1..n
        BY <1>1, <3>2
      <4>2. Before(gs, i) = Coming(fs)
        BY <1>1, <1>2, <4>1 DEF Before, Coming
      <4> QED BY <1>1, <1>6, <3>2, <4>2
    <3> QED BY <1>1, <3>1, <3>2
  <2> QED BY <1>1, <2>1 DEF Ready
<1> QED BY <1>3, <1>4, <1>5, <1>6 DEF gs

LEMMA FirstFrame ==
    ASSUME NEW S, NEW fs \in Seq(S), fs # <<>>
    PROVE  /\ Tail(fs) \in Seq(ToSet(Tail(fs))) /\ fs[1] = Head(fs)
           /\ ToSet(fs) = {fs[1]} \cup ToSet(Tail(fs))
           /\ Coming(fs) = Brings(fs[1]) \cup Coming(Tail(fs))
           /\ \A p, B : Ready(p, fs, B) <=> /\ MayApply(p, fs[1], B)
                                            /\ Ready(p, Tail(fs), B \cup Brings(fs[1]))
<1> DEFINE n == Len(fs)  gs == Tail(fs)
<1>1. /\ n \in Nat /\ n >= 1 /\ gs \in Seq(S) /\ Len(gs) = n - 1 /\ fs[1] = Head(fs)
      /\ \A i \in 1..(n - 1) : gs[i] = fs[i + 1]
  OBVIOUS
<1> HIDE DEF gs
<1>2. ToSet(fs) = {fs[i] : i \in 1..n} /\ ToSet(gs) = {gs[i] : i \in 1..(n - 1)}
  <2>1. ToSet(fs) = {fs[i] : i \in 1..n}
    BY Members
  <2>2. ToSet(gs) = {gs[i] : i \in 1..Len(gs)}
    BY <1>1, Members
  <2> HIDE DEF n
  <2> QED BY <1>1, <2>1, <2>2
<1> HIDE DEF n
<1>3. \A i \in 1..n : i = 1 \/ (i - 1 \in 1..(n - 1) /\ (i - 1) + 1 = i)
  BY <1>1
<1>4. \A i \in 1..(n - 1) : i + 1 \in 1..n
  BY <1>1
<1>5. ToSet(fs) = {fs[1]} \cup ToSet(gs)
  <2>1. ASSUME NEW i \in 1..n PROVE fs[i] \in {fs[1]} \cup ToSet(gs)
    <3>1. CASE i = 1
      BY <3>1
    <3>2. CASE i # 1
      <4>1. i - 1 \in 1..(n - 1) /\ gs[i - 1] = fs[i]
        BY <1>1, <1>3, <3>2
      <4> QED BY <1>2, <4>1
    <3> QED BY <3>1, <3>2
  <2>2. \A i \in 1..(n - 1) : gs[i] \in ToSet(fs)
    BY <1>1, <1>2, <1>4
  <2>3. fs[1] \in ToSet(fs)
    <3>1. 1 \in 1..n
      BY <1>1
    <3> QED BY <1>2, <3>1
  <2> QED BY <1>2, <2>1, <2>2, <2>3
<1>6. Coming(fs) = Brings(fs[1]) \cup Coming(gs)
  BY <1>5 DEF Coming
<1>7. gs \in Seq(ToSet(gs))
  BY <1>1, <1>2
<1>8. ASSUME NEW i \in 1..(n - 1)
      PROVE  Before(fs, i + 1) = Brings(fs[1]) \cup Before(gs, i)
  <2>1. i + 1 \in 1..n /\ (i + 1) - 1 = i /\ i \in Nat
    BY <1>1
  <2>2. Before(fs, i + 1) = UNION {Brings(fs[j]) : j \in 1..i}
    BY <2>1 DEF Before
  <2>3. ASSUME NEW j \in 1..i PROVE Brings(fs[j]) \subseteq Brings(fs[1]) \cup Before(gs, i)
    <3>1. CASE j = 1
      BY <3>1
    <3>2. CASE j # 1
      <4>1. j - 1 \in 1..(i - 1) /\ j - 1 \in 1..(n - 1) /\ (j - 1) + 1 = j
        BY <1>1, <3>2
      <4>2. gs[j - 1] = fs[j]
        BY <1>1, <4>1
      <4> QED BY <4>1, <4>2 DEF Before
    <3> QED BY <3>1, <3>2
  <2>4. ASSUME NEW j \in 1..(i - 1) PROVE Brings(gs[j]) \subseteq Before(fs, i + 1)
    <3>1. j + 1 \in 1..i /\ j \in 1..(n - 1)
      BY <1>1
    <3>2. gs[j] = fs[j + 1]
      BY <1>1, <3>1
    <3> QED BY <2>2, <3>1, <3>2
  <2>5. 1 \in 1..i
    BY <2>1
  <2> QED BY ZenonT(40), <2>2, <2>3, <2>4, <2>5 DEF Before
<1>9. 1 \in 1..n /\ Before(fs, 1) = {}
  <2>1. 1 \in 1..n /\ 1..(1 - 1) = {}
    BY <1>1
  <2> QED BY <2>1 DEF Before
<1>10. ASSUME NEW p, NEW B, Ready(p, fs, B)
       PROVE  MayApply(p, fs[1], B) /\ Ready(p, gs, B \cup Brings(fs[1]))
  <2>1. \A i \in 1..n : MayApply(p, fs[i], B \cup Before(fs, i))
    BY <1>10 DEF Ready, n
  <2>2. MayApply(p, fs[1], B)
    <3>1. B \cup Before(fs, 1) = B
      BY <1>9
    <3> QED BY <1>9, <2>1, <3>1
  <2>3. ASSUME NEW i \in 1..(n - 1)
        PROVE  MayApply(p, gs[i], (B \cup Brings(fs[1])) \cup Before(gs, i))
    <3>1. MayApply(p, fs[i + 1], B \cup Before(fs, i + 1))
      BY <1>4, <2>1
    <3>2. B \cup Before(fs, i + 1) = (B \cup Brings(fs[1])) \cup Before(gs, i)
      BY <1>8
    <3>3. gs[i] = fs[i + 1]
      BY <1>1
    <3> QED BY <3>1, <3>2, <3>3
  <2>4. Ready(p, gs, B \cup Brings(fs[1]))
    BY <1>1, <2>3 DEF Ready
  <2> QED BY <2>2, <2>4
<1>11. ASSUME NEW p, NEW B, MayApply(p, fs[1], B), Ready(p, gs, B \cup Brings(fs[1]))
       PROVE  Ready(p, fs, B)
  <2>1. \A i \in 1..(n - 1) : MayApply(p, gs[i], (B \cup Brings(fs[1])) \cup Before(gs, i))
    BY <1>1, <1>11 DEF Ready
  <2>2. ASSUME NEW i \in 1..n PROVE MayApply(p, fs[i], B \cup Before(fs, i))
    <3>1. CASE i = 1
      <4>1. B \cup Before(fs, i) = B
        BY <1>9, <3>1
      <4> QED BY <1>11, <3>1, <4>1
    <3>2. CASE i # 1
      <4> DEFINE k == i - 1
      <4>1. k \in 1..(n - 1) /\ k + 1 = i
        BY <1>3, <3>2
      <4> HIDE DEF k
      <4>2. gs[k] = fs[i]
        BY <1>1, <4>1
      <4>3. (B \cup Brings(fs[1])) \cup Before(gs, k) = B \cup Before(fs, i)
        BY <1>8, <4>1
      <4>4. MayApply(p, gs[k], (B \cup Brings(fs[1])) \cup Before(gs, k))
        BY <2>1, <4>1
      <4> QED BY <4>2, <4>3, <4>4
    <3> QED BY <3>1, <3>2
  <2> QED BY <2>2 DEF Ready, n
<1> QED BY <1>1, <1>5, <1>6, <1>7, <1>10, <1>11 DEF gs

LEMMA ReplaceFirst ==
    ASSUME NEW S, NEW fs \in Seq(S), fs # <<>>, NEW g, NEW h,
           Brings(fs[1]) = {h} \cup Brings(g)
    PROVE  LET gs == [fs EXCEPT ![1] = g]
           IN  /\ gs \in Seq(ToSet(gs)) /\ ToSet(gs) \subseteq ToSet(fs) \cup {g}
               /\ Coming(fs) = {h} \cup Coming(gs)
               /\ \A p, B : (Ready(p, fs, B) /\ MayApply(p, g, B \cup {h}))
                                => Ready(p, gs, B \cup {h})
<1> DEFINE gs == [fs EXCEPT ![1] = g]  T == S \cup {g}
<1>1. fs \in Seq(T) /\ g \in T /\ 1 \in 1..Len(fs) /\ Len(fs) \in Nat
  BY SeqMonotonic
<1>2. /\ gs \in Seq(T) /\ Len(gs) = Len(fs)
      /\ \A j \in 1..Len(fs) : gs[j] = IF j = 1 THEN g ELSE fs[j]
  BY <1>1, ExceptSeq
<1> HIDE DEF gs, T
<1>3. gs # <<>> /\ gs[1] = g
  BY <1>1, <1>2
<1>4. Tail(gs) = Tail(fs)
  <2>1. /\ Tail(fs) \in Seq(T) /\ Len(Tail(fs)) = Len(fs) - 1
        /\ \A i \in 1..Len(Tail(fs)) : Tail(fs)[i] = fs[i + 1]
    BY <1>1, HeadTailProperties
  <2>2. /\ Tail(gs) \in Seq(T) /\ Len(Tail(gs)) = Len(fs) - 1
        /\ \A i \in 1..Len(Tail(gs)) : Tail(gs)[i] = gs[i + 1]
    BY <1>2, <1>3, HeadTailProperties
  <2>3. ASSUME NEW i \in 1..(Len(fs) - 1) PROVE Tail(gs)[i] = Tail(fs)[i]
    <3>1. i + 1 \in 1..Len(fs) /\ i + 1 # 1
      BY <1>1
    <3> QED BY <1>2, <2>1, <2>2, <3>1
  <2> QED BY <2>1, <2>2, <2>3, SeqEqual
<1>5. /\ ToSet(fs) = {fs[1]} \cup ToSet(Tail(fs)) /\ Coming(fs) = Brings(fs[1]) \cup Coming(Tail(fs))
      /\ \A p, B : Ready(p, fs, B) => Ready(p, Tail(fs), B \cup Brings(fs[1]))
  BY <1>1, FirstFrame
<1>6. /\ ToSet(gs) = {g} \cup ToSet(Tail(fs)) /\ Coming(gs) = Brings(g) \cup Coming(Tail(fs))
      /\ \A p, B : Ready(p, gs, B) <=> /\ MayApply(p, g, B)
                                       /\ Ready(p, Tail(fs), B \cup Brings(g))
  BY ZenonT(40), <1>2, <1>3, <1>4, FirstFrame
<1>7. gs \in Seq(ToSet(gs))
  BY <1>2, Members
<1>8. ASSUME NEW p, NEW B, Ready(p, fs, B), MayApply(p, g, B \cup {h})
      PROVE  Ready(p, gs, B \cup {h})
  <2>1. (B \cup {h}) \cup Brings(g) = B \cup Brings(fs[1])
    OBVIOUS
  <2>2. Ready(p, Tail(fs), B \cup Brings(fs[1]))
    BY <1>5, <1>8
  <2> QED BY <1>6, <1>8, <2>1, <2>2
<1> QED BY <1>5, <1>6, <1>7, <1>8 DEF gs

\* Frames of envelopes whose past does not change.
LEMMA ReadyGrows ==
    ASSUME NEW S, NEW fs \in Seq(S), NEW E, NEW p, NEW q, \A e \in E : q[e] = p[e],
           \A f \in S : IF f.type = "UPDATE" THEN f.data \in E ELSE f.data \in Seq(E),
           NEW B, NEW C, B \subseteq C, Ready(p, fs, B)
    PROVE  Ready(q, fs, C)
<1>1. ASSUME NEW i \in 1..Len(fs) PROVE MayApply(q, fs[i], C \cup Before(fs, i))
  <2>1. fs[i] \in S /\ MayApply(p, fs[i], B \cup Before(fs, i))
    <3>1. fs[i] \in S
      BY ElementOfSeq
    <3>2. MayApply(p, fs[i], B \cup Before(fs, i))
      BY DEF Ready
    <3> QED BY <3>1, <3>2
  <2>2. B \cup Before(fs, i) \subseteq C \cup Before(fs, i)
    OBVIOUS
  <2>3. CASE fs[i].type = "UPDATE"
    BY <2>1, <2>2, <2>3 DEF MayApply
  <2>4. CASE fs[i].type # "UPDATE"
    BY <2>1, <2>2, <2>4, OrderedGrows DEF MayApply
  <2> QED BY <2>3, <2>4
<1> QED BY <1>1 DEF Ready

-----------------------------------------------------------------------------
(* Calls.                                                                  *)

\* A call has produced env.
Made(n, env) ==
    /\ env \notin net /\ env.node = n
    /\ net' = net \cup {env}
    /\ known' = [known EXCEPT ![n] = known[n] \cup {env}]
    /\ past' = [e \in net' |-> IF e = env THEN known[n] ELSE past[e]]

\* A call has produced at most one envelope.
MadeOne(n) == HInv' /\ (UNCHANGED <<net, known, past>> \/ \E env : Made(n, env))

LEMMA EmitMade ==
    ASSUME HInv, NEW n \in Node, NEW kind, NEW key, NEW op, Emit(n, kind, key, op)
    PROVE  Made(n, Envelope(Tick(clock[n]), n, kind, key, op))
<1> DEFINE env == Envelope(Tick(clock[n]), n, kind, key, op)
<1>1. env.timestamp = clock[n] + 1 /\ env.node = n /\ clock[n] \in Int
  BY BoundsAreInt DEF Envelope, Tick, HInv
<1>2. ASSUME env \in net PROVE FALSE
  <2>1. env.timestamp <= clock[n] /\ env.timestamp \in Int
    BY <1>1, <1>2 DEF HInv, Covers
  <2> QED BY <1>1, <2>1
<1>3. /\ net' = net \cup {env} /\ known' = [known EXCEPT ![n] = known[n] \cup {env}]
      /\ past' = [e \in net' |-> IF e = env THEN known[n] ELSE past[e]]
  BY DEF Emit
<1> HIDE DEF env
<1>4. Made(n, env)
  BY <1>1, <1>2, <1>3 DEF Made
<1> QED BY <1>4 DEF env

LEMMA EmitMakes ==
    ASSUME HInv, NEW n \in Node, NEW kind, NEW key, NEW op,
           TickClock(n), Emit(n, kind, key, op), UNCHANGED snapshot
    PROVE  MadeOne(n)
<1>1. Made(n, Envelope(Tick(clock[n]), n, kind, key, op))
  BY EmitMade
<1> QED BY <1>1, HEmit DEF MadeOne

LEMMA OpsMake ==
    ASSUME HInv, NEW n \in Node
    PROVE  /\ \A k \in RegKey, v \in Value : SetRegister(n, k, v) => MadeOne(n)
           /\ \A k \in SetKey, v \in Value :
                (SetAdd(n, k, v) \/ SetRemove(n, k, v) \/ SetRemoveAbsent(n, k, v)) => MadeOne(n)
           /\ \A k \in SeqKey : \A i : (SeqInsert(n, k, i) \/ SeqDelete(n, k, i)) => MadeOne(n)
           /\ SeqDeleteNone(n) => MadeOne(n)
<1>1. ASSUME NEW k \in RegKey, NEW v \in Value, SetRegister(n, k, v) PROVE MadeOne(n)
  BY <1>1, EmitMakes DEF SetRegister
<1>2. ASSUME NEW k \in SetKey, NEW v \in Value, SetAdd(n, k, v) PROVE MadeOne(n)
  BY <1>2, EmitMakes DEF SetAdd
<1>3. ASSUME NEW k \in SetKey, NEW v \in Value, SetRemove(n, k, v) PROVE MadeOne(n)
  BY <1>3, EmitMakes DEF SetRemove
<1>4. ASSUME NEW k \in SetKey, NEW v \in Value, SetRemoveAbsent(n, k, v) PROVE MadeOne(n)
  BY <1>4, HTick DEF SetRemoveAbsent, MadeOne
<1>5. ASSUME NEW k \in SeqKey, NEW i, SeqInsert(n, k, i) PROVE MadeOne(n)
  BY <1>5, EmitMakes DEF SeqInsert
<1>6. ASSUME NEW k \in SeqKey, NEW i, SeqDelete(n, k, i) PROVE MadeOne(n)
  BY <1>6, EmitMakes DEF SeqDelete
<1>7. ASSUME SeqDeleteNone(n) PROVE MadeOne(n)
  BY <1>7, HTick DEF SeqDeleteNone, MadeOne
<1> QED BY <1>1, <1>2, <1>3, <1>4, <1>5, <1>6, <1>7

\* A call of a program, through either API.
LEMMA CallMakes ==
    ASSUME HInv, NEW c \in Client, IF c \in Agent THEN AgentCall(c) ELSE BrowserCall(c)
    PROVE  NewProxy(c) \/ (MadeOne(c) /\ (Queue(c) \/ (c \notin Agent /\ Return(c))))
<1>1. c \in Node
  BY ClientAssumption
<1>2. CASE c \in Agent
  <2>1. AgentCall(c)
    BY <1>2
  <2> QED
    BY <1>1, <2>1, OpsMake, ClientAssumption
    DEF AgentCall, TypedSet, ProxySet, ProxySetAdd, ProxySetRemove, ProxySeqPush,
        ProxySeqInsert, ProxySeqDelete
<1>3. CASE c \notin Agent
  <2>1. BrowserCall(c)
    BY <1>3
  <2> QED
    BY <1>1, <1>3, <2>1, OpsMake
    DEF BrowserCall, WasmSetRegister, WasmSetAdd, WasmSetRemove, WasmSeqInsert, WasmSeqDelete
<1> QED BY <1>2, <1>3
\* Concatenation, for the provers: the SMT backend would expand \o.
LEMMA Joined ==
    ASSUME NEW S, NEW a \in Seq(S), NEW b \in Seq(S)
    PROVE  /\ Join(a, b) \in Seq(S)
           /\ ToSet(Join(a, b)) = ToSet(a) \cup ToSet(b)
           /\ Once(Join(a, b)) <=> Once(a) /\ Once(b) /\ ToSet(a) \cap ToSet(b) = {}
           /\ \A p, B : Ordered(p, Join(a, b), B) <=>
                            Ordered(p, a, B) /\ Ordered(p, b, B \cup ToSet(a))
<1>1. Join(a, b) \in Seq(S)
  BY ConcatProperties DEF Join
<1>2. ToSet(Join(a, b)) = ToSet(a) \cup ToSet(b)
  BY MembersOfConcat DEF Join
<1>3. Once(Join(a, b)) <=> Once(a) /\ Once(b) /\ ToSet(a) \cap ToSet(b) = {}
  BY OnceConcat DEF Join
<1>4. \A p, B : Ordered(p, Join(a, b), B) <=>
                    Ordered(p, a, B) /\ Ordered(p, b, B \cup ToSet(a))
  BY OrderedConcat DEF Join
<1> QED BY <1>1, <1>2, <1>3, <1>4

LEMMA JoinedThree ==
    ASSUME NEW S, NEW a \in Seq(S), NEW b \in Seq(S), NEW c \in Seq(S)
    PROVE  Join(Join(a, b), c) = Join(a, Join(b, c))
BY ConcatAssociative DEF Join

LEMMA JoinedNone ==
    ASSUME NEW S, NEW a \in Seq(S)
    PROVE  Join(a, <<>>) = a /\ Join(<<>>, a) = a /\ ToSet(<<>>) = {}
<1>1. Join(a, <<>>) = a /\ Join(<<>>, a) = a
  BY ConcatEmptySeq DEF Join
<1>2. ToSet(<<>>) = {}
  BY DEF ToSet
<1> QED BY <1>1, <1>2

LEMMA JoinedFirst ==
    ASSUME NEW S, NEW s \in Seq(S), s # <<>>
    PROVE  /\ Head(s) \in S /\ Tail(s) \in Seq(S) /\ <<Head(s)>> \in Seq(S)
           /\ s = Join(<<Head(s)>>, Tail(s))
<1>1. Head(s) \in S /\ Tail(s) \in Seq(S) /\ s = <<Head(s)>> \o Tail(s)
  BY HeadFirst
<1>2. <<Head(s)>> \in Seq(S)
  BY <1>1
<1> QED BY <1>1, <1>2 DEF Join

LEMMA OneMore ==
    ASSUME NEW S, NEW s \in Seq(S), NEW e \in S
    PROVE  /\ <<e>> \in Seq(S)
           /\ Join(s, <<e>>) \in Seq(S) /\ ToSet(Join(s, <<e>>)) = ToSet(s) \cup {e}
           /\ (Once(s) /\ e \notin ToSet(s)) => Once(Join(s, <<e>>))
           /\ \A p, B : (Ordered(p, s, B) /\ p[e] \subseteq B \cup ToSet(s))
                            => Ordered(p, Join(s, <<e>>), B)
<1> DEFINE t == <<e>>
<1>1. t \in Seq(S) /\ ToSet(t) = {e} /\ Once(t) /\ \A p, B : Ordered(p, t, B) <=> p[e] \subseteq B
  BY OneMember
<1> HIDE DEF t
<1>2. Join(s, t) \in Seq(S) /\ ToSet(Join(s, t)) = ToSet(s) \cup {e}
  BY <1>1, Joined
<1>3. (Once(s) /\ e \notin ToSet(s)) => Once(Join(s, t))
  BY <1>1, Joined
<1>4. \A p, B : (Ordered(p, s, B) /\ p[e] \subseteq B \cup ToSet(s)) => Ordered(p, Join(s, t), B)
  BY <1>1, Joined
<1> QED BY <1>1, <1>2, <1>3, <1>4 DEF t

\* A sequence of three parts, and one more element.
LEMMA ThreeParts ==
    ASSUME NEW S, NEW u \in Seq(S), NEW v \in Seq(S), NEW w \in Seq(S)
    PROVE  /\ Join(u, Join(v, w)) \in Seq(S)
           /\ ToSet(Join(u, Join(v, w))) = ToSet(u) \cup (ToSet(v) \cup ToSet(w))
BY Joined

LEMMA MoveOne ==
    ASSUME NEW S, NEW u \in Seq(S), NEW v \in Seq(S), NEW w \in Seq(S), NEW t \in Seq(S)
    PROVE  /\ Join(u, Join(v, Join(w, t))) = Join(Join(u, Join(v, w)), t)
           /\ Join(u, Join(v, t)) = Join(Join(u, v), t)
<1>1. Join(v, w) \in Seq(S)
  BY Joined
<1>2. Join(v, Join(w, t)) = Join(Join(v, w), t)
  BY JoinedThree
<1>3. Join(u, Join(Join(v, w), t)) = Join(Join(u, Join(v, w)), t)
  BY <1>1, JoinedThree
<1> QED BY <1>2, <1>3, JoinedThree

\* What the parts of a line are.
LEMMA LineParts ==
    ASSUME Wired, NEW c \in Client
    PROVE  /\ Line(c) \in Seq(net)
           /\ ToSet(Line(c)) = ToSet(uplink[c]) \cup (ToSet(pending[c]) \cup ToSet(queued[c]))
           /\ Line(c) = Join(Join(uplink[c], pending[c]), queued[c])
<1> DEFINE u == uplink[c]  v == pending[c]  w == queued[c]
<1>1. u \in Seq(net) /\ v \in Seq(net) /\ w \in Seq(net) /\ Line(c) = Join(u, Join(v, w))
  BY DEF Wired, Line
<1> HIDE DEF u, v, w
<1>2. Join(u, Join(v, w)) \in Seq(net)
  BY <1>1, ThreeParts
<1>3. ToSet(Join(u, Join(v, w))) = ToSet(u) \cup (ToSet(v) \cup ToSet(w))
  BY <1>1, ThreeParts
<1>4. Join(u, Join(v, w)) = Join(Join(u, v), w)
  BY <1>1, JoinedThree
<1> QED BY <1>1, <1>2, <1>3, <1>4 DEF u, v, w

\* Frames stay what they are when there are more envelopes.
LEMMA FramesStay ==
    ASSUME UNCHANGED relay, net \subseteq net', NEW f, FrameOK(f)
    PROVE  FrameOK(f)'
<1>1. f.data \in Seq(net) => f.data \in Seq(net')
  BY SeqMonotonic
<1>2. Covers(f.data.clock, f.data.known) => Covers(f.data.clock, f.data.known)'
  BY DEF Covers
<1> QED BY <1>1, <1>2 DEF FrameOK, UpdateOf

\* Where the envelope of a call is.
LEMMA MadeLines ==
    ASSUME Wired, NEW c \in Client, NEW env, Made(c, env),
           Queue(c) \/ (c \notin Agent /\ Return(c)), UNCHANGED uplink
    PROVE  /\ <<env>> \in Seq(net')
           /\ Line(c)' = Join(Line(c), <<env>>)
           /\ \A d \in Client : d # c => Line(d)' = Line(d)
           /\ queued' \in [Client -> Seq(net')] /\ pending' \in [Client -> Seq(net')]
           /\ proxied' = proxied /\ \A d \in Client : queued'[d] # queued[d] => proxied[d]
<1>1. env \notin net /\ net' = net \cup {env}
  BY DEF Made
<1>2. UNCHANGED uplink
  OBVIOUS
<1>3. Emitted = <<env>> /\ <<env>> \in Seq(net')
  <2>1. net' \ net = {env}
    BY <1>1
  <2>2. <<env>> \in Seq({env}) /\ {env} \subseteq net'
    BY <1>1, OneMember
  <2> QED BY <2>1, <2>2, FewToSeq, SeqMonotonic DEF Emitted
<1>4. \A d \in Client : /\ uplink[d] \in Seq(net') /\ pending[d] \in Seq(net')
                        /\ queued[d] \in Seq(net')
  BY <1>1, SeqMonotonic DEF Wired
<1>5. /\ Line(c)' = Join(Line(c), <<env>>)
      /\ \A d \in Client : d # c => Line(d)' = Line(d)
      /\ queued' \in [Client -> Seq(net')] /\ pending' \in [Client -> Seq(net')]
      /\ proxied' = proxied /\ \A d \in Client : queued'[d] # queued[d] => proxied[d]
  <2>1. CASE Queue(c)
    <3>1. /\ proxied[c] /\ queued' = [queued EXCEPT ![c] = Join(queued[c], <<env>>)]
          /\ UNCHANGED <<proxied, pending>>
      BY <1>3, <2>1 DEF Queue, Join
    <3>2. Join(queued[c], <<env>>) \in Seq(net')
      BY <1>3, <1>4, Joined
    <3>3. queued' \in [Client -> Seq(net')] /\ pending' \in [Client -> Seq(net')]
      BY <1>4, <3>1, <3>2 DEF Wired
    <3>4. /\ queued'[c] = Join(queued[c], <<env>>)
          /\ \A d \in Client : d # c => queued'[d] = queued[d]
      BY <3>1 DEF Wired
    <3>5. \A d \in Client : d # c => Line(d)' = Line(d)
      BY <1>2, <3>1, <3>4 DEF Line
    <3>6. Line(c)' = Join(uplink[c], Join(pending[c], Join(queued[c], <<env>>)))
      BY <1>2, <3>1, <3>4 DEF Line
    <3>7. Join(uplink[c], Join(pending[c], Join(queued[c], <<env>>))) = Join(Line(c), <<env>>)
      <4> DEFINE S == net'  u == uplink[c]  v == pending[c]  w == queued[c]  t == <<env>>
      <4>1. u \in Seq(S) /\ v \in Seq(S) /\ w \in Seq(S) /\ t \in Seq(S)
        BY <1>3, <1>4
      <4>2. Line(c) = Join(u, Join(v, w))
        BY DEF Line
      <4> HIDE DEF S, u, v, w, t
      <4>3. Join(u, Join(v, Join(w, t))) = Join(Line(c), t)
        BY <4>1, <4>2, MoveOne
      <4> QED BY <4>3 DEF u, v, w, t
    <3> QED BY <3>1, <3>3, <3>4, <3>5, <3>6, <3>7
  <2>2. CASE c \notin Agent /\ Return(c)
    <3>1. /\ pending' = [pending EXCEPT ![c] = Join(pending[c], <<env>>)]
          /\ UNCHANGED <<proxied, queued>>
      BY <1>3, <2>2 DEF Return, Join
    <3>2. Join(pending[c], <<env>>) \in Seq(net')
      BY <1>3, <1>4, Joined
    <3>3. queued' \in [Client -> Seq(net')] /\ pending' \in [Client -> Seq(net')]
      BY <1>4, <3>1, <3>2 DEF Wired
    <3>4. /\ pending'[c] = Join(pending[c], <<env>>)
          /\ \A d \in Client : d # c => pending'[d] = pending[d]
      BY <3>1 DEF Wired
    <3>5. \A d \in Client : d # c => Line(d)' = Line(d)
      BY <1>2, <3>1, <3>4 DEF Line
    <3>6. queued[c] = <<>>
      BY <2>2 DEF Wired
    <3>7. Line(c)' = Join(uplink[c], Join(pending[c], <<env>>))
      BY <1>2, <1>4, <3>1, <3>2, <3>4, <3>6, JoinedNone DEF Line
    <3>8. Line(c) = Join(uplink[c], pending[c])
      BY <1>4, <3>6, JoinedNone DEF Line
    <3>9. Join(uplink[c], Join(pending[c], <<env>>)) = Join(Line(c), <<env>>)
      <4> DEFINE S == net'  u == uplink[c]  v == pending[c]  t == <<env>>
      <4>1. u \in Seq(S) /\ v \in Seq(S) /\ t \in Seq(S) /\ Line(c) = Join(u, v)
        BY <1>3, <1>4, <3>8
      <4> HIDE DEF S, u, v, t
      <4>2. Join(u, Join(v, t)) = Join(Line(c), t)
        BY <4>1, JoinedThree
      <4> QED BY <4>2 DEF u, v, t
    <3> QED BY <3>1, <3>3, <3>5, <3>7, <3>9
  <2> QED BY <2>1, <2>2
<1> QED BY <1>3, <1>5

\* The envelope of a call is the last of its client's line.
LEMMA SMade ==
    ASSUME SInv, NEW c \in Client, HInv', NEW env, Made(c, env),
           Queue(c) \/ (c \notin Agent /\ Return(c)),
           UNCHANGED <<relay, log, sending, wires, ghosts>>
    PROVE  SInv'
<1>1. /\ env \notin net /\ env.node = c /\ net' = net \cup {env}
      /\ known' = [known EXCEPT ![c] = known[c] \cup {env}]
      /\ \A e \in net : past'[e] = past[e]
      /\ past'[env] = known[c]
  <2>1. env \in net' /\ \A e \in net : e \in net' /\ e # env
    BY DEF Made
  <2> QED BY <2>1 DEF Made
<1>2. UNCHANGED <<relay, log, sending, online, hydrated, uplink, downlink, lost, disordered>>
  BY DEF wires, ghosts
<1>3. <<env>> \in Seq(net')
  BY <1>2, MadeLines DEF SInv
<1>4. \A d \in Client : /\ uplink[d] \in Seq(net') /\ pending[d] \in Seq(net')
                        /\ queued[d] \in Seq(net')
  BY <1>1, SeqMonotonic DEF SInv, Wired
<1>5. /\ Line(c)' = Join(Line(c), <<env>>)
      /\ \A d \in Client : d # c => Line(d)' = Line(d)
      /\ queued' \in [Client -> Seq(net')] /\ pending' \in [Client -> Seq(net')]
      /\ proxied' = proxied /\ \A d \in Client : queued'[d] # queued[d] => proxied[d]
  BY <1>2, MadeLines DEF SInv
<1>6. \A d \in Client : Line(d) \in Seq(net) /\ Line(d) \in Seq(net')
  BY <1>1, LineParts, SeqMonotonic DEF SInv
<1>7. ToSet(Line(c)') = ToSet(Line(c)) \cup {env}
  <2>1. Line(c) \in Seq(net') /\ env \in net'
    BY <1>1, <1>6
  <2>2. ToSet(Join(Line(c), <<env>>)) = ToSet(Line(c)) \cup {env}
    BY <2>1, OneMore
  <2> QED BY <1>5, <2>2
<1>8. c \in Node /\ c # Server /\ known \in [Node -> SUBSET net]
  BY ClientAssumption, RelayAssumption DEF SInv, HInv
<1>9. AtRelay' = AtRelay /\ AtRelay \subseteq net /\ lost \subseteq net
  BY <1>1, <1>2, <1>8 DEF AtRelay, SInv, Accounted
<1>10. Wired'
  <2>1. log' \in Seq(net') /\ uplink' \in [Client -> Seq(net')]
    <3>1. log \in Seq(net) /\ uplink \in [Client -> Seq(net)] /\ net \subseteq net'
      BY <1>1 DEF SInv, Wired
    <3>2. log \in Seq(net')
      BY <3>1, SeqMonotonic
    <3> QED BY <1>2, <1>4, <3>1, <3>2
  <2>2. ASSUME NEW d \in Client
        PROVE  /\ \A f \in ToSet(downlink'[d]) : FrameOK(f)'
               /\ \A e \in ToSet(Line(d)') : e.node = d
               /\ SendingOK(sending[d])'
    <3>1. ASSUME NEW f \in ToSet(downlink[d]) PROVE FrameOK(f)'
      <4>1. FrameOK(f) /\ net \subseteq net'
        BY <1>1 DEF SInv, Wired
      <4> QED BY <1>2, <4>1, FramesStay
    <3>2. \A e \in ToSet(Line(d)') : e.node = d
      <4>1. \A e \in ToSet(Line(d)) : e.node = d
        BY DEF SInv, Wired
      <4>2. CASE d = c
        <5>1. ToSet(Line(d)') = ToSet(Line(d)) \cup {env}
          BY <1>7, <4>2
        <5> QED BY <1>1, <4>1, <4>2, <5>1
      <4>3. CASE d # c
        <5>1. Line(d)' = Line(d)
          BY <1>5, <4>3
        <5> QED BY <4>1, <5>1
      <4> QED BY <4>2, <4>3
    <3>3. SendingOK(sending[d])'
      BY <1>1, <1>2 DEF SInv, Wired, SendingOK
    <3> QED BY <1>2, <3>1, <3>2, <3>3
  <2>3. \A e \in net' : e.node \in Client
    BY <1>1 DEF SInv, Wired
  <2>4. \A d \in Client : proxied'[d] \/ queued'[d] = <<>>
    BY <1>5 DEF SInv, Wired
  <2> QED BY <1>2, <1>5, <2>1, <2>2, <2>3, <2>4 DEF SInv, Wired
<1>11. Accounted'
  <2>1. ASSUME NEW d \in Client
        PROVE  Once(Line(d)') /\ ToSet(Line(d)') \cap (AtRelay \cup lost) = {}
    <3>1. CASE d = c
      <4>1. env \notin ToSet(Line(c)) /\ Once(Line(c))
        <5>1. Line(c) \in Seq(net)
          BY <1>6
        <5>2. ToSet(Line(c)) \subseteq net
          BY <5>1, Members
        <5> QED BY <1>1, <5>2 DEF SInv, Accounted
      <4>2. Once(Join(Line(c), <<env>>))
        <5>1. Line(c) \in Seq(net') /\ env \in net'
          BY <1>1, <1>6
        <5> QED BY <4>1, <5>1, OneMore
      <4> QED BY <1>1, <1>5, <1>7, <1>9, <3>1, <4>2 DEF SInv, Accounted
    <3>2. CASE d # c
      BY <1>5, <3>2 DEF SInv, Accounted
    <3> QED BY <3>1, <3>2
  <2>2. ASSUME NEW e \in net' PROVE e \in ToSet(Line(e.node)') \cup AtRelay \cup lost
    <3>1. CASE e = env
      BY <1>1, <1>7, <3>1
    <3>2. CASE e # env
      <4>1. e \in ToSet(Line(e.node)) \cup AtRelay \cup lost /\ e.node \in Client
        BY <1>1, <3>2 DEF SInv, Accounted, Wired
      <4>2. ToSet(Line(e.node)) \subseteq ToSet(Line(e.node)')
        BY <1>5, <1>7, <4>1
      <4> QED BY <4>1, <4>2
    <3> QED BY <3>1, <3>2
  <2>3. AtRelay \subseteq net' /\ lost \subseteq net' /\ AtRelay \cap lost = {}
    BY <1>1, <1>9 DEF SInv, Accounted
  <2> QED BY <1>2, <1>9, <2>1, <2>2, <2>3 DEF Accounted
<1>12. Logs'
  <2> SUFFICES ASSUME relay = "ts" PROVE LogCovers' /\ (lost = {} => LogOrdered')
    BY <1>2 DEF Logs
  <2>1. LogCovers /\ (lost = {} => LogOrdered) /\ log \in Seq(net)
    BY DEF SInv, Logs, Wired
  <2>2. \A d \in Client : known[d] \subseteq known'[d] /\ (d # c => known'[d] = known[d])
    BY <1>1, <1>8, ClientAssumption
  <2>3. LogCovers'
    <3>1. known'[c] = known[c] \cup {env}
      BY <1>1, <1>8
    <3> QED BY <1>1, <1>2, <2>1, <2>2, <3>1 DEF LogCovers
  <2>4. ASSUME lost = {} PROVE LogOrdered'
    <3>1. LogOrdered /\ disordered' = {}
      BY <1>2, <2>1, <2>4 DEF LogOrdered
    <3>2. Ordered(past', log, {})
      BY <1>1, <2>1, <3>1, OrderedGrows DEF LogOrdered
    <3>3. \A d \in Client : Ordered(past', Line(d), ToSet(log))
      BY <1>1, <1>6, <3>1, OrderedGrows DEF LogOrdered
    <3>4. known[c] \subseteq ToSet(log) \cup ToSet(Line(c))
      <4>1. \A e \in known[c] : e \in net
        BY <1>8
      <4>2. AtRelay = ToSet(log)
        BY DEF AtRelay
      <4> QED BY <2>1, <2>4, <4>1, <4>2 DEF LogCovers, SInv, Accounted
    <3>5. Ordered(past', <<env>>, ToSet(log) \cup ToSet(Line(c)))
      BY <1>1, <3>4, OneMember
    <3>6. Ordered(past', Join(Line(c), <<env>>), ToSet(log))
      BY <1>3, <1>6, <3>3, <3>5, Joined
    <3>7. \A d \in Client : Ordered(past', Line(d)', ToSet(log))
      BY <1>5, <3>3, <3>6
    <3>8. ASSUME NEW d \in Client PROVE Ready(past', downlink[d], known'[d])
      <4>1. /\ downlink[d] \in Seq(ToSet(downlink[d]))
            /\ \A f \in ToSet(downlink[d]) :
                  IF f.type = "UPDATE" THEN f.data \in net ELSE f.data \in Seq(net)
        BY DEF SInv, Wired, FrameOK
      <4>2. Ready(past, downlink[d], known[d])
        BY <3>1 DEF LogOrdered
      <4> QED BY <1>1, <2>2, <4>1, <4>2, ReadyGrows
    <3> QED BY <1>2, <3>1, <3>2, <3>7, <3>8 DEF LogOrdered
  <2> QED BY <2>3, <2>4
<1> QED BY <1>10, <1>11, <1>12 DEF SInv
\* Whatever moves along the lines, what is in them stays.
LEMMA SLines ==
    ASSUME SInv, HInv',
           UNCHANGED <<net, known, past, relay, log, sending, online, hydrated, downlink,
                       lost, disordered>>,
           queued' \in [Client -> Seq(net)], pending' \in [Client -> Seq(net)],
           uplink' \in [Client -> Seq(net)], proxied' \in [Client -> BOOLEAN],
           \A d \in Client : /\ Line(d)' = Line(d)
                             /\ proxied'[d] => d \in Agent
                             /\ proxied'[d] \/ queued'[d] = <<>>
    PROVE  SInv'
<1>1. Wired'
  BY DEF SInv, Wired, FrameOK, SendingOK, Covers, PerClient, UpdateOf
<1>2. AtRelay' = AtRelay
  BY DEF AtRelay
<1>3. Accounted'
  <2>1. \A e \in net : e.node \in Client
    BY DEF SInv, Wired
  <2> QED BY <1>2, <2>1 DEF SInv, Accounted
<1>4. Logs'
  BY DEF SInv, Logs, LogCovers, LogOrdered
<1> QED BY <1>1, <1>3, <1>4 DEF SInv

\* A call that produces nothing.
LEMMA NoneMade ==
    ASSUME Wired, NEW c \in Client, UNCHANGED <<net, uplink>>,
           Queue(c) \/ (c \notin Agent /\ Return(c))
    PROVE  UNCHANGED api /\ \A d \in Client : Line(d)' = Line(d)
<1>1. Emitted = <<>>
  <2>1. net' \ net = {}
    OBVIOUS
  <2> QED BY <2>1, FewToSeq DEF Emitted
<1>2. queued[c] \in Seq(net) /\ pending[c] \in Seq(net)
  BY DEF Wired
<1>3. Join(queued[c], <<>>) = queued[c] /\ Join(pending[c], <<>>) = pending[c]
  <2> DEFINE q == queued[c]  p == pending[c]
  <2>1. q \in Seq(net) /\ p \in Seq(net)
    BY <1>2
  <2> HIDE DEF q, p
  <2>2. Join(q, <<>>) = q /\ Join(p, <<>>) = p
    BY <2>1, JoinedNone
  <2> QED BY <2>2 DEF q, p
<1>4. UNCHANGED api
  <2>1. CASE Queue(c)
    <3>1. queued' = [queued EXCEPT ![c] = Join(queued[c], <<>>)]
      BY <1>1, <2>1 DEF Queue, Join
    <3> QED BY <1>3, <2>1, <3>1 DEF Queue, api, Wired
  <2>2. CASE Return(c)
    <3>1. pending' = [pending EXCEPT ![c] = Join(pending[c], <<>>)]
      BY <1>1, <2>2 DEF Return, Join
    <3> QED BY <1>3, <2>2, <3>1 DEF Return, api, Wired
  <2> QED BY <2>1, <2>2
<1>5. \A d \in Client : Line(d)' = Line(d)
  BY <1>4 DEF Line, api
<1> QED BY <1>4, <1>5

\* The clocks may have moved, and nothing else that the invariant speaks of.
LEMMA SNone ==
    ASSUME SInv, NEW c \in Client, MadeOne(c), net' = net, known' = known, past' = past,
           Queue(c) \/ (c \notin Agent /\ Return(c)),
           UNCHANGED <<relay, log, sending, wires, ghosts>>
    PROVE  SInv'
<1>4. UNCHANGED api /\ \A d \in Client : Line(d)' = Line(d)
  BY NoneMade DEF SInv, wires
<1>6. HInv' /\ UNCHANGED <<online, hydrated, uplink, downlink, lost, disordered>>
  BY DEF MadeOne, wires, ghosts
<1> QED BY <1>4, <1>6, SLines DEF api, SInv, Wired

LEMMA SCall ==
    ASSUME SInv, NEW c \in Client, Call(c)
    PROVE  SInv'
<1>1. UNCHANGED <<relay, log, sending, wires, ghosts>>
  BY DEF Call
<1>2. NewProxy(c) \/ (MadeOne(c) /\ (Queue(c) \/ (c \notin Agent /\ Return(c))))
  BY CallMakes DEF SInv, Call
<1>3. CASE NewProxy(c)
  <2>1. HInv'
    BY <1>3, HNext DEF NewProxy, SInv
  <2>2. \A d \in Client : Line(d)' = Line(d)
    BY <1>1, <1>3 DEF Line, NewProxy, wires
  <2> QED BY <1>1, <1>3, <2>1, <2>2, SLines DEF NewProxy, vars, wires, ghosts, SInv, Wired
<1>4. CASE MadeOne(c) /\ (Queue(c) \/ (c \notin Agent /\ Return(c)))
  <2>1. CASE UNCHANGED <<net, known, past>>
    BY <1>1, <1>4, <2>1, SNone
  <2>2. CASE \E env : Made(c, env)
    BY <1>1, <1>4, <2>2, SMade DEF MadeOne
  <2> QED BY <1>4, <2>1, <2>2 DEF MadeOne
<1> QED BY <1>2, <1>3, <1>4

\* Draining and sending move writes along a line.
LEMMA LinesDrained ==
    ASSUME Wired, NEW c \in Client, Drains(c)
    PROVE  /\ queued' \in [Client -> Seq(net)] /\ pending' \in [Client -> Seq(net)]
           /\ queued'[c] = <<>> /\ \A d \in Client : d # c => queued'[d] = queued[d]
           /\ \A d \in Client : Line(d)' = Line(d)
<1> DEFINE u == uplink[c]  v == pending[c]  w == queued[c]
<1>1. u \in Seq(net) /\ v \in Seq(net) /\ w \in Seq(net) /\ Line(c) = Join(u, Join(v, w))
  BY DEF Wired, Line
<1>2. /\ pending' = [pending EXCEPT ![c] = Join(v, w)]
      /\ queued' = [queued EXCEPT ![c] = <<>>]
      /\ UNCHANGED <<vars, proxied, relay, log, sending, wires, calls, ghosts>>
  BY DEF Drains, DrainPending, Join
<1> HIDE DEF u, v, w
<1>3. Join(v, w) \in Seq(net) /\ <<>> \in Seq(net)
  BY <1>1, Joined
<1>4. Join(Join(v, w), <<>>) = Join(v, w)
  BY <1>3, JoinedNone
<1>5. queued' \in [Client -> Seq(net)] /\ pending' \in [Client -> Seq(net)]
  BY <1>2, <1>3 DEF Wired
<1>6. /\ pending'[c] = Join(v, w) /\ queued'[c] = <<>>
      /\ \A d \in Client : d # c => pending'[d] = pending[d] /\ queued'[d] = queued[d]
  BY <1>2 DEF Wired
<1>7. \A d \in Client : Line(d)' = Line(d)
  BY <1>1, <1>2, <1>4, <1>6 DEF Line, wires, u
<1> QED BY <1>5, <1>6, <1>7

LEMMA SDrains ==
    ASSUME SInv, NEW c \in Client, Drains(c)
    PROVE  SInv'
<1>2. UNCHANGED <<vars, proxied, relay, log, sending, wires, calls, ghosts>>
  BY DEF Drains, DrainPending
<1>7. /\ queued' \in [Client -> Seq(net)] /\ pending' \in [Client -> Seq(net)]
      /\ queued'[c] = <<>> /\ \A d \in Client : d # c => queued'[d] = queued[d]
      /\ \A d \in Client : Line(d)' = Line(d)
  BY LinesDrained DEF SInv
<1>8. HInv'
  BY <1>2, HNext DEF SInv
<1>9. \A d \in Client : proxied[d] \/ queued'[d] = <<>>
  BY <1>7 DEF SInv, Wired
<1> QED BY <1>2, <1>7, <1>8, <1>9, SLines DEF vars, wires, ghosts, SInv, Wired

LEMMA LinesSent ==
    ASSUME Wired, NEW c \in Client, Send(c)
    PROVE  /\ uplink' \in [Client -> Seq(net)] /\ pending' \in [Client -> Seq(net)]
           /\ \A d \in Client : Line(d)' = Line(d)
<1> DEFINE u == uplink[c]  v == pending[c]  w == queued[c]
<1>1. u \in Seq(net) /\ v \in Seq(net) /\ w \in Seq(net) /\ Line(c) = Join(u, Join(v, w))
  BY DEF Wired, Line
<1>2. /\ uplink' = [uplink EXCEPT ![c] = Join(u, v)]
      /\ pending' = [pending EXCEPT ![c] = <<>>]
      /\ UNCHANGED <<vars, proxied, queued, relay, log, sending,
                     online, hydrated, downlink, connects, calls, ghosts>>
  BY DEF Send, Join
<1> HIDE DEF u, v, w
<1>3. Join(u, v) \in Seq(net) /\ <<>> \in Seq(net)
  BY <1>1, Joined
<1>4. Join(Join(u, v), Join(<<>>, w)) = Join(u, Join(v, w))
  <2>1. Join(<<>>, w) = w
    BY <1>1, JoinedNone
  <2> QED BY <1>1, <2>1, JoinedThree
<1>5. uplink' \in [Client -> Seq(net)] /\ pending' \in [Client -> Seq(net)]
  BY <1>2, <1>3 DEF Wired
<1>6. /\ uplink'[c] = Join(u, v) /\ pending'[c] = <<>>
      /\ \A d \in Client : d # c => pending'[d] = pending[d] /\ uplink'[d] = uplink[d]
  BY <1>2 DEF Wired
<1>7. \A d \in Client : Line(d)' = Line(d)
  BY <1>1, <1>2, <1>4, <1>6 DEF Line, w
<1> QED BY <1>5, <1>7

LEMMA SSend ==
    ASSUME SInv, NEW c \in Client, Send(c)
    PROVE  SInv'
<1>2. UNCHANGED <<vars, proxied, queued, relay, log, sending,
                  online, hydrated, downlink, connects, calls, ghosts>>
  BY DEF Send
<1>7. /\ uplink' \in [Client -> Seq(net)] /\ pending' \in [Client -> Seq(net)]
      /\ \A d \in Client : Line(d)' = Line(d)
  BY LinesSent DEF SInv
<1>8. HInv'
  BY <1>2, HNext DEF SInv
<1> QED BY <1>2, <1>7, <1>8, SLines DEF vars, ghosts, SInv, Wired
-----------------------------------------------------------------------------
(* Connections.                                                            *)

LEMMA NoFrames ==
    /\ ToSet(<<>>) = {} /\ Coming(<<>>) = {} /\ <<>> \in Seq(ToSet(<<>>))
    /\ \A p, B : Ready(p, <<>>, B)
<1>1. ToSet(<<>>) = {}
  BY DEF ToSet
<1> QED BY <1>1 DEF Coming, Ready

LEMMA OneFrame ==
    ASSUME NEW f
    PROVE  /\ <<f>> \in Seq(ToSet(<<f>>)) /\ ToSet(<<f>>) = {f} /\ Coming(<<f>>) = Brings(f)
           /\ <<f>> # <<>> /\ \A p, B : MayApply(p, f, B) => Ready(p, <<f>>, B)
<1>1. <<f>> \in Seq({f}) /\ ToSet(<<f>>) = {f} /\ <<f>> # <<>> /\ Len(<<f>>) = 1 /\ <<f>>[1] = f
  BY OneMember
<1>2. ASSUME NEW p, NEW B, MayApply(p, f, B) PROVE Ready(p, <<f>>, B)
  <2>1. 1..1 = {1} /\ 1..(1 - 1) = {}
    OBVIOUS
  <2>2. Before(<<f>>, 1) = {}
    BY <2>1 DEF Before
  <2>3. B \cup Before(<<f>>, 1) = B
    BY <2>2
  <2> QED BY <1>1, <1>2, <2>1, <2>3 DEF Ready
<1> QED BY <1>1, <1>2 DEF Coming

\* A part of a client's line is lost: nothing else changes for the writes.
LEMMA SLoses ==
    ASSUME SInv, NEW c \in Client, NEW a \in Seq(net), NEW b \in Seq(net),
           Line(c) = Join(a, b) \/ Line(c) = Join(b, a), Line(c)' = b,
           \A d \in Client : d # c => Line(d)' = Line(d),
           lost' = lost \cup ToSet(a), UNCHANGED <<net, known, relay, log>>
    PROVE  /\ Accounted'
           /\ \A d \in Client : ToSet(Line(d)') \subseteq ToSet(Line(d))
           /\ lost' = {} => (lost = {} /\ \A d \in Client : Line(d)' = Line(d))
<1>1. /\ ToSet(Line(c)) = ToSet(a) \cup ToSet(b)
      /\ Once(b) /\ ToSet(a) \cap ToSet(b) = {}
  <2>1. CASE Line(c) = Join(a, b)
    BY <2>1, Joined DEF SInv, Accounted
  <2>2. CASE Line(c) = Join(b, a)
    BY <2>2, Joined DEF SInv, Accounted
  <2> QED BY <2>1, <2>2
<1>2. AtRelay' = AtRelay
  BY DEF AtRelay
<1>3. ToSet(a) \subseteq net /\ (ToSet(a) = {} => a = <<>>)
  BY Members
<1>4. ASSUME NEW d \in Client PROVE Once(Line(d)') /\ ToSet(Line(d)') \cap (AtRelay \cup lost') = {}
  <2>1. CASE d = c
    BY <1>1, <2>1 DEF SInv, Accounted
  <2>2. CASE d # c
    <3>1. (\A e \in ToSet(Line(c)) : e.node = c) /\ (\A e \in ToSet(Line(d)) : e.node = d)
      BY DEF SInv, Wired
    <3>2. ToSet(Line(d)) \cap ToSet(a) = {}
      BY <1>1, <2>2, <3>1
    <3> QED BY <2>2, <3>2 DEF SInv, Accounted
  <2> QED BY <2>1, <2>2
<1>5. ASSUME NEW e \in net PROVE e \in ToSet(Line(e.node)') \cup AtRelay \cup lost'
  <2>1. e \in ToSet(Line(e.node)) \cup AtRelay \cup lost /\ e.node \in Client
    BY DEF SInv, Accounted, Wired
  <2>2. CASE e.node = c
    BY <1>1, <2>1, <2>2
  <2>3. CASE e.node # c
    BY <2>1, <2>3
  <2> QED BY <2>2, <2>3
<1>6. AtRelay \subseteq net /\ lost' \subseteq net /\ AtRelay \cap lost' = {}
  BY <1>1, <1>3 DEF SInv, Accounted
<1>7. Accounted'
  BY <1>2, <1>4, <1>5, <1>6 DEF Accounted
<1>8. \A d \in Client : ToSet(Line(d)') \subseteq ToSet(Line(d))
  BY <1>1
<1>9. ASSUME lost' = {} PROVE lost = {} /\ \A d \in Client : Line(d)' = Line(d)
  <2>1. lost = {} /\ a = <<>>
    BY <1>3, <1>9
  <2>2. Line(c) = b
    BY <2>1, JoinedNone
  <2> QED BY <2>1, <2>2
<1> QED BY <1>7, <1>8, <1>9

LEMMA SEndProxy ==
    ASSUME SInv, NEW c \in Client, EndProxy(c)
    PROVE  SInv'
<1> DEFINE u == uplink[c]  v == pending[c]  w == queued[c]
<1>1. u \in Seq(net) /\ v \in Seq(net) /\ w \in Seq(net) /\ Line(c) = Join(u, Join(v, w))
  BY DEF SInv, Wired, Line
<1>2. /\ proxied' = [proxied EXCEPT ![c] = FALSE]
      /\ queued' = [queued EXCEPT ![c] = <<>>]
      /\ UNCHANGED <<vars, pending, relay, log, sending, wires, disordered>>
      /\ lost' = lost \cup ToSet(w)
  BY DEF EndProxy, DropProxy
<1> HIDE DEF u, v, w
<1>3. Join(u, v) \in Seq(net) /\ <<>> \in Seq(net) /\ Join(v, <<>>) = v
  BY <1>1, Joined, JoinedNone
<1>4. Line(c) = Join(Join(u, v), w)
  BY <1>1, JoinedThree
<1>5. /\ queued' \in [Client -> Seq(net)] /\ proxied' \in [Client -> BOOLEAN]
      /\ queued'[c] = <<>> /\ \A d \in Client : d # c => queued'[d] = queued[d]
      /\ \A d \in Client : /\ proxied'[d] => d \in Agent
                           /\ proxied'[d] \/ queued'[d] = <<>>
  BY <1>2, <1>3 DEF SInv, Wired
<1>6. Line(c)' = Join(u, v)
  BY <1>2, <1>3, <1>5 DEF Line, wires, u, v
<1>7. \A d \in Client : d # c => Line(d)' = Line(d)
  BY <1>2, <1>5 DEF Line, wires
<1>8. UNCHANGED <<net, known, past, relay, log, sending, online, hydrated, downlink,
                  uplink, pending, disordered>>
  BY <1>2 DEF vars, wires
<1>9. /\ Accounted'
      /\ \A d \in Client : ToSet(Line(d)') \subseteq ToSet(Line(d))
      /\ lost' = {} => (lost = {} /\ \A d \in Client : Line(d)' = Line(d))
  BY <1>1, <1>2, <1>3, <1>4, <1>6, <1>7, <1>8, SLoses
<1>10. Wired'
  <2>1. \A d \in Client : \A e \in ToSet(Line(d)') : e.node = d
    BY <1>9 DEF SInv, Wired
  <2> QED BY <1>5, <1>8, <2>1 DEF SInv, Wired, FrameOK, SendingOK, Covers, PerClient, UpdateOf
<1>11. Logs'
  BY <1>8, <1>9 DEF SInv, Logs, LogCovers, LogOrdered
<1>12. HInv'
  BY <1>2, HNext DEF SInv
<1> QED BY <1>9, <1>10, <1>11, <1>12 DEF SInv

LEMMA SDisconnect ==
    ASSUME SInv, NEW c \in Client, Disconnect(c)
    PROVE  SInv'
<1> DEFINE u == uplink[c]  v == pending[c]  w == queued[c]
<1>1. u \in Seq(net) /\ v \in Seq(net) /\ w \in Seq(net) /\ Line(c) = Join(u, Join(v, w))
  BY DEF SInv, Wired, Line
<1>2. /\ uplink' = [uplink EXCEPT ![c] = <<>>]
      /\ lost' = lost \cup ToSet(u)
      /\ UNCHANGED <<vars, api, relay, log, disordered>>
  BY DEF Disconnect
<1> HIDE DEF u, v, w
<1>3. Join(v, w) \in Seq(net) /\ <<>> \in Seq(net)
  BY <1>1, Joined
<1>4. Join(<<>>, Join(v, w)) = Join(v, w)
  BY <1>3, JoinedNone
<1>5. /\ uplink' \in [Client -> Seq(net)]
      /\ uplink'[c] = <<>> /\ \A d \in Client : d # c => uplink'[d] = uplink[d]
  BY <1>2, <1>3 DEF SInv, Wired
<1>6. Line(c)' = Join(v, w)
  BY <1>2, <1>4, <1>5 DEF Line, api, v, w
<1>7. \A d \in Client : d # c => Line(d)' = Line(d)
  BY <1>2, <1>5 DEF Line, api
<1>8. UNCHANGED <<net, known, past, relay, log, proxied, queued, pending, disordered>>
  BY <1>2 DEF vars, api
<1>9. /\ Accounted'
      /\ \A d \in Client : ToSet(Line(d)') \subseteq ToSet(Line(d))
      /\ lost' = {} => (lost = {} /\ \A d \in Client : Line(d)' = Line(d))
  BY <1>1, <1>2, <1>3, <1>6, <1>7, <1>8, SLoses
<1>10. /\ online' \in [Client -> BOOLEAN] /\ hydrated' \in [Client -> BOOLEAN]
       /\ PerClient(downlink') /\ PerClient(sending')
       /\ online'[c] = FALSE /\ hydrated'[c] = FALSE /\ downlink'[c] = <<>>
       /\ \A d \in Client : d # c => /\ online'[d] = online[d]
                                     /\ hydrated'[d] = hydrated[d]
                                     /\ downlink'[d] = downlink[d]
       /\ \A d \in Client : sending'[d] = IF sending[d].peers \subseteq {c} THEN NotSending
                                          ELSE [sending[d] EXCEPT !.peers = @ \ {c}]
  BY DEF Disconnect, SInv, Wired, PerClient
<1>11. Wired'
  <2>1. \A d \in Client : \A e \in ToSet(Line(d)') : e.node = d
    BY <1>9 DEF SInv, Wired
  <2>2. ASSUME NEW d \in Client PROVE SendingOK(sending[d])'
    <3>1. SendingOK(sending[d])
      BY DEF SInv, Wired
    <3>2. CASE sending[d].peers \subseteq {c}
      BY <1>10, <3>2 DEF SendingOK, NotSending
    <3>3. CASE ~(sending[d].peers \subseteq {c})
      <4>1. sending[d] # NotSending
        BY <3>3 DEF NotSending
      <4>2. /\ relay = "rust" /\ sending[d] = [peers |-> sending[d].peers, env |-> sending[d].env]
            /\ sending[d].peers \subseteq {x \in Client : online[x]} /\ sending[d].env \in net
        BY <3>1, <4>1 DEF SendingOK
      <4>3. sending'[d] = [peers |-> sending[d].peers \ {c}, env |-> sending[d].env]
        BY <1>10, <3>3, <4>2
      <4>4. sending[d].peers \ {c} \subseteq {x \in Client : online'[x]}
        BY <1>10, <4>2
      <4> QED BY <1>8, <4>2, <4>3, <4>4 DEF SendingOK
    <3> QED BY <3>2, <3>3
  <2>3. ASSUME NEW d \in Client
        PROVE  /\ downlink'[d] \in Seq(ToSet(downlink'[d]))
               /\ \A f \in ToSet(downlink'[d]) : FrameOK(f)'
               /\ hydrated'[d] \/ downlink'[d] # <<>> => online'[d]
    <3>1. CASE d = c
      BY <1>10, <3>1, NoFrames
    <3>2. CASE d # c
      BY <1>8, <1>10, <3>2 DEF SInv, Wired, FrameOK, Covers, UpdateOf
    <3> QED BY <3>1, <3>2
  <2> QED BY <1>5, <1>8, <1>10, <2>1, <2>2, <2>3 DEF SInv, Wired
<1>12. Logs'
  <2>1. ASSUME LogCovers PROVE LogCovers'
    BY <1>8, <1>10, <2>1, NoFrames DEF LogCovers
  <2>2. ASSUME LogOrdered, \A d \in Client : Line(d)' = Line(d) PROVE LogOrdered'
    BY <1>8, <1>10, <2>2, NoFrames DEF LogOrdered
  <2> QED BY <1>8, <1>9, <2>1, <2>2 DEF SInv, Logs
<1>13. HInv'
  BY <1>2, HNext DEF SInv
<1> QED BY <1>9, <1>11, <1>12, <1>13 DEF SInv

LEMMA SConnect ==
    ASSUME SInv, NEW c \in Client, Connect(c)
    PROVE  SInv'
<1>1. UNCHANGED <<net, known, past, relay, log, sending, uplink, proxied, queued, pending,
                  lost, disordered>> /\ UNCHANGED vars
  BY DEF Connect, vars, api, ghosts
<1>2. /\ online' \in [Client -> BOOLEAN] /\ hydrated' \in [Client -> BOOLEAN]
      /\ PerClient(downlink')
      /\ online'[c] = TRUE /\ hydrated'[c] = FALSE /\ downlink'[c] = <<Snapshot>>
      /\ \A d \in Client : d # c => /\ online'[d] = online[d]
                                    /\ hydrated'[d] = hydrated[d]
                                    /\ downlink'[d] = downlink[d]
  BY DEF Connect, SInv, Wired, PerClient
<1>3. \A d \in Client : Line(d)' = Line(d)
  BY <1>1 DEF Line
<1>4. HInv'
  BY <1>1, HNext DEF SInv
<1>5. FrameOK(Snapshot)
  <2>1. CASE relay = "ts"
    BY <2>1 DEF FrameOK, Snapshot, SInv, Wired
  <2>2. CASE relay # "ts"
    <3>1. Server \in Node
      BY RelayAssumption
    <3>2. Covers(clock[Server], Carried(Server))
      BY <3>1 DEF SInv, HInv, Covers, Carried
    <3> QED BY <2>2, <3>2 DEF FrameOK, Snapshot, StoreCopy
  <2> QED BY <2>1, <2>2
<1>6. Wired'
  <2>1. ASSUME NEW d \in Client
        PROVE  /\ downlink'[d] \in Seq(ToSet(downlink'[d]))
               /\ \A f \in ToSet(downlink'[d]) : FrameOK(f)'
               /\ hydrated'[d] \/ downlink'[d] # <<>> => online'[d]
    <3>1. CASE d = c
      <4>1. \A f \in ToSet(downlink'[d]) : FrameOK(f)
        BY <1>2, <1>5, <3>1, OneFrame
      <4>2. downlink'[d] \in Seq(ToSet(downlink'[d]))
        BY <1>2, <3>1, OneFrame
      <4> QED BY <1>1, <1>2, <3>1, <4>1, <4>2 DEF FrameOK, Covers, UpdateOf
    <3>2. CASE d # c
      BY <1>1, <1>2, <3>2 DEF SInv, Wired, FrameOK, Covers, UpdateOf
    <3> QED BY <3>1, <3>2
  <2>2. \A d \in Client : SendingOK(sending[d])'
    BY <1>1, <1>2 DEF SInv, Wired, SendingOK
  <2> QED BY <1>1, <1>2, <1>3, <2>1, <2>2 DEF SInv, Wired, PerClient
<1>7. Accounted'
  <2>1. AtRelay' = AtRelay /\ \A e \in net : e.node \in Client
    BY <1>1 DEF AtRelay, SInv, Wired
  <2> QED BY <1>1, <1>3, <2>1 DEF SInv, Accounted
<1>8. Logs'
  <2> SUFFICES ASSUME relay = "ts" PROVE LogCovers' /\ (lost = {} => LogOrdered')
    BY <1>1 DEF Logs
  <2>1. LogCovers /\ (lost = {} => LogOrdered) /\ log \in Seq(net)
    BY DEF SInv, Logs, Wired
  <2>2. Brings(Snapshot) = ToSet(log) /\ \A p, B : MayApply(p, Snapshot, B) <=> Ordered(p, log, B)
    BY DEF Snapshot, Brings, MayApply
  <2>3. Coming(downlink'[c]) = ToSet(log)
    BY <1>2, <2>2, OneFrame
  <2>4. LogCovers'
    BY <1>1, <1>2, <2>1, <2>3 DEF LogCovers
  <2>5. ASSUME lost = {} PROVE LogOrdered'
    <3>1. LogOrdered
      BY <2>1, <2>5
    <3>2. Ordered(past, log, known[c])
      BY <2>1, <3>1, OrderedGrows DEF LogOrdered
    <3>3. Ready(past, downlink'[c], known[c])
      BY <1>2, <2>2, <3>2, OneFrame
    <3> QED BY <1>1, <1>2, <1>3, <3>1, <3>3 DEF LogOrdered
  <2> QED BY <2>4, <2>5
<1> QED BY <1>4, <1>6, <1>7, <1>8 DEF SInv
-----------------------------------------------------------------------------
(* The relay.                                                              *)

\* The oldest envelope of a line arrives.
LEMMA SArrives ==
    ASSUME SInv, NEW c \in Client, NEW e \in net, NEW b \in Seq(net),
           <<e>> \in Seq(net), Line(c) = Join(<<e>>, b), Line(c)' = b,
           \A d \in Client : d # c => Line(d)' = Line(d),
           AtRelay' = AtRelay \cup {e}, UNCHANGED <<net, lost>>
    PROVE  /\ Accounted'
           /\ \A d \in Client : ToSet(Line(d)') \subseteq ToSet(Line(d))
           /\ e.node = c
<1> DEFINE t == <<e>>
<1>1. t \in Seq(net) /\ ToSet(t) = {e} /\ Line(c) = Join(t, b)
  BY OneMember
<1> HIDE DEF t
<1>2. ToSet(Line(c)) = {e} \cup ToSet(b) /\ Once(b) /\ e \notin ToSet(b)
  BY <1>1, Joined DEF SInv, Accounted
<1>3. e \notin lost /\ e.node = c
  BY <1>2 DEF SInv, Accounted, Wired
<1>4. ASSUME NEW d \in Client
      PROVE  Once(Line(d)') /\ ToSet(Line(d)') \cap (AtRelay' \cup lost) = {}
  <2>1. CASE d = c
    BY <1>2, <2>1 DEF SInv, Accounted
  <2>2. CASE d # c
    <3>1. e \notin ToSet(Line(d))
      BY <1>3, <2>2 DEF SInv, Wired
    <3> QED BY <2>2, <3>1 DEF SInv, Accounted
  <2> QED BY <2>1, <2>2
<1>5. ASSUME NEW x \in net PROVE x \in ToSet(Line(x.node)') \cup AtRelay' \cup lost
  <2>1. x \in ToSet(Line(x.node)) \cup AtRelay \cup lost /\ x.node \in Client
    BY DEF SInv, Accounted, Wired
  <2>2. CASE x.node = c
    BY <1>2, <2>1, <2>2
  <2>3. CASE x.node # c
    BY <2>1, <2>3
  <2> QED BY <2>2, <2>3
<1>6. AtRelay' \subseteq net /\ lost \subseteq net /\ AtRelay' \cap lost = {}
  BY <1>3 DEF SInv, Accounted
<1>7. Accounted'
  BY <1>4, <1>5, <1>6 DEF Accounted
<1>8. \A d \in Client : ToSet(Line(d)') \subseteq ToSet(Line(d))
  BY <1>2
<1> QED BY <1>3, <1>7, <1>8

\* How the line of c moves when the relay receives its first envelope.
LEMMA LineMoves ==
    ASSUME SInv, NEW c \in Client, RelayReceive(c)
    PROVE  /\ Head(uplink[c]) \in net /\ <<Head(uplink[c])>> \in Seq(net)
           /\ Line(c)' \in Seq(net) /\ Line(c) = Join(<<Head(uplink[c])>>, Line(c)')
           /\ \A d \in Client : d # c => Line(d)' = Line(d)
           /\ uplink' \in [Client -> Seq(net)]
<1> DEFINE u == uplink[c]  v == pending[c]  w == queued[c]  e == Head(u)  r == Tail(u)  t == <<e>>
<1>1. u \in Seq(net) /\ v \in Seq(net) /\ w \in Seq(net) /\ Line(c) = Join(u, Join(v, w)) /\ u # <<>>
  BY DEF SInv, Wired, Line, RelayReceive
<1>2. uplink' = [uplink EXCEPT ![c] = r] /\ UNCHANGED api
  BY DEF RelayReceive
<1>3. e \in net /\ r \in Seq(net) /\ t \in Seq(net) /\ u = Join(t, r)
  BY <1>1, JoinedFirst
<1> HIDE DEF u, v, w, e, r, t
<1>4. /\ uplink' \in [Client -> Seq(net)]
      /\ uplink'[c] = r /\ \A d \in Client : d # c => uplink'[d] = uplink[d]
  BY <1>2, <1>3 DEF SInv, Wired
<1>5. Line(c)' = Join(r, Join(v, w)) /\ \A d \in Client : d # c => Line(d)' = Line(d)
  BY <1>2, <1>4 DEF Line, api, v, w
<1>6. Join(v, w) \in Seq(net)
  BY <1>1, Joined
<1>7. Join(r, Join(v, w)) \in Seq(net)
  BY <1>3, <1>6, Joined
<1>8. Join(Join(t, r), Join(v, w)) = Join(t, Join(r, Join(v, w)))
  BY <1>3, <1>6, JoinedThree
<1> QED BY <1>1, <1>3, <1>4, <1>5, <1>7, <1>8 DEF e, t, u

\* A frame that is in order goes to some of the clients that are connected.
LEMMA WiredSends ==
    ASSUME Wired, NEW f, FrameOK(f), NEW D, D \subseteq {d \in Client : online[d]},
           PerClient(downlink'),
           \A d \in Client : downlink'[d] = IF d \in D THEN Append(downlink[d], f) ELSE downlink[d],
           UNCHANGED <<net, relay, online, hydrated>>
    PROVE  \A d \in Client : /\ downlink'[d] \in Seq(ToSet(downlink'[d]))
                             /\ \A g \in ToSet(downlink'[d]) : FrameOK(g)'
                             /\ hydrated'[d] \/ downlink'[d] # <<>> => online'[d]
<1> TAKE d \in Client
<1>1. downlink[d] \in Seq(ToSet(downlink[d]))
  BY DEF Wired
<1>2. CASE d \in D
  <2> DEFINE fs == downlink[d]  gs == downlink'[d]
  <2>4. gs = Append(fs, f) /\ fs \in Seq(ToSet(fs))
    BY <1>1, <1>2
  <2> HIDE DEF fs, gs
  <2>5. gs \in Seq(ToSet(gs))
    BY <2>4, AppendFrame
  <2>6. ToSet(gs) = ToSet(fs) \cup {f}
    BY <2>4, AppendFrame
  <2>1. /\ downlink'[d] \in Seq(ToSet(downlink'[d]))
        /\ ToSet(downlink'[d]) = ToSet(downlink[d]) \cup {f}
    BY <2>5, <2>6 DEF fs, gs
  <2>2. \A g \in ToSet(downlink'[d]) : FrameOK(g)
    BY <2>1 DEF Wired
  <2>3. online'[d]
    BY <1>2
  <2> QED BY <2>1, <2>2, <2>3 DEF FrameOK, Covers, UpdateOf
<1>3. CASE d \notin D
  BY <1>3 DEF Wired, FrameOK, Covers, UpdateOf
<1> QED BY <1>2, <1>3

LEMMA SRelayLogs ==
    ASSUME SInv, NEW c \in Client, RelayReceive(c), relay = "ts"
    PROVE  SInv'
<1> DEFINE e == Head(uplink[c])  b == Line(c)'
<1>1. /\ e \in net /\ <<e>> \in Seq(net) /\ b \in Seq(net) /\ Line(c) = Join(<<e>>, b)
      /\ \A d \in Client : d # c => Line(d)' = Line(d)
      /\ uplink' \in [Client -> Seq(net)]
  BY LineMoves
<1>2. /\ log' = Append(log, e)
      /\ downlink' = [d \in Client |->
              IF d \in Peers(c) THEN Append(downlink[d], UpdateOf(e)) ELSE downlink[d]]
      /\ UNCHANGED <<vars, api, relay, sending, online, hydrated, lost, disordered>>
  BY DEF RelayReceive, RelayLogs
<1>3. UNCHANGED <<net, known, past, proxied, queued, pending>>
  BY <1>2 DEF vars, api
<1> HIDE DEF e
<1>4. log \in Seq(net) /\ LogCovers /\ (lost = {} => LogOrdered)
  BY DEF SInv, Wired, Logs
<1>5. log' = Join(log, <<e>>)
  BY <1>1, <1>2, <1>4, AppendIsConcat DEF Join
<1>6. log' \in Seq(net) /\ ToSet(log') = ToSet(log) \cup {e}
  <2> DEFINE after == log'  before == log  S == net
  <2>1. before \in Seq(S) /\ e \in S /\ after = Append(before, e)
    BY <1>1, <1>2, <1>4
  <2> HIDE DEF after, before, S
  <2>2. /\ after \in Seq(S) /\ Len(before) \in Nat
        /\ DOMAIN after = 1..(Len(before) + 1) /\ DOMAIN before = 1..Len(before)
        /\ after[Len(before) + 1] = e /\ \A i \in 1..Len(before) : after[i] = before[i]
    BY <2>1
  <2>3. /\ Len(before) + 1 \in DOMAIN after
        /\ \A i \in DOMAIN after : i = Len(before) + 1 \/ i \in 1..Len(before)
    BY <2>2
  <2>4. ToSet(after) = ToSet(before) \cup {e}
    BY <2>2, <2>3 DEF ToSet
  <2> QED BY <2>2, <2>4 DEF after, before, S
<1>7. AtRelay = ToSet(log) /\ AtRelay' = ToSet(log) \cup {e}
  BY <1>2, <1>6 DEF AtRelay
<1>8. /\ Accounted' /\ e.node = c
      /\ \A d \in Client : ToSet(Line(d)') \subseteq ToSet(Line(d))
  BY <1>1, <1>2, <1>3, <1>7, SArrives
<1>9. /\ PerClient(downlink')
      /\ \A d \in Client : downlink'[d] =
            IF d \in Peers(c) THEN Append(downlink[d], UpdateOf(e)) ELSE downlink[d]
  BY <1>2 DEF PerClient
<1>10. Wired'
  <2>1. FrameOK(UpdateOf(e)) /\ Peers(c) \subseteq {d \in Client : online[d]}
    BY <1>1 DEF FrameOK, UpdateOf, Peers
  <2>2. \A d \in Client : /\ downlink'[d] \in Seq(ToSet(downlink'[d]))
                          /\ \A g \in ToSet(downlink'[d]) : FrameOK(g)'
                          /\ hydrated'[d] \/ downlink'[d] # <<>> => online'[d]
    BY <1>2, <1>3, <1>9, <2>1, WiredSends DEF SInv
  <2>3. \A d \in Client : \A x \in ToSet(Line(d)') : x.node = d
    BY <1>8 DEF SInv, Wired
  <2>4. \A d \in Client : SendingOK(sending[d])'
    BY <1>2, <1>3 DEF SInv, Wired, SendingOK
  <2> QED BY <1>1, <1>2, <1>3, <1>6, <1>9, <2>2, <2>3, <2>4 DEF SInv, Wired, PerClient
<1>11. ASSUME NEW d \in Client
       PROVE  /\ downlink[d] \in Seq(ToSet(downlink[d]))
              /\ Brings(UpdateOf(e)) = {e}
              /\ \A p, B : MayApply(p, UpdateOf(e), B) <=> p[e] \subseteq B
              /\ d \in Peers(c) => Coming(downlink'[d]) = Coming(downlink[d]) \cup {e}
  <2>1. downlink[d] \in Seq(ToSet(downlink[d]))
    BY DEF SInv, Wired
  <2>2. Brings(UpdateOf(e)) = {e} /\ \A p, B : MayApply(p, UpdateOf(e), B) <=> p[e] \subseteq B
    BY DEF UpdateOf, Brings, MayApply
  <2>3. d \in Peers(c) => Coming(downlink'[d]) = Coming(downlink[d]) \cup {e}
    BY <1>9, <2>1, <2>2, AppendFrame
  <2> QED BY <2>1, <2>2, <2>3
<1>12. LogCovers'
  <2> SUFFICES ASSUME NEW d \in Client
               PROVE  /\ \A x \in known[d] : x.node = d \/ x \in ToSet(log')
                      /\ Coming(downlink'[d]) \subseteq ToSet(log')
                      /\ online[d] => ToSet(log') \subseteq known[d] \cup Coming(downlink'[d])
    BY <1>2, <1>3 DEF LogCovers
  <2>1. /\ \A x \in known[d] : x.node = d \/ x \in ToSet(log)
        /\ Coming(downlink[d]) \subseteq ToSet(log)
        /\ online[d] => ToSet(log) \subseteq known[d] \cup Coming(downlink[d])
    BY <1>4 DEF LogCovers
  <2>2. CASE d \in Peers(c)
    BY <1>6, <1>11, <2>1, <2>2
  <2>3. CASE d \notin Peers(c)
    <3>1. downlink'[d] = downlink[d]
      BY <1>9, <2>3
    <3>2. online[d] => d = c
      BY <2>3 DEF Peers
    <3>3. e \in known[c]
      BY <1>1, <1>8 DEF SInv, HInv
    <3> QED BY <1>6, <2>1, <3>1, <3>2, <3>3
  <2> QED BY <2>2, <2>3
<1>13. ASSUME lost = {} PROVE LogOrdered'
  <2>1. LogOrdered
    BY <1>4, <1>13
  <2> DEFINE t == <<e>>
  <2>2. t \in Seq(net) /\ ToSet(t) = {e} /\ \A p, B : Ordered(p, t, B) <=> p[e] \subseteq B
    BY <1>1, OneMember
  <2>3. Ordered(past, Join(t, b), ToSet(log))
    BY <1>1, <2>1 DEF LogOrdered
  <2> HIDE DEF t, b
  <2>4. past[e] \subseteq ToSet(log) /\ Ordered(past, b, ToSet(log) \cup {e})
    BY <1>1, <2>2, <2>3, Joined
  <2>5. Ordered(past, log', {})
    <3>1. past[e] \subseteq {} \cup ToSet(log)
      BY <2>4
    <3> QED BY <1>1, <1>4, <1>5, <2>1, <3>1, OneMore DEF LogOrdered
  <2>6. ASSUME NEW d \in Client PROVE Ordered(past, Line(d)', ToSet(log'))
    <3>1. CASE d = c
      BY <1>6, <2>4, <3>1 DEF b
    <3>2. CASE d # c
      <4>1. Line(d) \in Seq(net) /\ Ordered(past, Line(d), ToSet(log))
        BY <2>1, LineParts DEF LogOrdered, SInv
      <4>2. Ordered(past, Line(d), ToSet(log'))
        BY <1>6, <4>1, OrderedGrows
      <4> QED BY <1>1, <3>2, <4>2
    <3> QED BY <3>1, <3>2
  <2>7. ASSUME NEW d \in Client PROVE Ready(past, downlink'[d], known[d])
    <3>1. Ready(past, downlink[d], known[d])
      BY <2>1 DEF LogOrdered
    <3>2. CASE d \in Peers(c)
      <4>1. ToSet(log) \subseteq known[d] \cup Coming(downlink[d])
        BY <1>4, <3>2 DEF LogCovers, Peers
      <4>2. MayApply(past, UpdateOf(e), known[d] \cup Coming(downlink[d]))
        BY <1>11, <2>4, <4>1
      <4> QED BY <1>9, <1>11, <3>1, <3>2, <4>2, AppendFrame
    <3>3. CASE d \notin Peers(c)
      BY <1>9, <3>1, <3>3
    <3> QED BY <3>2, <3>3
  <2> QED BY <1>2, <1>3, <2>1, <2>5, <2>6, <2>7 DEF LogOrdered
<1>14. HInv'
  BY <1>2, HNext DEF SInv
<1> QED BY <1>2, <1>8, <1>10, <1>12, <1>13, <1>14 DEF SInv, Logs
LEMMA SRelayApplies ==
    ASSUME SInv, NEW c \in Client, RelayReceive(c), relay # "ts"
    PROVE  SInv'
<1> DEFINE e == Head(uplink[c])  b == Line(c)'
<1>1. /\ e \in net /\ <<e>> \in Seq(net) /\ b \in Seq(net) /\ Line(c) = Join(<<e>>, b)
      /\ \A d \in Client : d # c => Line(d)' = Line(d)
      /\ uplink' \in [Client -> Seq(net)]
  BY LineMoves
<1>2. /\ ApplyEnvelope(Server, e)
      /\ sending' = [sending EXCEPT ![c] =
              IF Peers(c) = {} THEN NotSending ELSE [peers |-> Peers(c), env |-> e]]
      /\ UNCHANGED <<log, downlink, api, relay, online, hydrated, lost>>
  BY DEF RelayReceive, RelayApplies, Apply
<1>3. /\ known' = [known EXCEPT ![Server] = known[Server] \cup {e}]
      /\ UNCHANGED <<net, past>>
  BY <1>2 DEF ApplyEnvelope
<1>4. UNCHANGED <<proxied, queued, pending>>
  BY <1>2 DEF api
<1> HIDE DEF e
<1>5. Server \in Node
  BY RelayAssumption
<1>6. HInv'
  BY <1>1, <1>2, <1>5, HReceive DEF SInv
<1>7. AtRelay' = AtRelay \cup {e}
  BY <1>2, <1>3, <1>5 DEF AtRelay, SInv, HInv
<1>8. /\ Accounted'
      /\ \A d \in Client : ToSet(Line(d)') \subseteq ToSet(Line(d))
  BY <1>1, <1>2, <1>3, <1>7, SArrives
<1>9. /\ PerClient(sending')
      /\ sending'[c] = IF Peers(c) = {} THEN NotSending ELSE [peers |-> Peers(c), env |-> e]
      /\ \A d \in Client : d # c => sending'[d] = sending[d]
  BY <1>2 DEF PerClient, SInv, Wired
<1>10. Wired'
  <2>1. ASSUME NEW d \in Client PROVE SendingOK(sending[d])'
    <3>1. CASE d = c
      <4>1. relay = "rust" /\ Peers(c) \subseteq {x \in Client : online[x]}
        BY DEF SInv, Wired, Peers
      <4> QED BY <1>1, <1>2, <1>3, <1>9, <3>1, <4>1 DEF SendingOK
    <3>2. CASE d # c
      <4>1. SendingOK(sending[d]) /\ sending'[d] = sending[d]
        BY <1>9, <3>2 DEF SInv, Wired
      <4> QED BY <1>2, <1>3, <4>1 DEF SendingOK
    <3> QED BY <3>1, <3>2
  <2>2. \A d \in Client : \A x \in ToSet(Line(d)') : x.node = d
    BY <1>8 DEF SInv, Wired
  <2>3. \A d \in Client : \A f \in ToSet(downlink'[d]) : FrameOK(f)'
    BY <1>2, <1>3 DEF SInv, Wired, FrameOK, Covers, UpdateOf
  <2> QED BY <1>1, <1>2, <1>3, <1>4, <1>9, <2>1, <2>2, <2>3 DEF SInv, Wired, PerClient
<1> QED BY <1>2, <1>6, <1>8, <1>10 DEF SInv, Logs

LEMMA SRelaySend ==
    ASSUME SInv, NEW c \in Client, RelaySend(c)
    PROVE  SInv'
<1> DEFINE s == sending[c]
<1>1. PICK d \in s.peers :
        /\ downlink' = [downlink EXCEPT ![d] = Append(downlink[d], UpdateOf(s.env))]
        /\ sending' = [sending EXCEPT ![c] =
                IF s.peers = {d} THEN NotSending ELSE [peers |-> s.peers \ {d}, env |-> s.env]]
        /\ UNCHANGED <<vars, api, relay, log, online, hydrated, uplink, ghosts>>
  BY DEF RelaySend
<1>2. /\ relay = "rust" /\ s = [peers |-> s.peers, env |-> s.env]
      /\ s.peers \subseteq {x \in Client : online[x]} /\ s.env \in net
  <2>1. s # NotSending
    BY <1>1 DEF NotSending
  <2> QED BY <2>1 DEF SInv, Wired, SendingOK
<1>3. UNCHANGED <<net, known, past, proxied, queued, pending, lost, relay, log, online,
                  hydrated, uplink>>
  BY <1>1 DEF vars, api, ghosts
<1>4. /\ PerClient(sending')
      /\ sending'[c] = IF s.peers = {d} THEN NotSending
                       ELSE [peers |-> s.peers \ {d}, env |-> s.env]
      /\ \A x \in Client : x # c => sending'[x] = sending[x]
  <2> HIDE DEF s
  <2> QED BY <1>1 DEF PerClient, SInv, Wired
<1> HIDE DEF s
<1>5. /\ PerClient(downlink')
      /\ \A x \in Client : downlink'[x] =
            IF x \in {d} THEN Append(downlink[x], UpdateOf(s.env)) ELSE downlink[x]
  BY <1>1, <1>2 DEF PerClient, SInv, Wired
<1>6. FrameOK(UpdateOf(s.env)) /\ {d} \subseteq {x \in Client : online[x]}
  BY <1>1, <1>2 DEF FrameOK, UpdateOf
<1>7. \A x \in Client : /\ downlink'[x] \in Seq(ToSet(downlink'[x]))
                        /\ \A g \in ToSet(downlink'[x]) : FrameOK(g)'
                        /\ hydrated'[x] \/ downlink'[x] # <<>> => online'[x]
  BY <1>1, <1>3, <1>5, <1>6, WiredSends DEF SInv
<1>8. \A x \in Client : Line(x)' = Line(x)
  BY <1>1, <1>3 DEF Line
<1>9. Wired'
  <2>1. ASSUME NEW x \in Client PROVE SendingOK(sending[x])'
    <3>1. CASE x = c
      BY <1>1, <1>2, <1>3, <1>4, <3>1 DEF SendingOK
    <3>2. CASE x # c
      <4>1. SendingOK(sending[x]) /\ sending'[x] = sending[x]
        BY <1>4, <3>2 DEF SInv, Wired
      <4> QED BY <1>3, <4>1 DEF SendingOK
    <3> QED BY <3>1, <3>2
  <2> QED BY <1>3, <1>4, <1>5, <1>7, <1>8, <2>1 DEF SInv, Wired, PerClient
<1>10. Accounted'
  <2>1. AtRelay' = AtRelay /\ \A e \in net : e.node \in Client
    BY <1>1, <1>3 DEF AtRelay, SInv, Wired
  <2> QED BY <1>3, <1>8, <2>1 DEF SInv, Accounted
<1>11. HInv'
  BY <1>1, HNext DEF SInv
<1> QED BY <1>1, <1>2, <1>9, <1>10, <1>11 DEF SInv, Logs
-----------------------------------------------------------------------------
(* A frame arrives.                                                        *)

\* Client c has learned K from its first frame, and gs is still to come.
LEMMA SLearns ==
    ASSUME SInv, HInv', NEW c \in Client, downlink[c] # <<>>, NEW K, NEW gs,
           gs \in Seq(ToSet(gs)), \A g \in ToSet(gs) : FrameOK(g),
           downlink' = [downlink EXCEPT ![c] = gs],
           known' = [known EXCEPT ![c] = known[c] \cup K],
           hydrated' \in [Client -> BOOLEAN], \A d \in Client : d # c => hydrated'[d] = hydrated[d],
           UNCHANGED <<net, past, relay, log, sending, online, uplink, proxied, queued, pending, lost>>,
           relay = "ts" =>
              /\ Coming(downlink[c]) = K \cup Coming(gs)
              /\ LogOrdered => (Ready(past, gs, known[c] \cup K) /\ disordered' = disordered)
    PROVE  SInv'
<1>1. /\ PerClient(downlink') /\ downlink'[c] = gs
      /\ \A d \in Client : d # c => downlink'[d] = downlink[d]
  BY DEF PerClient, SInv, Wired
<1>2. /\ known'[c] = known[c] \cup K /\ known'[Server] = known[Server]
      /\ \A d \in Client : d # c => known'[d] = known[d]
  <2>1. c \in Node /\ Client \subseteq Node /\ Server \in Node /\ c # Server
    BY ClientAssumption, RelayAssumption
  <2> QED BY <2>1 DEF SInv, HInv
<1>3. \A d \in Client : Line(d)' = Line(d)
  BY DEF Line
<1>4. online[c]
  BY DEF SInv, Wired
<1>5. Wired'
  <2>1. ASSUME NEW d \in Client
        PROVE  /\ downlink'[d] \in Seq(ToSet(downlink'[d]))
               /\ \A f \in ToSet(downlink'[d]) : FrameOK(f)'
               /\ hydrated'[d] \/ downlink'[d] # <<>> => online'[d]
    <3>1. \A f : FrameOK(f) => FrameOK(f)'
      BY DEF FrameOK, Covers, UpdateOf
    <3>2. CASE d = c
      BY <1>1, <1>4, <3>1, <3>2
    <3>3. CASE d # c
      BY <1>1, <3>1, <3>3 DEF SInv, Wired
    <3> QED BY <3>2, <3>3
  <2>2. \A d \in Client : SendingOK(sending[d])'
    BY DEF SInv, Wired, SendingOK
  <2> QED BY <1>1, <1>3, <2>1, <2>2 DEF SInv, Wired, PerClient
<1>6. Accounted'
  <2>1. AtRelay' = AtRelay /\ \A e \in net : e.node \in Client
    BY <1>2 DEF AtRelay, SInv, Wired
  <2> QED BY <1>3, <2>1 DEF SInv, Accounted
<1>7. Logs'
  <2> SUFFICES ASSUME relay = "ts" PROVE LogCovers' /\ (lost = {} => LogOrdered')
    BY DEF Logs
  <2>1. LogCovers /\ (lost = {} => LogOrdered) /\ Coming(downlink[c]) = K \cup Coming(gs)
    BY DEF SInv, Logs
  <2>2. LogCovers'
    <3> SUFFICES ASSUME NEW d \in Client
                 PROVE  /\ \A x \in known'[d] : x.node = d \/ x \in ToSet(log)
                        /\ Coming(downlink'[d]) \subseteq ToSet(log)
                        /\ online[d] => ToSet(log) \subseteq known'[d] \cup Coming(downlink'[d])
      BY DEF LogCovers
    <3>1. /\ \A x \in known[d] : x.node = d \/ x \in ToSet(log)
          /\ Coming(downlink[d]) \subseteq ToSet(log)
          /\ online[d] => ToSet(log) \subseteq known[d] \cup Coming(downlink[d])
      BY <2>1 DEF LogCovers
    <3>2. CASE d = c
      BY <1>1, <1>2, <2>1, <3>1, <3>2
    <3>3. CASE d # c
      BY <1>1, <1>2, <3>1, <3>3
    <3> QED BY <3>2, <3>3
  <2>3. ASSUME lost = {} PROVE LogOrdered'
    <3>1. LogOrdered /\ Ready(past, gs, known[c] \cup K) /\ disordered' = disordered
      BY <2>1, <2>3
    <3> QED BY <1>1, <1>2, <1>3, <3>1 DEF LogOrdered
  <2> QED BY <2>2, <2>3
<1> QED BY <1>5, <1>6, <1>7 DEF SInv

\* The frame that a client receives.
LEMMA FirstOK ==
    ASSUME SInv, NEW c \in Client, downlink[c] # <<>>
    PROVE  /\ FrameOK(downlink[c][1])
           /\ Tail(downlink[c]) \in Seq(ToSet(Tail(downlink[c])))
           /\ \A g \in ToSet(Tail(downlink[c])) : FrameOK(g)
           /\ Coming(downlink[c]) = Brings(downlink[c][1]) \cup Coming(Tail(downlink[c]))
           /\ \A p, B : Ready(p, downlink[c], B) =>
                  /\ MayApply(p, downlink[c][1], B)
                  /\ Ready(p, Tail(downlink[c]), B \cup Brings(downlink[c][1]))
<1> DEFINE fs == downlink[c]
<1>1. fs \in Seq(ToSet(fs)) /\ fs # <<>> /\ \A f \in ToSet(fs) : FrameOK(f)
  BY DEF SInv, Wired
<1> HIDE DEF fs
<1>2. Tail(fs) \in Seq(ToSet(Tail(fs)))
  BY <1>1, FirstFrame
<1>3. ToSet(fs) = {fs[1]} \cup ToSet(Tail(fs))
  BY <1>1, FirstFrame
<1>4. Coming(fs) = Brings(fs[1]) \cup Coming(Tail(fs))
  BY <1>1, FirstFrame
<1>5. \A p, B : Ready(p, fs, B) => /\ MayApply(p, fs[1], B)
                                   /\ Ready(p, Tail(fs), B \cup Brings(fs[1]))
  BY <1>1, FirstFrame
<1>6. FrameOK(fs[1]) /\ \A g \in ToSet(Tail(fs)) : FrameOK(g)
  BY <1>1, <1>3
<1> QED BY <1>2, <1>4, <1>5, <1>6 DEF fs

LEMMA SReceiveUpdate ==
    ASSUME SInv, NEW c \in Client, Receives(c), ReceiveUpdate(c)
    PROVE  SInv'
<1> DEFINE f == downlink[c][1]  gs == Tail(downlink[c])
<1>1. /\ f.type = "UPDATE" /\ ApplyEnvelope(c, f.data) /\ downlink[c] # <<>>
      /\ disordered' = disordered \cup (IF past[f.data] \subseteq known[c] THEN {} ELSE {c})
      /\ downlink' = [downlink EXCEPT ![c] = gs]
      /\ UNCHANGED <<hydrated, api, relay, log, sending, online, uplink, lost>>
  BY DEF ReceiveUpdate, Received, Apply, Receives
<1>2. /\ FrameOK(f) /\ gs \in Seq(ToSet(gs)) /\ \A g \in ToSet(gs) : FrameOK(g)
      /\ Coming(downlink[c]) = Brings(f) \cup Coming(gs)
      /\ \A p, B : Ready(p, downlink[c], B) => /\ MayApply(p, f, B)
                                               /\ Ready(p, gs, B \cup Brings(f))
  BY <1>1, FirstOK
<1> HIDE DEF f, gs
<1>3. f.data \in net /\ c \in Node
  BY <1>1, <1>2, ClientAssumption DEF FrameOK
<1>4. HInv'
  BY <1>1, <1>3, HReceive DEF SInv
<1>5. /\ known' = [known EXCEPT ![c] = known[c] \cup {f.data}]
      /\ UNCHANGED <<net, past, proxied, queued, pending>>
  BY <1>1 DEF ApplyEnvelope, api
<1>6. Brings(f) = {f.data} /\ \A p, B : MayApply(p, f, B) <=> p[f.data] \subseteq B
  BY <1>1 DEF Brings, MayApply
<1>7. ASSUME LogOrdered
      PROVE  Ready(past, gs, known[c] \cup {f.data}) /\ disordered' = disordered
  <2>1. Ready(past, downlink[c], known[c])
    BY <1>7 DEF LogOrdered
  <2>2. past[f.data] \subseteq known[c] /\ Ready(past, gs, known[c] \cup {f.data})
    BY <1>2, <1>6, <2>1
  <2> QED BY <1>1, <2>2
<1>8. hydrated' \in [Client -> BOOLEAN] /\ hydrated' = hydrated
  BY <1>1 DEF SInv, Wired
<1> QED BY <1>1, <1>2, <1>4, <1>5, <1>6, <1>7, <1>8, SLearns

LEMMA SReceiveLogEnd ==
    ASSUME SInv, NEW c \in Client, Receives(c), ReceiveLogEnd(c)
    PROVE  SInv'
<1> DEFINE f == downlink[c][1]  gs == Tail(downlink[c])
<1>1. /\ f.type = "SNAPSHOT" /\ relay = "ts" /\ f.data = <<>> /\ downlink[c] # <<>>
      /\ downlink' = [downlink EXCEPT ![c] = gs]
      /\ hydrated' = [hydrated EXCEPT ![c] = TRUE]
      /\ UNCHANGED <<vars, disordered, api, relay, log, sending, online, uplink, lost>>
  BY DEF ReceiveLogEnd, Received, Receives
<1>2. /\ gs \in Seq(ToSet(gs)) /\ \A g \in ToSet(gs) : FrameOK(g)
      /\ Coming(downlink[c]) = Brings(f) \cup Coming(gs)
      /\ \A p, B : Ready(p, downlink[c], B) => /\ MayApply(p, f, B)
                                               /\ Ready(p, gs, B \cup Brings(f))
  BY <1>1, FirstOK
<1> HIDE DEF f, gs
<1>3. Brings(f) = {}
  BY <1>1, NoFrames DEF Brings
<1>4. HInv'
  BY <1>1, HNext DEF SInv
<1>5. UNCHANGED <<net, known, past, proxied, queued, pending>>
  BY <1>1 DEF vars, api
<1>6. known' = [known EXCEPT ![c] = known[c] \cup {}]
  BY <1>5 DEF SInv, HInv
<1>7. LogOrdered => Ready(past, gs, known[c] \cup {})
  BY <1>2, <1>3 DEF LogOrdered
<1>8. /\ hydrated' \in [Client -> BOOLEAN]
      /\ \A d \in Client : d # c => hydrated'[d] = hydrated[d]
  BY <1>1 DEF SInv, Wired
<1> QED BY <1>1, <1>2, <1>3, <1>4, <1>5, <1>6, <1>7, <1>8, SLearns

LEMMA SReceiveStore ==
    ASSUME SInv, NEW c \in Client, Receives(c), ReceiveStore(c)
    PROVE  SInv'
<1> DEFINE f == downlink[c][1]  gs == Tail(downlink[c])
<1>1. /\ f.type = "SNAPSHOT" /\ relay = "rust" /\ downlink[c] # <<>>
      /\ Merge(c, f.data)
      /\ downlink' = [downlink EXCEPT ![c] = gs]
      /\ hydrated' = [hydrated EXCEPT ![c] = TRUE]
      /\ UNCHANGED <<api, relay, log, sending, online, uplink, lost>>
  BY DEF ReceiveStore, Received, Receives
<1>2. FrameOK(f) /\ gs \in Seq(ToSet(gs)) /\ \A g \in ToSet(gs) : FrameOK(g)
  BY <1>1, FirstOK
<1> HIDE DEF f, gs
<1>3. Covers(f.data.clock, f.data.known) /\ c \in Node
  BY <1>1, <1>2, ClientAssumption DEF FrameOK
<1>4. /\ UpdateClock(c, f.data.clock) /\ UNCHANGED <<net, snapshot, past, proxied, queued, pending>>
      /\ known' = [known EXCEPT ![c] = known[c] \cup f.data.known]
  BY <1>1 DEF Merge, api
<1>5. HInv'
  BY <1>3, <1>4, HLearn DEF SInv
<1>6. /\ hydrated' \in [Client -> BOOLEAN]
      /\ \A d \in Client : d # c => hydrated'[d] = hydrated[d]
  BY <1>1 DEF SInv, Wired
<1> QED BY <1>1, <1>2, <1>4, <1>5, <1>6, SLearns

\* What is left of a log of which one envelope has been applied.
Rest(f) == [type |-> "SNAPSHOT", begun |-> TRUE, data |-> Tail(f.data)]

LEMMA LoggedFrame ==
    ASSUME SInv, NEW c \in Client, downlink[c] # <<>>, ReceiveLogged(c)
    PROVE  /\ relay = "ts" /\ downlink[c][1].type = "SNAPSHOT"
           /\ downlink[c][1].data \in Seq(net) /\ downlink[c][1].data # <<>>
           /\ Head(downlink[c][1].data) \in net
           /\ Rest(downlink[c][1]).type # "UPDATE"
           /\ Brings(downlink[c][1]) = {Head(downlink[c][1].data)} \cup Brings(Rest(downlink[c][1]))
           /\ downlink' = [downlink EXCEPT ![c] = [downlink[c] EXCEPT ![1] = Rest(downlink[c][1])]]
<1> DEFINE fs == downlink[c]
           g  == Rest(fs[1])
           gs == [fs EXCEPT ![1] = g]
           f1 == [fs[1] EXCEPT !.data = Tail(fs[1].data)]
           fs1 == [fs EXCEPT ![1] = f1]
           D1 == [downlink EXCEPT ![c] = fs1]
<1>1. fs[1].type = "SNAPSHOT" /\ relay = "ts" /\ fs[1].data # <<>> /\ fs # <<>>
  BY DEF ReceiveLogged
<1>2. FrameOK(fs[1]) /\ fs \in Seq(ToSet(fs))
  BY <1>1, FirstOK DEF SInv, Wired
<1>3. fs[1] = [type |-> "SNAPSHOT", begun |-> fs[1].begun, data |-> fs[1].data]
      /\ fs[1].data \in Seq(net)
  BY <1>1, <1>2 DEF FrameOK
<1>4. downlink' = [D1 EXCEPT ![c] = [D1[c] EXCEPT ![1] = [D1[c][1] EXCEPT !.begun = TRUE]]]
  BY DEF ReceiveLogged
<1>5. [f1 EXCEPT !.begun = TRUE] = g
  <2> DEFINE x == fs[1]  t == TRUE  r == Tail(x.data)
  <2>1. \E b, z : x = [type |-> "SNAPSHOT", begun |-> b, data |-> z]
    BY <1>3
  <2> HIDE DEF x, t, r
  <2>2. PICK b, z : x = [type |-> "SNAPSHOT", begun |-> b, data |-> z]
    BY <2>1
  <2> DEFINE y == [x EXCEPT !.data = r]
  <2>3. y = [type |-> "SNAPSHOT", begun |-> b, data |-> r]
    BY <2>2
  <2> HIDE DEF y
  <2>4. [y EXCEPT !.begun = t] = [type |-> "SNAPSHOT", begun |-> t, data |-> r]
    BY <2>3
  <2> QED BY <2>4 DEF x, t, r, y, Rest
<1>6. DOMAIN downlink = Client /\ downlink = [d \in Client |-> downlink[d]]
  BY DEF SInv, Wired, PerClient
<1>7. 1 \in DOMAIN fs /\ fs = [i \in DOMAIN fs |-> fs[i]]
  BY <1>1, <1>2
<1>8. downlink' = [downlink EXCEPT ![c] = gs]
  <2> HIDE DEF f1, g, fs
  <2>1. fs1[1] = f1 /\ [fs1 EXCEPT ![1] = g] = gs
    BY <1>7
  <2> HIDE DEF fs1, gs
  <2>2. D1[c] = fs1
    BY <1>6
  <2>3. [D1 EXCEPT ![c] = gs] = [downlink EXCEPT ![c] = gs]
    BY <1>6
  <2> HIDE DEF D1
  <2> QED BY <1>4, <1>5, <2>1, <2>2, <2>3
<1>9. g.type = "SNAPSHOT" /\ g.data = Tail(fs[1].data)
  BY DEF Rest
<1>10. /\ Head(fs[1].data) \in net /\ Tail(fs[1].data) \in Seq(net)
       /\ fs[1].data = Join(<<Head(fs[1].data)>>, Tail(fs[1].data))
  BY <1>1, <1>3, JoinedFirst
<1>11. ToSet(fs[1].data) = {Head(fs[1].data)} \cup ToSet(Tail(fs[1].data))
  <2>1. PICK s : s = fs[1].data
    OBVIOUS
  <2>2. s \in Seq(net) /\ s # <<>>
    BY <1>1, <1>3, <2>1
  <2>3. ToSet(s) = {s[1]} \cup ToSet(Tail(s)) /\ s[1] = Head(s)
    BY <2>2, FirstFrame
  <2> QED BY <2>1, <2>3
<1>12. Brings(fs[1]) = {Head(fs[1].data)} \cup Brings(g)
  BY <1>1, <1>9, <1>11 DEF Brings
<1> QED BY <1>1, <1>3, <1>8, <1>9, <1>10, <1>12

\* The first envelope of a log, and the rest of it.
LEMMA SReceiveLogged ==
    ASSUME SInv, NEW c \in Client, Receives(c), ReceiveLogged(c)
    PROVE  SInv'
<1> DEFINE fs == downlink[c]
           h == Head(fs[1].data)
           g == [type |-> "SNAPSHOT", begun |-> TRUE, data |-> Tail(fs[1].data)]
           gs == [fs EXCEPT ![1] = g]
<1>1. /\ fs[1].type = "SNAPSHOT" /\ relay = "ts" /\ fs[1].data # <<>> /\ fs # <<>>
      /\ ApplyEnvelope(c, h)
      /\ disordered' = disordered \cup (IF past[h] \subseteq known[c] THEN {} ELSE {c})
      /\ UNCHANGED <<hydrated, api, relay, log, sending, online, uplink, lost>>
  BY DEF ReceiveLogged, Received, Apply, Receives
<1>2. FrameOK(fs[1]) /\ fs \in Seq(ToSet(fs)) /\ \A f \in ToSet(fs) : FrameOK(f)
  BY <1>1, FirstOK DEF SInv, Wired
<1>3. fs[1] = [type |-> "SNAPSHOT", begun |-> fs[1].begun, data |-> fs[1].data]
      /\ fs[1].data \in Seq(net)
  BY <1>1, <1>2 DEF FrameOK
<1>4. downlink' = [downlink EXCEPT ![c] = gs]
  BY <1>1, LoggedFrame DEF Rest
<1>5. /\ h \in net /\ Tail(fs[1].data) \in Seq(net) /\ <<h>> \in Seq(net)
      /\ fs[1].data = Join(<<h>>, Tail(fs[1].data))
  BY <1>1, <1>3, JoinedFirst
<1> DEFINE t == <<h>>  r == Tail(fs[1].data)
<1>6. t \in Seq(net) /\ ToSet(t) = {h} /\ \A p, B : Ordered(p, t, B) <=> p[h] \subseteq B
  BY <1>5, OneMember
<1>7. g.data = r /\ g.type = "SNAPSHOT" /\ FrameOK(g)
  BY <1>1, <1>5 DEF FrameOK
<1> HIDE DEF fs, h, g, gs, t
<1>8. /\ ToSet(fs[1].data) = {h} \cup ToSet(r)
      /\ \A p, B : Ordered(p, fs[1].data, B) => p[h] \subseteq B /\ Ordered(p, r, B \cup {h})
  <2> DEFINE z == fs[1].data
  <2>1. r \in Seq(net) /\ z = Join(t, r)
    BY <1>5 DEF t
  <2> HIDE DEF r, z
  <2>2. ToSet(z) = {h} \cup ToSet(r)
    BY <1>6, <2>1, Joined
  <2>3. \A p, B : Ordered(p, z, B) => p[h] \subseteq B /\ Ordered(p, r, B \cup {h})
    BY <1>6, <2>1, Joined
  <2> QED BY <2>2, <2>3 DEF z
<1>9. Brings(fs[1]) = {h} \cup Brings(g)
  BY <1>1, <1>7, <1>8 DEF Brings
<1>10. /\ gs \in Seq(ToSet(gs)) /\ ToSet(gs) \subseteq ToSet(fs) \cup {g}
       /\ Coming(fs) = {h} \cup Coming(gs)
       /\ \A p, B : (Ready(p, fs, B) /\ MayApply(p, g, B \cup {h})) => Ready(p, gs, B \cup {h})
  BY <1>1, <1>2, <1>9, ReplaceFirst DEF gs
<1>11. \A f \in ToSet(gs) : FrameOK(f)
  BY <1>2, <1>7, <1>10
<1>12. ASSUME LogOrdered
       PROVE  Ready(past, gs, known[c] \cup {h}) /\ disordered' = disordered
  <2>1. Ready(past, fs, known[c])
    BY <1>12 DEF LogOrdered, fs
  <2>2. MayApply(past, fs[1], known[c])
    BY <1>1, <2>1, FirstOK DEF fs
  <2>3. Ordered(past, fs[1].data, known[c])
    BY <1>1, <2>2 DEF MayApply
  <2>4. past[h] \subseteq known[c] /\ MayApply(past, g, known[c] \cup {h})
    BY <1>7, <1>8, <2>3 DEF MayApply
  <2> QED BY <1>1, <1>10, <2>1, <2>4
<1>13. HInv' /\ c \in Node
  BY <1>1, <1>5, HReceive, ClientAssumption DEF SInv
<1>14. /\ known' = [known EXCEPT ![c] = known[c] \cup {h}]
       /\ UNCHANGED <<net, past, proxied, queued, pending>>
  BY <1>1 DEF ApplyEnvelope, api
<1>15. hydrated' \in [Client -> BOOLEAN] /\ hydrated' = hydrated
  BY <1>1 DEF SInv, Wired
<1>16. downlink[c] # <<>> /\ Coming(downlink[c]) = {h} \cup Coming(gs)
  BY <1>1, <1>10 DEF fs
<1> QED BY <1>1, <1>4, <1>10, <1>11, <1>12, <1>13, <1>14, <1>15, <1>16, SLearns
-----------------------------------------------------------------------------
(* Every step.                                                             *)

LEMMA SInit == SyncInit => SInv
<1> SUFFICES ASSUME SyncInit PROVE SInv
  OBVIOUS
<1>1. HInv
  BY HInit DEF SyncInit
<1>2. /\ net = {} /\ log = <<>> /\ lost = {} /\ disordered = {} /\ relay \in {"ts", "rust"}
      /\ known = [n \in Node |-> {}] /\ past = [e \in {} |-> {}]
  BY RelayAssumption DEF SyncInit, Init
<1>3. AtRelay = {}
  <2>1. Server \in Node
    BY RelayAssumption
  <2> QED BY <1>2, <2>1, NoFrames DEF AtRelay
<1>4. \A c \in Client : /\ uplink[c] = <<>> /\ pending[c] = <<>> /\ queued[c] = <<>>
                        /\ downlink[c] = <<>> /\ sending[c] = NotSending
                        /\ known[c] = {}
  BY <1>2, ClientAssumption DEF SyncInit, InitApi
<1>5. \A c \in Client : Line(c) = <<>>
  <2>1. <<>> \in Seq({})
    OBVIOUS
  <2>2. Join(<<>>, Join(<<>>, <<>>)) = <<>>
    BY <2>1, JoinedNone
  <2> QED BY <1>4, <2>2 DEF Line
<1>6. Once(<<>>) /\ \A p, B : Ordered(p, <<>>, B)
  BY DEF Once, Ordered
<1>7. Wired
  BY <1>2, <1>4, <1>5, NoFrames DEF SyncInit, InitApi, Wired, PerClient, SendingOK
<1>8. Accounted
  BY <1>2, <1>3, <1>5, <1>6, NoFrames DEF Accounted
<1>9. Logs
  <2>1. LogCovers
    BY <1>2, <1>4, NoFrames DEF LogCovers
  <2>2. LogOrdered
    BY <1>2, <1>4, <1>5, <1>6, NoFrames DEF LogOrdered
  <2> QED BY <2>1, <2>2 DEF Logs
<1> QED BY <1>1, <1>7, <1>8, <1>9 DEF SInv

LEMMA SNext == SInv /\ [SyncNext]_allVars => SInv'
<1> SUFFICES ASSUME SInv, [SyncNext]_allVars PROVE SInv'
  OBVIOUS
<1>1. CASE UNCHANGED allVars
  <2>1. HInv'
    BY <1>1, HNext DEF SInv, allVars
  <2>2. \A d \in Client : Line(d)' = Line(d)
    BY <1>1 DEF allVars, api, wires, Line
  <2> QED BY <1>1, <2>1, <2>2, SLines DEF allVars, vars, api, wires, ghosts, SInv, Wired
<1>2. CASE SyncNext
  <2>1. PICK c \in Client : Call(c) \/ Connect(c) \/ Disconnect(c) \/ Works(c)
    BY <1>2 DEF SyncNext
  <2>2. CASE Call(c)
    BY <2>2, SCall
  <2>3. CASE Connect(c)
    BY <2>3, SConnect
  <2>4. CASE Disconnect(c)
    BY <2>4, SDisconnect
  <2>5. CASE Drains(c)
    BY <2>5, SDrains
  <2>6. CASE EndProxy(c)
    BY <2>6, SEndProxy
  <2>7. CASE Send(c)
    BY <2>7, SSend
  <2>8. CASE RelayReceive(c)
    BY <2>8, SRelayLogs, SRelayApplies
  <2>9. CASE RelaySend(c)
    BY <2>9, SRelaySend
  <2>10. CASE Receives(c)
    BY <2>10, SReceiveUpdate, SReceiveLogged, SReceiveLogEnd, SReceiveStore DEF Receives
  <2> QED BY <2>1, <2>2, <2>3, <2>4, <2>5, <2>6, <2>7, <2>8, <2>9, <2>10 DEF Works
<1> QED BY <1>1, <1>2
-----------------------------------------------------------------------------
(* What a sequence reflects.                                               *)

\* The ids that some envelopes insert into sequence k, and delete from it.
Inserted(envs, k) ==
    {e.op.id : e \in {x \in envs : x.kind = "Sequence" /\ x.key = k /\ IsInsert(x.op)}}
Removed(envs, k) ==
    {e.op.id : e \in {x \in envs : x.kind = "Sequence" /\ x.key = k /\ ~IsInsert(x.op)}}

\* A list has nothing but what these envelopes have made of it ...
Backed(seq, envs, k) == Ids(seq.nodes) \subseteq Inserted(envs, k) /\ Gone(seq) \subseteq Removed(envs, k)

\* ... and nothing else waits ...
Awaits(seq, envs, k) == {w.id : w \in ToSet(seq.pending)} \subseteq Inserted(envs, k)

\* ... or, it has all that they make of it.
Complete(seq, envs, k) == Inserted(envs, k) \subseteq Ids(seq.nodes) /\ Removed(envs, k) \subseteq Gone(seq)

LEMMA InsertedGrows ==
    /\ \A A, B, k : A \subseteq B => /\ Inserted(A, k) \subseteq Inserted(B, k)
                                     /\ Removed(A, k) \subseteq Removed(B, k)
    /\ \A A, B, k : /\ Inserted(A \cup B, k) = Inserted(A, k) \cup Inserted(B, k)
                    /\ Removed(A \cup B, k) = Removed(A, k) \cup Removed(B, k)
<1>1. \A A, B, k : A \subseteq B => /\ Inserted(A, k) \subseteq Inserted(B, k)
                                    /\ Removed(A, k) \subseteq Removed(B, k)
  BY DEF Inserted, Removed
<1>2. ASSUME NEW A, NEW B, NEW k
      PROVE  /\ Inserted(A \cup B, k) = Inserted(A, k) \cup Inserted(B, k)
             /\ Removed(A \cup B, k) = Removed(A, k) \cup Removed(B, k)
  <2>1. Inserted(A \cup B, k) \subseteq Inserted(A, k) \cup Inserted(B, k)
    BY DEF Inserted
  <2>2. Removed(A \cup B, k) \subseteq Removed(A, k) \cup Removed(B, k)
    BY DEF Removed
  <2> QED BY <1>1, <2>1, <2>2
<1> QED BY <1>1, <1>2

\* What one envelope adds.
LEMMA InsertedByOne ==
    ASSUME NEW e, NEW k
    PROVE  /\ Inserted({e}, k) = IF e.kind = "Sequence" /\ e.key = k /\ IsInsert(e.op)
                                 THEN {e.op.id} ELSE {}
           /\ Removed({e}, k) = IF e.kind = "Sequence" /\ e.key = k /\ ~IsInsert(e.op)
                                THEN {e.op.id} ELSE {}
<1>1. Inserted({e}, k) = IF e.kind = "Sequence" /\ e.key = k /\ IsInsert(e.op)
                         THEN {e.op.id} ELSE {}
  BY DEF Inserted
<1>2. Removed({e}, k) = IF e.kind = "Sequence" /\ e.key = k /\ ~IsInsert(e.op)
                         THEN {e.op.id} ELSE {}
  BY DEF Removed
<1> QED BY <1>1, <1>2

LEMMA GoneIs == \A s : Gone(s) = {x.id : x \in {y \in ToSet(s.nodes) : y.deleted}}
BY DEF Gone, ToSet

\* A list that applies an operation of these envelopes.
LEMMA BackedApply ==
    ASSUME NEW s \in RGAStates(RGAId), NEW envs, NEW e, NEW k,
           e.kind = "Sequence", e.key = k, e.op \in OpsOver(RGAId),
           Backed(s, envs, k), Awaits(s, envs, k)
    PROVE  /\ Backed(SeqApply(s, e.op), envs \cup {e}, k)
           /\ Awaits(SeqApply(s, e.op), envs \cup {e}, k)
           /\ (/\ Complete(s, envs, k)
               /\ IsInsert(e.op) => (e.op.after = Head0 \/ e.op.after \in Inserted(envs, k))
               /\ ~IsInsert(e.op) => e.op.id \in Inserted(envs, k))
                    => Complete(SeqApply(s, e.op), envs \cup {e}, k)
<1>1. PICK op : op = e.op
  OBVIOUS
<1>2. PICK t : t = SeqApply(s, op)
  OBVIOUS
<1>3. op.id.clock \in Nat
  BY <1>1, RGAIdsHaveClocks DEF OpsOver, WaitingOf, DeletesOf
<1>4. Applied(s, op, t)
  BY <1>1, <1>2, <1>3, ApplyApplies
<1>5. /\ Inserted(envs \cup {e}, k) = Inserted(envs, k) \cup (IF IsInsert(op) THEN {op.id} ELSE {})
      /\ Removed(envs \cup {e}, k) = Removed(envs, k) \cup (IF IsInsert(op) THEN {} ELSE {op.id})
  <2>1. PICK one : one = {e}
    OBVIOUS
  <2>2. /\ Inserted(one, k) = (IF IsInsert(op) THEN {op.id} ELSE {})
        /\ Removed(one, k) = (IF IsInsert(op) THEN {} ELSE {op.id})
    BY <1>1, <2>1, InsertedByOne
  <2>3. /\ Inserted(envs \cup one, k) = Inserted(envs, k) \cup Inserted(one, k)
        /\ Removed(envs \cup one, k) = Removed(envs, k) \cup Removed(one, k)
    BY InsertedGrows
  <2> QED BY <2>1, <2>2, <2>3
<1>6. Ids(t.nodes) \subseteq Inserted(envs \cup {e}, k)
  <2>1. ASSUME NEW i \in Ids(t.nodes) \ Ids(s.nodes) PROVE i \in Inserted(envs \cup {e}, k)
    <3>1. PICK w \in ToSet(s.pending) \cup {op} : IsInsert(w) /\ w.id = i
      BY <1>4 DEF Applied
    <3>2. CASE w = op
      BY <1>5, <3>1, <3>2
    <3>3. CASE w \in ToSet(s.pending)
      BY <1>5, <3>1, <3>3 DEF Awaits
    <3> QED BY <3>1, <3>2, <3>3
  <2> QED BY <1>5, <2>1 DEF Backed
<1>7. Gone(t) \subseteq Removed(envs \cup {e}, k)
  <2>1. ASSUME NEW x \in ToSet(t.nodes), x.deleted PROVE x.id \in Removed(envs \cup {e}, k)
    <3>1. x \in ToSet(s.nodes) \/ (~IsInsert(op) /\ x.id = op.id)
      BY <1>4, <2>1 DEF Applied
    <3>2. CASE x \in ToSet(s.nodes)
      <4>1. x.id \in Gone(s)
        BY <2>1, <3>2, GoneIs
      <4> QED BY <1>5, <4>1 DEF Backed
    <3>3. CASE ~IsInsert(op) /\ x.id = op.id
      BY <1>5, <3>3
    <3> QED BY <3>1, <3>2, <3>3
  <2> QED BY <2>1, GoneIs
<1>8. Awaits(t, envs \cup {e}, k)
  <2>1. ToSet(t.pending) \subseteq ToSet(s.pending) \cup {x \in {op} : IsInsert(x)}
    BY <1>4 DEF Applied
  <2>2. ASSUME NEW w \in ToSet(t.pending) PROVE w.id \in Inserted(envs \cup {e}, k)
    <3>1. CASE w = op /\ IsInsert(op)
      BY <1>5, <3>1
    <3>2. CASE w \in ToSet(s.pending)
      BY <1>5, <3>2 DEF Awaits
    <3> QED BY <2>1, <3>1, <3>2
  <2> QED BY <2>2 DEF Awaits
<1>9. ASSUME Complete(s, envs, k),
             IsInsert(op) => (op.after = Head0 \/ op.after \in Inserted(envs, k)),
             ~IsInsert(op) => op.id \in Inserted(envs, k)
      PROVE  Complete(t, envs \cup {e}, k)
  <2>1. Inserted(envs, k) \subseteq Ids(t.nodes)
    BY <1>4, <1>9 DEF Complete, Applied
  <2>2. Removed(envs, k) \subseteq Gone(t)
    BY <1>4, <1>9, GoneIs DEF Complete, Applied
  <2>3. CASE IsInsert(op)
    <3>1. CanPlace(s.nodes, op)
      BY <1>9, <2>3 DEF CanPlace, Complete
    <3>2. op.id \in Ids(t.nodes)
      BY <1>4, <2>3, <3>1 DEF Applied
    <3> QED BY <1>5, <2>1, <2>2, <2>3, <3>2 DEF Complete
  <2>4. CASE ~IsInsert(op)
    <3>1. op.id \in Ids(s.nodes)
      BY <1>9, <2>4 DEF Complete
    <3>2. op.id \in Gone(t)
      BY <1>4, <2>4, <3>1, GoneIs DEF Applied
    <3> QED BY <1>5, <2>1, <2>2, <2>4, <3>2 DEF Complete
  <2> QED BY <2>3, <2>4
<1> QED BY <1>1, <1>2, <1>6, <1>7, <1>8, <1>9 DEF Backed

\* A list that merges another one.
LEMMA BackedMerge ==
    ASSUME NEW s \in RGAStates(RGAId), NEW o \in RGAStates(RGAId), Counted(o),
           NEW envs, NEW more, NEW k,
           Backed(s, envs, k), Awaits(s, envs, k), Backed(o, more, k)
    PROVE  /\ Backed(SeqMerge(s, o), envs \cup more, k)
           /\ Awaits(SeqMerge(s, o), envs \cup more, k)
           /\ Complete(s, envs, k) /\ Complete(o, more, k)
                    => Complete(SeqMerge(s, o), envs \cup more, k)
<1>1. PICK t : t = SeqMerge(s, o)
  OBVIOUS
<1>2. Merged(s, o, t)
  BY <1>1, RGAIdsHaveClocks, MergeMerges
<1>3. /\ Inserted(envs \cup more, k) = Inserted(envs, k) \cup Inserted(more, k)
      /\ Removed(envs \cup more, k) = Removed(envs, k) \cup Removed(more, k)
  BY InsertedGrows
<1>4. Ids(t.nodes) \subseteq Inserted(envs \cup more, k)
  <2>1. \A id \in Ids(t.nodes) \ (Ids(s.nodes) \cup Ids(o.nodes)) : id \in {w.id : w \in ToSet(s.pending)}
    BY <1>2 DEF Merged
  <2>2. Ids(t.nodes) \subseteq Inserted(envs, k) \cup Inserted(more, k)
    BY <2>1 DEF Backed, Awaits
  <2> QED BY <1>3, <2>2
<1>5. Gone(t) \subseteq Removed(envs \cup more, k)
  <2>1. ASSUME NEW x \in ToSet(t.nodes), x.deleted PROVE x.id \in Gone(s) \cup Gone(o)
    <3>1. x \in ToSet(s.nodes) \/ x.id \in Gone(o)
      BY <1>2, <2>1 DEF Merged
    <3> QED BY <2>1, <3>1, GoneIs
  <2>2. Gone(t) \subseteq Gone(s) \cup Gone(o)
    BY <2>1, GoneIs
  <2> QED BY <1>3, <2>2 DEF Backed
<1>6. Awaits(t, envs \cup more, k)
  BY <1>2, <1>3 DEF Merged, Awaits
<1>7. ASSUME Complete(s, envs, k), Complete(o, more, k)
      PROVE  Complete(t, envs \cup more, k)
  <2>1. Inserted(envs \cup more, k) \subseteq Ids(t.nodes)
    BY <1>2, <1>3, <1>7 DEF Complete, Merged
  <2>2. Gone(s) \subseteq Gone(t)
    BY <1>2, GoneIs DEF Merged
  <2>3. Gone(o) \subseteq Gone(t)
    <3>1. \A x \in ToSet(t.nodes) : x.id \in Gone(o) => x.deleted
      BY <1>2 DEF Merged
    <3>2. Gone(o) \subseteq Ids(o.nodes)
      BY DEF Gone, Ids
    <3>3. Gone(o) \subseteq Ids(t.nodes)
      BY <1>2, <3>2 DEF Merged
    <3> QED BY <3>1, <3>3, GoneIs DEF Ids, ToSet
  <2> QED BY <1>3, <1>7, <2>1, <2>2, <2>3 DEF Complete
<1> QED BY <1>1, <1>4, <1>5, <1>6, <1>7 DEF Backed

\* An operation on a sequence refers to what its producer knew.
Grounded(e) ==
    e.kind = "Sequence" =>
        IF IsInsert(e.op) THEN e.op.after = Head0 \/ e.op.after \in Inserted(past[e], e.key)
                          ELSE e.op.id \in Inserted(past[e], e.key)

\* What the lists of a replica have come from, and that they have it all.
Follows(n) ==
    \A k \in SeqKey : /\ Backed(sequences[n][k], known[n], k)
                      /\ Awaits(sequences[n][k], known[n], k)
Reflected(n) == \A k \in SeqKey : Complete(sequences[n][k], known[n], k)

\* The inductive invariant for the lists of the clients and the relay.
TInv ==
    /\ SeqInv
    /\ \A e \in net : Grounded(e)
    /\ \A n \in Node : Follows(n) /\ (n \in disordered \/ Reflected(n))

\* What a frame of the "rust" relay brings, and what frames bring together.
Reflects(f)  == IF f.type = "UPDATE" THEN {f.data} ELSE f.data.known
Reaching(fs) == UNION {Reflects(f) : f \in ToSet(fs)}

\* A store on its way.
StoreFrame(f) ==
    \A k \in SeqKey :
        /\ Within(f.data.sequences[k], f.data.clock)
        /\ Backed(f.data.sequences[k], f.data.known, k)
        /\ Server \in disordered \/ Complete(f.data.sequences[k], f.data.known, k)

\* What the tasks of the relay have yet to send to c.
SentTo(c) == {sending[d].env : d \in {x \in Client : c \in sending[x].peers}}

\* The "rust" relay: what clients have, or are sent, is the relay's or theirs.
StoreCovers ==
    \A c \in Client :
        /\ \A e \in known[c] : e.node = c \/ e \in known[Server]
        /\ Reaching(downlink[c]) \subseteq known[Server]
        /\ \A f \in ToSet(downlink[c]) : f.type = "UPDATE" \/ StoreFrame(f)
        /\ sending[c] = NotSending \/ sending[c].env \in known[Server]

\* Nothing is lost: the relay gets all in causal order, and who is connected
\* knows what the relay knows, or it is on its way.
StoreReaches ==
    /\ Server \notin disordered
    /\ \A c \in Client :
        /\ Ordered(past, Line(c), known[Server])
        /\ online[c] => known[Server] \subseteq known[c] \cup Reaching(downlink[c]) \cup SentTo(c)

\* The "rust" relay.
Stores == relay = "rust" => StoreCovers /\ (lost = {} => StoreReaches)

\* What is produced stays grounded.
LEMMA GroundedStays ==
    ASSUME NEW e, Grounded(e), past'[e] = past[e]
    PROVE  Grounded(e)'
BY DEF Grounded

\* A step that changes no list and no knowledge.
LEMMA TStill ==
    ASSUME TInv, SeqInv', UNCHANGED <<sequences, known, net, past>>, disordered \subseteq disordered'
    PROVE  TInv'
<1>1. \A e \in net : Grounded(e)'
  BY DEF TInv, Grounded
<1>2. \A n \in Node : Follows(n)' /\ (n \in disordered' \/ Reflected(n)')
  BY DEF TInv, Follows, Reflected
<1> QED BY <1>1, <1>2 DEF TInv

\* A replica learns one envelope, and nothing else changes.
LEMMA TLearns ==
    ASSUME HInv, TInv, SeqInv', NEW n \in Node, NEW env,
           known' = [known EXCEPT ![n] = known[n] \cup {env}],
           IF env.kind = "Sequence"
           THEN /\ env.key \in SeqKey /\ env.op \in OpsOver(RGAId)
                /\ sequences' = [sequences EXCEPT ![n][env.key] = SeqApply(@, env.op)]
           ELSE sequences' = sequences,
           \A e \in net' : Grounded(e)',
           disordered \subseteq disordered',
           (n \notin disordered' /\ env.kind = "Sequence") =>
               IF IsInsert(env.op)
               THEN env.op.after = Head0 \/ env.op.after \in Inserted(known[n], env.key)
               ELSE env.op.id \in Inserted(known[n], env.key)
    PROVE  TInv'
<1>1. known'[n] = known[n] \cup {env} /\ \A m \in Node : m # n => known'[m] = known[m]
  BY DEF HInv
<1>2. ASSUME NEW m \in Node, m # n PROVE Follows(m)' /\ (m \in disordered' \/ Reflected(m)')
  <2>1. \A k \in SeqKey : sequences'[m][k] = sequences[m][k]
    BY <1>2 DEF TInv, SeqInv
  <2> QED BY <1>1, <1>2, <2>1 DEF TInv, Follows, Reflected
<1>3. ASSUME NEW k \in SeqKey
      PROVE  /\ Backed(sequences'[n][k], known'[n], k) /\ Awaits(sequences'[n][k], known'[n], k)
             /\ n \in disordered' \/ Complete(sequences'[n][k], known'[n], k)
  <2>1. PICK s : s = sequences[n][k]
    OBVIOUS
  <2>2. PICK envs : envs = known[n]
    OBVIOUS
  <2>3. /\ s \in RGAStates(RGAId) /\ Backed(s, envs, k) /\ Awaits(s, envs, k)
        /\ n \in disordered' \/ Complete(s, envs, k)
    BY <2>1, <2>2 DEF TInv, SeqInv, Follows, Reflected
  <2>4. CASE env.kind = "Sequence" /\ env.key = k
    <3>1. sequences'[n][k] = SeqApply(s, env.op) /\ env.op \in OpsOver(RGAId)
      BY <2>1, <2>4 DEF TInv, SeqInv
    <3>2. /\ Backed(SeqApply(s, env.op), envs \cup {env}, k)
          /\ Awaits(SeqApply(s, env.op), envs \cup {env}, k)
      BY <2>3, <2>4, <3>1, BackedApply
    <3>3. ASSUME n \notin disordered' PROVE Complete(SeqApply(s, env.op), envs \cup {env}, k)
      <4>1. /\ Complete(s, envs, k)
            /\ IsInsert(env.op) => (env.op.after = Head0 \/ env.op.after \in Inserted(envs, k))
            /\ ~IsInsert(env.op) => env.op.id \in Inserted(envs, k)
        BY <2>2, <2>3, <2>4, <3>3
      <4> QED BY <2>3, <2>4, <3>1, <4>1, BackedApply
    <3> QED BY <1>1, <2>2, <3>1, <3>2, <3>3
  <2>5. CASE ~(env.kind = "Sequence" /\ env.key = k)
    <3>1. sequences'[n][k] = s
      BY <2>1, <2>5 DEF TInv, SeqInv
    <3>2. PICK one : one = {env}
      OBVIOUS
    <3>3. Inserted(one, k) = {} /\ Removed(one, k) = {}
      BY <2>5, <3>2, InsertedByOne
    <3>4. Inserted(envs \cup one, k) = Inserted(envs, k) /\ Removed(envs \cup one, k) = Removed(envs, k)
      <4>1. /\ Inserted(envs \cup one, k) = Inserted(envs, k) \cup Inserted(one, k)
            /\ Removed(envs \cup one, k) = Removed(envs, k) \cup Removed(one, k)
        BY InsertedGrows
      <4> QED BY <3>3, <4>1
    <3>5. known'[n] = envs \cup one
      BY <1>1, <2>2, <3>2
    <3> QED BY <2>3, <3>1, <3>4, <3>5 DEF Backed, Awaits, Complete
  <2> QED BY <2>4, <2>5
<1>4. Follows(n)' /\ (n \in disordered' \/ Reflected(n)')
  BY <1>3 DEF Follows, Reflected
<1> QED BY <1>2, <1>4 DEF TInv

\* What a call that produces env does to the lists.
Produces(n, env) ==
    IF env.kind = "Sequence"
    THEN /\ env.key \in SeqKey /\ env.op \in OpsOver(RGAId)
         /\ sequences' = [sequences EXCEPT ![n][env.key] = SeqApply(@, env.op)]
         /\ IF IsInsert(env.op)
            THEN /\ env.op.after = Head0 \/ env.op.after \in Ids(sequences[n][env.key].nodes)
                 /\ env.op.id.node = n /\ env.op.id.clock = sequences[n][env.key].clock + 1
            ELSE env.op.id \in Ids(sequences[n][env.key].nodes)
    ELSE sequences' = sequences

LEMMA TMakes ==
    ASSUME HInv, TInv, SeqInv', NEW n \in Node, NEW env, Made(n, env), Produces(n, env),
           UNCHANGED disordered
    PROVE  TInv'
<1>1. /\ known' = [known EXCEPT ![n] = known[n] \cup {env}]
      /\ past'[env] = known[n] /\ \A e \in net : past'[e] = past[e]
      /\ net' = net \cup {env}
  <2>1. env \in net' /\ \A e \in net : e \in net' /\ e # env
    BY DEF Made
  <2> QED BY <2>1 DEF Made
<1>2. env.kind = "Sequence" =>
        IF IsInsert(env.op)
        THEN env.op.after = Head0 \/ env.op.after \in Inserted(known[n], env.key)
        ELSE env.op.id \in Inserted(known[n], env.key)
  BY DEF Produces, TInv, Follows, Backed
<1>3. \A e \in net' : Grounded(e)'
  <2>1. Grounded(env)'
    BY <1>1, <1>2 DEF Grounded
  <2> QED BY <1>1, <2>1, GroundedStays DEF TInv
<1> QED BY <1>1, <1>2, <1>3, TLearns DEF Produces

\* A replica applies an envelope, in order or not.
LEMMA TApplies ==
    ASSUME HInv, TInv, SeqInv', NEW n \in Node, NEW env \in net, ApplyEnvelope(n, env),
           disordered' = disordered \cup (IF past[env] \subseteq known[n] THEN {} ELSE {n})
    PROVE  TInv'
<1>1. /\ known' = [known EXCEPT ![n] = known[n] \cup {env}] /\ UNCHANGED <<net, past>>
      /\ IF env.kind = "Sequence"
         THEN sequences' = [sequences EXCEPT ![n][env.key] = SeqApply(@, env.op)]
         ELSE sequences' = sequences
  BY DEF ApplyEnvelope
<1>2. \A e \in net' : Grounded(e)'
  BY <1>1, GroundedStays DEF TInv
<1>3. env.kind = "Sequence" => env.key \in SeqKey /\ env.op \in OpsOver(RGAId)
  BY DEF TInv, SeqInv, SeqOpOK
<1>4. ASSUME n \notin disordered', env.kind = "Sequence"
      PROVE  IF IsInsert(env.op)
             THEN env.op.after = Head0 \/ env.op.after \in Inserted(known[n], env.key)
             ELSE env.op.id \in Inserted(known[n], env.key)
  <2>1. past[env] \subseteq known[n]
    BY <1>4
  <2>2. Inserted(past[env], env.key) \subseteq Inserted(known[n], env.key)
    BY <2>1, InsertedGrows
  <2> QED BY <1>4, <2>2 DEF TInv, Grounded
<1> QED BY <1>1, <1>2, <1>3, <1>4, TLearns

\* A client merges what a frame holds of a store.
LEMMA TMerges ==
    ASSUME HInv, TInv, SeqInv', NEW n \in Node, NEW other, Merge(n, other),
           \A k \in SeqKey : /\ Within(other.sequences[k], other.clock)
                             /\ Backed(other.sequences[k], other.known, k),
           disordered \subseteq disordered',
           n \in disordered' \/ \A k \in SeqKey : Complete(other.sequences[k], other.known, k)
    PROVE  TInv'
<1>1. /\ sequences' = [sequences EXCEPT ![n] =
                         [k \in SeqKey |-> SeqMerge(sequences[n][k], other.sequences[k])]]
      /\ known' = [known EXCEPT ![n] = known[n] \cup other.known]
      /\ UNCHANGED <<net, past>>
  BY DEF Merge
<1>2. /\ known'[n] = known[n] \cup other.known
      /\ \A m \in Node : m # n => known'[m] = known[m]
  BY <1>1 DEF HInv
<1>3. ASSUME NEW m \in Node, m # n PROVE Follows(m)' /\ (m \in disordered' \/ Reflected(m)')
  <2>1. \A k \in SeqKey : sequences'[m][k] = sequences[m][k]
    BY <1>1, <1>3 DEF TInv, SeqInv
  <2> QED BY <1>2, <1>3, <2>1 DEF TInv, Follows, Reflected
<1>4. ASSUME NEW k \in SeqKey
      PROVE  /\ Backed(sequences'[n][k], known'[n], k) /\ Awaits(sequences'[n][k], known'[n], k)
             /\ n \in disordered' \/ Complete(sequences'[n][k], known'[n], k)
  <2>1. PICK s : s = sequences[n][k]
    OBVIOUS
  <2>2. PICK o : o = other.sequences[k]
    OBVIOUS
  <2>3. /\ s \in RGAStates(RGAId) /\ Backed(s, known[n], k) /\ Awaits(s, known[n], k)
        /\ n \in disordered' \/ Complete(s, known[n], k)
    BY <2>1 DEF TInv, SeqInv, Follows, Reflected
  <2>4. /\ o \in RGAStates(RGAId) /\ Counted(o) /\ Backed(o, other.known, k)
        /\ n \in disordered' \/ Complete(o, other.known, k)
    BY <2>2 DEF Within
  <2>5. sequences'[n][k] = SeqMerge(s, o)
    BY <1>1, <2>1, <2>2 DEF TInv, SeqInv
  <2>6. /\ Backed(SeqMerge(s, o), known[n] \cup other.known, k)
        /\ Awaits(SeqMerge(s, o), known[n] \cup other.known, k)
        /\ Complete(s, known[n], k) /\ Complete(o, other.known, k)
              => Complete(SeqMerge(s, o), known[n] \cup other.known, k)
    BY <2>3, <2>4, BackedMerge
  <2> QED BY <1>2, <2>3, <2>4, <2>5, <2>6
<1>5. Follows(n)' /\ (n \in disordered' \/ Reflected(n)')
  BY <1>4 DEF Follows, Reflected
<1>6. \A e \in net' : Grounded(e)'
  BY <1>1, GroundedStays DEF TInv
<1> QED BY <1>3, <1>5, <1>6 DEF TInv

\* A call through either API is an operation on the store.
LEMMA CallIsLocal ==
    ASSUME NEW c \in Client, IF c \in Agent THEN AgentCall(c) ELSE BrowserCall(c), SeqInv
    PROVE  NewProxy(c) \/ LocalOperation(c)
<1>1. ASSUME NEW k \in SeqKey PROVE SeqLen(c, k) \in Nat
  <2>1. c \in Node
    BY ClientAssumption
  <2>2. sequences[c][k] \in RGAStates(RGAId)
    BY <2>1 DEF SeqInv
  <2>3. Visible(sequences[c][k].nodes) \in Seq(RGAId)
    BY <2>2, VisibleShows DEF RGAStates
  <2> QED BY <2>3 DEF SeqLen
<1>2. \A k \in SeqKey : SeqLen(c, k) \in 0..SeqLen(c, k)
  BY <1>1
<1>3. \A k \in SeqKey : \A index \in 0..SeqLen(c, k) :
         index < SeqLen(c, k) => index \in 0..(SeqLen(c, k) - 1)
  BY <1>1
<1>4. CASE c \in Agent
  <2>1. AgentCall(c)
    BY <1>4
  <2>2. ASSUME NEW k \in SeqKey, ProxySeqPush(c, k) PROVE LocalOperation(c)
    BY <1>2, <2>2 DEF ProxySeqPush, LocalOperation
  <2>3. ASSUME NEW k \in SeqKey, NEW index \in 0..SeqLen(c, k),
               ProxySeqInsert(c, k, index) \/ ProxySeqDelete(c, k, index)
        PROVE  LocalOperation(c)
    BY <1>3, <2>3 DEF ProxySeqInsert, ProxySeqDelete, LocalOperation
  <2>4. ASSUME NEW k \in SetKey, NEW v \in Value,
               ProxySetAdd(c, k, v) \/ ProxySetRemove(c, k, v)
        PROVE  LocalOperation(c)
    BY <2>4 DEF ProxySetAdd, ProxySetRemove, LocalOperation
  <2>5. ASSUME NEW k \in RegKey, NEW v \in Value, ProxySet(c, k, v) PROVE LocalOperation(c)
    BY <2>5 DEF ProxySet, LocalOperation
  <2> QED BY <2>1, <2>2, <2>3, <2>4, <2>5, ClientAssumption DEF AgentCall, TypedSet
<1>5. CASE c \notin Agent
  <2>1. BrowserCall(c)
    BY <1>5
  <2>2. ASSUME NEW k \in SeqKey, NEW index \in 0..SeqLen(c, k),
               WasmSeqInsert(c, k, index) \/ WasmSeqDelete(c, k, index)
        PROVE  LocalOperation(c)
    BY <1>3, <2>2 DEF WasmSeqInsert, WasmSeqDelete, LocalOperation
  <2>3. ASSUME NEW k \in SetKey, NEW v \in Value,
               WasmSetAdd(c, k, v) \/ WasmSetRemove(c, k, v)
        PROVE  LocalOperation(c)
    BY <2>3 DEF WasmSetAdd, WasmSetRemove, LocalOperation
  <2>4. ASSUME NEW k \in RegKey, NEW v \in Value, WasmSetRegister(c, k, v) PROVE LocalOperation(c)
    BY <2>4 DEF WasmSetRegister, LocalOperation
  <2> QED BY <2>1, <2>2, <2>3, <2>4 DEF BrowserCall
<1> QED BY <1>4, <1>5

\* What an operation on a store does to its lists.
LEMMA LocalProduces ==
    ASSUME HInv, HInv', SeqInv, NEW n \in Node, LocalOperation(n)
    PROVE  UNCHANGED <<net, known, past, sequences>> \/ \E env : Made(n, env) /\ Produces(n, env)
<1>1. ASSUME NEW kind, kind # "Sequence", NEW k, NEW op, Emit(n, kind, k, op), sequences' = sequences
      PROVE  \E env : Made(n, env) /\ Produces(n, env)
  <2>1. PICK env : env = Envelope(Tick(clock[n]), n, kind, k, op)
    OBVIOUS
  <2>2. Made(n, env)
    BY <1>1, <2>1, EmitMade
  <2>3. env.kind = kind
    BY <2>1 DEF Envelope
  <2> QED BY <1>1, <2>2, <2>3 DEF Produces
<1>2. ASSUME NEW k \in SeqKey, NEW op, Emit(n, "Sequence", k, op), op \in OpsOver(RGAId),
             sequences' = [sequences EXCEPT ![n][k] = SeqApply(@, op)],
             IF IsInsert(op) THEN /\ op.after = Head0 \/ op.after \in Ids(sequences[n][k].nodes)
                                  /\ op.id.node = n /\ op.id.clock = sequences[n][k].clock + 1
                             ELSE op.id \in Ids(sequences[n][k].nodes)
      PROVE  \E env : Made(n, env) /\ Produces(n, env)
  <2>1. PICK env : env = Envelope(Tick(clock[n]), n, "Sequence", k, op)
    OBVIOUS
  <2>2. Made(n, env)
    BY <1>2, <2>1, EmitMade
  <2>3. env.kind = "Sequence" /\ env.key = k /\ env.op = op
    BY <2>1 DEF Envelope
  <2>4. Produces(n, env)
    BY <1>2, <2>3 DEF Produces
  <2> QED BY <2>2, <2>4
<1>3. ASSUME NEW k \in RegKey, NEW v \in Value, SetRegister(n, k, v)
      PROVE  \E env : Made(n, env) /\ Produces(n, env)
  BY <1>1, <1>3 DEF SetRegister
<1>4. ASSUME NEW k \in SetKey, NEW v \in Value, SetAdd(n, k, v)
      PROVE  \E env : Made(n, env) /\ Produces(n, env)
  BY <1>1, <1>4 DEF SetAdd
<1>5. ASSUME NEW k \in SetKey, NEW v \in Value, SetRemove(n, k, v)
      PROVE  \E env : Made(n, env) /\ Produces(n, env)
  BY <1>1, <1>5 DEF SetRemove
<1>6. ASSUME NEW k \in SetKey, NEW v \in Value, SetRemoveAbsent(n, k, v)
      PROVE  UNCHANGED <<net, known, past, sequences>>
  BY <1>6 DEF SetRemoveAbsent
<1>7. ASSUME NEW k \in SeqKey, NEW index \in 0..SeqLen(n, k), SeqInsert(n, k, index)
      PROVE  \E env : Made(n, env) /\ Produces(n, env)
  <2>1. PICK op : op = NewInsert(sequences[n][k], index, n)
    OBVIOUS
  <2>2. /\ TickClock(n) /\ Emit(n, "Sequence", k, op)
        /\ sequences' = [sequences EXCEPT ![n][k] = SeqApply(@, op)]
    BY <1>7, <2>1 DEF SeqInsert
  <2>3. /\ op \in OpsOver(RGAId) /\ IsInsert(op)
        /\ op.after = Head0 \/ op.after \in Ids(sequences[n][k].nodes)
        /\ op.id.node = n /\ op.id.clock = sequences[n][k].clock + 1
    BY <2>1, <2>2, InsertMade
  <2> QED BY <1>2, <2>2, <2>3
<1>8. ASSUME NEW k \in SeqKey, NEW index \in 0..(SeqLen(n, k) - 1), SeqDelete(n, k, index)
      PROVE  \E env : Made(n, env) /\ Produces(n, env)
  <2>1. PICK op : op = NewDelete(sequences[n][k], index)
    OBVIOUS
  <2>2. /\ Emit(n, "Sequence", k, op)
        /\ sequences' = [sequences EXCEPT ![n][k] = SeqApply(@, op)]
    BY <1>8, <2>1 DEF SeqDelete
  <2>3. op \in OpsOver(RGAId) /\ ~IsInsert(op) /\ op.id \in Ids(sequences[n][k].nodes)
    BY <2>1, DeleteMade
  <2> QED BY <1>2, <2>2, <2>3
<1>9. ASSUME SeqDeleteNone(n) PROVE UNCHANGED <<net, known, past, sequences>>
  BY <1>9 DEF SeqDeleteNone
<1> QED BY <1>3, <1>4, <1>5, <1>6, <1>7, <1>8, <1>9 DEF LocalOperation
-----------------------------------------------------------------------------
(* The steps of the system.                                                *)

LEMMA TQuiet ==
    ASSUME HInv, HInv', TInv, UNCHANGED vars, disordered \subseteq disordered'
    PROVE  TInv'
<1>1. UNCHANGED <<clock, sequences, known, net, past, snapshot>>
  BY DEF vars
<1>2. \A m \in Node : clock[m] <= clock'[m]
  BY <1>1, BoundsAreInt DEF HInv
<1>3. SeqInv'
  BY <1>1, <1>2, SeqStill DEF TInv
<1> QED BY <1>1, <1>3, TStill

LEMMA TCall ==
    ASSUME SInv, SInv', TInv, NEW c \in Client, Call(c)
    PROVE  TInv'
<1>1. /\ UNCHANGED disordered /\ HInv /\ HInv' /\ c \in Node
      /\ NewProxy(c) \/ LocalOperation(c)
  BY CallIsLocal, ClientAssumption DEF Call, ghosts, SInv, TInv
<1>2. CASE NewProxy(c)
  BY <1>1, <1>2, TQuiet DEF NewProxy
<1>3. CASE LocalOperation(c)
  <2>1. SeqInv'
    BY <1>1, <1>3, SeqLocal DEF TInv
  <2>2. CASE UNCHANGED <<net, known, past, sequences>>
    BY <1>1, <2>1, <2>2, TStill
  <2>3. CASE \E env : Made(c, env) /\ Produces(c, env)
    BY <1>1, <2>1, <2>3, TMakes
  <2> QED BY <1>1, <1>3, <2>2, <2>3, LocalProduces DEF TInv
<1> QED BY <1>1, <1>2, <1>3

\* An envelope is applied.
LEMMA TApply ==
    ASSUME HInv, HInv', TInv, NEW n \in Node, NEW env \in net, Apply(n, env)
    PROVE  TInv'
<1>1. /\ ApplyEnvelope(n, env)
      /\ disordered' = disordered \cup (IF past[env] \subseteq known[n] THEN {} ELSE {n})
  BY DEF Apply
<1>2. SeqInv'
  BY <1>1, SeqReceives DEF TInv
<1> QED BY <1>1, <1>2, TApplies

-----------------------------------------------------------------------------
(* What the "rust" relay sends.                                            *)

LEMMA ReachingNone == Reaching(<<>>) = {}
BY NoFrames DEF Reaching

LEMMA ReachingOne == \A f : Reaching(<<f>>) = Reflects(f) /\ ToSet(<<f>>) = {f}
<1> TAKE f
<1>1. ToSet(<<f>>) = {f}
  BY OneMember
<1> QED BY <1>1 DEF Reaching

LEMMA ReachingMore ==
    ASSUME NEW S, NEW fs \in Seq(S), NEW f
    PROVE  /\ Reaching(Append(fs, f)) = Reaching(fs) \cup Reflects(f)
           /\ ToSet(Append(fs, f)) = ToSet(fs) \cup {f}
<1>1. PICK gs : gs = Append(fs, f)
  OBVIOUS
<1>2. ToSet(gs) = ToSet(fs) \cup {f}
  BY <1>1, AppendFrame
<1>3. Reaching(gs) = Reaching(fs) \cup Reflects(f)
  BY <1>2 DEF Reaching
<1> QED BY <1>1, <1>2, <1>3

LEMMA ReachingFirst ==
    ASSUME NEW S, NEW fs \in Seq(S), fs # <<>>
    PROVE  /\ Reaching(fs) = Reflects(fs[1]) \cup Reaching(Tail(fs))
           /\ ToSet(fs) = {fs[1]} \cup ToSet(Tail(fs))
<1>1. PICK gs : gs = Tail(fs)
  OBVIOUS
<1>2. ToSet(fs) = {fs[1]} \cup ToSet(gs)
  BY <1>1, FirstFrame
<1>3. Reaching(fs) = Reflects(fs[1]) \cup Reaching(gs)
  BY <1>2 DEF Reaching
<1> QED BY <1>1, <1>2, <1>3

LEMMA StoreFrameStays ==
    ASSUME disordered \subseteq disordered', NEW f, StoreFrame(f)
    PROVE  StoreFrame(f)'
BY DEF StoreFrame, Within

\* A step that leaves what the relay knows and sends.
LEMMA UKeeps ==
    ASSUME Stores, UNCHANGED <<relay, sending, online, downlink>>,
           known'[Server] = known[Server],
           \A c \in Client : /\ known[c] \subseteq known'[c]
                             /\ \A e \in known'[c] \ known[c] : e.node = c,
           disordered \subseteq disordered',
           lost' = {} => /\ lost = {} /\ disordered' = disordered
                         /\ StoreReaches => \A c \in Client : Ordered(past, Line(c), known[Server])'
    PROVE  Stores'
<1> SUFFICES ASSUME relay = "rust" PROVE StoreCovers' /\ (lost' = {} => StoreReaches')
  BY DEF Stores
<1>1. StoreCovers /\ (lost = {} => StoreReaches)
  BY DEF Stores
<1>2. StoreCovers'
  BY <1>1, StoreFrameStays DEF StoreCovers
<1>3. ASSUME lost' = {} PROVE StoreReaches'
  <2>1. StoreReaches /\ \A c \in Client : Ordered(past, Line(c), known[Server])'
    BY <1>1, <1>3
  <2>2. Server \notin disordered'
    BY <1>3, <2>1 DEF StoreReaches
  <2>3. \A c \in Client : SentTo(c)' = SentTo(c)
    BY DEF SentTo
  <2>4. \A c \in Client : online[c] =>
            known[Server] \subseteq known'[c] \cup Reaching(downlink[c]) \cup SentTo(c)
    BY <2>1 DEF StoreReaches
  <2> QED BY <2>1, <2>2, <2>3, <2>4 DEF StoreReaches
<1> QED BY <1>2, <1>3

\* Lines move, and nothing else.
LEMMA ULines ==
    ASSUME SInv, Stores, UNCHANGED <<net, known, past, relay, sending, online, downlink, disordered>>,
           lost' = {} => lost = {} /\ \A c \in Client : Line(c)' = Line(c)
    PROVE  Stores'
<1>1. ASSUME lost' = {}, StoreReaches
      PROVE  \A c \in Client : Ordered(past, Line(c), known[Server])'
  BY <1>1 DEF StoreReaches
<1> QED BY <1>1, UKeeps

LEMMA UMade ==
    ASSUME SInv, Stores, NEW c \in Client, NEW env, Made(c, env),
           Queue(c) \/ (c \notin Agent /\ Return(c)),
           UNCHANGED <<relay, log, sending, wires, ghosts>>
    PROVE  Stores'
<1> SUFFICES ASSUME relay = "rust" PROVE Stores'
  BY DEF Stores
<1>1. /\ env.node = c /\ net' = net \cup {env}
      /\ known' = [known EXCEPT ![c] = known[c] \cup {env}]
      /\ \A e \in net : past'[e] = past[e]
      /\ past'[env] = known[c]
  <2>1. env \in net' /\ \A e \in net : e \in net' /\ e # env
    BY DEF Made
  <2> QED BY <2>1 DEF Made
<1>2. UNCHANGED <<online, uplink, downlink, lost, disordered>>
  BY DEF wires, ghosts
<1>3. /\ Line(c)' = Join(Line(c), <<env>>)
      /\ \A d \in Client : d # c => Line(d)' = Line(d)
  BY <1>2, MadeLines DEF SInv
<1>4. /\ known'[Server] = known[Server] /\ known'[c] = known[c] \cup {env}
      /\ \A d \in Client : d # c => known'[d] = known[d]
  BY <1>1, ClientAssumption, RelayAssumption DEF SInv, HInv
<1>5. \A d \in Client : Line(d) \in Seq(net) /\ Line(d) \in Seq(net')
  BY <1>1, LineParts, SeqMonotonic DEF SInv
<1>6. ASSUME lost = {}, StoreReaches, NEW d \in Client
      PROVE  Ordered(past, Line(d), known[Server])'
  <2>1. Ordered(past', Line(d), known[Server])
    BY <1>1, <1>5, <1>6, OrderedGrows DEF StoreReaches
  <2>2. CASE d = c
    <3>1. known[c] \subseteq known[Server] \cup ToSet(Line(c))
      <4>1. known[c] \subseteq net /\ StoreCovers
        BY ClientAssumption DEF SInv, HInv, Stores
      <4>2. \A e \in known[c] : e.node = c \/ e \in known[Server]
        BY <4>1 DEF StoreCovers
      <4>3. \A e \in known[c] : e \in ToSet(Line(e.node)) \cup known[Server]
        BY <1>6, <4>1 DEF SInv, Accounted, AtRelay
      <4> QED BY <4>2, <4>3
    <3>2. past'[env] \subseteq known[Server] \cup ToSet(Line(c))
      BY <1>1, <3>1
    <3>3. Line(c) \in Seq(net') /\ env \in net'
      BY <1>1, <1>5
    <3>4. Ordered(past', Join(Line(c), <<env>>), known[Server])
      BY <2>1, <2>2, <3>2, <3>3, OneMore
    <3> QED BY <1>3, <1>4, <2>2, <3>4
  <2>3. CASE d # c
    BY <1>3, <1>4, <2>1, <2>3
  <2> QED BY <2>2, <2>3
<1>7. \A d \in Client : /\ known[d] \subseteq known'[d]
                        /\ \A e \in known'[d] \ known[d] : e.node = d
  BY <1>1, <1>4
<1> QED BY <1>2, <1>4, <1>6, <1>7, UKeeps

LEMMA UCall ==
    ASSUME SInv, Stores, NEW c \in Client, Call(c)
    PROVE  Stores'
<1>1. UNCHANGED <<relay, log, sending, wires, ghosts>>
  BY DEF Call
<1>2. UNCHANGED <<online, uplink, downlink, lost, disordered>>
  BY <1>1 DEF wires, ghosts
<1>3. NewProxy(c) \/ (MadeOne(c) /\ (Queue(c) \/ (c \notin Agent /\ Return(c))))
  BY CallMakes DEF SInv, Call
<1>4. CASE \E env : Made(c, env) /\ (Queue(c) \/ (c \notin Agent /\ Return(c)))
  BY <1>1, <1>4, UMade
<1>5. CASE /\ NewProxy(c) \/ Queue(c) \/ (c \notin Agent /\ Return(c))
           /\ UNCHANGED <<net, known, past>>
  <2>1. \A d \in Client : Line(d)' = Line(d)
    <3>1. CASE NewProxy(c)
      BY <1>2, <3>1 DEF NewProxy, Line
    <3>2. CASE Queue(c) \/ (c \notin Agent /\ Return(c))
      BY <1>2, <1>5, <3>2, NoneMade DEF SInv
    <3> QED BY <1>5, <3>1, <3>2
  <2> QED BY <1>1, <1>2, <1>5, <2>1, ULines
<1> QED BY <1>3, <1>4, <1>5 DEF MadeOne, NewProxy, vars

\* What a store tells of itself, and what it leaves out.
LEMMA CopyTells ==
    ASSUME SInv, TInv, relay = "rust"
    PROVE  /\ StoreFrame(Snapshot) /\ Snapshot.type = "SNAPSHOT"
           /\ Reflects(Snapshot) \subseteq known[Server]
           /\ Server \in disordered \/ Reflects(Snapshot) = known[Server]
<1>1. PICK f : f = Snapshot
  OBVIOUS
<1>2. /\ f.type = "SNAPSHOT" /\ f.data.known = Carried(Server)
      /\ f.data.clock = clock[Server] /\ f.data.sequences = sequences[Server]
  BY <1>1 DEF Snapshot, StoreCopy
<1>3. Server \in Node
  BY RelayAssumption
<1>4. PICK envs : envs = Carried(Server)
  OBVIOUS
<1>5. envs \subseteq known[Server]
  BY <1>4 DEF Carried
<1>6. ASSUME Server \notin disordered PROVE envs = known[Server]
  <2>1. ASSUME NEW e \in known[Server], e.kind = "Sequence", IsInsert(e.op)
        PROVE  e.op.id \in Ids(sequences[Server][e.key].nodes)
    <3>1. e.key \in SeqKey
      BY <1>3, <2>1 DEF SInv, HInv, TInv, SeqInv, SeqOpOK
    <3>2. e.op.id \in Inserted(known[Server], e.key)
      BY <2>1 DEF Inserted
    <3> QED BY <1>3, <1>6, <3>1, <3>2 DEF TInv, Reflected, Complete
  <2> QED BY <1>4, <2>1 DEF Carried, IsInsert
<1>7. ASSUME NEW k \in SeqKey PROVE Backed(sequences[Server][k], envs, k)
  <2>1. Backed(sequences[Server][k], known[Server], k)
    BY <1>3 DEF TInv, Follows
  <2>2. ASSUME NEW i \in Ids(sequences[Server][k].nodes) PROVE i \in Inserted(envs, k)
    <3>1. PICK e \in known[Server] :
              e.kind = "Sequence" /\ e.key = k /\ IsInsert(e.op) /\ e.op.id = i
      BY <2>1 DEF Backed, Inserted
    <3>2. e \in envs
      BY <1>4, <3>1 DEF Carried
    <3> QED BY <3>1, <3>2 DEF Inserted
  <2>3. ASSUME NEW i \in Gone(sequences[Server][k]) PROVE i \in Removed(envs, k)
    <3>1. PICK e \in known[Server] :
              e.kind = "Sequence" /\ e.key = k /\ ~IsInsert(e.op) /\ e.op.id = i
      BY <2>1 DEF Backed, Removed
    <3>2. e \in envs
      BY <1>4, <3>1 DEF Carried, IsInsert
    <3> QED BY <3>1, <3>2 DEF Removed
  <2> QED BY <2>2, <2>3 DEF Backed
<1>8. ASSUME NEW k \in SeqKey
      PROVE  Server \in disordered \/ Complete(sequences[Server][k], envs, k)
  BY <1>3, <1>6 DEF TInv, Reflected
<1>9. \A k \in SeqKey : Within(sequences[Server][k], clock[Server])
  BY <1>3 DEF TInv, SeqInv
<1>10. StoreFrame(f)
  BY <1>2, <1>4, <1>7, <1>8, <1>9 DEF StoreFrame
<1>11. Reflects(f) = envs
  BY <1>2, <1>4 DEF Reflects
<1> QED BY <1>1, <1>2, <1>5, <1>6, <1>10, <1>11

LEMMA UConnect ==
    ASSUME SInv, TInv, Stores, NEW c \in Client, Connect(c)
    PROVE  Stores'
<1> SUFFICES ASSUME relay = "rust" PROVE StoreCovers' /\ (lost' = {} => StoreReaches')
  BY DEF Stores, Connect
<1>1. UNCHANGED <<known, past, relay, sending, uplink, proxied, queued, pending, lost, disordered>>
  BY DEF Connect, vars, api, ghosts
<1>2. /\ online'[c] = TRUE /\ downlink'[c] = <<Snapshot>>
      /\ \A d \in Client : d # c => online'[d] = online[d] /\ downlink'[d] = downlink[d]
  BY DEF Connect, SInv, Wired, PerClient
<1>3. StoreCovers /\ (lost = {} => StoreReaches) /\ relay' = "rust"
  BY <1>1 DEF Stores
<1>4. PICK f : f = Snapshot
  OBVIOUS
<1>5. /\ StoreFrame(f) /\ Reflects(f) \subseteq known[Server]
      /\ Server \in disordered \/ Reflects(f) = known[Server]
  BY <1>4, CopyTells
<1>6. Reaching(downlink'[c]) = Reflects(f) /\ ToSet(downlink'[c]) = {f}
  BY <1>2, <1>4, ReachingOne
<1>7. StoreCovers'
  <2>1. \A g : StoreFrame(g) => StoreFrame(g)'
    BY <1>1, StoreFrameStays
  <2>2. ASSUME NEW d \in Client
        PROVE  /\ \A e \in known'[d] : e.node = d \/ e \in known'[Server]
               /\ Reaching(downlink'[d]) \subseteq known'[Server]
               /\ \A g \in ToSet(downlink'[d]) : g.type = "UPDATE" \/ StoreFrame(g)'
               /\ sending'[d] = NotSending \/ sending'[d].env \in known'[Server]
    <3>1. CASE d = c
      BY <1>1, <1>3, <1>5, <1>6, <2>1, <3>1 DEF StoreCovers
    <3>2. CASE d # c
      BY <1>1, <1>2, <1>3, <2>1, <3>2 DEF StoreCovers
    <3> QED BY <3>1, <3>2
  <2> QED BY <2>2 DEF StoreCovers
<1>8. ASSUME lost' = {} PROVE StoreReaches'
  <2>1. StoreReaches
    BY <1>1, <1>3, <1>8
  <2>2. \A d \in Client : SentTo(d)' = SentTo(d) /\ Line(d)' = Line(d)
    BY <1>1 DEF SentTo, Line
  <2>3. Reaching(downlink'[c]) = known[Server]
    BY <1>5, <1>6, <2>1 DEF StoreReaches
  <2> QED BY <1>1, <1>2, <2>1, <2>2, <2>3 DEF StoreReaches
<1> QED BY <1>7, <1>8

\* No task sends to a client that has left, and the others are sent the same.
LEMMA UDisconnect ==
    ASSUME SInv, Stores, NEW c \in Client, Disconnect(c)
    PROVE  Stores'
<1> SUFFICES ASSUME relay = "rust" PROVE StoreCovers' /\ (lost' = {} => StoreReaches')
  BY DEF Stores, Disconnect
<1>1. UNCHANGED <<net, known, past, relay, log, queued, pending, disordered>>
  BY DEF Disconnect, vars, api
<1>2. /\ online'[c] = FALSE /\ downlink'[c] = <<>>
      /\ \A d \in Client : d # c => online'[d] = online[d] /\ downlink'[d] = downlink[d]
      /\ \A d \in Client : sending'[d] = IF sending[d].peers \subseteq {c} THEN NotSending
                                         ELSE [sending[d] EXCEPT !.peers = @ \ {c}]
  BY DEF Disconnect, SInv, Wired, PerClient
<1>3. StoreCovers /\ (lost = {} => StoreReaches)
  BY DEF Stores
<1>4. ASSUME NEW d \in Client
      PROVE  \/ sending'[d] = NotSending /\ sending[d].peers \subseteq {c}
             \/ /\ sending[d] # NotSending
                /\ sending'[d].env = sending[d].env
                /\ sending'[d].peers = sending[d].peers \ {c}
  <2>1. CASE sending[d].peers \subseteq {c}
    BY <1>2, <2>1
  <2>2. CASE ~(sending[d].peers \subseteq {c})
    <3>1. sending[d] # NotSending
      BY <2>2 DEF NotSending
    <3>2. sending[d] = [peers |-> sending[d].peers, env |-> sending[d].env]
      BY <3>1 DEF SInv, Wired, SendingOK
    <3>3. sending'[d] = [peers |-> sending[d].peers \ {c}, env |-> sending[d].env]
      BY <1>2, <2>2, <3>2
    <3> QED BY <3>1, <3>3
  <2> QED BY <2>1, <2>2
<1>5. StoreCovers'
  <2>1. \A g : StoreFrame(g) => StoreFrame(g)'
    BY <1>1, StoreFrameStays
  <2>2. ASSUME NEW d \in Client
        PROVE  /\ \A e \in known'[d] : e.node = d \/ e \in known'[Server]
               /\ Reaching(downlink'[d]) \subseteq known'[Server]
               /\ \A g \in ToSet(downlink'[d]) : g.type = "UPDATE" \/ StoreFrame(g)'
               /\ sending'[d] = NotSending \/ sending'[d].env \in known'[Server]
    <3>1. sending'[d] = NotSending \/ sending'[d].env \in known'[Server]
      BY <1>1, <1>3, <1>4 DEF StoreCovers
    <3>2. CASE d = c
      BY <1>1, <1>2, <1>3, <3>1, <3>2, NoFrames, ReachingNone DEF StoreCovers
    <3>3. CASE d # c
      BY <1>1, <1>2, <1>3, <2>1, <3>1, <3>3 DEF StoreCovers
    <3> QED BY <3>2, <3>3
  <2> QED BY <2>2 DEF StoreCovers
<1>6. ASSUME lost' = {} PROVE StoreReaches'
  <2> DEFINE u == uplink[c]  v == pending[c]  w == queued[c]
  <2>1. u \in Seq(net) /\ lost = {} /\ ToSet(u) = {}
    BY <1>6 DEF SInv, Wired, Disconnect
  <2>2. u = <<>>
    BY <2>1, Members
  <2>3. uplink' = uplink
    BY <2>2 DEF Disconnect, SInv, Wired
  <2>4. StoreReaches /\ \A d \in Client : Line(d)' = Line(d)
    BY <1>1, <1>3, <2>1, <2>3 DEF Line
  <2>5. ASSUME NEW d \in Client, d # c PROVE SentTo(d) \subseteq SentTo(d)'
    BY <1>4, <2>5 DEF SentTo
  <2> QED BY <1>1, <1>2, <2>4, <2>5 DEF StoreReaches
<1> QED BY <1>5, <1>6

\* The relay's store takes an envelope, which goes to all who are connected.
LEMMA URelayApplies ==
    ASSUME SInv, Stores, NEW c \in Client, RelayReceive(c), relay = "rust"
    PROVE  Stores'
<1> DEFINE e == Head(uplink[c])  b == Line(c)'
<1>1. /\ e \in net /\ <<e>> \in Seq(net) /\ b \in Seq(net) /\ Line(c) = Join(<<e>>, b)
      /\ \A d \in Client : d # c => Line(d)' = Line(d)
  BY LineMoves
<1>2. /\ ApplyEnvelope(Server, e) /\ sending[c] = NotSending
      /\ disordered' = disordered \cup (IF past[e] \subseteq known[Server] THEN {} ELSE {Server})
      /\ sending' = [sending EXCEPT ![c] =
              IF Peers(c) = {} THEN NotSending ELSE [peers |-> Peers(c), env |-> e]]
      /\ UNCHANGED <<downlink, relay, online, lost>>
  BY DEF RelayReceive, RelayApplies, Apply
<1> DEFINE t == <<e>>
<1>3. t \in Seq(net) /\ ToSet(t) = {e} /\ \A p, B : Ordered(p, t, B) <=> p[e] \subseteq B
  BY <1>1, OneMember
<1>4. Line(c) = Join(t, b)
  BY <1>1
<1> HIDE DEF e, b, t
<1>5. Server \in Node /\ c \in Node /\ known' = [known EXCEPT ![Server] = known[Server] \cup {e}]
      /\ UNCHANGED past
  BY <1>2, RelayAssumption, ClientAssumption DEF ApplyEnvelope
<1>6. /\ known'[Server] = known[Server] \cup {e}
      /\ \A d \in Client : known'[d] = known[d]
  BY <1>5, RelayAssumption DEF SInv, HInv
<1>7. /\ sending'[c] = IF Peers(c) = {} THEN NotSending ELSE [peers |-> Peers(c), env |-> e]
      /\ \A d \in Client : d # c => sending'[d] = sending[d]
  BY <1>2 DEF PerClient, SInv, Wired
<1>8. StoreCovers /\ (lost = {} => StoreReaches)
  BY DEF Stores
<1>9. StoreCovers'
  <2>1. \A g : StoreFrame(g) => StoreFrame(g)'
    BY <1>2, StoreFrameStays
  <2>2. ASSUME NEW d \in Client PROVE sending'[d] = NotSending \/ sending'[d].env \in known'[Server]
    BY <1>6, <1>7, <1>8 DEF StoreCovers
  <2>3. ASSUME NEW d \in Client
        PROVE  /\ \A x \in known'[d] : x.node = d \/ x \in known'[Server]
               /\ Reaching(downlink'[d]) \subseteq known'[Server]
               /\ \A g \in ToSet(downlink'[d]) : g.type = "UPDATE" \/ StoreFrame(g)'
    BY <1>2, <1>6, <1>8, <2>1 DEF StoreCovers
  <2> QED BY <2>2, <2>3 DEF StoreCovers
<1>10. ASSUME lost = {} PROVE StoreReaches'
  <2>1. StoreReaches
    BY <1>8, <1>10
  <2>2. Ordered(past, Join(t, b), known[Server])
    BY <1>4, <2>1 DEF StoreReaches
  <2>3. b \in Seq(net)
    BY <1>1
  <2>4. past[e] \subseteq known[Server] /\ Ordered(past, b, known[Server] \cup {e})
    BY <1>3, <2>2, <2>3, Joined
  <2>5. Server \notin disordered'
    BY <1>2, <2>1, <2>4 DEF StoreReaches
  <2>6. ASSUME NEW d \in Client PROVE Ordered(past, Line(d)', known'[Server])
    <3>1. CASE d = c
      BY <1>6, <2>4, <3>1 DEF b
    <3>2. CASE d # c
      <4>1. Line(d) \in Seq(net) /\ Ordered(past, Line(d), known[Server])
        BY <2>1, LineParts DEF StoreReaches, SInv
      <4>2. Ordered(past, Line(d), known'[Server])
        BY <1>6, <4>1, OrderedGrows
      <4> QED BY <1>1, <3>2, <4>2
    <3> QED BY <3>1, <3>2
  <2>7. ASSUME NEW d \in Client, online[d]
        PROVE  known'[Server] \subseteq known'[d] \cup Reaching(downlink'[d]) \cup SentTo(d)'
    <3>1. known[Server] \subseteq known[d] \cup Reaching(downlink[d]) \cup SentTo(d)
      BY <2>1, <2>7 DEF StoreReaches
    <3>2. SentTo(d) \subseteq SentTo(d)'
      <4>1. sending[c].peers = {}
        BY <1>2 DEF NotSending
      <4> QED BY <1>7, <4>1 DEF SentTo
    <3>3. e \in known'[d] \cup SentTo(d)'
      <4>1. CASE d = c
        <5>1. e.node = c
          <6>1. e \in ToSet(Line(c))
            BY <1>3, <1>4, <2>3, Joined
          <6> QED BY <6>1 DEF SInv, Wired
        <5>2. e \in known[c]
          BY <1>1, <5>1 DEF SInv, HInv
        <5> QED BY <1>6, <4>1, <5>2
      <4>2. CASE d # c
        <5>1. d \in Peers(c)
          BY <2>7, <4>2 DEF Peers
        <5>2. sending'[c].env = e /\ d \in sending'[c].peers
          BY <1>7, <5>1
        <5> QED BY <5>2 DEF SentTo
      <4> QED BY <4>1, <4>2
    <3> QED BY <1>2, <1>6, <3>1, <3>2, <3>3
  <2> QED BY <1>2, <1>5, <2>5, <2>6, <2>7 DEF StoreReaches
<1> QED BY <1>2, <1>9, <1>10 DEF Stores

\* What a task sends moves from what it has to send to the client's frames.
LEMMA URelaySend ==
    ASSUME SInv, Stores, NEW c \in Client, RelaySend(c)
    PROVE  Stores'
<1> DEFINE s == sending[c]
<1>1. PICK d \in s.peers :
        /\ downlink' = [downlink EXCEPT ![d] = Append(downlink[d], UpdateOf(s.env))]
        /\ sending' = [sending EXCEPT ![c] =
                IF s.peers = {d} THEN NotSending ELSE [peers |-> s.peers \ {d}, env |-> s.env]]
        /\ UNCHANGED <<vars, api, relay, log, online, hydrated, uplink, ghosts>>
  BY DEF RelaySend
<1>2. /\ relay = "rust" /\ s # NotSending
      /\ s.peers \subseteq {x \in Client : online[x]}
  <2>1. s # NotSending
    BY <1>1 DEF NotSending
  <2> QED BY <2>1 DEF SInv, Wired, SendingOK
<1>3. UNCHANGED <<known, past, queued, pending, lost, disordered, relay, online, uplink>>
  BY <1>1 DEF vars, api, ghosts
<1>4. /\ sending'[c] = IF s.peers = {d} THEN NotSending
                       ELSE [peers |-> s.peers \ {d}, env |-> s.env]
      /\ \A x \in Client : x # c => sending'[x] = sending[x]
  <2> HIDE DEF s
  <2> QED BY <1>1 DEF PerClient, SInv, Wired
<1>5. StoreCovers /\ (lost = {} => StoreReaches) /\ s.env \in known[Server]
  BY <1>2 DEF Stores, StoreCovers
<1> HIDE DEF s
<1>6. PICK f : f = UpdateOf(s.env)
  OBVIOUS
<1>7. f.type = "UPDATE" /\ Reflects(f) = {s.env}
  BY <1>6 DEF UpdateOf, Reflects
<1>8. /\ d \in Client /\ downlink'[d] = Append(downlink[d], f)
      /\ \A x \in Client : x # d => downlink'[x] = downlink[x]
  BY <1>1, <1>2, <1>6 DEF PerClient, SInv, Wired
<1>9. /\ Reaching(downlink'[d]) = Reaching(downlink[d]) \cup {s.env}
      /\ ToSet(downlink'[d]) = ToSet(downlink[d]) \cup {f}
  <2>1. PICK fs : fs = downlink[d]
    OBVIOUS
  <2>2. fs \in Seq(ToSet(fs)) /\ downlink'[d] = Append(fs, f)
    BY <1>8, <2>1 DEF SInv, Wired
  <2> QED BY <1>7, <2>1, <2>2, ReachingMore
<1>10. StoreCovers'
  <2>1. \A g : StoreFrame(g) => StoreFrame(g)'
    BY <1>3, StoreFrameStays
  <2>2. ASSUME NEW x \in Client
        PROVE  /\ \A e \in known'[x] : e.node = x \/ e \in known'[Server]
               /\ Reaching(downlink'[x]) \subseteq known'[Server]
               /\ \A g \in ToSet(downlink'[x]) : g.type = "UPDATE" \/ StoreFrame(g)'
               /\ sending'[x] = NotSending \/ sending'[x].env \in known'[Server]
    <3>1. sending'[x] = NotSending \/ sending'[x].env \in known'[Server]
      BY <1>3, <1>4, <1>5 DEF StoreCovers
    <3>2. CASE x = d
      BY <1>3, <1>5, <1>7, <1>9, <2>1, <3>1, <3>2 DEF StoreCovers
    <3>3. CASE x # d
      BY <1>3, <1>5, <1>8, <2>1, <3>1, <3>3 DEF StoreCovers
    <3> QED BY <3>2, <3>3
  <2> QED BY <2>2 DEF StoreCovers
<1>11. ASSUME lost' = {} PROVE StoreReaches'
  <2>1. StoreReaches /\ \A x \in Client : Line(x)' = Line(x)
    BY <1>3, <1>5, <1>11 DEF Line
  <2>2. ASSUME NEW x \in Client, NEW e \in SentTo(x), x # d \/ e # s.env PROVE e \in SentTo(x)'
    <3>1. PICK y \in Client : x \in sending[y].peers /\ e = sending[y].env
      BY DEF SentTo
    <3>2. CASE y # c
      BY <1>4, <3>1, <3>2 DEF SentTo
    <3>3. CASE y = c
      <4>1. x \in s.peers /\ e = s.env
        BY <3>1, <3>3 DEF s
      <4>2. x # d
        BY <2>2, <4>1
      <4>3. sending'[c].peers = s.peers \ {d} /\ sending'[c].env = s.env
        BY <1>4, <4>1, <4>2
      <4> QED BY <4>1, <4>2, <4>3 DEF SentTo
    <3> QED BY <3>2, <3>3
  <2>3. ASSUME NEW x \in Client, online[x]
        PROVE  known[Server] \subseteq known[x] \cup Reaching(downlink'[x]) \cup SentTo(x)'
    <3>1. known[Server] \subseteq known[x] \cup Reaching(downlink[x]) \cup SentTo(x)
      BY <2>1, <2>3 DEF StoreReaches
    <3>2. CASE x = d
      BY <1>9, <2>2, <3>1, <3>2
    <3>3. CASE x # d
      BY <1>8, <2>2, <3>1, <3>3
    <3> QED BY <3>2, <3>3
  <2> QED BY <1>3, <2>1, <2>3 DEF StoreReaches
<1> QED BY <1>3, <1>10, <1>11 DEF Stores

\* Client c has learned what its first frame brings.
LEMMA UReceives ==
    ASSUME SInv, Stores, NEW c \in Client, relay = "rust", downlink[c] # <<>>,
           downlink' = Received(c),
           known' = [known EXCEPT ![c] = known[c] \cup Reflects(downlink[c][1])],
           disordered \subseteq disordered',
           Server \in disordered' => Server \in disordered,
           UNCHANGED <<past, relay, sending, online, uplink, queued, pending, lost>>
    PROVE  Stores'
<1>1. StoreCovers /\ (lost = {} => StoreReaches)
  BY DEF Stores
<1>2. PICK fs : fs = downlink[c]
  OBVIOUS
<1>3. PICK gs : gs = Tail(fs)
  OBVIOUS
<1>4. fs \in Seq(ToSet(fs)) /\ fs # <<>>
  BY <1>2 DEF SInv, Wired
<1>5. Reaching(fs) = Reflects(fs[1]) \cup Reaching(gs) /\ ToSet(gs) \subseteq ToSet(fs)
  BY <1>3, <1>4, ReachingFirst
<1>6. downlink'[c] = gs /\ \A d \in Client : d # c => downlink'[d] = downlink[d]
  BY <1>2, <1>3 DEF Received, SInv, Wired, PerClient
<1>7. /\ known'[c] = known[c] \cup Reflects(fs[1]) /\ known'[Server] = known[Server]
      /\ \A d \in Client : d # c => known'[d] = known[d]
  BY <1>2, ClientAssumption, RelayAssumption DEF SInv, HInv
<1>8. StoreCovers'
  <2>1. \A g : StoreFrame(g) => StoreFrame(g)'
    BY StoreFrameStays
  <2>2. ASSUME NEW d \in Client
        PROVE  /\ \A e \in known'[d] : e.node = d \/ e \in known'[Server]
               /\ Reaching(downlink'[d]) \subseteq known'[Server]
               /\ \A g \in ToSet(downlink'[d]) : g.type = "UPDATE" \/ StoreFrame(g)'
               /\ sending'[d] = NotSending \/ sending'[d].env \in known'[Server]
    <3>1. /\ \A e \in known[d] : e.node = d \/ e \in known[Server]
          /\ Reaching(downlink[d]) \subseteq known[Server]
          /\ \A g \in ToSet(downlink[d]) : g.type = "UPDATE" \/ StoreFrame(g)'
          /\ sending[d] = NotSending \/ sending[d].env \in known[Server]
      BY <1>1, <2>1 DEF StoreCovers
    <3>2. CASE d = c
      BY <1>2, <1>5, <1>6, <1>7, <3>1, <3>2
    <3>3. CASE d # c
      BY <1>6, <1>7, <3>1, <3>3
    <3> QED BY <3>2, <3>3
  <2> QED BY <2>2 DEF StoreCovers
<1>9. ASSUME lost = {} PROVE StoreReaches'
  <2>1. StoreReaches
    BY <1>1, <1>9
  <2>2. \A d \in Client : SentTo(d)' = SentTo(d) /\ Line(d)' = Line(d)
    BY DEF SentTo, Line
  <2>3. ASSUME NEW d \in Client, online[d]
        PROVE  known'[Server] \subseteq known'[d] \cup Reaching(downlink'[d]) \cup SentTo(d)
    <3>1. known[Server] \subseteq known[d] \cup Reaching(downlink[d]) \cup SentTo(d)
      BY <2>1, <2>3 DEF StoreReaches
    <3>2. CASE d = c
      BY <1>2, <1>5, <1>6, <1>7, <3>1, <3>2
    <3>3. CASE d # c
      BY <1>6, <1>7, <3>1, <3>3
    <3> QED BY <3>2, <3>3
  <2> QED BY <1>7, <2>1, <2>2, <2>3 DEF StoreReaches
<1> QED BY <1>8, <1>9 DEF Stores

-----------------------------------------------------------------------------
(* A frame of either relay arrives, and every step.                        *)

\* A frame arrives from the "rust" relay, or from the "ts" relay.
LEMMA UReceived ==
    ASSUME SInv, SInv', TInv, Stores, NEW c \in Client, Receives(c)
    PROVE  TInv' /\ Stores'
<1>1. /\ downlink[c] # <<>> /\ HInv /\ HInv' /\ c \in Node /\ c # Server
      /\ UNCHANGED <<api, relay, log, sending, online, uplink, lost>>
      /\ relay \in {"ts", "rust"}
  BY ClientAssumption, RelayAssumption DEF Receives, SInv, Wired
<1>2. PICK f : f = downlink[c][1]
  OBVIOUS
<1>3. FrameOK(f)
  BY <1>1, <1>2, FirstOK
<1>4. UNCHANGED <<queued, pending>>
  BY <1>1 DEF api
<1>5. CASE ReceiveUpdate(c)
  <2>1. f.type = "UPDATE" /\ Apply(c, f.data) /\ downlink' = Received(c) /\ f.data \in net
    BY <1>2, <1>3, <1>5 DEF ReceiveUpdate, FrameOK
  <2>2. TInv'
    BY <1>1, <2>1, TApply
  <2>3. /\ known' = [known EXCEPT ![c] = known[c] \cup {f.data}] /\ UNCHANGED past
        /\ disordered \subseteq disordered' /\ (Server \in disordered' => Server \in disordered)
    BY <1>1, <2>1 DEF Apply, ApplyEnvelope
  <2>4. Reflects(f) = {f.data}
    BY <2>1 DEF Reflects
  <2>5. CASE relay = "rust"
    BY <1>1, <1>2, <1>4, <2>1, <2>3, <2>4, <2>5, UReceives, <2>2
  <2>6. CASE relay # "rust"
    BY <1>1, <2>2, <2>6 DEF Stores
  <2> QED BY <2>5, <2>6
<1>6. CASE ReceiveStore(c)
  <2>1. /\ f.type = "SNAPSHOT" /\ relay = "rust" /\ Merge(c, f.data)
        /\ disordered' = disordered \cup (IF Server \in disordered THEN {c} ELSE {})
        /\ downlink' = Received(c)
    BY <1>2, <1>6 DEF ReceiveStore
  <2>2. f \in ToSet(downlink[c])
    <3>1. downlink[c] \in Seq(ToSet(downlink[c]))
      BY DEF SInv, Wired
    <3>2. ToSet(downlink[c]) = {downlink[c][1]} \cup ToSet(Tail(downlink[c]))
      BY <1>1, <3>1, FirstFrame
    <3> QED BY <1>2, <3>2
  <2>3. StoreFrame(f)
    BY <2>1, <2>2 DEF Stores, StoreCovers
  <2>4. f.data.clock \in Int
    BY <1>3, <2>1, BoundsAreInt DEF FrameOK, Covers
  <2>5. PICK other : other = f.data
    OBVIOUS
  <2>6. /\ Merge(c, other) /\ other.clock \in Int
        /\ \A k \in SeqKey : /\ Within(other.sequences[k], other.clock)
                              /\ Backed(other.sequences[k], other.known, k)
                              /\ \/ Server \in disordered
                                 \/ Complete(other.sequences[k], other.known, k)
    BY <2>1, <2>3, <2>4, <2>5 DEF StoreFrame
  <2>7. SeqInv'
    BY <1>1, <2>6, SeqMerges DEF TInv
  <2>8. c \in disordered' \/ \A k \in SeqKey : Complete(other.sequences[k], other.known, k)
    BY <2>1, <2>6
  <2>9. TInv'
    BY <1>1, <2>1, <2>6, <2>7, <2>8, TMerges
  <2>10. known' = [known EXCEPT ![c] = known[c] \cup Reflects(f)] /\ UNCHANGED past
    BY <2>1 DEF Merge, Reflects
  <2>11. Stores'
    BY <1>1, <1>2, <1>4, <2>1, <2>10, UReceives
  <2> QED BY <2>9, <2>11
<1>7. CASE ReceiveLogged(c)
  <2>1. f.type = "SNAPSHOT" /\ relay = "ts" /\ f.data # <<>> /\ Apply(c, Head(f.data))
    BY <1>2, <1>7 DEF ReceiveLogged
  <2>2. f.data \in Seq(net)
    BY <1>3, <2>1 DEF FrameOK
  <2>3. Head(f.data) \in net
    BY <2>1, <2>2
  <2>4. TInv'
    BY <1>1, <2>1, <2>3, TApply
  <2> QED BY <1>1, <2>1, <2>4 DEF Stores
<1>8. CASE ReceiveLogEnd(c)
  <2>1. relay = "ts" /\ UNCHANGED vars /\ UNCHANGED disordered
    BY <1>8 DEF ReceiveLogEnd
  <2> QED BY <1>1, <2>1, TQuiet DEF Stores
<1> QED BY <1>5, <1>6, <1>7, <1>8 DEF Receives

LEMMA UInit == SyncInit => TInv /\ Stores
<1> SUFFICES ASSUME SyncInit PROVE TInv /\ Stores
  OBVIOUS
<1>1. SInv /\ SeqInv
  BY SInit, SeqInit DEF SyncInit
<1>2. /\ net = {} /\ lost = {} /\ disordered = {}
      /\ known = [n \in Node |-> {}] /\ sequences = [n \in Node |-> [k \in SeqKey |-> EmptyRGA]]
  BY DEF SyncInit, Init
<1>3. EmptyRGA.nodes = <<>> /\ EmptyRGA.pending = <<>>
  BY DEF EmptyRGA
<1>4. Ids(<<>>) = {} /\ ToSet(<<>>) = {}
  BY NoFrames DEF Ids
<1>5. Gone(EmptyRGA) = {} /\ Ids(EmptyRGA.nodes) = {}
  BY <1>3, <1>4 DEF Gone
<1>6. \A k : Inserted({}, k) = {} /\ Removed({}, k) = {}
  BY DEF Inserted, Removed
<1>7. TInv
  <2>1. \A n \in Node : known[n] = {} /\ \A k \in SeqKey : sequences[n][k] = EmptyRGA
    BY <1>2
  <2>2. \A n \in Node : Follows(n) /\ Reflected(n)
    BY <1>3, <1>4, <1>5, <1>6, <2>1 DEF Follows, Reflected, Backed, Awaits, Complete
  <2> QED BY <1>1, <1>2, <2>2 DEF TInv
<1>8. Stores
  <2>1. \A c \in Client : /\ uplink[c] = <<>> /\ pending[c] = <<>> /\ queued[c] = <<>>
                          /\ downlink[c] = <<>> /\ sending[c] = NotSending
                          /\ online[c] = FALSE /\ known[c] = {}
    BY <1>2, ClientAssumption DEF SyncInit, InitApi
  <2>2. StoreCovers
    BY <2>1, NoFrames, ReachingNone DEF StoreCovers
  <2>3. \A c \in Client : Line(c) = <<>>
    <3>1. <<>> \in Seq({})
      OBVIOUS
    <3>2. Join(<<>>, Join(<<>>, <<>>)) = <<>>
      BY <3>1, JoinedNone
    <3> QED BY <2>1, <3>2 DEF Line
  <2>4. \A p, B : Ordered(p, <<>>, B)
    BY DEF Ordered
  <2>5. StoreReaches
    BY <1>2, <2>1, <2>3, <2>4 DEF StoreReaches
  <2> QED BY <2>2, <2>5 DEF Stores
<1> QED BY <1>7, <1>8

\* A proxy that is dropped loses nothing when nothing is lost.
LEMMA LinesEnded ==
    ASSUME Wired, NEW c \in Client, EndProxy(c), lost' = {}
    PROVE  lost = {} /\ \A d \in Client : Line(d)' = Line(d)
<1> DEFINE w == queued[c]
<1>1. w \in Seq(net) /\ lost = {} /\ ToSet(w) = {} /\ UNCHANGED <<uplink, pending>>
  BY DEF Wired, EndProxy, DropProxy, wires
<1>2. w = <<>>
  BY <1>1, Members
<1>3. queued' = queued
  BY <1>2 DEF EndProxy, DropProxy, Wired
<1> QED BY <1>1, <1>3 DEF Line

LEMMA UNext == SInv /\ SInv' /\ TInv /\ Stores /\ [SyncNext]_allVars => TInv' /\ Stores'
<1> SUFFICES ASSUME SInv, SInv', TInv, Stores, [SyncNext]_allVars PROVE TInv' /\ Stores'
  OBVIOUS
<1>1. HInv /\ HInv'
  BY DEF SInv
<1>2. ASSUME UNCHANGED <<vars, relay, sending, online, downlink, disordered>>,
             lost' = {} => lost = {} /\ \A d \in Client : Line(d)' = Line(d)
      PROVE  TInv' /\ Stores'
  <2>1. UNCHANGED <<net, known, past>>
    BY <1>2 DEF vars
  <2> QED BY <1>1, <1>2, <2>1, TQuiet, ULines
<1>3. CASE UNCHANGED allVars
  <2>1. \A d \in Client : Line(d)' = Line(d)
    BY <1>3 DEF allVars, api, wires, Line
  <2> QED BY <1>2, <1>3, <2>1 DEF allVars, wires, ghosts
<1>4. CASE SyncNext
  <2>1. PICK c \in Client : Call(c) \/ Connect(c) \/ Disconnect(c) \/ Works(c)
    BY <1>4 DEF SyncNext
  <2>2. CASE Call(c)
    BY <2>2, TCall, UCall
  <2>3. CASE Connect(c)
    <3>1. UNCHANGED vars /\ UNCHANGED disordered
      BY <2>3 DEF Connect, ghosts
    <3> QED BY <1>1, <2>3, <3>1, TQuiet, UConnect
  <2>4. CASE Disconnect(c)
    <3>1. UNCHANGED vars /\ UNCHANGED disordered
      BY <2>4 DEF Disconnect
    <3> QED BY <1>1, <2>4, <3>1, TQuiet, UDisconnect
  <2>5. CASE Drains(c)
    BY <1>2, <2>5, LinesDrained DEF Drains, DrainPending, wires, ghosts, SInv
  <2>6. CASE EndProxy(c)
    <3>1. lost' = {} => lost = {} /\ \A d \in Client : Line(d)' = Line(d)
      BY <2>6, LinesEnded DEF SInv
    <3> QED BY <1>2, <2>6, <3>1 DEF EndProxy, DropProxy, wires
  <2>7. CASE Send(c)
    BY <1>2, <2>7, LinesSent DEF Send, ghosts, SInv
  <2>8. CASE RelayReceive(c)
    <3>1. CASE relay = "ts"
      <4>1. UNCHANGED vars /\ UNCHANGED <<disordered, relay>>
        BY <2>8, <3>1 DEF RelayReceive, RelayLogs
      <4> QED BY <1>1, <3>1, <4>1, TQuiet DEF Stores
    <3>2. CASE relay = "rust"
      <4>1. Apply(Server, Head(uplink[c])) /\ Server \in Node
        BY <2>8, <3>2, RelayAssumption DEF RelayReceive, RelayApplies
      <4>2. Head(uplink[c]) \in net
        BY <2>8, LineMoves
      <4>3. TInv'
        BY <1>1, <4>1, <4>2, TApply
      <4> QED BY <2>8, <3>2, <4>3, URelayApplies
    <3> QED BY <3>1, <3>2 DEF SInv, Wired
  <2>9. CASE RelaySend(c)
    <3>1. UNCHANGED vars /\ UNCHANGED disordered
      BY <2>9 DEF RelaySend, ghosts
    <3> QED BY <1>1, <2>9, <3>1, TQuiet, URelaySend
  <2>10. CASE Receives(c)
    BY <2>10, UReceived
  <2> QED BY <2>1, <2>2, <2>3, <2>4, <2>5, <2>6, <2>7, <2>8, <2>9, <2>10 DEF Works
<1> QED BY <1>3, <1>4
-----------------------------------------------------------------------------
(* What a step does to the stores, and which stores are sent.              *)

\* A store is left alone, makes a call's operation, applies an envelope, or
\* merges a store that it was sent.
StoreStep ==
    \/ UNCHANGED <<vars, disordered>>
    \/ \E c \in Client : LocalOperation(c) /\ UNCHANGED disordered
    \/ \E n \in Node, env \in net : Apply(n, env)
    \/ \E c \in Client : \E f \in ToSet(downlink[c]) :
          /\ relay = "rust" /\ f.type # "UPDATE" /\ Merge(c, f.data)
          /\ disordered' = disordered \cup (IF Server \in disordered THEN {c} ELSE {})

LEMMA FirstIn ==
    ASSUME Wired, NEW c \in Client, downlink[c] # <<>>
    PROVE  /\ downlink[c][1] \in ToSet(downlink[c])
           /\ ToSet(Tail(downlink[c])) \subseteq ToSet(downlink[c])
<1>1. downlink[c] \in Seq(ToSet(downlink[c]))
  BY DEF Wired
<1>2. ToSet(downlink[c]) = {downlink[c][1]} \cup ToSet(Tail(downlink[c]))
  BY <1>1, FirstFrame
<1> QED BY <1>2

LEMMA StoreSteps ==
    ASSUME SInv, SeqInv, [SyncNext]_allVars
    PROVE  StoreStep
<1>1. CASE UNCHANGED allVars
  BY <1>1 DEF allVars, ghosts, StoreStep
<1>2. CASE SyncNext
  <2>1. PICK c \in Client : Call(c) \/ Connect(c) \/ Disconnect(c) \/ Works(c)
    BY <1>2 DEF SyncNext
  <2>2. CASE Call(c)
    <3>1. (NewProxy(c) \/ LocalOperation(c)) /\ UNCHANGED disordered
      BY <2>2, CallIsLocal DEF Call, ghosts
    <3> QED BY <3>1 DEF NewProxy, StoreStep
  <2>3. CASE Connect(c) \/ Disconnect(c)
    BY <2>3 DEF Connect, Disconnect, ghosts, StoreStep
  <2>4. CASE Drains(c) \/ EndProxy(c) \/ Send(c) \/ RelaySend(c)
    BY <2>4 DEF Drains, DrainPending, EndProxy, DropProxy, Send, RelaySend, ghosts, StoreStep
  <2>5. CASE RelayReceive(c)
    <3>1. CASE relay = "ts"
      BY <2>5, <3>1 DEF RelayReceive, RelayLogs, StoreStep
    <3>2. CASE relay # "ts"
      <4>1. Apply(Server, Head(uplink[c])) /\ Server \in Node /\ Head(uplink[c]) \in net
        BY <2>5, <3>2, RelayAssumption, LineMoves DEF RelayReceive, RelayApplies
      <4> QED BY <4>1 DEF StoreStep
    <3> QED BY <3>1, <3>2
  <2>6. CASE Receives(c)
    <3>1. PICK f : f = downlink[c][1]
      OBVIOUS
    <3>2. downlink[c] # <<>> /\ c \in Node /\ f \in ToSet(downlink[c])
      BY <2>6, <3>1, FirstIn, ClientAssumption DEF Receives, SInv
    <3>3. FrameOK(f)
      BY <3>2 DEF SInv, Wired
    <3>4. CASE ReceiveUpdate(c)
      <4>1. Apply(c, f.data) /\ f.data \in net
        BY <3>1, <3>3, <3>4 DEF ReceiveUpdate, FrameOK
      <4> QED BY <3>2, <4>1 DEF StoreStep
    <3>5. CASE ReceiveLogged(c)
      <4>1. f.type = "SNAPSHOT" /\ relay = "ts" /\ f.data # <<>> /\ Apply(c, Head(f.data))
        BY <3>1, <3>5 DEF ReceiveLogged
      <4>2. f.data \in Seq(net)
        BY <3>3, <4>1 DEF FrameOK
      <4>3. Head(f.data) \in net
        BY <4>1, <4>2
      <4> QED BY <3>2, <4>1, <4>3 DEF StoreStep
    <3>6. CASE ReceiveLogEnd(c)
      BY <3>6 DEF ReceiveLogEnd, StoreStep
    <3>7. CASE ReceiveStore(c)
      <4>1. /\ f.type = "SNAPSHOT" /\ relay = "rust" /\ Merge(c, f.data)
            /\ disordered' = disordered \cup (IF Server \in disordered THEN {c} ELSE {})
        BY <3>1, <3>7 DEF ReceiveStore
      <4> QED BY <3>2, <4>1 DEF StoreStep
    <3> QED BY <2>6, <3>4, <3>5, <3>6, <3>7 DEF Receives
  <2> QED BY <2>1, <2>2, <2>3, <2>4, <2>5, <2>6 DEF Works
<1> QED BY <1>1, <1>2

\* A store that is on its way was, or is the relay's, which nothing changes then.
LEMMA StoresSent ==
    ASSUME SInv, [SyncNext]_allVars
    PROVE  /\ relay' = relay
           /\ \A c \in Client : \A f \in ToSet(downlink'[c]) :
                (relay = "rust" /\ f.type # "UPDATE") =>
                    f \in ToSet(downlink[c]) \/ (f = Snapshot /\ UNCHANGED <<vars, disordered>>)
<1>0. \A c \in Client : downlink[c] \in Seq(ToSet(downlink[c])) /\ PerClient(downlink)
  BY DEF SInv, Wired
<1>1. CASE UNCHANGED allVars
  BY <1>1 DEF allVars, wires
<1>2. CASE SyncNext
  <2>1. PICK c \in Client : Call(c) \/ Connect(c) \/ Disconnect(c) \/ Works(c)
    BY <1>2 DEF SyncNext
  <2>2. CASE Call(c)
    BY <2>2 DEF Call, wires
  <2>3. CASE Connect(c)
    <3>1. PICK g : g = Snapshot
      OBVIOUS
    <3>2. /\ downlink'[c] = <<g>> /\ UNCHANGED <<vars, relay, disordered>>
          /\ \A d \in Client : d # c => downlink'[d] = downlink[d]
      BY <1>0, <2>3, <3>1 DEF Connect, PerClient, ghosts
    <3>3. ToSet(downlink'[c]) = {g}
      BY <3>2, ReachingOne
    <3> QED BY <3>1, <3>2, <3>3
  <2>4. CASE Disconnect(c)
    <3>1. /\ downlink'[c] = <<>> /\ relay' = relay
          /\ \A d \in Client : d # c => downlink'[d] = downlink[d]
      BY <1>0, <2>4 DEF Disconnect, PerClient
    <3> QED BY <3>1, NoFrames
  <2>5. CASE Drains(c) \/ EndProxy(c) \/ Send(c)
    BY <2>5 DEF Drains, EndProxy, Send, wires
  <2>6. CASE RelayReceive(c)
    <3>1. relay' = relay
      BY <2>6 DEF RelayReceive
    <3>2. CASE relay = "rust"
      <4>1. downlink' = downlink
        BY <2>6, <3>2 DEF RelayReceive, RelayApplies
      <4> QED BY <3>1, <4>1
    <3> QED BY <3>1, <3>2
  <2>7. CASE RelaySend(c)
    <3>1. PICK d \in sending[c].peers :
              /\ downlink' = [downlink EXCEPT ![d] = Append(@, UpdateOf(sending[c].env))]
              /\ relay' = relay
      BY <2>7 DEF RelaySend
    <3>2. PICK g : g = UpdateOf(sending[c].env)
      OBVIOUS
    <3>3. d \in Client
      <4>1. sending[c] # NotSending
        BY <3>1 DEF NotSending
      <4> QED BY <3>1, <4>1 DEF SInv, Wired, SendingOK
    <3>4. PICK fs : fs = downlink[d]
      OBVIOUS
    <3>5. /\ fs \in Seq(ToSet(fs)) /\ downlink'[d] = Append(fs, g)
          /\ \A x \in Client : x # d => downlink'[x] = downlink[x]
      BY <1>0, <3>1, <3>2, <3>3, <3>4 DEF PerClient
    <3>6. ToSet(downlink'[d]) = ToSet(downlink[d]) \cup {g}
      BY <3>4, <3>5, ReachingMore
    <3>7. g.type = "UPDATE"
      BY <3>2 DEF UpdateOf
    <3> QED BY <3>1, <3>5, <3>6, <3>7
  <2>8. CASE Receives(c)
    <3>1. relay' = relay /\ downlink[c] # <<>>
      BY <2>8 DEF Receives
    <3>2. CASE relay # "rust"
      BY <3>1, <3>2
    <3>3. CASE relay = "rust"
      <4>1. downlink' = Received(c)
        BY <2>8, <3>3 DEF Receives, ReceiveUpdate, ReceiveLogged, ReceiveLogEnd, ReceiveStore
      <4>2. /\ downlink'[c] = Tail(downlink[c])
            /\ \A d \in Client : d # c => downlink'[d] = downlink[d]
        BY <1>0, <4>1 DEF Received, PerClient
      <4>3. ToSet(downlink'[c]) \subseteq ToSet(downlink[c])
        BY <3>1, <4>2, FirstIn DEF SInv
      <4> QED BY <3>1, <4>2, <4>3
    <3> QED BY <3>2, <3>3
  <2> QED BY <2>1, <2>2, <2>3, <2>4, <2>5, <2>6, <2>7, <2>8 DEF Works
<1> QED BY <1>1, <1>2

-----------------------------------------------------------------------------
(* The order of a list.                                                    *)

\* The inserts into sequence k.
InsertsOf(k) == {e.op : e \in {x \in net : x.kind = "Sequence" /\ x.key = k /\ IsInsert(x.op)}}

\* An id is its producer's, whose counter has passed it.
Issued(e) ==
    (e.kind = "Sequence" /\ IsInsert(e.op)) =>
        e.op.id.node = e.node /\ e.op.id.clock <= sequences[e.node][e.key].clock

\* A store on its way has its lists in order.
ListFrame(f) == \A k \in SeqKey : f.data.sequences[k].nodes \in ListsOf(RGAId, InsertsOf(k))

\* The inductive invariant for the order: the lists of the clients and of the
\* relay, and those on their way, are in the one document order of the inserts.
ListsInv ==
    /\ \A e \in net : Issued(e)
    /\ \A k \in SeqKey : Insertions(RGAId, InsertsOf(k))
    /\ \A n \in Node, k \in SeqKey : HasListOf(sequences[n][k], RGAId, InsertsOf(k))
    /\ relay = "rust" =>
          \A c \in Client : \A f \in ToSet(downlink[c]) : f.type = "UPDATE" \/ ListFrame(f)

LEMMA IdsAreBelow == IdsBelow(RGAId, MaxClock)
<1>1. \A i \in RGAId : i.clock \in 1..MaxClock /\ i.node \in Node /\ i = [clock |-> i.clock, node |-> i.node]
  BY DEF RGAId
<1> QED BY <1>1, BoundAssumption, NodeAssumption DEF IdsBelow, Numbered

\* Nothing is inserted, and the stores have lists in order.
LEMMA ListsStay ==
    ASSUME ListsInv, UNCHANGED <<net, relay>>,
           \A n \in Node, k \in SeqKey :
              /\ HasListOf(sequences'[n][k], RGAId, InsertsOf(k))
              /\ sequences[n][k].clock <= sequences'[n][k].clock
              /\ sequences[n][k].clock \in Nat /\ sequences'[n][k].clock \in Nat,
           \A e \in net : SeqOpOK(e) /\ e.node \in Node,
           \A c \in Client : \A f \in ToSet(downlink'[c]) :
              (relay = "rust" /\ f.type # "UPDATE") =>
                  f \in ToSet(downlink[c]) \/ (f = Snapshot /\ UNCHANGED <<vars, disordered>>)
    PROVE  ListsInv'
<1>1. \A k : InsertsOf(k)' = InsertsOf(k)
  BY DEF InsertsOf
<1>2. \A e \in net : Issued(e)'
  <2> SUFFICES ASSUME NEW e \in net, e.kind = "Sequence", IsInsert(e.op)
               PROVE  e.op.id.node = e.node /\ e.op.id.clock <= sequences'[e.node][e.key].clock
    BY DEF Issued
  <2>1. e.op.id.node = e.node /\ e.op.id.clock <= sequences[e.node][e.key].clock
    BY DEF ListsInv, Issued
  <2>2. e.key \in SeqKey /\ e.node \in Node /\ e.op.id.clock \in Nat
    BY RGAIdsHaveClocks DEF SeqOpOK, OpsOver, WaitingOf, DeletesOf
  <2>3. PICK n : n = e.node
    OBVIOUS
  <2>4. PICK k : k = e.key
    OBVIOUS
  <2>5. /\ sequences[n][k].clock <= sequences'[n][k].clock
        /\ sequences[n][k].clock \in Nat /\ sequences'[n][k].clock \in Nat
    BY <2>2, <2>3, <2>4
  <2> QED BY <2>1, <2>2, <2>3, <2>4, <2>5
<1>3. ASSUME relay = "rust", NEW c \in Client, NEW f \in ToSet(downlink'[c]), f.type # "UPDATE"
      PROVE  ListFrame(f)'
  <2>1. CASE f \in ToSet(downlink[c])
    BY <1>1, <1>3, <2>1 DEF ListsInv, ListFrame
  <2>2. CASE f = Snapshot
    <3>1. f.data.sequences = sequences[Server] /\ Server \in Node
      BY <1>3, <2>2, RelayAssumption DEF Snapshot, StoreCopy
    <3>2. \A k \in SeqKey : sequences[Server][k].nodes \in ListsOf(RGAId, InsertsOf(k))
      BY <3>1 DEF ListsInv, HasListOf, Orders, Keeps, ListsOf
    <3> QED BY <1>1, <3>1, <3>2 DEF ListFrame
  <2> QED BY <1>3, <2>1, <2>2
<1> QED BY <1>1, <1>2, <1>3 DEF ListsInv

\* The inserts after a call that has made env.
LEMMA InsertsMade ==
    ASSUME SInv, TInv, ListsInv, NEW n \in Node, NEW env, Made(n, env), Produces(n, env), SeqInv',
           NEW k \in SeqKey
    PROVE  /\ InsertsOf(k) \subseteq InsertsOf(k)' /\ Insertions(RGAId, InsertsOf(k)')
           /\ (env.kind = "Sequence" /\ env.key = k /\ IsInsert(env.op)) => env.op \in InsertsOf(k)'
<1>1. PICK P : P = InsertsOf(k)
  OBVIOUS
<1>2. PICK Q : Q = InsertsOf(k)'
  OBVIOUS
<1>3. Insertions(RGAId, P) /\ net' = net \cup {env} /\ env.node = n /\ env \in net'
  BY <1>1 DEF ListsInv, Made
<1>4. CASE ~(env.kind = "Sequence" /\ env.key = k /\ IsInsert(env.op))
  <2>1. Q = P
    BY <1>1, <1>2, <1>3, <1>4 DEF InsertsOf
  <2> QED BY <1>1, <1>2, <1>3, <1>4, <2>1
<1>5. CASE env.kind = "Sequence" /\ env.key = k /\ IsInsert(env.op)
  <2>1. PICK op : op = env.op
    OBVIOUS
  <2>2. Q = P \cup {op}
    BY <1>1, <1>2, <1>3, <1>5, <2>1 DEF InsertsOf
  <2>3. PICK s : s = sequences[n][k]
    OBVIOUS
  <2>4. /\ op \in WaitingOf(RGAId) /\ (op.after = Head0 \/ op.after \in Ids(s.nodes))
        /\ op.id.node = n /\ op.id.clock = s.clock + 1
    <3>1. op \in OpsOver(RGAId) /\ IsInsert(op)
      BY <1>5, <2>1 DEF Produces
    <3>2. op \in WaitingOf(RGAId)
      BY <3>1 DEF OpsOver, DeletesOf, IsInsert
    <3> QED BY <1>5, <2>1, <2>3, <3>2 DEF Produces
  <2>5. s \in RGAStates(RGAId) /\ Counted(s) /\ s.clock \in Nat /\ Ids(s.nodes) \subseteq RGAId
    <3>1. s \in RGAStates(RGAId) /\ Counted(s)
      BY <2>3 DEF TInv, SeqInv, Within
    <3> QED BY <3>1, StateIds
  <2>6. ASSUME NEW a \in P PROVE a.id # op.id
    <3>1. PICK e \in net : e.kind = "Sequence" /\ e.key = k /\ IsInsert(e.op) /\ a = e.op
      BY <1>1 DEF InsertsOf
    <3>2. e.op.id.node = e.node /\ e.op.id.clock <= sequences[e.node][k].clock
      BY <3>1 DEF ListsInv, Issued
    <3>3. CASE e.node = n
      <4>1. a.id.clock <= s.clock /\ a.id.clock \in Nat
        BY <1>3, <2>3, <3>1, <3>2, <3>3, RGAIdsHaveClocks DEF Insertions, WaitingOf
      <4> QED BY <2>4, <2>5, <4>1
    <3>4. CASE e.node # n
      BY <2>4, <3>1, <3>2, <3>4
    <3> QED BY <3>3, <3>4
  <2>7. \A a, b \in Q : a.id = b.id => a = b
    BY <1>3, <2>2, <2>6 DEF Insertions
  <2>8. op.after = Head0 \/ (op.after \in {x.id : x \in P} /\ op.after.clock < op.id.clock)
    <3>1. CASE op.after \in Ids(s.nodes)
      <4>1. op.after.clock <= s.clock /\ op.after.clock \in Nat
        BY <2>5, <3>1, RGAIdsHaveClocks DEF Counted
      <4>2. op.after \in Inserted(known[n], k)
        BY <2>3, <3>1 DEF TInv, Follows, Backed
      <4>3. known[n] \subseteq net
        BY DEF SInv, HInv
      <4>4. op.after \in {x.id : x \in P}
        <5>1. PICK e \in known[n] : /\ e.kind = "Sequence" /\ e.key = k /\ IsInsert(e.op)
                                    /\ op.after = e.op.id
          BY <4>2 DEF Inserted
        <5>2. e.op \in P
          BY <1>1, <4>3, <5>1 DEF InsertsOf
        <5> QED BY <5>1, <5>2
      <4> QED BY <2>4, <2>5, <4>1, <4>4
    <3> QED BY <2>4, <3>1
  <2>9. Anchored(Q)
    <3>1. Anchored(P) /\ P \subseteq Q
      BY <1>3, <2>2 DEF Insertions
    <3>2. {x.id : x \in P} \subseteq {x.id : x \in Q}
      BY <3>1
    <3>3. ASSUME NEW e \in Q
          PROVE  e.after = Head0 \/ (e.after \in {x.id : x \in P} /\ e.after.clock < e.id.clock)
      <4>1. CASE e = op
        BY <2>8, <4>1
      <4>2. CASE e \in P
        BY <3>1, <4>2 DEF Anchored
      <4> QED BY <2>2, <4>1, <4>2
    <3>4. \A e \in Q : \/ e.after = Head0
                       \/ e.after \in {x.id : x \in Q} /\ e.after.clock < e.id.clock
      BY <3>2, <3>3
    <3> QED BY <3>4 DEF Anchored
  <2>10. Q \subseteq WaitingOf(RGAId)
    BY <1>3, <2>2, <2>4 DEF Insertions
  <2>11. Insertions(RGAId, Q)
    BY <2>7, <2>9, <2>10 DEF Insertions
  <2> QED BY <1>1, <1>2, <2>1, <2>2, <2>11
<1> QED BY <1>4, <1>5

\* A list applies an operation of the network.
LEMMA ListApplies ==
    ASSUME NEW k, NEW P, Insertions(RGAId, P), NEW s, HasListOf(s, RGAId, P), NEW time, Within(s, time),
           NEW op \in OpsOver(RGAId), IsInsert(op) => op \in P
    PROVE  /\ HasListOf(SeqApply(s, op), RGAId, P)
           /\ s.clock <= SeqApply(s, op).clock
           /\ s.clock \in Nat /\ SeqApply(s, op).clock \in Nat
<1>1. PICK t : t = SeqApply(s, op)
  OBVIOUS
<1>2. s \in RGAStates(RGAId) /\ Counted(s)
  BY DEF Within
<1>3. t \in RGAStates(RGAId) /\ s.clock <= t.clock
  BY <1>1, <1>2, RGAIdsHaveClocks, ApplyCounts
<1>4. HasListOf(t, RGAId, P)
  BY <1>1, IdsAreBelow, AppliedInOrder
<1> QED BY <1>1, <1>2, <1>3, <1>4, StateIds

LEMMA ListsApply ==
    ASSUME SInv, TInv, ListsInv, NEW n \in Node, NEW env \in net, ApplyEnvelope(n, env),
           NEW m \in Node, NEW k \in SeqKey
    PROVE  /\ HasListOf(sequences'[m][k], RGAId, InsertsOf(k))
           /\ sequences[m][k].clock <= sequences'[m][k].clock
           /\ sequences[m][k].clock \in Nat /\ sequences'[m][k].clock \in Nat
<1>1. PICK s : s = sequences[m][k]
  OBVIOUS
<1>2. PICK P : P = InsertsOf(k)
  OBVIOUS
<1>3. /\ HasListOf(s, RGAId, P) /\ Insertions(RGAId, P) /\ Within(s, clock[m])
      /\ s.clock \in Nat
  <2>1. s \in RGAStates(RGAId)
    BY <1>1 DEF TInv, SeqInv
  <2> QED BY <1>1, <1>2, <2>1, StateIds DEF ListsInv, TInv, SeqInv
<1>4. CASE m = n /\ env.kind = "Sequence" /\ env.key = k
  <2>1. PICK op : op = env.op
    OBVIOUS
  <2>2. op \in OpsOver(RGAId) /\ sequences'[m][k] = SeqApply(s, op)
    BY <1>1, <1>4, <2>1 DEF TInv, SeqInv, SeqOpOK, ApplyEnvelope
  <2>3. IsInsert(op) => op \in P
    BY <1>2, <1>4, <2>1 DEF InsertsOf
  <2> QED BY <1>1, <1>2, <1>3, <2>2, <2>3, ListApplies
<1>5. CASE ~(m = n /\ env.kind = "Sequence" /\ env.key = k)
  <2>1. sequences'[m][k] = s
    BY <1>1, <1>5 DEF TInv, SeqInv, SeqOpOK, ApplyEnvelope
  <2> QED BY <1>1, <1>2, <1>3, <2>1
<1> QED BY <1>4, <1>5

LEMMA ListsMerge ==
    ASSUME SInv, TInv, ListsInv, NEW n \in Node, NEW f, Merge(n, f.data), StoreFrame(f), ListFrame(f),
           NEW m \in Node, NEW k \in SeqKey
    PROVE  /\ HasListOf(sequences'[m][k], RGAId, InsertsOf(k))
           /\ sequences[m][k].clock <= sequences'[m][k].clock
           /\ sequences[m][k].clock \in Nat /\ sequences'[m][k].clock \in Nat
<1>1. PICK s : s = sequences[m][k]
  OBVIOUS
<1>2. PICK P : P = InsertsOf(k)
  OBVIOUS
<1>3. PICK o : o = f.data.sequences[k]
  OBVIOUS
<1>4. /\ HasListOf(s, RGAId, P) /\ Insertions(RGAId, P)
      /\ s \in RGAStates(RGAId) /\ Counted(s)
  BY <1>1, <1>2 DEF ListsInv, TInv, SeqInv, Within
<1>5. o \in RGAStates(RGAId) /\ Counted(o) /\ o.nodes \in ListsOf(RGAId, P)
  BY <1>2, <1>3 DEF StoreFrame, Within, ListFrame
<1>6. sequences'[m][k] = IF m = n THEN SeqMerge(s, o) ELSE s
  BY <1>1, <1>3 DEF Merge, TInv, SeqInv
<1>7. PICK t : t = SeqMerge(s, o)
  OBVIOUS
<1>8. t \in RGAStates(RGAId) /\ s.clock <= t.clock
  BY <1>4, <1>5, <1>7, RGAIdsHaveClocks, MergeCounts
<1>9. HasListOf(t, RGAId, P)
  BY <1>4, <1>5, <1>7, IdsAreBelow, MergedInOrder
<1>10. s.clock \in Nat /\ t.clock \in Nat
  BY <1>4, <1>8, StateIds
<1> QED BY <1>1, <1>2, <1>4, <1>6, <1>7, <1>8, <1>9, <1>10

LEMMA ListsMake ==
    ASSUME SInv, SInv', TInv, TInv', ListsInv, NEW n \in Node, NEW env, Made(n, env), Produces(n, env),
           UNCHANGED relay,
           \A c \in Client : \A f \in ToSet(downlink'[c]) :
              (relay = "rust" /\ f.type # "UPDATE") =>
                  f \in ToSet(downlink[c]) \/ (f = Snapshot /\ UNCHANGED <<vars, disordered>>)
    PROVE  ListsInv'
<1>1. /\ env \notin net /\ env.node = n /\ net' = net \cup {env}
  BY DEF Made
<1>2. SeqInv /\ SeqInv'
  BY DEF TInv
<1>3. \A k \in SeqKey :
         /\ InsertsOf(k) \subseteq InsertsOf(k)' /\ Insertions(RGAId, InsertsOf(k)')
         /\ (env.kind = "Sequence" /\ env.key = k /\ IsInsert(env.op)) => env.op \in InsertsOf(k)'
  BY <1>2, InsertsMade
<1>4. ASSUME NEW k \in SeqKey
      PROVE  /\ \A s : HasListOf(s, RGAId, InsertsOf(k)) => HasListOf(s, RGAId, InsertsOf(k)')
             /\ ListsOf(RGAId, InsertsOf(k)) \subseteq ListsOf(RGAId, InsertsOf(k)')
  <2>1. PICK P : P = InsertsOf(k)
    OBVIOUS
  <2>2. PICK Q : Q = InsertsOf(k)'
    OBVIOUS
  <2>3. Insertions(RGAId, P) /\ Insertions(RGAId, Q) /\ P \subseteq Q
    BY <1>3, <2>1, <2>2 DEF ListsInv
  <2>4. /\ \A s : HasListOf(s, RGAId, P) => HasListOf(s, RGAId, Q)
        /\ ListsOf(RGAId, P) \subseteq ListsOf(RGAId, Q)
    BY <2>3, IdsAreBelow, OrderGrows
  <2> QED BY <2>1, <2>2, <2>4
<1>5. ASSUME NEW m \in Node, NEW k \in SeqKey
      PROVE  /\ HasListOf(sequences'[m][k], RGAId, InsertsOf(k)')
             /\ sequences[m][k].clock <= sequences'[m][k].clock
             /\ sequences[m][k].clock \in Nat /\ sequences'[m][k].clock \in Nat
  <2>1. PICK s : s = sequences[m][k]
    OBVIOUS
  <2>2. PICK Q : Q = InsertsOf(k)'
    OBVIOUS
  <2>3. /\ HasListOf(s, RGAId, Q) /\ Insertions(RGAId, Q) /\ Within(s, clock[m]) /\ s.clock \in Nat
    <3>1. s \in RGAStates(RGAId) /\ HasListOf(s, RGAId, InsertsOf(k))
      BY <2>1 DEF TInv, SeqInv, ListsInv
    <3> QED BY <1>3, <1>4, <2>1, <2>2, <3>1, StateIds DEF TInv, SeqInv
  <2>4. CASE m = n /\ env.kind = "Sequence" /\ env.key = k
    <3>1. PICK op : op = env.op
      OBVIOUS
    <3>2. op \in OpsOver(RGAId) /\ sequences'[m][k] = SeqApply(s, op)
      BY <2>1, <2>4, <3>1 DEF TInv, SeqInv, Produces
    <3>3. IsInsert(op) => op \in Q
      BY <1>3, <2>2, <2>4, <3>1
    <3> QED BY <2>1, <2>2, <2>3, <3>2, <3>3, ListApplies
  <2>5. CASE ~(m = n /\ env.kind = "Sequence" /\ env.key = k)
    <3>1. sequences'[m][k] = s
      BY <2>1, <2>5 DEF TInv, SeqInv, Produces
    <3> QED BY <2>1, <2>2, <2>3, <3>1
  <2> QED BY <2>4, <2>5
<1>6. \A e \in net' : Issued(e)'
  <2> SUFFICES ASSUME NEW e \in net', e.kind = "Sequence", IsInsert(e.op)
               PROVE  e.op.id.node = e.node /\ e.op.id.clock <= sequences'[e.node][e.key].clock
    BY DEF Issued
  <2>1. e.key \in SeqKey /\ e.node \in Node /\ e.op.id.clock \in Nat
    BY <1>2, RGAIdsHaveClocks DEF SInv, HInv, SeqInv, SeqOpOK, OpsOver, WaitingOf, DeletesOf
  <2>2. CASE e \in net
    <3>1. e.op.id.node = e.node /\ e.op.id.clock <= sequences[e.node][e.key].clock
      BY <2>2 DEF ListsInv, Issued
    <3>2. PICK j : j = e.node
      OBVIOUS
    <3>3. PICK k : k = e.key
      OBVIOUS
    <3>4. /\ sequences[j][k].clock <= sequences'[j][k].clock
          /\ sequences[j][k].clock \in Nat /\ sequences'[j][k].clock \in Nat
      BY <1>5, <2>1, <3>2, <3>3
    <3> QED BY <2>1, <3>1, <3>2, <3>3, <3>4
  <2>3. CASE e = env
    <3>1. /\ e.op.id.node = n /\ e.op \in OpsOver(RGAId)
          /\ sequences'[n][e.key] = SeqApply(sequences[n][e.key], e.op)
      BY <2>1, <2>3 DEF Produces, TInv, SeqInv
    <3>2. PICK op : op = e.op
      OBVIOUS
    <3>3. PICK s : s = sequences[n][e.key]
      OBVIOUS
    <3>4. PICK t : t = SeqApply(s, op)
      OBVIOUS
    <3>5. s \in RGAStates(RGAId) /\ Counted(s)
      BY <2>1, <3>3 DEF TInv, SeqInv, Within
    <3>6. op.id.clock <= t.clock
      BY <3>1, <3>2, <3>4, <3>5, RGAIdsHaveClocks, ApplyCounts
    <3> QED BY <1>1, <2>3, <3>1, <3>2, <3>3, <3>4, <3>6
  <2> QED BY <1>1, <2>2, <2>3
<1>7. ASSUME relay = "rust", NEW c \in Client, NEW f \in ToSet(downlink'[c]), f.type # "UPDATE"
      PROVE  ListFrame(f)'
  <2>1. ~(UNCHANGED vars)
    BY <1>1 DEF vars
  <2>2. f \in ToSet(downlink[c])
    BY <1>7, <2>1
  <2>3. ListFrame(f)
    BY <1>7, <2>2 DEF ListsInv
  <2> QED BY <1>4, <2>3 DEF ListFrame
<1> QED BY <1>3, <1>5, <1>6, <1>7 DEF ListsInv

LEMMA ListsInit == SyncInit => ListsInv
<1> SUFFICES ASSUME SyncInit PROVE ListsInv
  OBVIOUS
<1>1. net = {} /\ \A n \in Node, k \in SeqKey : sequences[n][k] = EmptyRGA
  BY DEF SyncInit, Init
<1>2. \A k : InsertsOf(k) = {}
  BY <1>1 DEF InsertsOf
<1>3. \A P : P = {} => Insertions(RGAId, P)
  BY DEF Insertions, Anchored
<1>4. ASSUME NEW k \in SeqKey
      PROVE  Insertions(RGAId, InsertsOf(k)) /\ HasListOf(EmptyRGA, RGAId, InsertsOf(k))
  BY <1>2, <1>3, EmptyInOrder
<1>5. \A n \in Node, k \in SeqKey : HasListOf(sequences[n][k], RGAId, InsertsOf(k))
  BY <1>1, <1>4
<1>6. \A c \in Client : ToSet(downlink[c]) = {}
  BY NoFrames DEF SyncInit
<1> QED BY <1>1, <1>4, <1>5, <1>6 DEF ListsInv

LEMMA ListsNext ==
    SInv /\ SInv' /\ TInv /\ TInv' /\ Stores /\ ListsInv /\ [SyncNext]_allVars => ListsInv'
<1> SUFFICES ASSUME SInv, SInv', TInv, TInv', Stores, ListsInv, [SyncNext]_allVars PROVE ListsInv'
  OBVIOUS
<1>1. SeqInv /\ SeqInv' /\ HInv /\ HInv'
  BY DEF SInv, TInv
<1>2. /\ UNCHANGED relay
      /\ \A c \in Client : \A f \in ToSet(downlink'[c]) :
            (relay = "rust" /\ f.type # "UPDATE") =>
                f \in ToSet(downlink[c]) \/ (f = Snapshot /\ UNCHANGED <<vars, disordered>>)
  BY StoresSent
<1>3. \A e \in net : SeqOpOK(e) /\ e.node \in Node
  BY <1>1 DEF SeqInv, HInv
<1>4. CASE UNCHANGED <<net, sequences>>
  <2>1. ASSUME NEW n \in Node, NEW k \in SeqKey
        PROVE  /\ HasListOf(sequences'[n][k], RGAId, InsertsOf(k))
               /\ sequences[n][k].clock <= sequences'[n][k].clock
               /\ sequences[n][k].clock \in Nat /\ sequences'[n][k].clock \in Nat
    <3>1. PICK s : s = sequences[n][k]
      OBVIOUS
    <3>2. s \in RGAStates(RGAId) /\ HasListOf(s, RGAId, InsertsOf(k))
      BY <1>1, <3>1 DEF SeqInv, ListsInv
    <3> QED BY <1>4, <3>1, <3>2, StateIds
  <2> QED BY <1>2, <1>3, <1>4, <2>1, ListsStay
<1>5. ASSUME NEW n \in Node, NEW env \in net, Apply(n, env) PROVE ListsInv'
  <2>1. ApplyEnvelope(n, env) /\ UNCHANGED net
    BY <1>5 DEF Apply, ApplyEnvelope
  <2>2. \A m \in Node, k \in SeqKey :
           /\ HasListOf(sequences'[m][k], RGAId, InsertsOf(k))
           /\ sequences[m][k].clock <= sequences'[m][k].clock
           /\ sequences[m][k].clock \in Nat /\ sequences'[m][k].clock \in Nat
    BY <2>1, ListsApply
  <2> QED BY <1>2, <1>3, <2>1, <2>2, ListsStay
<1>6. ASSUME NEW c \in Client, NEW f \in ToSet(downlink[c]), relay = "rust", f.type # "UPDATE",
             Merge(c, f.data)
      PROVE  ListsInv'
  <2>1. c \in Node /\ UNCHANGED net
    BY <1>6, ClientAssumption DEF Merge
  <2>2. StoreFrame(f) /\ ListFrame(f)
    BY <1>6 DEF Stores, StoreCovers, ListsInv
  <2>3. \A m \in Node, k \in SeqKey :
           /\ HasListOf(sequences'[m][k], RGAId, InsertsOf(k))
           /\ sequences[m][k].clock <= sequences'[m][k].clock
           /\ sequences[m][k].clock \in Nat /\ sequences'[m][k].clock \in Nat
    BY <1>6, <2>1, <2>2, ListsMerge
  <2> QED BY <1>2, <1>3, <2>1, <2>3, ListsStay
<1>7. ASSUME NEW c \in Client, LocalOperation(c) PROVE ListsInv'
  <2>1. c \in Node
    BY ClientAssumption
  <2>2. CASE \E env : Made(c, env) /\ Produces(c, env)
    BY <1>2, <2>1, <2>2, ListsMake
  <2> QED BY <1>1, <1>4, <1>7, <2>1, <2>2, LocalProduces
<1>8. StoreStep
  BY <1>1, StoreSteps
<1> QED BY <1>4, <1>5, <1>6, <1>7, <1>8 DEF StoreStep, vars

\* Who reflects the same writes, and got none out of order, reads the same lists.
LEMMA SameLists ==
    ASSUME TInv, ListsInv, NEW c \in Node \ disordered, NEW d \in Node \ disordered,
           known[c] = known[d], NEW k \in SeqKey
    PROVE  SeqItems(c, k) = SeqItems(d, k)
<1>1. PICK s : s = sequences[c][k]
  OBVIOUS
<1>2. PICK t : t = sequences[d][k]
  OBVIOUS
<1>3. PICK P : P = InsertsOf(k)
  OBVIOUS
<1>4. Insertions(RGAId, P) /\ HasListOf(s, RGAId, P) /\ HasListOf(t, RGAId, P)
  BY <1>1, <1>2, <1>3 DEF ListsInv
<1>5. Ids(s.nodes) = Inserted(known[c], k) /\ Gone(s) = Removed(known[c], k)
  BY <1>1 DEF TInv, Follows, Reflected, Backed, Complete
<1>6. Ids(t.nodes) = Inserted(known[d], k) /\ Gone(t) = Removed(known[d], k)
  BY <1>2 DEF TInv, Follows, Reflected, Backed, Complete
<1>7. Visible(s.nodes) = Visible(t.nodes)
  BY <1>4, <1>5, <1>6, IdsAreBelow, SameIdsSameList
<1> QED BY <1>1, <1>2, <1>7 DEF SeqItems

-----------------------------------------------------------------------------
(* The greatest writes.                                                    *)

\* The inductive invariant for the registers, those of the clients and the
\* relay and those on their way.
RegistersInv ==
    /\ RInv
    /\ relay = "rust" =>
          \A c \in Client : \A f \in ToSet(downlink[c]) : f.type = "UPDATE" \/ HasWrites(f.data)

LEMMA HasWritesStays ==
    ASSUME NEW other, HasWrites(other), net \subseteq net'
    PROVE  HasWrites(other)'
BY DEF HasWrites

LEMMA RegistersInit == SyncInit => RegistersInv
<1> SUFFICES ASSUME SyncInit PROVE RegistersInv
  OBVIOUS
<1>1. RInv
  BY DEF SyncInit, Init, RInv, WritesOK, Holds, Writes, NoSnapshot, RegType
<1>2. \A c \in Client : ToSet(downlink[c]) = {}
  BY NoFrames DEF SyncInit
<1> QED BY <1>1, <1>2 DEF RegistersInv

LEMMA RegistersNext ==
    SInv /\ SInv' /\ SeqInv /\ RegistersInv /\ [SyncNext]_allVars => RegistersInv'
<1> SUFFICES ASSUME SInv, SInv', SeqInv, RegistersInv, [SyncNext]_allVars PROVE RegistersInv'
  OBVIOUS
<1>1. HInv /\ HInv' /\ RInv
  BY DEF SInv, RegistersInv
<1>2. RInv' /\ net \subseteq net'
  <2>1. CASE UNCHANGED vars
    BY <1>1, <2>1, RTick DEF vars
  <2>2. ASSUME NEW n \in Node, NEW env \in net, Apply(n, env) PROVE RInv' /\ net \subseteq net'
    <3>1. ApplyEnvelope(n, env) /\ UNCHANGED net
      BY <2>2 DEF Apply, ApplyEnvelope
    <3> QED BY <1>1, <3>1, RReceive
  <2>3. ASSUME NEW c \in Client, NEW f \in ToSet(downlink[c]), relay = "rust", f.type # "UPDATE",
               Merge(c, f.data)
        PROVE  RInv' /\ net \subseteq net'
    <3>1. c \in Node /\ UNCHANGED net /\ HasWrites(f.data)
      BY <2>3, ClientAssumption DEF Merge, RegistersInv
    <3> QED BY <1>1, <2>3, <3>1, RMerges
  <2>4. ASSUME NEW c \in Client, LocalOperation(c) PROVE RInv' /\ net \subseteq net'
    <3>1. c \in Node
      BY ClientAssumption
    <3>2. net \subseteq net'
      <4>1. CASE \E env : Made(c, env) /\ Produces(c, env)
        BY <4>1 DEF Made
      <4> QED BY <1>1, <2>4, <3>1, <4>1, LocalProduces
    <3> QED BY <1>1, <2>4, <3>1, <3>2, RLocal
  <2> QED BY <2>1, <2>2, <2>3, <2>4, StoreSteps DEF StoreStep
<1>3. ASSUME relay' = "rust", NEW c \in Client, NEW f \in ToSet(downlink'[c]), f.type # "UPDATE"
      PROVE  HasWrites(f.data)'
  <2>1. relay = "rust" /\ (f \in ToSet(downlink[c]) \/ (f = Snapshot /\ UNCHANGED vars))
    BY <1>3, StoresSent
  <2>2. CASE f \in ToSet(downlink[c])
    BY <1>2, <1>3, <2>1, <2>2, HasWritesStays DEF RegistersInv
  <2>3. CASE f = Snapshot
    <3>1. /\ f.data.registers = registers[Server] /\ f.data.known = Carried(Server)
          /\ Server \in Node
      BY <2>1, <2>3, RelayAssumption DEF Snapshot, StoreCopy
    <3>2. \A k \in RegKey : Writes(Carried(Server), k) = Writes(known[Server], k)
      BY DEF Carried, Writes
    <3>3. Carried(Server) \subseteq net
      BY <1>1, <3>1 DEF Carried, HInv
    <3>4. HasWrites(f.data)
      BY <1>1, <3>1, <3>2, <3>3 DEF RInv, HasWrites
    <3> QED BY <1>2, <3>4, HasWritesStays
  <2> QED BY <2>1, <2>2, <2>3
<1> QED BY <1>2, <1>3 DEF RegistersInv

\* Who reflects the same writes reads the same registers.
LEMMA SameRegisters ==
    ASSUME SInv, RInv, NEW c \in Node, NEW d \in Node, known[c] = known[d], NEW k \in RegKey
    PROVE  GetRegister(c, k) = GetRegister(d, k)
<1>1. PICK ws : ws = Writes(known[c], k)
  OBVIOUS
<1>2. PICK r : r = registers[c][k]
  OBVIOUS
<1>3. PICK q : q = registers[d][k]
  OBVIOUS
<1>4. Holds(r, ws) /\ Holds(q, ws)
  BY <1>1, <1>2, <1>3 DEF RInv
<1>5. Comparable(ws)
  BY <1>1, WritesComparable DEF RInv, SInv, HInv
<1>6. r = q
  <2>1. CASE ws = {}
    BY <1>4, <2>1 DEF Holds
  <2>2. CASE ws # {}
    <3>1. r \in ws /\ q \in ws /\ r \in Write /\ q \in Write
      BY <1>4, <1>5, <2>2 DEF Holds, Comparable
    <3>2. ASSUME r # q PROVE FALSE
      <4>1. Newer(r, q) /\ Newer(q, r)
        BY <1>4, <2>2, <3>1, <3>2 DEF Holds
      <4> QED BY <3>1, <4>1, WriteStamps DEF Newer, Later
    <3> QED BY <3>2
  <2> QED BY <2>1, <2>2
<1> QED BY <1>2, <1>3, <1>6 DEF GetRegister

-----------------------------------------------------------------------------
(* Where the entries of a set come from.                                   *)

\* Envelopes of set k, and the entry that an Add makes.
IsAdd(e, k)    == e.kind = "Set" /\ e.key = k /\ e.op.type = "Add"
IsRemove(e, k) == e.kind = "Set" /\ e.key = k /\ e.op.type = "Remove"
EntryOf(e)     == <<e.op.value, e.op.token>>

\* What a Remove takes, its author knew.
SetMade(e) ==
    e.kind = "Set" =>
        /\ e.op.type \in {"Add", "Remove"}
        /\ e.op.type = "Remove" =>
              \A t \in e.op.tokens : \E a \in past[e] : a \in net /\ IsAdd(a, e.key) /\ a.op.token = t

\* Every entry is some Add's.
Sourced(entries, envs, k) == \A p \in entries : \E a \in envs : IsAdd(a, k) /\ p = EntryOf(a)

\* Who has an envelope has its past.
Closed(envs) == \A e \in envs : past[e] \subseteq envs

\* The sets of a store on its way.
EntriesFrame(f) ==
    /\ f.data.sets \in EntriesType /\ f.data.known \subseteq net
    /\ \A k \in SetKey : Sourced(f.data.sets[k], f.data.known, k)
    /\ Server \in disordered \/ Closed(f.data.known)

\* The part of the inductive invariant that holds of every store.
EntriesInv ==
    /\ \A e \in net : SetOpOK(e) /\ SetMade(e)
    /\ sets \in [Node -> EntriesType]
    /\ \A n \in Node, k \in SetKey : Sourced(sets[n][k], known[n], k)
    /\ \A n \in Node : n \in disordered \/ Closed(known[n])
    /\ relay = "rust" =>
          \A c \in Client : \A f \in ToSet(downlink[c]) : f.type = "UPDATE" \/ EntriesFrame(f)

\* What a call that produces env does to the sets.
Enters(n, env) ==
    IF env.kind = "Set"
    THEN /\ env.key \in SetKey /\ env.op.type \in {"Add", "Remove"}
         /\ sets' = [sets EXCEPT ![n][env.key] = SetApply(@, env.op)]
         /\ env.op.type = "Add" => env.op.value \in Value /\ env.op.token = <<n, env.timestamp>>
         /\ env.op.type = "Remove" =>
               \A t \in env.op.tokens : \E p \in sets[n][env.key] : p[2] = t
    ELSE sets' = sets

LEMMA LocalEnters ==
    ASSUME HInv, NEW n \in Node, LocalOperation(n)
    PROVE  UNCHANGED <<net, known, past, sets>> \/ \E env : Made(n, env) /\ Enters(n, env)
<1>1. ASSUME NEW kind, kind # "Set", NEW k, NEW op, Emit(n, kind, k, op), sets' = sets
      PROVE  \E env : Made(n, env) /\ Enters(n, env)
  <2>1. PICK env : env = Envelope(Tick(clock[n]), n, kind, k, op)
    OBVIOUS
  <2>2. Made(n, env)
    BY <1>1, <2>1, EmitMade
  <2>3. env.kind = kind
    BY <2>1 DEF Envelope
  <2> QED BY <1>1, <2>2, <2>3 DEF Enters
<1>2. ASSUME NEW k \in SetKey, NEW op, Emit(n, "Set", k, op), op.type \in {"Add", "Remove"},
             sets' = [sets EXCEPT ![n][k] = SetApply(@, op)],
             op.type = "Add" => op.value \in Value /\ op.token = <<n, Tick(clock[n])>>,
             op.type = "Remove" => \A t \in op.tokens : \E p \in sets[n][k] : p[2] = t
      PROVE  \E env : Made(n, env) /\ Enters(n, env)
  <2>1. PICK env : env = Envelope(Tick(clock[n]), n, "Set", k, op)
    OBVIOUS
  <2>2. Made(n, env)
    BY <1>2, <2>1, EmitMade
  <2>3. env.kind = "Set" /\ env.key = k /\ env.op = op /\ env.timestamp = Tick(clock[n])
    BY <2>1 DEF Envelope
  <2>4. Enters(n, env)
    BY <1>2, <2>3 DEF Enters
  <2> QED BY <2>2, <2>4
<1>3. ASSUME NEW k \in RegKey, NEW v \in Value, SetRegister(n, k, v)
      PROVE  \E env : Made(n, env) /\ Enters(n, env)
  BY <1>1, <1>3 DEF SetRegister
<1>4. ASSUME NEW k \in SetKey, NEW v \in Value, SetAdd(n, k, v)
      PROVE  \E env : Made(n, env) /\ Enters(n, env)
  <2>1. PICK op : op = AddOp(v, <<n, Tick(clock[n])>>)
    OBVIOUS
  <2>2. Emit(n, "Set", k, op) /\ sets' = [sets EXCEPT ![n][k] = SetApply(@, op)]
    BY <1>4, <2>1 DEF SetAdd
  <2>3. op.type = "Add" /\ op.value = v /\ op.token = <<n, Tick(clock[n])>>
    BY <2>1 DEF AddOp
  <2> QED BY <1>2, <2>2, <2>3
<1>5. ASSUME NEW k \in SetKey, NEW v \in Value, SetRemove(n, k, v)
      PROVE  \E env : Made(n, env) /\ Enters(n, env)
  <2>1. PICK op : op = RemoveOp(sets[n][k], v)
    OBVIOUS
  <2>2. Emit(n, "Set", k, op) /\ sets' = [sets EXCEPT ![n][k] = SetApply(@, op)]
    BY <1>5, <2>1 DEF SetRemove
  <2>3. op.type = "Remove" /\ \A t \in op.tokens : \E p \in sets[n][k] : p[2] = t
    BY <2>1 DEF RemoveOp, TokensOf
  <2> QED BY <1>2, <2>2, <2>3
<1>6. ASSUME NEW k \in SetKey, NEW v \in Value, SetRemoveAbsent(n, k, v)
      PROVE  UNCHANGED <<net, known, past, sets>>
  BY <1>6 DEF SetRemoveAbsent
<1>7. ASSUME NEW k \in SeqKey, NEW index \in 0..SeqLen(n, k), SeqInsert(n, k, index)
      PROVE  \E env : Made(n, env) /\ Enters(n, env)
  BY <1>1, <1>7 DEF SeqInsert
<1>8. ASSUME NEW k \in SeqKey, NEW index \in 0..(SeqLen(n, k) - 1), SeqDelete(n, k, index)
      PROVE  \E env : Made(n, env) /\ Enters(n, env)
  BY <1>1, <1>8 DEF SeqDelete
<1>9. ASSUME SeqDeleteNone(n) PROVE UNCHANGED <<net, known, past, sets>>
  BY <1>9 DEF SeqDeleteNone
<1> DEFINE makes == \E env : Made(n, env) /\ Enters(n, env)
           none  == UNCHANGED <<net, known, past, sets>>
<1>10. /\ \A k \in RegKey, v \in Value : SetRegister(n, k, v) => makes
       /\ \A k \in SetKey, v \in Value : SetAdd(n, k, v) \/ SetRemove(n, k, v) => makes
       /\ \A k \in SetKey, v \in Value : SetRemoveAbsent(n, k, v) => none
  BY <1>3, <1>4, <1>5, <1>6
<1>11. /\ \A k \in SeqKey : \A index \in 0..SeqLen(n, k) : SeqInsert(n, k, index) => makes
       /\ \A k \in SeqKey : \A index \in 0..(SeqLen(n, k) - 1) : SeqDelete(n, k, index) => makes
       /\ SeqDeleteNone(n) => none
  BY <1>7, <1>8, <1>9
<1> HIDE DEF makes, none
<1>12. none \/ makes
  BY <1>10, <1>11 DEF LocalOperation
<1> QED BY <1>12 DEF makes, none

LEMMA SourcedGrows ==
    \A S, A, B, k : (Sourced(S, A, k) /\ A \subseteq B) => Sourced(S, B, k)
BY DEF Sourced

\* A set that applies an envelope.
LEMMA SourcedApply ==
    ASSUME NEW S, NEW envs, NEW k, Sourced(S, envs, k), NEW e, e.kind = "Set", e.key = k
    PROVE  Sourced(SetApply(S, e.op), envs \cup {e}, k)
<1>1. CASE e.op.type = "Add"
  <2>1. SetApply(S, e.op) = S \cup {EntryOf(e)}
    BY <1>1 DEF SetApply, EntryOf
  <2> QED BY <1>1, <2>1 DEF Sourced, IsAdd
<1>2. CASE e.op.type # "Add"
  <2>1. SetApply(S, e.op) \subseteq S
    BY <1>2 DEF SetApply
  <2> QED BY <2>1 DEF Sourced
<1> QED BY <1>1, <1>2

\* What an operation on the sets of one replica leaves.
LEMMA EntriesApply ==
    ASSUME EntriesInv, NEW n \in Node, NEW e, SetOpOK(e), e.node \in Node, e.timestamp \in 1..MaxClock,
           sets' = IF e.kind # "Set" THEN sets ELSE [sets EXCEPT ![n][e.key] = SetApply(@, e.op)],
           known' = [known EXCEPT ![n] = known[n] \cup {e}], known \in [Node -> SUBSET net]
    PROVE  /\ sets' \in [Node -> EntriesType]
           /\ \A m \in Node, k \in SetKey :
                /\ sets'[m][k] = IF m = n /\ e.kind = "Set" /\ e.key = k THEN SetApply(sets[m][k], e.op)
                                                                         ELSE sets[m][k]
                /\ Sourced(sets'[m][k], known'[m], k)
<1>1. sets \in [Node -> EntriesType] /\ \A m \in Node, k \in SetKey : Sourced(sets[m][k], known[m], k)
  BY DEF EntriesInv
<1>2. /\ \A m \in Node : known'[m] = IF m = n THEN known[m] \cup {e} ELSE known[m]
      /\ \A m \in Node : known[m] \subseteq known'[m]
  OBVIOUS
<1>3. CASE e.kind # "Set"
  BY <1>1, <1>2, <1>3, SourcedGrows
<1>4. CASE e.kind = "Set"
  <2>1. PICK key : key = e.key
    OBVIOUS
  <2>2. PICK x : x = SetApply(sets[n][key], e.op)
    OBVIOUS
  <2>3. key \in SetKey
    BY <1>4, <2>1 DEF SetOpOK
  <2>4. e.op.type = "Add" => e.op.value \in Value /\ e.op.token \in Token
    <3>1. <<e.node, e.timestamp>> \in Token
      BY DEF Token
    <3>2. e.op.type = "Add" => e.op.value \in Value /\ e.op.token = <<e.node, e.timestamp>>
      BY <1>4 DEF SetOpOK
    <3>3. PICK t : t = <<e.node, e.timestamp>>
      OBVIOUS
    <3> QED BY <3>1, <3>2, <3>3
  <2>5. sets[n][key] \in SUBSET (Value \X Token)
    BY <1>1, <2>3 DEF EntriesType
  <2>6. x \in SUBSET (Value \X Token)
    BY <2>2, <2>4, <2>5, ApplyKeepsEntries
  <2>7. sets' = [sets EXCEPT ![n][key] = x]
    BY <1>4, <2>1, <2>2
  <2>8. \A m \in Node, k \in SetKey : sets'[m][k] = IF m = n /\ k = key THEN x ELSE sets[m][k]
    BY <1>1, <2>3, <2>7 DEF EntriesType
  <2>9. sets' \in [Node -> EntriesType]
    <3>1. [sets[n] EXCEPT ![key] = x] \in EntriesType
      BY <1>1, <2>6 DEF EntriesType
    <3> QED BY <1>1, <2>7, <3>1
  <2>10. ASSUME NEW m \in Node, NEW k \in SetKey PROVE Sourced(sets'[m][k], known'[m], k)
    <3>1. CASE m = n /\ k = key
      <4>1. Sourced(sets[n][key], known[n], key)
        BY <1>1, <2>3
      <4>2. Sourced(x, known[n] \cup {e}, key)
        BY <1>4, <2>1, <2>2, <4>1, SourcedApply
      <4> QED BY <1>2, <2>8, <3>1, <4>2
    <3>2. CASE ~(m = n /\ k = key)
      BY <1>1, <1>2, <2>8, <3>2, SourcedGrows
    <3> QED BY <3>1, <3>2
  <2>11. \A m \in Node, k \in SetKey :
           sets'[m][k] = IF m = n /\ e.kind = "Set" /\ e.key = k THEN SetApply(sets[m][k], e.op)
                                                                 ELSE sets[m][k]
    BY <1>4, <2>1, <2>2, <2>8
  <2> QED BY <2>9, <2>10, <2>11
<1> QED BY <1>3, <1>4

\* The stores on their way stay what they are.
LEMMA EntriesFrameStays ==
    ASSUME NEW f, EntriesFrame(f), net \subseteq net', \A e \in net : past'[e] = past[e],
           disordered \subseteq disordered'
    PROVE  EntriesFrame(f)'
<1>1. f.data.known \subseteq net /\ f.data.known \subseteq net'
  BY DEF EntriesFrame
<1>2. \A k : Sourced(f.data.sets[k], f.data.known, k) => Sourced(f.data.sets[k], f.data.known, k)'
  BY DEF Sourced, IsAdd, EntryOf
<1>3. Server \in disordered' \/ Closed(f.data.known)'
  BY <1>1 DEF EntriesFrame, Closed
<1> QED BY <1>1, <1>2, <1>3 DEF EntriesFrame

\* What is produced stays what it is.
LEMMA SetMadeStays ==
    ASSUME NEW e, SetMade(e), past'[e] = past[e], net \subseteq net'
    PROVE  SetMade(e)'
<1>1. \A a, k : IsAdd(a, k)' <=> IsAdd(a, k)
  BY DEF IsAdd
<1> QED BY <1>1 DEF SetMade

LEMMA EntriesMake ==
    ASSUME SInv, HInv', EntriesInv, NEW n \in Node, NEW env, Made(n, env), Enters(n, env),
           UNCHANGED disordered
    PROVE  /\ \A e \in net' : SetOpOK(e)' /\ SetMade(e)'
           /\ sets' \in [Node -> EntriesType]
           /\ \A m \in Node, k \in SetKey : Sourced(sets'[m][k], known'[m], k)
           /\ \A m \in Node : m \in disordered' \/ Closed(known[m])'
<1>1. /\ env \notin net /\ env.node = n /\ net' = net \cup {env}
      /\ known' = [known EXCEPT ![n] = known[n] \cup {env}]
      /\ past'[env] = known[n] /\ \A e \in net : past'[e] = past[e]
  <2>1. env \in net' /\ \A e \in net : e \in net' /\ e # env
    BY DEF Made
  <2> QED BY <2>1 DEF Made
<1>2. /\ known \in [Node -> SUBSET net] /\ known[n] \subseteq net
      /\ env.timestamp \in 1..MaxClock
  BY <1>1 DEF SInv, HInv
<1>3. SetOpOK(env)
  BY <1>1 DEF Enters, SetOpOK
<1>4. SetMade(env)'
  <2> SUFFICES ASSUME env.kind = "Set", env.op.type = "Remove", NEW t \in env.op.tokens
               PROVE  \E a \in known[n] : a \in net' /\ IsAdd(a, env.key) /\ a.op.token = t
    BY <1>1 DEF SetMade, Enters, IsAdd
  <2>1. env.key \in SetKey /\ \E p \in sets[n][env.key] : p[2] = t
    BY DEF Enters
  <2>2. PICK k : k = env.key
    OBVIOUS
  <2>3. PICK p \in sets[n][k] : p[2] = t
    BY <2>1, <2>2
  <2>4. Sourced(sets[n][k], known[n], k)
    BY <2>1, <2>2 DEF EntriesInv
  <2>5. PICK a \in known[n] : IsAdd(a, k) /\ p = EntryOf(a)
    BY <2>3, <2>4 DEF Sourced
  <2>6. a.op.token = t
    BY <2>3, <2>5 DEF EntryOf
  <2> QED BY <1>1, <1>2, <2>2, <2>5, <2>6
<1>5. \A e \in net' : SetOpOK(e)' /\ SetMade(e)'
  BY <1>1, <1>3, <1>4, SetMadeStays DEF EntriesInv, SetOpOK
<1>6. sets' = IF env.kind # "Set" THEN sets ELSE [sets EXCEPT ![n][env.key] = SetApply(@, env.op)]
  BY DEF Enters
<1>7. /\ sets' \in [Node -> EntriesType]
      /\ \A m \in Node, k \in SetKey : Sourced(sets'[m][k], known'[m], k)
  BY <1>1, <1>2, <1>3, <1>6, EntriesApply
<1>8. ASSUME NEW m \in Node PROVE m \in disordered' \/ Closed(known[m])'
  <2> SUFFICES ASSUME m \notin disordered PROVE Closed(known[m])'
    OBVIOUS
  <2>1. \A e \in known[m] : past[e] \subseteq known[m] /\ past'[e] = past[e]
    BY <1>1, <1>2 DEF EntriesInv, Closed
  <2>2. CASE m = n
    <3>1. known'[m] = known[m] \cup {env}
      BY <1>1, <1>2, <2>2
    <3>2. \A e \in known[m] \cup {env} : past'[e] \subseteq known[m] \cup {env}
      BY <1>1, <2>1, <2>2
    <3> QED BY <3>1, <3>2 DEF Closed
  <2>3. CASE m # n
    <3>1. known'[m] = known[m]
      BY <1>1, <1>2, <2>3
    <3> QED BY <2>1, <3>1 DEF Closed
  <2> QED BY <2>2, <2>3
<1> QED BY <1>5, <1>7, <1>8

LEMMA EntriesLearn ==
    ASSUME SInv, EntriesInv, NEW n \in Node, NEW env \in net, Apply(n, env)
    PROVE  /\ sets' \in [Node -> EntriesType]
           /\ \A m \in Node, k \in SetKey : Sourced(sets'[m][k], known'[m], k)
           /\ \A m \in Node : m \in disordered' \/ Closed(known[m])'
<1>1. /\ known' = [known EXCEPT ![n] = known[n] \cup {env}] /\ UNCHANGED <<net, past>>
      /\ disordered' = disordered \cup (IF past[env] \subseteq known[n] THEN {} ELSE {n})
      /\ sets' = IF env.kind # "Set" THEN sets ELSE [sets EXCEPT ![n][env.key] = SetApply(@, env.op)]
  BY DEF Apply, ApplyEnvelope
<1>2. known \in [Node -> SUBSET net] /\ SetOpOK(env) /\ env.node \in Node /\ env.timestamp \in 1..MaxClock
  BY DEF SInv, HInv, EntriesInv
<1>3. /\ sets' \in [Node -> EntriesType]
      /\ \A m \in Node, k \in SetKey : Sourced(sets'[m][k], known'[m], k)
  BY <1>1, <1>2, EntriesApply
<1>4. ASSUME NEW m \in Node PROVE m \in disordered' \/ Closed(known[m])'
  <2> SUFFICES ASSUME m \notin disordered' PROVE Closed(known[m])'
    OBVIOUS
  <2>1. \A e \in known[m] : past[e] \subseteq known[m]
    BY <1>1 DEF EntriesInv, Closed
  <2>2. CASE m = n
    <3>1. known'[m] = known[m] \cup {env} /\ past[env] \subseteq known[m]
      BY <1>1, <1>2, <2>2
    <3> QED BY <1>1, <2>1, <3>1 DEF Closed
  <2>3. CASE m # n
    <3>1. known'[m] = known[m]
      BY <1>1, <1>2, <2>3
    <3> QED BY <1>1, <2>1, <3>1 DEF Closed
  <2> QED BY <2>2, <2>3
<1> QED BY <1>3, <1>4

LEMMA EntriesMerge ==
    ASSUME SInv, EntriesInv, NEW n \in Node, NEW f, Merge(n, f.data), EntriesFrame(f),
           disordered' = disordered \cup (IF Server \in disordered THEN {n} ELSE {})
    PROVE  /\ sets' \in [Node -> EntriesType]
           /\ \A m \in Node, k \in SetKey :
                /\ sets'[m][k] = IF m = n THEN sets[m][k] \cup f.data.sets[k] ELSE sets[m][k]
                /\ Sourced(sets'[m][k], known'[m], k)
           /\ \A m \in Node : m \in disordered' \/ Closed(known[m])'
<1>1. PICK other : other = f.data
  OBVIOUS
<1>2. /\ known' = [known EXCEPT ![n] = known[n] \cup other.known] /\ UNCHANGED <<net, past>>
      /\ sets' = [sets EXCEPT ![n] = [k \in SetKey |-> sets[n][k] \cup other.sets[k]]]
  BY <1>1 DEF Merge, SetMerge
<1>3. /\ sets \in [Node -> EntriesType] /\ known \in [Node -> SUBSET net]
      /\ \A m \in Node, k \in SetKey : Sourced(sets[m][k], known[m], k)
  BY DEF EntriesInv, SInv, HInv
<1>4. /\ other.sets \in EntriesType /\ \A k \in SetKey : Sourced(other.sets[k], other.known, k)
      /\ Server \in disordered \/ Closed(other.known)
  BY <1>1 DEF EntriesFrame
<1>5. \A m \in Node, k \in SetKey :
         sets'[m][k] = IF m = n THEN sets[m][k] \cup other.sets[k] ELSE sets[m][k]
  BY <1>2, <1>3
<1>6. sets' \in [Node -> EntriesType]
  <2>1. [k \in SetKey |-> sets[n][k] \cup other.sets[k]] \in EntriesType
    <3>1. \A k \in SetKey : sets[n][k] \cup other.sets[k] \in SUBSET (Value \X Token)
      BY <1>3, <1>4 DEF EntriesType
    <3> QED BY <3>1 DEF EntriesType
  <2> QED BY <1>2, <1>3, <2>1
<1>7. ASSUME NEW m \in Node, NEW k \in SetKey PROVE Sourced(sets'[m][k], known'[m], k)
  <2>1. CASE m = n
    <3>1. known'[m] = known[m] \cup other.known
      BY <1>2, <1>3, <2>1
    <3>2. Sourced(sets[m][k], known'[m], k) /\ Sourced(other.sets[k], known'[m], k)
      BY <1>3, <1>4, <3>1, SourcedGrows
    <3>3. sets'[m][k] = sets[m][k] \cup other.sets[k]
      BY <1>5, <2>1
    <3> QED BY <3>2, <3>3 DEF Sourced
  <2>2. CASE m # n
    BY <1>2, <1>3, <1>5, <2>2
  <2> QED BY <2>1, <2>2
<1>8. ASSUME NEW m \in Node PROVE m \in disordered' \/ Closed(known[m])'
  <2> SUFFICES ASSUME m \notin disordered' PROVE Closed(known[m])'
    OBVIOUS
  <2>1. \A e \in known[m] : past[e] \subseteq known[m]
    BY DEF EntriesInv, Closed
  <2>2. CASE m = n
    <3>1. known'[m] = known[m] \cup other.known /\ \A e \in other.known : past[e] \subseteq other.known
      BY <1>2, <1>3, <1>4, <2>2 DEF Closed
    <3>2. \A e \in known[m] \cup other.known : past[e] \subseteq known[m] \cup other.known
      BY <2>1, <3>1
    <3> QED BY <1>2, <3>1, <3>2 DEF Closed
  <2>3. CASE m # n
    <3>1. known'[m] = known[m]
      BY <1>2, <1>3, <2>3
    <3> QED BY <1>2, <2>1, <3>1 DEF Closed
  <2> QED BY <2>2, <2>3
<1> QED BY <1>1, <1>5, <1>6, <1>7, <1>8

LEMMA EntriesInit == SyncInit => EntriesInv
<1> SUFFICES ASSUME SyncInit PROVE EntriesInv
  OBVIOUS
<1>1. net = {} /\ known = [n \in Node |-> {}] /\ sets = [n \in Node |-> [k \in SetKey |-> {}]]
  BY DEF SyncInit, Init, EmptySet
<1>2. \A c \in Client : ToSet(downlink[c]) = {}
  BY NoFrames DEF SyncInit
<1>3. sets \in [Node -> EntriesType]
  BY <1>1 DEF EntriesType
<1> QED BY <1>1, <1>2, <1>3 DEF EntriesInv, Sourced, Closed

LEMMA EntriesNext == SInv /\ SInv' /\ SeqInv /\ TInv /\ EntriesInv /\ [SyncNext]_allVars => EntriesInv'
<1> SUFFICES ASSUME SInv, SInv', SeqInv, TInv, EntriesInv, [SyncNext]_allVars PROVE EntriesInv'
  OBVIOUS
<1>1. HInv /\ HInv' /\ known \in [Node -> SUBSET net]
  BY DEF SInv, HInv
<1> DEFINE N == /\ net \subseteq net' /\ \A e \in net : past'[e] = past[e]
                /\ disordered \subseteq disordered'
           O == \A e \in net' : SetOpOK(e)' /\ SetMade(e)'
           S == /\ sets' \in [Node -> EntriesType]
                /\ \A m \in Node, k \in SetKey : Sourced(sets'[m][k], known'[m], k)
           C == \A m \in Node : m \in disordered' \/ Closed(known[m])'
<1>3. N /\ O /\ S /\ C
  <2>1. CASE UNCHANGED <<net, past, known, sets, disordered>>
    <3>1. C
      BY <2>1 DEF EntriesInv, Closed
    <3>2. O
      BY <2>1, SetMadeStays DEF EntriesInv, SetOpOK
    <3> QED BY <2>1, <3>1, <3>2 DEF EntriesInv
  <2>2. ASSUME NEW n \in Node, NEW env \in net, Apply(n, env) PROVE N /\ O /\ S /\ C
    <3>1. UNCHANGED <<net, past>> /\ disordered \subseteq disordered'
      BY <2>2 DEF Apply, ApplyEnvelope
    <3>2. O
      BY <3>1, SetMadeStays DEF EntriesInv, SetOpOK
    <3> QED BY <2>2, <3>1, <3>2, EntriesLearn
  <2>3. ASSUME NEW c \in Client, NEW f \in ToSet(downlink[c]), relay = "rust", f.type # "UPDATE",
               Merge(c, f.data),
               disordered' = disordered \cup (IF Server \in disordered THEN {c} ELSE {})
        PROVE  N /\ O /\ S /\ C
    <3>1. UNCHANGED <<net, past>> /\ disordered \subseteq disordered' /\ c \in Node
      BY <2>3, ClientAssumption DEF Merge
    <3>2. O
      BY <3>1, SetMadeStays DEF EntriesInv, SetOpOK
    <3>3. EntriesFrame(f)
      BY <2>3 DEF EntriesInv
    <3> QED BY <2>3, <3>1, <3>2, <3>3, EntriesMerge
  <2>4. ASSUME NEW c \in Client, LocalOperation(c), UNCHANGED disordered PROVE N /\ O /\ S /\ C
    <3>1. c \in Node
      BY ClientAssumption
    <3>2. CASE UNCHANGED <<net, known, past, sets>>
      BY <2>1, <2>4, <3>2
    <3>3. ASSUME NEW env, Made(c, env), Enters(c, env) PROVE N /\ O /\ S /\ C
      <4>1. N
        <5>1. \A e \in net : e \in net' /\ e # env
          BY <3>3 DEF Made
        <5> QED BY <2>4, <3>3, <5>1 DEF Made
      <4> QED BY <1>1, <2>4, <3>1, <3>3, <4>1, EntriesMake
    <3> QED BY <1>1, <2>4, <3>1, <3>2, <3>3, LocalEnters
  <2> QED BY <2>1, <2>2, <2>3, <2>4, StoreSteps DEF StoreStep, vars
<1>4. ASSUME relay' = "rust", NEW c \in Client, NEW f \in ToSet(downlink'[c]), f.type # "UPDATE"
      PROVE  EntriesFrame(f)'
  <2>1. relay = "rust" /\ (f \in ToSet(downlink[c]) \/ f = Snapshot)
    BY <1>4, StoresSent
  <2>2. EntriesFrame(f)
    <3>1. CASE f \in ToSet(downlink[c])
      BY <1>4, <2>1, <3>1 DEF EntriesInv
    <3>2. CASE f = Snapshot
      <4>1. /\ f.data.sets = sets[Server] /\ f.data.known = Carried(Server)
            /\ Server \in Node
        BY <2>1, <3>2, RelayAssumption DEF Snapshot, StoreCopy
      <4>2. Carried(Server) \subseteq known[Server] /\ known[Server] \subseteq net
        BY <1>1, <4>1 DEF Carried
      <4>3. ASSUME NEW k \in SetKey PROVE Sourced(sets[Server][k], Carried(Server), k)
        <5>1. \A a \in known[Server] : IsAdd(a, k) => a \in Carried(Server)
          BY DEF Carried, IsAdd
        <5> QED BY <4>1, <5>1 DEF EntriesInv, Sourced
      <4>4. Server \in disordered \/ Closed(Carried(Server))
        <5>1. Reflects(Snapshot) = Carried(Server)
          BY <3>2, <4>1, <1>4 DEF Reflects
        <5>2. Server \in disordered \/ Carried(Server) = known[Server]
          BY <2>1, <5>1, CopyTells
        <5> QED BY <4>1, <5>2 DEF EntriesInv
      <4> QED BY <4>1, <4>2, <4>3, <4>4 DEF EntriesInv, EntriesFrame
    <3> QED BY <2>1, <3>1, <3>2
  <2> QED BY <1>3, <2>2, EntriesFrameStays
<1> QED BY <1>3, <1>4 DEF EntriesInv

-----------------------------------------------------------------------------
(* What is sent to a client is new to it.                                  *)

\* What a frame tells, and what frames tell together.
Tells(f) == IF relay = "ts" THEN Brings(f) ELSE Reflects(f)
Told(fs) == IF relay = "ts" THEN Coming(fs) ELSE Reaching(fs)

\* A SNAPSHOT comes first, and an UPDATE brings neither what is in `envs` nor
\* what a frame before it tells.
Fresh(envs, fs) ==
    \A i \in 1..Len(fs) :
        IF fs[i].type = "UPDATE"
        THEN fs[i].data \notin envs /\ \A j \in 1..(i - 1) : fs[i].data \notin Tells(fs[j])
        ELSE i = 1

\* What a task sends, it sends once: none of those who wait for it has it.
FreshTask(c) ==
    sending[c] = NotSending \/
        /\ sending[c].env.node = c
        /\ \A d \in sending[c].peers : d # c /\ sending[c].env \notin known[d] \cup Told(downlink[d])

FreshInv == \A c \in Client : Fresh(known[c], downlink[c]) /\ FreshTask(c)

LEMMA ToldNone == Told(<<>>) = {} /\ \A K : Fresh(K, <<>>)
BY NoFrames, ReachingNone DEF Told, Fresh

LEMMA ToldOne ==
    ASSUME NEW f, f.type # "UPDATE"
    PROVE  Told(<<f>>) = Tells(f) /\ \A K : Fresh(K, <<f>>)
<1>1. PICK fs : fs = <<f>>
  OBVIOUS
<1>2. Told(fs) = Tells(f)
  BY <1>1, OneFrame, ReachingOne DEF Told, Tells
<1>3. Len(fs) = 1 /\ fs[1] = f /\ 1..1 = {1}
  BY <1>1, OneMember
<1>4. \A K : Fresh(K, fs)
  BY <1>3 DEF Fresh
<1> QED BY <1>1, <1>2, <1>4

LEMMA ToldMore ==
    ASSUME NEW S, NEW fs \in Seq(S), NEW e
    PROVE  /\ Told(Append(fs, UpdateOf(e))) = Told(fs) \cup {e}
           /\ \A K : (Fresh(K, fs) /\ e \notin K \cup Told(fs)) => Fresh(K, Append(fs, UpdateOf(e)))
<1>1. PICK f : f = UpdateOf(e)
  OBVIOUS
<1>2. PICK gs : gs = Append(fs, f)
  OBVIOUS
<1>3. f.type = "UPDATE" /\ f.data = e /\ Brings(f) = {e} /\ Reflects(f) = {e}
  BY <1>1 DEF UpdateOf, Brings, Reflects
<1>4. Coming(gs) = Coming(fs) \cup {e}
  BY <1>2, <1>3, AppendFrame
<1>5. Reaching(gs) = Reaching(fs) \cup {e}
  BY <1>2, <1>3, ReachingMore
<1>6. Told(gs) = Told(fs) \cup {e}
  BY <1>4, <1>5 DEF Told
<1>7. PICK n : n = Len(fs)
  OBVIOUS
<1>8. /\ n \in Nat /\ Len(gs) = n + 1 /\ gs[n + 1] = f /\ \A i \in 1..n : gs[i] = fs[i]
  BY <1>2, <1>7, AppendProperties
<1>9. ASSUME NEW j \in 1..n PROVE Tells(fs[j]) \subseteq Told(fs)
  <2>1. fs[j] \in ToSet(fs)
    BY <1>7, <1>9, Members
  <2> QED BY <2>1 DEF Told, Tells, Coming, Reaching
<1>10. ASSUME NEW K, Fresh(K, fs), e \notin K \cup Told(fs) PROVE Fresh(K, gs)
  <2> SUFFICES ASSUME NEW i \in 1..(n + 1)
               PROVE  IF gs[i].type = "UPDATE"
                      THEN gs[i].data \notin K /\ \A j \in 1..(i - 1) : gs[i].data \notin Tells(gs[j])
                      ELSE i = 1
    BY <1>8 DEF Fresh
  <2>1. CASE i = n + 1
    <3>1. \A j \in 1..(i - 1) : j \in 1..n
      BY <1>8, <2>1
    <3>2. \A j \in 1..n : e \notin Tells(gs[j])
      BY <1>8, <1>9, <1>10
    <3>3. gs[i] = f
      BY <1>8, <2>1
    <3> QED BY <1>3, <1>10, <3>1, <3>2, <3>3
  <2>2. CASE i # n + 1
    <3>1. i \in 1..n /\ \A j \in 1..(i - 1) : j \in 1..n
      BY <1>8, <2>2
    <3>2. IF fs[i].type = "UPDATE"
          THEN fs[i].data \notin K /\ \A j \in 1..(i - 1) : fs[i].data \notin Tells(fs[j])
          ELSE i = 1
      BY <1>7, <1>10, <3>1 DEF Fresh
    <3> QED BY <1>8, <3>1, <3>2
  <2> QED BY <2>1, <2>2
<1> QED BY <1>1, <1>2, <1>6, <1>10

\* The first frame is received: what it tells is known then.
LEMMA ToldFirst ==
    ASSUME NEW S, NEW fs \in Seq(S), fs # <<>>, NEW K, Fresh(K, fs)
    PROVE  /\ Told(fs) = Tells(fs[1]) \cup Told(Tail(fs))
           /\ Fresh(K \cup Tells(fs[1]), Tail(fs))
           /\ Tail(fs) # <<>> => Tail(fs)[1].type = "UPDATE"
           /\ fs[1].type = "UPDATE" => fs[1].data \notin K
<1>1. PICK gs : gs = Tail(fs)
  OBVIOUS
<1>2. PICK n : n = Len(fs)
  OBVIOUS
<1>3. /\ n \in Nat /\ n >= 1 /\ Len(gs) = n - 1 /\ \A i \in 1..(n - 1) : gs[i] = fs[i + 1]
      /\ gs # <<>> => n - 1 >= 1
  BY <1>1, <1>2
<1>4. Told(fs) = Tells(fs[1]) \cup Told(gs)
  BY <1>1, FirstFrame, ReachingFirst DEF Told, Tells
<1>5. \A i \in 1..n : IF fs[i].type = "UPDATE"
        THEN fs[i].data \notin K /\ \A j \in 1..(i - 1) : fs[i].data \notin Tells(fs[j])
        ELSE i = 1
  BY <1>2 DEF Fresh
<1>6. ASSUME NEW i \in 1..(n - 1)
      PROVE  /\ gs[i].type = "UPDATE" /\ gs[i].data \notin K \cup Tells(fs[1])
             /\ \A j \in 1..(i - 1) : gs[i].data \notin Tells(gs[j])
  <2>1. i + 1 \in 1..n /\ i + 1 # 1 /\ 1 \in 1..((i + 1) - 1) /\ gs[i] = fs[i + 1]
    BY <1>3
  <2>2. /\ gs[i].type = "UPDATE" /\ gs[i].data \notin K
        /\ \A j \in 1..((i + 1) - 1) : gs[i].data \notin Tells(fs[j])
    BY <1>5, <2>1
  <2>3. ASSUME NEW j \in 1..(i - 1) PROVE gs[i].data \notin Tells(gs[j])
    <3>1. j \in 1..(n - 1) /\ j + 1 \in 1..((i + 1) - 1) /\ gs[j] = fs[j + 1]
      BY <1>3
    <3> QED BY <2>2, <3>1
  <2> QED BY <2>1, <2>2, <2>3
<1>7. Fresh(K \cup Tells(fs[1]), gs)
  BY <1>3, <1>6 DEF Fresh
<1>8. 1 \in 1..n
  BY <1>3
<1> QED BY <1>1, <1>3, <1>4, <1>5, <1>6, <1>7, <1>8

\* One envelope of the first frame, a log, is taken from it.
LEMMA ToldPart ==
    ASSUME NEW S, NEW fs \in Seq(S), fs # <<>>, NEW K, Fresh(K, fs), relay = "ts",
           NEW g, NEW h, Tells(fs[1]) = {h} \cup Tells(g), g.type # "UPDATE"
    PROVE  LET gs == [fs EXCEPT ![1] = g]
           IN  Told(fs) = {h} \cup Told(gs) /\ Fresh(K \cup {h}, gs)
<1> DEFINE gs == [fs EXCEPT ![1] = g]
<1>1. Brings(fs[1]) = {h} \cup Brings(g)
  BY DEF Tells
<1> HIDE DEF gs
<1>2. Coming(fs) = {h} \cup Coming(gs)
  <2>1. /\ gs \in Seq(ToSet(gs)) /\ ToSet(gs) \subseteq ToSet(fs) \cup {g}
        /\ Coming(fs) = {h} \cup Coming(gs)
        /\ \A p, B : (Ready(p, fs, B) /\ MayApply(p, g, B \cup {h})) => Ready(p, gs, B \cup {h})
    BY <1>1, ReplaceFirst DEF gs
  <2> QED BY <2>1
<1>3. PICK n : n = Len(fs)
  OBVIOUS
<1>4. /\ n \in Nat /\ Len(gs) = n /\ \A j \in 1..n : gs[j] = IF j = 1 THEN g ELSE fs[j]
      /\ 1 \in 1..n
  BY <1>3 DEF gs
<1>5. ASSUME NEW i \in 1..n
      PROVE  IF gs[i].type = "UPDATE"
             THEN gs[i].data \notin K \cup {h} /\ \A j \in 1..(i - 1) : gs[i].data \notin Tells(gs[j])
             ELSE i = 1
  <2>1. CASE i = 1
    <3>1. gs[i] = g
      BY <1>4, <2>1
    <3> QED BY <2>1, <3>1
  <2>2. CASE i # 1
    <3>1. /\ gs[i] = fs[i] /\ fs[i].type = "UPDATE" /\ fs[i].data \notin K
          /\ \A j \in 1..(i - 1) : fs[i].data \notin Tells(fs[j])
      BY <1>3, <1>4, <2>2 DEF Fresh
    <3>2. 1 \in 1..(i - 1) /\ \A j \in 1..(i - 1) : j \in 1..n
      BY <1>4, <2>2
    <3>3. fs[i].data \notin {h} \cup Tells(g)
      BY <3>1, <3>2
    <3>4. \A j \in 1..(i - 1) : gs[j] = IF j = 1 THEN g ELSE fs[j]
      BY <1>4, <3>2
    <3> QED BY <3>1, <3>3, <3>4
  <2> QED BY <2>1, <2>2
<1>6. Fresh(K \cup {h}, gs)
  BY <1>4, <1>5 DEF Fresh
<1> QED BY <1>2, <1>6 DEF gs, Told

\* What a step has to show, in terms of what it leaves.
LEMMA FreshAfter ==
    ASSUME UNCHANGED relay,
           \A c \in Client : Fresh(known'[c], downlink'[c]),
           \A c \in Client : sending'[c] = NotSending \/
              /\ sending'[c].env.node = c
              /\ \A d \in sending'[c].peers :
                    d # c /\ sending'[c].env \notin known'[d] \cup Told(downlink'[d])
    PROVE  FreshInv'
<1>1. \A c \in Client : Fresh(known[c], downlink[c])'
  BY DEF Fresh, Tells
<1>2. \A c \in Client : FreshTask(c)'
  BY DEF FreshTask, Told, NotSending
<1> QED BY <1>1, <1>2 DEF FreshInv

\* A client learns what is on its way to it, or nothing changes for it; tasks
\* have no more to do.
LEMMA FreshLearns ==
    ASSUME SInv, FreshInv, UNCHANGED relay,
           \A c \in Client :
              /\ Fresh(known'[c], downlink'[c])
              /\ known'[c] \cup Told(downlink'[c]) \subseteq known[c] \cup Told(downlink[c]),
           \A c \in Client : sending'[c] = NotSending \/
              (/\ sending[c] # NotSending /\ sending'[c].env = sending[c].env
               /\ sending'[c].peers \subseteq sending[c].peers)
    PROVE  FreshInv'
<1>1. ASSUME NEW c \in Client, sending'[c] # NotSending
      PROVE  /\ sending'[c].env.node = c
             /\ \A d \in sending'[c].peers :
                    d # c /\ sending'[c].env \notin known'[d] \cup Told(downlink'[d])
  <2>1. /\ sending[c] # NotSending /\ sending'[c].env = sending[c].env
        /\ sending'[c].peers \subseteq sending[c].peers /\ sending[c].peers \subseteq Client
    BY <1>1 DEF SInv, Wired, SendingOK
  <2>2. /\ sending[c].env.node = c
        /\ \A d \in sending[c].peers : d # c /\ sending[c].env \notin known[d] \cup Told(downlink[d])
    BY <2>1 DEF FreshInv, FreshTask
  <2> QED BY <2>1, <2>2
<1> QED BY <1>1, FreshAfter

LEMMA FreshInit == SyncInit => FreshInv
<1> SUFFICES ASSUME SyncInit PROVE FreshInv
  OBVIOUS
<1>1. \A c \in Client : downlink[c] = <<>> /\ sending[c] = NotSending
  BY DEF SyncInit
<1> QED BY <1>1, ToldNone DEF FreshInv, FreshTask

LEMMA FreshCall ==
    ASSUME SInv, FreshInv, NEW c \in Client, Call(c)
    PROVE  FreshInv'
<1>1. UNCHANGED <<relay, sending, downlink>> /\ c \in Node /\ known \in [Node -> SUBSET net]
  BY ClientAssumption DEF Call, wires, SInv, HInv
<1>2. NewProxy(c) \/ MadeOne(c)
  BY CallMakes DEF SInv, Call
<1>3. CASE UNCHANGED known
  BY <1>1, <1>3, FreshAfter DEF FreshInv, FreshTask
<1>4. ASSUME NEW env, Made(c, env) PROVE FreshInv'
  <2>1. /\ known'[c] = known[c] \cup {env} /\ \A d \in Client : d # c => known'[d] = known[d]
        /\ env \notin net
    BY <1>1, <1>4, ClientAssumption DEF Made
  <2>2. ASSUME NEW d \in Client PROVE Fresh(known'[d], downlink'[d])
    <3>1. /\ Fresh(known[d], downlink[d]) /\ downlink[d] \in Seq(ToSet(downlink[d]))
          /\ \A f \in ToSet(downlink[d]) : f.type = "UPDATE" => f.data \in net
      BY DEF FreshInv, SInv, Wired, FrameOK
    <3>2. \A f \in ToSet(downlink[d]) : f.type = "UPDATE" => f.data # env
      BY <2>1, <3>1
    <3>3. PICK K, fs : K = known[d] /\ fs = downlink[d]
      OBVIOUS
    <3>4. /\ Fresh(K, fs) /\ fs \in Seq(ToSet(fs))
          /\ \A f \in ToSet(fs) : f.type = "UPDATE" => f.data # env
      BY <3>1, <3>2, <3>3
    <3>5. Fresh(K \cup {env}, fs)
      <4>1. \A i \in 1..Len(fs) : fs[i] \in ToSet(fs)
        BY <3>4, Members
      <4> QED BY <3>4, <4>1 DEF Fresh
    <3> QED BY <1>1, <2>1, <3>1, <3>3, <3>5
  <2>3. ASSUME NEW d \in Client, sending[d] # NotSending, NEW x \in sending[d].peers
        PROVE  sending[d].env \notin known'[x] \cup Told(downlink'[x])
    <3>1. sending[d].env \in net /\ x \in Client
      BY <2>3 DEF SInv, Wired, SendingOK
    <3>2. sending[d].env \notin known[x] \cup Told(downlink[x])
      BY <2>3 DEF FreshInv, FreshTask
    <3> QED BY <1>1, <2>1, <3>1, <3>2
  <2> QED BY <1>1, <2>2, <2>3, FreshAfter DEF FreshInv, FreshTask
<1> QED BY <1>2, <1>3, <1>4 DEF MadeOne, NewProxy, vars

LEMMA FreshConnect ==
    ASSUME SInv, FreshInv, NEW c \in Client, Connect(c)
    PROVE  FreshInv'
<1>1. PICK g : g = Snapshot
  OBVIOUS
<1>2. /\ UNCHANGED <<known, relay, sending>> /\ ~online[c]
      /\ downlink'[c] = <<g>> /\ \A d \in Client : d # c => downlink'[d] = downlink[d]
  BY <1>1 DEF Connect, PerClient, SInv, Wired, vars
<1>3. g.type # "UPDATE"
  BY <1>1 DEF Snapshot
<1>4. ASSUME NEW d \in Client PROVE Fresh(known'[d], downlink'[d])
  BY <1>2, <1>3, ToldOne DEF FreshInv
<1>5. ASSUME NEW d \in Client, sending[d] # NotSending, NEW x \in sending[d].peers
      PROVE  x # d /\ sending[d].env \notin known'[x] \cup Told(downlink'[x])
  <2>1. x \in Client /\ online[x]
    BY <1>5 DEF SInv, Wired, SendingOK
  <2>2. x # d /\ sending[d].env \notin known[x] \cup Told(downlink[x])
    BY <1>5 DEF FreshInv, FreshTask
  <2> QED BY <1>2, <2>1, <2>2
<1> QED BY <1>2, <1>4, <1>5, FreshAfter DEF FreshInv, FreshTask

LEMMA FreshDisconnect ==
    ASSUME SInv, FreshInv, NEW c \in Client, Disconnect(c)
    PROVE  FreshInv'
<1>1. /\ UNCHANGED <<known, relay>>
      /\ downlink'[c] = <<>> /\ \A d \in Client : d # c => downlink'[d] = downlink[d]
      /\ \A d \in Client : sending'[d] = IF sending[d].peers \subseteq {c} THEN NotSending
                                         ELSE [sending[d] EXCEPT !.peers = @ \ {c}]
  BY DEF Disconnect, PerClient, SInv, Wired, vars
<1>2. ASSUME NEW d \in Client
      PROVE  /\ Fresh(known'[d], downlink'[d])
             /\ known'[d] \cup Told(downlink'[d]) \subseteq known[d] \cup Told(downlink[d])
  <2>1. CASE d = c
    BY <1>1, <2>1, ToldNone
  <2>2. CASE d # c
    BY <1>1, <2>2 DEF FreshInv
  <2> QED BY <2>1, <2>2
<1>3. ASSUME NEW d \in Client, sending'[d] # NotSending
      PROVE  /\ sending[d] # NotSending /\ sending'[d].env = sending[d].env
             /\ sending'[d].peers \subseteq sending[d].peers
  <2>1. sending[d] # NotSending /\ sending'[d] = [sending[d] EXCEPT !.peers = @ \ {c}]
    BY <1>1, <1>3 DEF NotSending
  <2>2. sending[d] = [peers |-> sending[d].peers, env |-> sending[d].env]
    BY <2>1 DEF SInv, Wired, SendingOK
  <2>3. sending'[d] = [peers |-> sending[d].peers \ {c}, env |-> sending[d].env]
    BY <2>1, <2>2
  <2> QED BY <2>1, <2>3
<1> QED BY <1>1, <1>2, <1>3, FreshLearns

LEMMA FreshRelayReceive ==
    ASSUME SInv, Stores, FreshInv, NEW c \in Client, RelayReceive(c)
    PROVE  FreshInv'
<1>1. PICK e : e = Head(uplink[c])
  OBVIOUS
<1>2. /\ e \in net /\ Line(c)' \in Seq(net) /\ <<e>> \in Seq(net)
      /\ Line(c) = Join(<<e>>, Line(c)')
  BY <1>1, LineMoves
<1>3. e \in ToSet(Line(c))
  <2>1. PICK s : s = <<e>>
    OBVIOUS
  <2>2. PICK t : t = Line(c)'
    OBVIOUS
  <2>3. s \in Seq(net) /\ t \in Seq(net) /\ ToSet(s) = {e} /\ Line(c) = Join(s, t)
    BY <1>2, <2>1, <2>2, OneMember
  <2>4. ToSet(Join(s, t)) = ToSet(s) \cup ToSet(t)
    BY <2>3, Joined
  <2> QED BY <2>3, <2>4
<1>4. e.node = c /\ e \notin AtRelay
  BY <1>3 DEF SInv, Wired, Accounted
<1>5. c \in Node /\ UNCHANGED relay
  BY ClientAssumption DEF RelayReceive
<1>6. CASE relay = "ts"
  <2>1. /\ UNCHANGED <<known, sending>>
        /\ \A d \in Client : downlink'[d] =
              IF d \in Peers(c) THEN Append(downlink[d], UpdateOf(e)) ELSE downlink[d]
    BY <1>1, <1>6 DEF RelayReceive, RelayLogs, vars
  <2>2. \A d \in Client : sending[d] = NotSending
    BY <1>6 DEF SInv, Wired, SendingOK
  <2>3. ASSUME NEW d \in Client PROVE Fresh(known'[d], downlink'[d])
    <3>1. CASE d \in Peers(c)
      <4>1. PICK fs : fs = downlink[d]
        OBVIOUS
      <4>2. d # c /\ fs \in Seq(ToSet(fs)) /\ Fresh(known[d], fs)
        BY <3>1, <4>1 DEF Peers, SInv, Wired, FreshInv
      <4>3. e \notin known[d] \cup Coming(fs)
        BY <1>4, <1>6, <4>1, <4>2 DEF SInv, Logs, LogCovers, AtRelay
      <4>4. e \notin known[d] \cup Told(fs)
        BY <1>6, <4>3 DEF Told
      <4>5. Fresh(known[d], Append(fs, UpdateOf(e)))
        BY <4>2, <4>4, ToldMore
      <4> QED BY <2>1, <3>1, <4>1, <4>5
    <3>2. CASE d \notin Peers(c)
      BY <2>1, <3>2 DEF FreshInv
    <3> QED BY <3>1, <3>2
  <2> QED BY <1>5, <2>1, <2>2, <2>3, FreshAfter
<1>7. CASE relay = "rust"
  <2>1. /\ Apply(Server, e) /\ UNCHANGED downlink
        /\ sending' = [sending EXCEPT ![c] =
              IF Peers(c) = {} THEN NotSending ELSE [peers |-> Peers(c), env |-> e]]
    BY <1>1, <1>7 DEF RelayReceive, RelayApplies
  <2>2. \A d \in Client : known'[d] = known[d]
    BY <2>1, ClientAssumption, RelayAssumption DEF Apply, ApplyEnvelope, SInv, HInv
  <2>3. /\ sending'[c] = IF Peers(c) = {} THEN NotSending ELSE [peers |-> Peers(c), env |-> e]
        /\ \A d \in Client : d # c => sending'[d] = sending[d]
    BY <2>1 DEF SInv, Wired, PerClient
  <2>4. ASSUME NEW d \in Client, d # c PROVE e \notin known[d] \cup Told(downlink[d])
    <3>1. e \notin known[Server]
      BY <1>4, <1>7 DEF AtRelay
    <3>2. e \notin known[d] \cup Reaching(downlink[d])
      BY <1>4, <1>7, <2>4, <3>1 DEF Stores, StoreCovers
    <3> QED BY <1>7, <3>2 DEF Told
  <2>5. ASSUME NEW d \in Client, sending'[d] # NotSending
        PROVE  /\ sending'[d].env.node = d
               /\ \A x \in sending'[d].peers :
                    x # d /\ sending'[d].env \notin known[x] \cup Told(downlink[x])
    <3>1. CASE d = c
      <4>1. sending'[d].env = e /\ sending'[d].peers = Peers(c)
        BY <2>3, <2>5, <3>1
      <4> QED BY <1>4, <2>4, <3>1, <4>1 DEF Peers
    <3>2. CASE d # c
      BY <2>3, <2>5, <3>2 DEF FreshInv, FreshTask
    <3> QED BY <3>1, <3>2
  <2>6. ASSUME NEW d \in Client PROVE sending'[d].peers \subseteq Client
    <3>1. sending[d].peers \subseteq Client
      <4>1. sending[d] = NotSending \/ sending[d].peers \subseteq {x \in Client : online[x]}
        BY DEF SInv, Wired, SendingOK
      <4>2. NotSending.peers = {}
        BY DEF NotSending
      <4> QED BY <4>1, <4>2
    <3>2. Peers(c) \subseteq Client /\ NotSending.peers = {}
      BY DEF Peers, NotSending
    <3>3. PICK r : r = [peers |-> Peers(c), env |-> e]
      OBVIOUS
    <3>4. r.peers = Peers(c)
      BY <3>3
    <3>5. d = c => sending'[d] \in {NotSending, r}
      BY <2>3, <3>3
    <3> QED BY <2>3, <3>1, <3>2, <3>4, <3>5
  <2>7. \A d \in Client : Fresh(known'[d], downlink'[d])
    BY <2>1, <2>2 DEF FreshInv
  <2>8. ASSUME NEW d \in Client, sending'[d] # NotSending
        PROVE  /\ sending'[d].env.node = d
               /\ \A x \in sending'[d].peers :
                    x # d /\ sending'[d].env \notin known'[x] \cup Told(downlink'[x])
    <3>1. \A x \in sending'[d].peers : known'[x] = known[x] /\ downlink'[x] = downlink[x]
      BY <2>1, <2>2, <2>6
    <3> QED BY <2>5, <2>8, <3>1
  <2> QED BY <1>5, <2>7, <2>8, FreshAfter
<1> QED BY <1>6, <1>7 DEF SInv, Wired

LEMMA FreshRelaySend ==
    ASSUME SInv, FreshInv, NEW c \in Client, RelaySend(c)
    PROVE  FreshInv'
<1>1. PICK d \in sending[c].peers :
        /\ downlink' = [downlink EXCEPT ![d] = Append(downlink[d], UpdateOf(sending[c].env))]
        /\ sending' = [sending EXCEPT ![c] =
                IF sending[c].peers = {d} THEN NotSending
                ELSE [peers |-> sending[c].peers \ {d}, env |-> sending[c].env]]
        /\ UNCHANGED <<known, relay>>
  BY DEF RelaySend, vars
<1>2. PICK P, e : P = sending[c].peers /\ e = sending[c].env
  OBVIOUS
<1>3. sending[c] # NotSending /\ P \subseteq Client /\ d \in P
  <2>1. sending[c] # NotSending
    BY <1>1 DEF NotSending
  <2> QED BY <1>1, <1>2, <2>1 DEF SInv, Wired, SendingOK
<1>4. e.node = c /\ \A x \in P : x # c /\ e \notin known[x] \cup Told(downlink[x])
  BY <1>2, <1>3 DEF FreshInv, FreshTask
<1>5. /\ sending'[c] = IF P = {d} THEN NotSending ELSE [peers |-> P \ {d}, env |-> e]
      /\ \A x \in Client : x # c => sending'[x] = sending[x]
  BY <1>1, <1>2 DEF SInv, Wired, PerClient
<1>6. PICK fs : fs = downlink[d]
  OBVIOUS
<1>7. /\ downlink'[d] = Append(fs, UpdateOf(e)) /\ fs \in Seq(ToSet(fs))
      /\ \A x \in Client : x # d => downlink'[x] = downlink[x]
  BY <1>1, <1>2, <1>3, <1>6 DEF SInv, Wired, PerClient
<1>8. Fresh(known[d], fs) /\ e \notin known[d] \cup Told(fs)
  BY <1>3, <1>4, <1>6 DEF FreshInv
<1>9. Fresh(known[d], downlink'[d]) /\ Told(downlink'[d]) = Told(downlink[d]) \cup {e}
  BY <1>6, <1>7, <1>8, ToldMore
<1>10. \A x \in Client : Fresh(known'[x], downlink'[x])
  BY <1>1, <1>7, <1>9 DEF FreshInv
<1>11. ASSUME NEW x \in Client, sending'[x] # NotSending, NEW y \in sending'[x].peers
       PROVE  sending'[x].env.node = x /\ y # x /\ sending'[x].env \notin known[y] \cup Told(downlink'[y])
  <2>1. CASE x = c
    <3>1. y \in P /\ y # d /\ sending'[x].env = e
      BY <1>5, <1>11, <2>1
    <3> QED BY <1>3, <1>4, <1>7, <2>1, <3>1
  <2>2. CASE x # c
    <3>1. sending'[x] = sending[x] /\ y \in Client
      BY <1>5, <1>11, <2>2 DEF SInv, Wired, SendingOK
    <3>2. sending[x].env.node = x /\ y # x /\ sending[x].env \notin known[y] \cup Told(downlink[y])
      BY <1>11, <3>1 DEF FreshInv, FreshTask
    <3> QED BY <1>4, <1>7, <1>9, <2>2, <3>1, <3>2
  <2> QED BY <2>1, <2>2
<1>12. ASSUME NEW x \in Client, sending'[x] # NotSending PROVE sending'[x].env.node = x
  BY <1>4, <1>5, <1>12 DEF FreshInv, FreshTask
<1> QED BY <1>1, <1>10, <1>11, <1>12, FreshAfter

LEMMA FreshReceives ==
    ASSUME SInv, FreshInv, NEW c \in Client, Receives(c)
    PROVE  FreshInv'
<1>1. /\ downlink[c] # <<>> /\ UNCHANGED <<relay, sending>>
      /\ c \in Node /\ known \in [Node -> SUBSET net]
      /\ \A d \in Client : d # c => d \in Node
  BY ClientAssumption DEF Receives, SInv, HInv
<1>2. PICK fs, f, K : fs = downlink[c] /\ f = fs[1] /\ K = known[c]
  OBVIOUS
<1>3. fs # <<>> /\ fs \in Seq(ToSet(fs)) /\ Fresh(K, fs) /\ FrameOK(f)
  <2>1. FrameOK(downlink[c][1])
    BY <1>1, FirstOK
  <2> QED BY <1>1, <1>2, <2>1 DEF SInv, Wired, FreshInv
<1>4. ASSUME NEW h, NEW gs, known'[c] = K \cup h, downlink'[c] = gs,
             h \cup Told(gs) \subseteq Told(fs), Fresh(K \cup h, gs),
             \A d \in Client : d # c => known'[d] = known[d] /\ downlink'[d] = downlink[d]
      PROVE  FreshInv'
  <2>1. ASSUME NEW d \in Client
        PROVE  /\ Fresh(known'[d], downlink'[d])
               /\ known'[d] \cup Told(downlink'[d]) \subseteq known[d] \cup Told(downlink[d])
    <3>1. CASE d = c
      BY <1>2, <1>4, <3>1
    <3>2. CASE d # c
      BY <1>4, <3>2 DEF FreshInv
    <3> QED BY <3>1, <3>2
  <2>2. \A d \in Client : sending'[d] = sending[d]
    BY <1>1
  <2> QED BY <1>1, <2>1, <2>2, FreshLearns
<1>5. ASSUME downlink' = Received(c), known' = [known EXCEPT ![c] = known[c] \cup Tells(f)]
      PROVE  FreshInv'
  <2>1. PICK gs : gs = Tail(fs)
    OBVIOUS
  <2>2. /\ downlink'[c] = gs /\ known'[c] = K \cup Tells(f)
        /\ \A d \in Client : d # c => known'[d] = known[d] /\ downlink'[d] = downlink[d]
    BY <1>1, <1>2, <1>5, <2>1 DEF Received, SInv, Wired, PerClient
  <2>3. Told(fs) = Tells(f) \cup Told(gs) /\ Fresh(K \cup Tells(f), gs)
    BY <1>2, <1>3, <2>1, ToldFirst
  <2> QED BY <1>4, <2>2, <2>3
<1>6. CASE ReceiveUpdate(c)
  <2>1. /\ f.type = "UPDATE" /\ downlink' = Received(c)
        /\ known' = [known EXCEPT ![c] = known[c] \cup {f.data}]
    BY <1>2, <1>6 DEF ReceiveUpdate, Apply, ApplyEnvelope
  <2>2. Tells(f) = {f.data}
    BY <2>1 DEF Tells, Brings, Reflects
  <2> QED BY <1>5, <2>1, <2>2
<1>7. CASE ReceiveLogged(c)
  <2>1. PICK g, h : g = Rest(f) /\ h = Head(f.data)
    OBVIOUS
  <2>2. PICK gs : gs = [fs EXCEPT ![1] = g]
    OBVIOUS
  <2>3. /\ relay = "ts" /\ g.type # "UPDATE" /\ Brings(f) = {h} \cup Brings(g)
        /\ downlink' = [downlink EXCEPT ![c] = gs]
    BY <1>1, <1>2, <1>7, <2>1, <2>2, LoggedFrame
  <2>4. known' = [known EXCEPT ![c] = known[c] \cup {h}]
    BY <1>2, <1>7, <2>1 DEF ReceiveLogged, Apply, ApplyEnvelope
  <2>5. /\ downlink'[c] = gs /\ known'[c] = K \cup {h}
        /\ \A d \in Client : d # c => known'[d] = known[d] /\ downlink'[d] = downlink[d]
    BY <1>1, <1>2, <2>3, <2>4 DEF SInv, Wired, PerClient
  <2>6. Tells(fs[1]) = {h} \cup Tells(g)
    BY <1>2, <2>3 DEF Tells
  <2>7. Told(fs) = {h} \cup Told(gs) /\ Fresh(K \cup {h}, gs)
    <3>1. /\ fs \in Seq(ToSet(fs)) /\ fs # <<>> /\ Fresh(K, fs) /\ relay = "ts"
          /\ Tells(fs[1]) = {h} \cup Tells(g) /\ g.type # "UPDATE"
      BY <1>3, <2>3, <2>6
    <3>2. /\ Told(fs) = {h} \cup Told([fs EXCEPT ![1] = g])
          /\ Fresh(K \cup {h}, [fs EXCEPT ![1] = g])
      BY <3>1, ToldPart
    <3> QED BY <2>2, <3>2
  <2>8. PICK H : H = {h}
    OBVIOUS
  <2>9. /\ known'[c] = K \cup H /\ downlink'[c] = gs
        /\ H \cup Told(gs) \subseteq Told(fs) /\ Fresh(K \cup H, gs)
        /\ \A d \in Client : d # c => known'[d] = known[d] /\ downlink'[d] = downlink[d]
    BY <2>5, <2>7, <2>8
  <2> QED BY <1>4, <2>9
<1>8. CASE ReceiveLogEnd(c)
  <2>1. /\ relay = "ts" /\ f.type # "UPDATE" /\ f.data = <<>>
        /\ downlink' = Received(c) /\ known' = known
    BY <1>2, <1>8 DEF ReceiveLogEnd, vars
  <2>2. Tells(f) = {}
    BY <2>1, NoFrames DEF Tells, Brings
  <2>3. known' = [known EXCEPT ![c] = known[c] \cup Tells(f)]
    BY <1>1, <2>1, <2>2
  <2> QED BY <1>5, <2>1, <2>3
<1>9. CASE ReceiveStore(c)
  <2>1. /\ relay = "rust" /\ f.type # "UPDATE" /\ downlink' = Received(c)
        /\ known' = [known EXCEPT ![c] = known[c] \cup f.data.known]
    BY <1>2, <1>9 DEF ReceiveStore, Merge
  <2>2. Tells(f) = f.data.known
    BY <2>1 DEF Tells, Reflects
  <2> QED BY <1>5, <2>1, <2>2
<1> QED BY <1>6, <1>7, <1>8, <1>9 DEF Receives

LEMMA FreshNext == SInv /\ Stores /\ FreshInv /\ [SyncNext]_allVars => FreshInv'
<1> SUFFICES ASSUME SInv, Stores, FreshInv, [SyncNext]_allVars PROVE FreshInv'
  OBVIOUS
<1>1. ASSUME UNCHANGED <<known, relay, sending, downlink>> PROVE FreshInv'
  BY <1>1, FreshAfter DEF FreshInv, FreshTask
<1>2. CASE UNCHANGED allVars
  BY <1>1, <1>2 DEF allVars, wires, vars
<1>3. CASE SyncNext
  <2>1. PICK c \in Client : Call(c) \/ Connect(c) \/ Disconnect(c) \/ Works(c)
    BY <1>3 DEF SyncNext
  <2>2. CASE Drains(c) \/ EndProxy(c) \/ Send(c)
    BY <1>1, <2>2 DEF Drains, DrainPending, EndProxy, DropProxy, Send, wires, vars
  <2> QED BY <2>1, <2>2, FreshCall, FreshConnect, FreshDisconnect, FreshRelayReceive,
             FreshRelaySend, FreshReceives DEF Works
<1> QED BY <1>2, <1>3

-----------------------------------------------------------------------------
(* The order of the log.                                                   *)

\* Nothing stands before its past.
Forward(p, s) == \A i, j \in 1..Len(s) : s[i] \in p[s[j]] => i < j

\* Everything is logged once, and after what its author had that was not lost.
LogSorted ==
    /\ Once(log) /\ Ordered(past, log, lost)
    /\ \A c \in Client : Ordered(past, Line(c), ToSet(log) \cup lost)

\* ... and the logs on their way are in that order.
LogsSorted ==
    \A c \in Client : \A f \in ToSet(downlink[c]) : f.type = "UPDATE" \/ Forward(past, f.data)

SortedInv == relay = "ts" => LogSorted /\ LogsSorted

LEMMA LogForward ==
    ASSUME SInv, relay = "ts", LogSorted
    PROVE  Forward(past, log)
<1>1. log \in Seq(net) /\ Once(log) /\ Ordered(past, log, lost) /\ ToSet(log) \cap lost = {}
  BY DEF LogSorted, SInv, Wired, Accounted, AtRelay
<1>2. ASSUME NEW i \in 1..Len(log), NEW j \in 1..Len(log), log[i] \in past[log[j]] PROVE i < j
  <2>1. log[i] \in lost \cup {log[k] : k \in 1..(j - 1)}
    BY <1>1, <1>2 DEF Ordered
  <2>2. log[i] \notin lost
    <3>1. log[i] \in ToSet(log)
      BY <1>1, Members
    <3> QED BY <1>1, <3>1
  <2>3. PICK k \in 1..(j - 1) : log[i] = log[k]
    BY <2>1, <2>2
  <2>4. k \in 1..Len(log) /\ k < j
    BY <1>1
  <2> QED BY <1>1, <2>3, <2>4 DEF Once
<1> QED BY <1>2 DEF Forward

LEMMA ForwardTail ==
    ASSUME NEW S, NEW s \in Seq(S), s # <<>>, NEW p, Forward(p, s)
    PROVE  Forward(p, Tail(s))
<1>1. PICK t : t = Tail(s)
  OBVIOUS
<1>2. PICK n : n = Len(s)
  OBVIOUS
<1>3. n \in Nat /\ n >= 1 /\ Len(t) = n - 1 /\ \A i \in 1..(n - 1) : t[i] = s[i + 1]
  BY <1>1, <1>2
<1>4. ASSUME NEW i \in 1..(n - 1), NEW j \in 1..(n - 1), t[i] \in p[t[j]] PROVE i < j
  <2>1. i + 1 \in 1..n /\ j + 1 \in 1..n /\ s[i + 1] \in p[s[j + 1]]
    BY <1>3, <1>4
  <2>2. i + 1 < j + 1
    BY <1>2, <2>1 DEF Forward
  <2> QED BY <2>2
<1> QED BY <1>1, <1>3, <1>4 DEF Forward

\* A log that is on its way was, is the relay's, or is what is left of one.
LEMMA LogsSent ==
    ASSUME SInv, [SyncNext]_allVars, relay = "ts"
    PROVE  \A c \in Client : \A f \in ToSet(downlink'[c]) :
             \/ f.type = "UPDATE" \/ f \in ToSet(downlink[c])
             \/ (f = Snapshot /\ UNCHANGED <<net, past>>)
             \/ \E x \in ToSet(downlink[c]) : f = Rest(x) /\ x.type # "UPDATE" /\ x.data # <<>>
<1>0. /\ \A c \in Client : downlink[c] \in Seq(ToSet(downlink[c]))
      /\ PerClient(downlink) /\ \A c \in Client : sending[c] = NotSending
  BY DEF SInv, Wired, SendingOK
<1>1. CASE UNCHANGED allVars
  BY <1>1 DEF allVars, wires
<1>2. CASE SyncNext
  <2>1. PICK c \in Client : Call(c) \/ Connect(c) \/ Disconnect(c) \/ Works(c)
    BY <1>2 DEF SyncNext
  <2>2. CASE Call(c)
    BY <2>2 DEF Call, wires
  <2>3. CASE Connect(c)
    <3>1. PICK g : g = Snapshot
      OBVIOUS
    <3>2. /\ downlink'[c] = <<g>> /\ UNCHANGED <<net, past>>
          /\ \A d \in Client : d # c => downlink'[d] = downlink[d]
      BY <1>0, <2>3, <3>1 DEF Connect, PerClient, vars
    <3>3. ToSet(downlink'[c]) = {g}
      BY <3>2, ReachingOne
    <3> QED BY <3>1, <3>2, <3>3
  <2>4. CASE Disconnect(c)
    <3>1. /\ downlink'[c] = <<>>
          /\ \A d \in Client : d # c => downlink'[d] = downlink[d]
      BY <1>0, <2>4 DEF Disconnect, PerClient
    <3> QED BY <3>1, NoFrames
  <2>5. CASE Drains(c) \/ EndProxy(c) \/ Send(c)
    BY <2>5 DEF Drains, EndProxy, Send, wires
  <2>6. CASE RelayReceive(c)
    <3>1. PICK g : g = UpdateOf(Head(uplink[c]))
      OBVIOUS
    <3>2. \A d \in Client : downlink'[d] = IF d \in Peers(c) THEN Append(downlink[d], g) ELSE downlink[d]
      BY <2>6, <3>1 DEF RelayReceive, RelayLogs
    <3>3. g.type = "UPDATE"
      BY <3>1 DEF UpdateOf
    <3>4. ASSUME NEW d \in Client PROVE ToSet(downlink'[d]) \subseteq ToSet(downlink[d]) \cup {g}
      <4>1. PICK fs : fs = downlink[d]
        OBVIOUS
      <4>2. fs \in Seq(ToSet(fs))
        BY <1>0, <4>1
      <4>3. ToSet(Append(fs, g)) = ToSet(fs) \cup {g}
        BY <4>2, ReachingMore
      <4> QED BY <3>2, <4>1, <4>3
    <3> QED BY <3>3, <3>4
  <2>7. CASE RelaySend(c)
    BY <1>0, <2>7 DEF RelaySend, NotSending
  <2>8. CASE Receives(c)
    <3>1. /\ downlink[c] # <<>> /\ downlink[c][1] \in ToSet(downlink[c])
          /\ ToSet(Tail(downlink[c])) \subseteq ToSet(downlink[c])
      BY <2>8, FirstIn DEF Receives, SInv
    <3>2. CASE downlink' = Received(c)
      <4>1. /\ downlink'[c] = Tail(downlink[c])
            /\ \A d \in Client : d # c => downlink'[d] = downlink[d]
        BY <1>0, <3>2 DEF Received, PerClient
      <4> QED BY <3>1, <4>1
    <3>3. CASE ReceiveLogged(c)
      <4>1. PICK x : x = downlink[c][1]
        OBVIOUS
      <4>2. PICK g : g = Rest(x)
        OBVIOUS
      <4>3. /\ x.type # "UPDATE" /\ x.data # <<>>
            /\ downlink' = [downlink EXCEPT ![c] = [downlink[c] EXCEPT ![1] = g]]
        BY <3>1, <3>3, <4>1, <4>2, LoggedFrame
      <4>4. PICK fs : fs = downlink[c]
        OBVIOUS
      <4>5. PICK gs : gs = [fs EXCEPT ![1] = g]
        OBVIOUS
      <4>6. /\ downlink'[c] = gs /\ fs \in Seq(ToSet(fs)) /\ fs # <<>>
            /\ \A d \in Client : d # c => downlink'[d] = downlink[d]
        BY <1>0, <3>1, <4>3, <4>4, <4>5 DEF PerClient
      <4>7. ToSet(gs) \subseteq ToSet(fs) \cup {g}
        <5>1. /\ Len(gs) = Len(fs) /\ DOMAIN gs = 1..Len(fs)
              /\ \A j \in 1..Len(fs) : gs[j] = IF j = 1 THEN g ELSE fs[j]
          BY <4>5, <4>6
        <5>2. ToSet(fs) = {fs[i] : i \in 1..Len(fs)}
          BY <4>6, Members
        <5> QED BY <5>1, <5>2 DEF ToSet
      <4> QED BY <3>1, <4>1, <4>2, <4>3, <4>4, <4>6, <4>7
    <3>4. relay = "ts"
      OBVIOUS
    <3> QED BY <2>8, <3>2, <3>3, <3>4 DEF Receives, ReceiveUpdate, ReceiveLogEnd, ReceiveStore
  <2> QED BY <2>1, <2>2, <2>3, <2>4, <2>5, <2>6, <2>7, <2>8 DEF Works
<1> QED BY <1>1, <1>2

\* What a step that logs nothing and makes nothing has to show.
LEMMA SortedLines ==
    ASSUME SInv, LogSorted, UNCHANGED <<past, log>>, lost \subseteq lost',
           \A c \in Client : Line(c)' = Line(c) \/
              \E a, b \in Seq(net) : /\ Line(c) = Join(a, b) \/ Line(c) = Join(b, a)
                                     /\ Line(c)' = b /\ ToSet(a) \subseteq lost'
    PROVE  LogSorted'
<1>1. log \in Seq(net) /\ Once(log) /\ Ordered(past, log, lost)
  BY DEF LogSorted, SInv, Wired
<1>2. PICK K, L : K = ToSet(log) \cup lost /\ L = ToSet(log) \cup lost'
  OBVIOUS
<1>3. K \subseteq L
  BY <1>2
<1>4. Ordered(past, log, lost')
  <2>1. \A e \in net : past[e] = past[e]
    OBVIOUS
  <2> QED BY <1>1, OrderedGrows
<1>5. ASSUME NEW c \in Client PROVE Ordered(past, Line(c)', L)
  <2>1. PICK l, m : l = Line(c) /\ m = Line(c)'
    OBVIOUS
  <2>2. l \in Seq(net) /\ Ordered(past, l, K)
    BY <1>2, <2>1, LineParts DEF LogSorted, SInv
  <2>3. CASE m = l
    <3>1. Ordered(past, l, L)
      BY <1>3, <2>2, OrderedGrows
    <3> QED BY <2>1, <2>3, <3>1
  <2>4. CASE m # l
    <3>1. PICK a, b \in Seq(net) : /\ l = Join(a, b) \/ l = Join(b, a)
                                   /\ m = b /\ ToSet(a) \subseteq lost'
      BY <2>1, <2>4
    <3>2. CASE l = Join(a, b)
      <4>1. Ordered(past, b, K \cup ToSet(a))
        BY <2>2, <3>1, <3>2, Joined
      <4>2. K \cup ToSet(a) \subseteq L
        BY <1>2, <1>3, <3>1
      <4>3. Ordered(past, b, L)
        BY <3>1, <4>1, <4>2, OrderedGrows
      <4> QED BY <2>1, <3>1, <4>3
    <3>3. CASE l = Join(b, a)
      <4>1. Ordered(past, b, K)
        BY <2>2, <3>1, <3>3, Joined
      <4>2. Ordered(past, b, L)
        BY <1>3, <3>1, <4>1, OrderedGrows
      <4> QED BY <2>1, <3>1, <4>2
    <3> QED BY <3>1, <3>2, <3>3
  <2> QED BY <2>3, <2>4
<1> QED BY <1>1, <1>2, <1>4, <1>5 DEF LogSorted

LEMMA SortedCall ==
    ASSUME SInv, LogSorted, relay = "ts", NEW c \in Client, Call(c)
    PROVE  LogSorted' /\ \A e \in net : past'[e] = past[e]
<1>1. UNCHANGED <<relay, log, uplink, lost>>
  BY DEF Call, wires, ghosts
<1>2. NewProxy(c) \/ (MadeOne(c) /\ (Queue(c) \/ (c \notin Agent /\ Return(c))))
  BY CallMakes DEF SInv, Call
<1>3. CASE NewProxy(c)
  <2>1. \A d \in Client : Line(d)' = Line(d)
    BY <1>1, <1>3 DEF Line, NewProxy
  <2> QED BY <1>1, <1>3, <2>1, SortedLines DEF NewProxy, vars
<1>4. CASE UNCHANGED <<net, known, past>> /\ (Queue(c) \/ (c \notin Agent /\ Return(c)))
  <2>1. \A d \in Client : Line(d)' = Line(d)
    BY <1>1, <1>4, NoneMade DEF SInv
  <2> QED BY <1>1, <1>4, <2>1, SortedLines
<1>5. ASSUME NEW env, Made(c, env), Queue(c) \/ (c \notin Agent /\ Return(c))
      PROVE  LogSorted' /\ \A e \in net : past'[e] = past[e]
  <2>1. /\ env \in net' /\ net \subseteq net' /\ past'[env] = known[c]
        /\ \A e \in net : past'[e] = past[e]
    <3>1. env \in net' /\ \A e \in net : e \in net' /\ e # env
      BY <1>5 DEF Made
    <3> QED BY <1>5, <3>1 DEF Made
  <2>2. /\ Line(c)' = Join(Line(c), <<env>>)
        /\ \A d \in Client : d # c => Line(d)' = Line(d)
    BY <1>1, <1>5, MadeLines DEF SInv
  <2>3. \A d \in Client : Line(d) \in Seq(net)
    BY LineParts DEF SInv
  <2>4. log \in Seq(net) /\ Once(log) /\ Ordered(past, log, lost)
    BY DEF LogSorted, SInv, Wired
  <2>5. Ordered(past', log, lost)
    BY <2>1, <2>4, OrderedGrows
  <2>6. PICK K : K = ToSet(log) \cup lost
    OBVIOUS
  <2>7. \A d \in Client : Ordered(past', Line(d), K)
    BY <2>1, <2>3, <2>6, OrderedGrows DEF LogSorted
  <2>8. known[c] \subseteq K \cup ToSet(Line(c))
    <3>1. c \in Node /\ known \in [Node -> SUBSET net]
      BY ClientAssumption DEF SInv, HInv
    <3>2. \A e \in known[c] : e \in net
      BY <3>1
    <3> QED BY <2>6, <3>2 DEF SInv, Logs, LogCovers, Accounted, AtRelay
  <2>9. Ordered(past', Line(c)', K)
    <3>1. PICK l : l = Line(c)
      OBVIOUS
    <3>2. l \in Seq(net') /\ Ordered(past', l, K) /\ past'[env] \subseteq K \cup ToSet(l)
      BY <2>1, <2>3, <2>7, <2>8, <3>1, SeqMonotonic
    <3>3. Ordered(past', Join(l, <<env>>), K)
      BY <2>1, <3>2, OneMore
    <3> QED BY <2>2, <3>1, <3>3
  <2>10. \A d \in Client : Ordered(past', Line(d)', K)
    BY <2>2, <2>7, <2>9
  <2> QED BY <1>1, <2>1, <2>4, <2>5, <2>6, <2>10 DEF LogSorted
<1> QED BY <1>2, <1>3, <1>4, <1>5 DEF MadeOne

LEMMA SortedReceives ==
    ASSUME SInv, LogSorted, relay = "ts", NEW c \in Client, RelayReceive(c)
    PROVE  LogSorted' /\ UNCHANGED past
<1>1. PICK e, b : e = Head(uplink[c]) /\ b = Line(c)'
  OBVIOUS
<1>2. /\ e \in net /\ b \in Seq(net) /\ Line(c) = Join(<<e>>, b)
      /\ \A d \in Client : d # c => Line(d)' = Line(d)
  BY <1>1, LineMoves
<1>3. log' = Append(log, e) /\ UNCHANGED <<past, lost>>
  BY <1>1 DEF RelayReceive, RelayLogs, vars
<1>4. log \in Seq(net) /\ Once(log) /\ Ordered(past, log, lost)
  BY DEF LogSorted, SInv, Wired
<1>5. log' = Join(log, <<e>>)
  BY <1>2, <1>3, <1>4, AppendIsConcat DEF Join
<1>6. PICK K : K = ToSet(log) \cup lost
  OBVIOUS
<1>7. PICK t : t = <<e>>
  OBVIOUS
<1>8. t \in Seq(net) /\ ToSet(t) = {e} /\ \A p, B : Ordered(p, t, B) <=> p[e] \subseteq B
  BY <1>2, <1>7, OneMember
<1>9. Line(c) = Join(t, b) /\ Ordered(past, Line(c), K)
  BY <1>2, <1>6, <1>7 DEF LogSorted
<1>10. Ordered(past, t, K) /\ Ordered(past, b, K \cup ToSet(t))
  <2>1. t \in Seq(net) /\ b \in Seq(net) /\ Ordered(past, Join(t, b), K)
    BY <1>2, <1>8, <1>9
  <2> QED BY <2>1, Joined
<1>11. past[e] \subseteq lost \cup ToSet(log)
  BY <1>6, <1>8, <1>10
<1>12. e \notin ToSet(log)
  <2>1. ToSet(Line(c)) = ToSet(t) \cup ToSet(b)
    BY <1>2, <1>8, <1>9, Joined
  <2> QED BY <1>8, <2>1 DEF SInv, Accounted, AtRelay
<1>13. /\ ToSet(Join(log, <<e>>)) = ToSet(log) \cup {e} /\ Once(Join(log, <<e>>))
       /\ Ordered(past, Join(log, <<e>>), lost)
  <2>1. PICK l : l = log
    OBVIOUS
  <2>2. l \in Seq(net) /\ Once(l) /\ Ordered(past, l, lost) /\ past[e] \subseteq lost \cup ToSet(l)
        /\ e \notin ToSet(l)
    BY <1>4, <1>11, <1>12, <2>1
  <2>3. ToSet(Join(l, <<e>>)) = ToSet(l) \cup {e} /\ Once(Join(l, <<e>>))
    BY <1>2, <2>2, OneMore
  <2>4. Ordered(past, Join(l, <<e>>), lost)
    BY <1>2, <2>2, OneMore
  <2> QED BY <2>1, <2>3, <2>4
<1>14. ASSUME NEW d \in Client PROVE Ordered(past, Line(d)', K \cup {e})
  <2>1. CASE d = c
    BY <1>1, <1>8, <1>10, <2>1
  <2>2. CASE d # c
    <3>1. PICK l : l = Line(d)
      OBVIOUS
    <3>2. l \in Seq(net) /\ Ordered(past, l, K)
      BY <1>6, <3>1, LineParts DEF LogSorted, SInv
    <3>3. PICK L : L = K \cup {e}
      OBVIOUS
    <3>4. K \subseteq L
      BY <3>3
    <3>5. Ordered(past, l, L)
      BY <3>2, <3>4, OrderedGrows
    <3> QED BY <1>2, <2>2, <3>1, <3>3, <3>5
  <2> QED BY <2>1, <2>2
<1>15. ToSet(log') \cup lost' = K \cup {e}
  BY <1>3, <1>5, <1>6, <1>13
<1> QED BY <1>3, <1>5, <1>13, <1>14, <1>15 DEF LogSorted

LEMMA SortedNext ==
    ASSUME SInv, SInv', SortedInv, [SyncNext]_allVars
    PROVE  SortedInv'
<1>1. relay' = relay
  BY StoresSent
<1> SUFFICES ASSUME relay = "ts" PROVE LogSorted' /\ LogsSorted'
  BY <1>1 DEF SortedInv
<1>2. LogSorted /\ LogsSorted
  BY DEF SortedInv
<1>3. ASSUME UNCHANGED <<past, log, lost>>, \A d \in Client : Line(d)' = Line(d)
      PROVE  LogSorted'
  BY <1>2, <1>3, SortedLines
<1>4. LogSorted' /\ \A e \in net : past'[e] = past[e]
  <2>1. CASE UNCHANGED allVars
    <3>1. \A d \in Client : Line(d)' = Line(d)
      BY <2>1 DEF allVars, api, wires, Line
    <3> QED BY <1>3, <2>1, <3>1 DEF allVars, vars, ghosts
  <2>2. CASE SyncNext
    <3>1. PICK c \in Client : Call(c) \/ Connect(c) \/ Disconnect(c) \/ Works(c)
      BY <2>2 DEF SyncNext
    <3>2. CASE Call(c)
      BY <1>2, <3>2, SortedCall
    <3>3. CASE Connect(c)
      <4>1. UNCHANGED <<past, log, lost, uplink, pending, queued>>
        BY <3>3 DEF Connect, vars, api, ghosts
      <4> QED BY <1>3, <4>1 DEF Line
    <3>4. CASE RelaySend(c)
      <4>1. UNCHANGED <<past, log, lost, uplink, pending, queued>>
        BY <3>4 DEF RelaySend, vars, api, ghosts
      <4> QED BY <1>3, <4>1 DEF Line
    <3>5. CASE Receives(c)
      <4>1. UNCHANGED <<log, lost, uplink, pending, queued>> /\ relay = "ts"
        BY <3>5 DEF Receives, api
      <4>2. UNCHANGED past
        BY <3>5, <4>1 DEF Receives, ReceiveUpdate, ReceiveLogged, ReceiveLogEnd, ReceiveStore,
                          Apply, ApplyEnvelope, vars
      <4> QED BY <1>3, <4>1, <4>2 DEF Line
    <3>6. CASE Drains(c)
      BY <1>3, <3>6, LinesDrained DEF Drains, DrainPending, ghosts, vars, SInv
    <3>7. CASE Send(c)
      BY <1>3, <3>7, LinesSent DEF Send, ghosts, vars, SInv
    <3>8. CASE RelayReceive(c)
      BY <1>2, <3>8, SortedReceives
    <3>9. CASE Disconnect(c)
      <4> DEFINE u == uplink[c]  v == pending[c]  w == queued[c]
      <4>1. u \in Seq(net) /\ v \in Seq(net) /\ w \in Seq(net) /\ Line(c) = Join(u, Join(v, w))
        BY DEF SInv, Wired, Line
      <4>2. /\ uplink' = [uplink EXCEPT ![c] = <<>>] /\ lost' = lost \cup ToSet(u)
            /\ UNCHANGED <<past, log, pending, queued>>
        BY <3>9 DEF Disconnect, vars, api
      <4> HIDE DEF u, v, w
      <4>3. Join(v, w) \in Seq(net) /\ <<>> \in Seq(net) /\ Join(<<>>, Join(v, w)) = Join(v, w)
        BY <4>1, Joined, JoinedNone
      <4>4. uplink'[c] = <<>> /\ \A d \in Client : d # c => uplink'[d] = uplink[d]
        BY <4>2 DEF SInv, Wired
      <4>5. Line(c)' = Join(v, w) /\ \A d \in Client : d # c => Line(d)' = Line(d)
        BY <4>2, <4>3, <4>4 DEF Line, v, w
      <4>6. PICK b : b = Join(v, w)
        OBVIOUS
      <4>7. \A d \in Client : Line(d)' = Line(d) \/
               \E a, z \in Seq(net) : /\ Line(d) = Join(a, z) \/ Line(d) = Join(z, a)
                                      /\ Line(d)' = z /\ ToSet(a) \subseteq lost'
        BY <4>1, <4>2, <4>3, <4>5, <4>6
      <4> QED BY <1>2, <4>2, <4>7, SortedLines
    <3>10. CASE EndProxy(c)
      <4> DEFINE u == uplink[c]  v == pending[c]  w == queued[c]
      <4>1. u \in Seq(net) /\ v \in Seq(net) /\ w \in Seq(net) /\ Line(c) = Join(Join(u, v), w)
        BY LineParts DEF SInv, Wired
      <4>2. /\ queued' = [queued EXCEPT ![c] = <<>>] /\ lost' = lost \cup ToSet(w)
            /\ UNCHANGED <<past, log, pending, uplink>>
        BY <3>10 DEF EndProxy, DropProxy, vars, wires
      <4> HIDE DEF u, v, w
      <4>3. Join(u, v) \in Seq(net) /\ Join(v, <<>>) = v
        BY <4>1, Joined, JoinedNone
      <4>4. queued'[c] = <<>> /\ \A d \in Client : d # c => queued'[d] = queued[d]
        BY <4>2 DEF SInv, Wired
      <4>5. Line(c)' = Join(u, v) /\ \A d \in Client : d # c => Line(d)' = Line(d)
        BY <4>2, <4>3, <4>4 DEF Line, u, v
      <4>6. PICK b : b = Join(u, v)
        OBVIOUS
      <4>7. \A d \in Client : Line(d)' = Line(d) \/
               \E a, z \in Seq(net) : /\ Line(d) = Join(a, z) \/ Line(d) = Join(z, a)
                                      /\ Line(d)' = z /\ ToSet(a) \subseteq lost'
        BY <4>1, <4>2, <4>3, <4>5, <4>6
      <4> QED BY <1>2, <4>2, <4>7, SortedLines
    <3> QED BY <3>1, <3>2, <3>3, <3>4, <3>5, <3>6, <3>7, <3>8, <3>9, <3>10 DEF Works
  <2> QED BY <2>1, <2>2
<1>5. ASSUME NEW c \in Client, NEW f \in ToSet(downlink'[c]), f.type # "UPDATE"
      PROVE  Forward(past', f.data)
  <2>1. ASSUME NEW s \in Seq(net), Forward(past, s) PROVE Forward(past', s)
    <3>1. \A i \in 1..Len(s) : s[i] \in net
      BY <2>1
    <3> QED BY <1>4, <2>1, <3>1 DEF Forward
  <2>2. CASE f \in ToSet(downlink[c])
    <3>1. f.data \in Seq(net)
      BY <1>5, <2>2 DEF SInv, Wired, FrameOK
    <3> QED BY <1>2, <1>5, <2>1, <2>2, <3>1 DEF LogsSorted
  <2>3. CASE f = Snapshot /\ UNCHANGED <<net, past>>
    <3>1. f.data = log
      BY <2>3 DEF Snapshot
    <3> QED BY <1>2, <2>3, <3>1, LogForward
  <2>4. ASSUME NEW x \in ToSet(downlink[c]), f = Rest(x), x.type # "UPDATE", x.data # <<>>
        PROVE  Forward(past', f.data)
    <3>1. PICK s : s = x.data
      OBVIOUS
    <3>2. s \in Seq(net) /\ Forward(past, s) /\ s # <<>>
      BY <1>2, <2>4, <3>1 DEF SInv, Wired, FrameOK, LogsSorted
    <3>3. Forward(past, Tail(s)) /\ Tail(s) \in Seq(net)
      BY <3>2, ForwardTail
    <3>4. f.data = Tail(s)
      BY <2>4, <3>1 DEF Rest
    <3> QED BY <2>1, <3>3, <3>4
  <2> QED BY <1>5, <2>2, <2>3, <2>4, LogsSent
<1>6. LogsSorted'
  BY <1>5 DEF LogsSorted
<1> QED BY <1>4, <1>6

LEMMA SortedInit == SyncInit => SortedInv
<1> SUFFICES ASSUME SyncInit PROVE SortedInv
  OBVIOUS
<1>1. log = <<>> /\ \A c \in Client : downlink[c] = <<>>
  BY DEF SyncInit
<1>2. \A c \in Client : uplink[c] = <<>> /\ pending[c] = <<>> /\ queued[c] = <<>>
  BY DEF SyncInit, InitApi
<1>3. Join(<<>>, <<>>) = <<>>
  <2>1. PICK a : a = <<>>
    OBVIOUS
  <2>2. a \in Seq({})
    BY <2>1
  <2>3. Join(a, <<>>) = a
    BY <2>2, JoinedNone
  <2> QED BY <2>1, <2>3
<1>4. \A c \in Client : Line(c) = <<>>
  BY <1>2, <1>3 DEF Line
<1>5. Once(<<>>) /\ \A p, B : Ordered(p, <<>>, B)
  BY DEF Once, Ordered
<1> QED BY <1>1, <1>4, <1>5, NoFrames DEF SortedInv, LogSorted, LogsSorted

-----------------------------------------------------------------------------
(* What a set holds: what was added and not removed.                       *)

\* Set k holds what the Adds of `envs` add and no Remove of `envs` takes, and
\* no entry that one takes, but for the Removes that are still to be replayed.
Exact(S, envs, k, rest) ==
    /\ \A a \in envs :
          (IsAdd(a, k) /\ \A r \in envs : IsRemove(r, k) => a.op.token \notin r.op.tokens)
              => EntryOf(a) \in S
    /\ \A p \in S, r \in envs : (IsRemove(r, k) /\ p[2] \in r.op.tokens) => r \in rest

\* What is left of the log that a client is replaying.
ReplayOf(fs) ==
    IF fs # <<>> /\ fs[1].type = "SNAPSHOT" /\ fs[1].begun THEN fs[1].data ELSE <<>>

\* The Removes of `envs` come, in what is left of the log, after what they knew.
Undone(p, s, envs) ==
    \A i \in 1..Len(s), r \in envs :
        (r.kind = "Set" /\ r.op.type = "Remove" /\ s[i] \in p[r])
            => \E j \in 1..Len(s) : i < j /\ s[j] = r

\* The sets of a client, and of a store.
ExactAt(c) ==
    /\ Undone(past, ReplayOf(downlink[c]), known[c])
    /\ \A k \in SetKey : Exact(sets[c][k], known[c], k, ToSet(ReplayOf(downlink[c])))
ExactStore(entries, envs) == \A k \in SetKey : Exact(entries[k], envs, k, {})

\* The inductive invariant for what the sets hold.
ExactInv ==
    /\ relay = "rust" =>
          /\ Server \in disordered \/ ExactStore(sets[Server], known[Server])
          /\ \A c \in Client : \A f \in ToSet(downlink[c]) :
               f.type = "UPDATE" \/
                  (~f.begun /\ (Server \in disordered \/ ExactStore(f.data.sets, f.data.known)))
    /\ \A c \in Client : c \in disordered \cup overwritten \/ ExactAt(c)

\* Who takes what an Add has added knew the Add.
LEMMA TakerKnew ==
    ASSUME HInv, EntriesInv, NEW a \in net, NEW r \in net, NEW k, IsAdd(a, k), IsRemove(r, k),
           a.op.token \in r.op.tokens
    PROVE  a \in past[r]
<1>1. PICK t : t = a.op.token
  OBVIOUS
<1>2. PICK b \in past[r] : b \in net /\ IsAdd(b, k) /\ b.op.token = t
  BY <1>1 DEF EntriesInv, SetMade, IsRemove
<1>3. t = <<a.node, a.timestamp>> /\ t = <<b.node, b.timestamp>>
  BY <1>1, <1>2 DEF EntriesInv, SetOpOK, IsAdd
<1>4. a.node = b.node /\ a.timestamp = b.timestamp
  BY <1>3
<1>5. a = b
  BY <1>2, <1>4 DEF HInv, UniqueStamps
<1> QED BY <1>2, <1>5

\* What nobody knew nobody takes.
LEMMA NobodyTakes ==
    ASSUME HInv, EntriesInv, NEW E, E \subseteq net, Closed(E), NEW a \in net, a \notin E,
           NEW k, IsAdd(a, k), NEW r \in E, IsRemove(r, k)
    PROVE  a.op.token \notin r.op.tokens
<1> SUFFICES ASSUME a.op.token \in r.op.tokens PROVE FALSE
  OBVIOUS
<1>1. a \in past[r]
  BY TakerKnew
<1> QED BY <1>1 DEF Closed

\* A set applies an envelope: an Add that only Removes to be replayed take, or
\* a Remove, which then need not be replayed.
LEMMA ExactApply ==
    ASSUME NEW S, NEW E, NEW k, NEW R, NEW Q, NEW e, Exact(S, E, k, R),
           e.kind = "Set" => e.op.type \in {"Add", "Remove"},
           IsAdd(e, k) => \A r \in E : (IsRemove(r, k) /\ e.op.token \in r.op.tokens) => r \in Q,
           R \subseteq Q \cup {e},
           NEW T, T = IF e.kind = "Set" /\ e.key = k THEN SetApply(S, e.op) ELSE S
    PROVE  Exact(T, E \cup {e}, k, Q)
<1>1. \/ ~IsAdd(e, k) /\ ~IsRemove(e, k) /\ T = S
      \/ IsAdd(e, k) /\ ~IsRemove(e, k) /\ T = S \cup {EntryOf(e)}
      \/ IsRemove(e, k) /\ ~IsAdd(e, k) /\ T = {p \in S : p[2] \notin e.op.tokens}
  BY DEF IsAdd, IsRemove, SetApply, EntryOf
<1>2. ASSUME NEW a \in E \cup {e}, IsAdd(a, k),
             \A r \in E \cup {e} : IsRemove(r, k) => a.op.token \notin r.op.tokens
      PROVE  EntryOf(a) \in T
  <2>1. CASE a \in E
    <3>1. EntryOf(a) \in S
      BY <1>2, <2>1 DEF Exact
    <3>2. EntryOf(a)[2] = a.op.token
      BY DEF EntryOf
    <3> QED BY <1>1, <1>2, <3>1, <3>2
  <2>2. CASE a = e
    BY <1>1, <1>2, <2>2
  <2> QED BY <2>1, <2>2
<1>3. ASSUME NEW p \in T, NEW r \in E \cup {e}, IsRemove(r, k), p[2] \in r.op.tokens
      PROVE  r \in Q
  <2>1. IsRemove(e, k) => r # e /\ p \in S
    BY <1>1, <1>3
  <2>2. r # e /\ r \in E
    BY <1>1, <1>3, <2>1
  <2>3. CASE p \in S
    <3>1. r \in R
      BY <1>3, <2>2, <2>3 DEF Exact
    <3> QED BY <2>2, <3>1
  <2>4. CASE p \notin S
    <3>1. IsAdd(e, k) /\ p = EntryOf(e)
      BY <1>1, <2>4
    <3>2. p[2] = e.op.token
      BY <3>1 DEF EntryOf
    <3> QED BY <1>3, <2>2, <3>1, <3>2
  <2> QED BY <2>3, <2>4
<1> QED BY <1>2, <1>3 DEF Exact

\* Two sets merge, and neither side has made a Remove that takes of the other's.
LEMMA ExactMerge ==
    ASSUME NEW S, NEW E, NEW T, NEW F, NEW k, Exact(S, E, k, {}), Exact(T, F, k, {}),
           \A r \in E : IsRemove(r, k) => r \in F,
           \A r \in F \ E : IsRemove(r, k) => \A p \in S : p[2] \notin r.op.tokens
    PROVE  Exact(S \cup T, E \cup F, k, {})
<1>1. ASSUME NEW a \in E \cup F, IsAdd(a, k),
             \A r \in E \cup F : IsRemove(r, k) => a.op.token \notin r.op.tokens
      PROVE  EntryOf(a) \in S \cup T
  BY <1>1 DEF Exact
<1>2. ASSUME NEW p \in S \cup T, NEW r \in E \cup F, IsRemove(r, k), p[2] \in r.op.tokens
      PROVE  FALSE
  <2>1. r \in F
    BY <1>2
  <2>2. CASE p \in T
    BY <1>2, <2>1, <2>2 DEF Exact
  <2>3. CASE p \in S
    BY <1>2, <2>1, <2>3 DEF Exact
  <2> QED BY <2>2, <2>3
<1> QED BY <1>1, <1>2 DEF Exact

\* Logs and what is left of them.
LEMMA ReplayNone ==
    /\ ReplayOf(<<>>) = <<>> /\ ToSet(<<>>) = {}
    /\ \A p, E : Undone(p, <<>>, E)
    /\ \A f : ~f.begun => ReplayOf(<<f>>) = <<>>
BY NoFrames DEF ReplayOf, Undone

LEMMA ReplayMore ==
    ASSUME NEW S, NEW fs \in Seq(S), NEW e
    PROVE  ReplayOf(Append(fs, UpdateOf(e))) = ReplayOf(fs)
<1>1. PICK f : f = UpdateOf(e)
  OBVIOUS
<1>2. PICK gs : gs = Append(fs, f)
  OBVIOUS
<1>3. f.type = "UPDATE" /\ gs # <<>> /\ gs[1] = IF fs = <<>> THEN f ELSE fs[1]
  BY <1>1, <1>2 DEF UpdateOf
<1>4. ReplayOf(gs) = ReplayOf(fs)
  BY <1>3 DEF ReplayOf
<1> QED BY <1>1, <1>2, <1>4

\* A replica that nothing happens to.
LEMMA ExactKept ==
    ASSUME SInv, NEW c \in Client, ExactAt(c), \A e \in net : past'[e] = past[e],
           sets'[c] = sets[c], known'[c] = known[c],
           ReplayOf(downlink'[c]) = ReplayOf(downlink[c])
    PROVE  ExactAt(c)'
<1>1. PICK s, E : s = ReplayOf(downlink[c]) /\ E = known[c]
  OBVIOUS
<1>2. E \subseteq net
  BY <1>1, ClientAssumption DEF SInv, HInv
<1>3. Undone(past', s, E)
  BY <1>1, <1>2 DEF ExactAt, Undone
<1> QED BY <1>1, <1>3 DEF ExactAt

\* A call's envelope enters the sets of its own replica.
LEMMA EntersSets ==
    ASSUME SInv, HInv', EntriesInv, NEW n \in Node, NEW e, Made(n, e), Enters(n, e)
    PROVE  /\ e \notin net /\ \A x \in net : past'[x] = past[x]
           /\ e.kind = "Set" => e.op.type \in {"Add", "Remove"}
           /\ \A m \in Node : known'[m] = IF m = n THEN known[m] \cup {e} ELSE known[m]
           /\ \A m \in Node, k \in SetKey :
                 sets'[m][k] = IF m = n /\ e.kind = "Set" /\ e.key = k THEN SetApply(sets[m][k], e.op)
                                                                       ELSE sets[m][k]
           /\ \A m \in Node : m # n => sets'[m] = sets[m]
           /\ \A k : \A r \in known[n] : (IsAdd(e, k) /\ IsRemove(r, k)) => e.op.token \notin r.op.tokens
<1>1. /\ e \notin net /\ e.node = n /\ net' = net \cup {e}
      /\ known' = [known EXCEPT ![n] = known[n] \cup {e}]
      /\ \A x \in net : past'[x] = past[x]
  <2>1. e \in net' /\ \A x \in net : x \in net' /\ x # e
    BY DEF Made
  <2> QED BY <2>1 DEF Made
<1>2. /\ known \in [Node -> SUBSET net] /\ known[n] \subseteq net
      /\ e.timestamp \in 1..MaxClock
  BY <1>1 DEF SInv, HInv
<1>3. SetOpOK(e)
  BY <1>1 DEF Enters, SetOpOK
<1>4. sets' = IF e.kind # "Set" THEN sets ELSE [sets EXCEPT ![n][e.key] = SetApply(@, e.op)]
  BY DEF Enters
<1>5. \A m \in Node, k \in SetKey :
         sets'[m][k] = IF m = n /\ e.kind = "Set" /\ e.key = k THEN SetApply(sets[m][k], e.op)
                                                               ELSE sets[m][k]
  <2>1. \A m \in Node, k \in SetKey :
          /\ sets'[m][k] = IF m = n /\ e.kind = "Set" /\ e.key = k THEN SetApply(sets[m][k], e.op)
                                                                   ELSE sets[m][k]
          /\ Sourced(sets'[m][k], known'[m], k)
    <3>1. /\ known' = [known EXCEPT ![n] = known[n] \cup {e}] /\ known \in [Node -> SUBSET net]
          /\ e.node \in Node /\ e.timestamp \in 1..MaxClock
      BY <1>1, <1>2
    <3> QED BY <1>3, <1>4, <3>1, EntriesApply
  <2> QED BY <2>1
<1>6. \A m \in Node : m # n => sets'[m] = sets[m]
  BY <1>4 DEF EntriesInv
<1>7. \A m \in Node : known'[m] = IF m = n THEN known[m] \cup {e} ELSE known[m]
  BY <1>1, <1>2
<1>8. ASSUME NEW k, NEW r \in known[n], IsAdd(e, k), IsRemove(r, k), e.op.token \in r.op.tokens
      PROVE  FALSE
  <2>1. PICK t : t = e.op.token
    OBVIOUS
  <2>2. r \in net
    BY <1>2
  <2>3. PICK b \in past[r] : b \in net /\ IsAdd(b, k) /\ b.op.token = t
    BY <1>8, <2>1, <2>2 DEF EntriesInv, SetMade, IsRemove
  <2>4. t = <<e.node, e.timestamp>> /\ t = <<b.node, b.timestamp>>
    BY <1>3, <1>8, <2>1, <2>3 DEF EntriesInv, SetOpOK, IsAdd
  <2>5. e.node = b.node /\ e.timestamp = b.timestamp
    BY <2>4
  <2>6. e = b
    BY <1>1, <2>3, <2>5 DEF HInv, UniqueStamps
  <2> QED BY <1>1, <2>3, <2>6
<1> QED BY <1>1, <1>5, <1>6, <1>7, <1>8 DEF Enters

LEMMA ExactCall ==
    ASSUME SInv, HInv', SeqInv, EntriesInv, ExactInv, NEW c \in Client, Call(c)
    PROVE  /\ sets'[Server] = sets[Server] /\ known'[Server] = known[Server]
           /\ \A d \in Client : d \in disordered' \cup overwritten' \/ ExactAt(d)'
<1>1. UNCHANGED <<downlink, disordered, overwritten>> /\ ~Replaying(c)
  BY DEF Call, wires, ghosts
<1>2. c \in Node /\ c # Server /\ Server \in Node /\ HInv
  BY ClientAssumption, RelayAssumption DEF SInv
<1>3. NewProxy(c) \/ LocalOperation(c)
  BY CallIsLocal DEF Call
<1>4. CASE UNCHANGED <<net, known, past, sets>>
  BY <1>1, <1>4, ExactKept DEF ExactInv
<1>5. ASSUME NEW e, Made(c, e), Enters(c, e)
      PROVE  /\ sets'[Server] = sets[Server] /\ known'[Server] = known[Server]
             /\ \A d \in Client : d \in disordered' \cup overwritten' \/ ExactAt(d)'
  <2>1. /\ e \notin net /\ \A x \in net : past'[x] = past[x]
        /\ e.kind = "Set" => e.op.type \in {"Add", "Remove"}
        /\ \A m \in Node : known'[m] = IF m = c THEN known[m] \cup {e} ELSE known[m]
        /\ \A k \in SetKey :
              sets'[c][k] = IF e.kind = "Set" /\ e.key = k THEN SetApply(sets[c][k], e.op) ELSE sets[c][k]
        /\ \A m \in Node : m # c => sets'[m] = sets[m]
        /\ \A k : \A r \in known[c] : (IsAdd(e, k) /\ IsRemove(r, k)) => e.op.token \notin r.op.tokens
    BY <1>2, <1>5, EntersSets
  <2>2. ASSUME ExactAt(c) PROVE ExactAt(c)'
    <3>1. ReplayOf(downlink[c]) = <<>> /\ ToSet(<<>>) = {} /\ \A p, E : Undone(p, <<>>, E)
      BY <1>1, ReplayNone DEF ReplayOf, Replaying
    <3>2. ASSUME NEW k \in SetKey PROVE Exact(sets'[c][k], known'[c], k, {})
      <4>1. PICK S, E, T : S = sets[c][k] /\ E = known[c] /\ T = sets'[c][k]
        OBVIOUS
      <4>2. Exact(S, E, k, {})
        BY <2>2, <3>1, <4>1 DEF ExactAt
      <4>3. T = IF e.kind = "Set" /\ e.key = k THEN SetApply(S, e.op) ELSE S
        BY <2>1, <4>1
      <4>4. IsAdd(e, k) => \A r \in E : (IsRemove(r, k) /\ e.op.token \in r.op.tokens) => r \in {}
        BY <2>1, <4>1
      <4>5. e.kind = "Set" => e.op.type \in {"Add", "Remove"}
        BY <2>1
      <4>6. Exact(T, E \cup {e}, k, {})
        BY <4>2, <4>3, <4>4, <4>5, ExactApply
      <4> QED BY <1>2, <2>1, <4>1, <4>6
    <3> QED BY <1>1, <3>1, <3>2 DEF ExactAt
  <2>3. ASSUME NEW d \in Client, ExactAt(d), d # c PROVE ExactAt(d)'
    <3>1. d \in Node
      BY ClientAssumption
    <3> QED BY <1>1, <2>1, <2>3, <3>1, ExactKept
  <2> QED BY <1>1, <1>2, <2>1, <2>2, <2>3 DEF ExactInv
<1> QED BY <1>2, <1>3, <1>4, <1>5, LocalEnters DEF NewProxy, vars

\* A replica applies an envelope that it has not, in causal order.
LEMMA ExactFresh ==
    ASSUME SInv, EntriesInv, NEW n \in Node, NEW e \in net, Apply(n, e), e \notin known[n],
           n \notin disordered', NEW k \in SetKey, Exact(sets[n][k], known[n], k, {})
    PROVE  Exact(sets'[n][k], known'[n], k, {})
<1>1. /\ known' = [known EXCEPT ![n] = known[n] \cup {e}]
      /\ disordered' = disordered \cup (IF past[e] \subseteq known[n] THEN {} ELSE {n})
      /\ sets' = IF e.kind # "Set" THEN sets ELSE [sets EXCEPT ![n][e.key] = SetApply(@, e.op)]
  BY DEF Apply, ApplyEnvelope
<1>2. /\ known \in [Node -> SUBSET net] /\ SetOpOK(e) /\ e.node \in Node /\ e.timestamp \in 1..MaxClock
      /\ e.kind = "Set" => e.op.type \in {"Add", "Remove"}
  BY DEF SInv, HInv, EntriesInv, SetMade
<1>3. PICK S, E, T : S = sets[n][k] /\ E = known[n] /\ T = sets'[n][k]
  OBVIOUS
<1>4. T = IF e.kind = "Set" /\ e.key = k THEN SetApply(S, e.op) ELSE S
  <2>1. \A m \in Node, j \in SetKey :
          /\ sets'[m][j] = IF m = n /\ e.kind = "Set" /\ e.key = j THEN SetApply(sets[m][j], e.op)
                                                                   ELSE sets[m][j]
          /\ Sourced(sets'[m][j], known'[m], j)
    BY <1>1, <1>2, EntriesApply
  <2> QED BY <1>3, <2>1
<1>5. E \subseteq net /\ Closed(E) /\ e \notin E /\ known'[n] = E \cup {e} /\ HInv
  BY <1>1, <1>2, <1>3 DEF EntriesInv, SInv
<1>6. IsAdd(e, k) => \A r \in E : (IsRemove(r, k) /\ e.op.token \in r.op.tokens) => r \in {}
  BY <1>5, NobodyTakes
<1>7. Exact(S, E, k, {})
  BY <1>3
<1>8. Exact(T, E \cup {e}, k, {})
  BY <1>2, <1>4, <1>6, <1>7, ExactApply
<1> QED BY <1>3, <1>5, <1>8

LEMMA UndoneTail ==
    ASSUME NEW S, NEW s \in Seq(S), s # <<>>, NEW p, NEW E, Undone(p, s, E), Forward(p, s)
    PROVE  /\ Undone(p, Tail(s), E \cup {Head(s)})
           /\ \A r \in E : (r.kind = "Set" /\ r.op.type = "Remove" /\ Head(s) \in p[r])
                              => r \in ToSet(Tail(s))
<1>1. PICK t, h : t = Tail(s) /\ h = Head(s)
  OBVIOUS
<1>2. PICK n : n = Len(s)
  OBVIOUS
<1>3. /\ n \in Nat /\ n >= 1 /\ Len(t) = n - 1 /\ \A i \in 1..(n - 1) : t[i] = s[i + 1]
      /\ h = s[1] /\ t \in Seq(S)
  BY <1>1, <1>2
<1>4. ToSet(t) = {t[i] : i \in 1..(n - 1)}
  BY <1>3, Members
<1>5. ASSUME NEW r \in E, r.kind = "Set", r.op.type = "Remove", NEW i \in 1..n, s[i] \in p[r]
      PROVE  \E j \in 1..n : i < j /\ s[j] = r
  BY <1>2, <1>5 DEF Undone
<1>6. ASSUME NEW r \in E, r.kind = "Set", r.op.type = "Remove", h \in p[r]
      PROVE  r \in ToSet(t)
  <2>1. 1 \in 1..n /\ s[1] \in p[r]
    BY <1>3, <1>6
  <2>2. PICK j \in 1..n : 1 < j /\ s[j] = r
    BY <1>5, <1>6, <2>1
  <2>3. j - 1 \in 1..(n - 1) /\ (j - 1) + 1 = j
    BY <1>3, <2>2
  <2>4. t[j - 1] = r
    BY <1>3, <2>2, <2>3
  <2> QED BY <1>4, <2>3, <2>4
<1>7. ASSUME NEW i \in 1..(n - 1), NEW r \in E \cup {h}, r.kind = "Set", r.op.type = "Remove", t[i] \in p[r]
      PROVE  \E j \in 1..(n - 1) : i < j /\ t[j] = r
  <2>1. i + 1 \in 1..n /\ s[i + 1] \in p[r] /\ 1 \in 1..n
    BY <1>3, <1>7
  <2>2. r # h
    <3>1. r = h => i + 1 < 1
      BY <1>2, <1>3, <2>1 DEF Forward
    <3> QED BY <1>3, <3>1
  <2>3. PICK j \in 1..n : i + 1 < j /\ s[j] = r
    BY <1>5, <1>7, <2>1, <2>2
  <2>4. j - 1 \in 1..(n - 1) /\ (j - 1) + 1 = j /\ i < j - 1
    BY <1>3, <2>3
  <2>5. t[j - 1] = r
    BY <1>3, <2>3, <2>4
  <2> QED BY <2>4, <2>5
<1>8. Undone(p, t, E \cup {h})
  BY <1>3, <1>7 DEF Undone
<1> QED BY <1>1, <1>6, <1>8

\* Every Remove that is known is in the log that is about to be replayed.
LEMMA UndoneBegin ==
    ASSUME NEW S, NEW s \in Seq(S), NEW p, NEW E, Forward(p, s),
           \A r \in E : (r.kind = "Set" /\ r.op.type = "Remove") => r \in ToSet(s)
    PROVE  Undone(p, s, E)
<1>1. ASSUME NEW i \in 1..Len(s), NEW r \in E, r.kind = "Set", r.op.type = "Remove", s[i] \in p[r]
      PROVE  \E j \in 1..Len(s) : i < j /\ s[j] = r
  <2>1. r \in {s[j] : j \in 1..Len(s)}
    BY <1>1, Members
  <2>2. PICK j \in 1..Len(s) : s[j] = r
    BY <2>1
  <2>3. i < j
    BY <1>1, <2>2 DEF Forward
  <2> QED BY <2>2, <2>3
<1> QED BY <1>1 DEF Undone

LEMMA ExactReplayed ==
    ASSUME SInv, EntriesInv, SortedInv, ExactInv, NEW c \in Client, Receives(c), ReceiveLogged(c),
           c \notin disordered' \cup overwritten'
    PROVE  ExactAt(c)'
<1>1. downlink[c] # <<>> /\ c \in Node /\ HInv
  BY ClientAssumption DEF Receives, SInv
<1>2. PICK fs, f, s, h, E : fs = downlink[c] /\ f = fs[1] /\ s = f.data /\ h = Head(s) /\ E = known[c]
  OBVIOUS
<1>3. /\ relay = "ts" /\ f.type = "SNAPSHOT" /\ s \in Seq(net) /\ s # <<>> /\ h \in net
      /\ downlink' = [downlink EXCEPT ![c] = [downlink[c] EXCEPT ![1] = Rest(downlink[c][1])]]
  BY <1>1, <1>2, LoggedFrame
<1>4. /\ Apply(c, h) /\ c \notin disordered \cup overwritten
      /\ f.begun \/ Hydrating(c, ToSet(s))
  <2>1. Apply(c, h) /\ (IF f.begun THEN UNCHANGED overwritten ELSE Hydrating(c, ToSet(s)))
    BY <1>2 DEF ReceiveLogged
  <2>2. disordered \subseteq disordered'
    BY <2>1 DEF Apply
  <2>3. overwritten \subseteq overwritten'
    BY <2>1 DEF Hydrating
  <2> QED BY <2>1, <2>2, <2>3
<1>5. /\ known' = [known EXCEPT ![c] = known[c] \cup {h}] /\ UNCHANGED past
      /\ sets' = IF h.kind # "Set" THEN sets ELSE [sets EXCEPT ![c][h.key] = SetApply(@, h.op)]
  BY <1>4 DEF Apply, ApplyEnvelope
<1>6. known \in [Node -> SUBSET net] /\ E \subseteq net /\ known'[c] = E \cup {h}
  BY <1>1, <1>2, <1>5 DEF SInv, HInv
<1>7. fs \in Seq(ToSet(fs)) /\ fs # <<>> /\ f \in ToSet(fs)
  BY <1>1, <1>2, FirstIn DEF SInv, Wired
<1>8. ReplayOf(downlink'[c]) = Tail(s)
  <2>1. PICK g, gs : g = Rest(f) /\ gs = [fs EXCEPT ![1] = g]
    OBVIOUS
  <2>2. downlink'[c] = gs
    BY <1>2, <1>3, <2>1 DEF SInv, Wired, PerClient
  <2>3. g.type = "SNAPSHOT" /\ g.begun /\ g.data = Tail(s)
    BY <1>2, <2>1 DEF Rest
  <2>4. gs # <<>> /\ gs[1] = g
    BY <1>7, <2>1
  <2> QED BY <2>2, <2>3, <2>4 DEF ReplayOf
<1>9. Forward(past, s)
  BY <1>2, <1>3, <1>7 DEF SortedInv, LogsSorted
<1>10. ExactAt(c)
  BY <1>4 DEF ExactInv
<1>11. ReplayOf(fs) = IF f.begun THEN s ELSE <<>>
  BY <1>2, <1>3, <1>7 DEF ReplayOf
<1>12. Undone(past, s, E)
  <2>1. CASE f.begun
    BY <1>2, <1>10, <1>11, <2>1 DEF ExactAt
  <2>2. CASE ~f.begun
    <3>1. Hydrating(c, ToSet(s))
      BY <1>4, <2>2
    <3>2. \A r \in E : (r.kind = "Set" /\ r.op.type = "Remove") => r \in ToSet(s)
      BY <1>2, <3>1 DEF Hydrating
    <3> QED BY <1>3, <1>9, <3>2, UndoneBegin
  <2> QED BY <2>1, <2>2
<1>13. PICK t : t = Tail(s)
  OBVIOUS
<1>14. ToSet(s) = {h} \cup ToSet(t)
  <2>1. ToSet(s) = {s[1]} \cup ToSet(t) /\ s[1] = Head(s)
    BY <1>3, <1>13, FirstFrame
  <2> QED BY <1>2, <2>1
<1>15. /\ Undone(past, t, E \cup {h})
       /\ \A r \in E : (r.kind = "Set" /\ r.op.type = "Remove" /\ h \in past[r]) => r \in ToSet(t)
  BY <1>2, <1>3, <1>9, <1>12, <1>13, UndoneTail
<1>16. PICK R, Q : R = ToSet(ReplayOf(fs)) /\ Q = ToSet(t)
  OBVIOUS
<1>17. R \subseteq Q \cup {h}
  BY <1>11, <1>14, <1>16, NoFrames
<1>18. SetOpOK(h) /\ h.node \in Node /\ h.timestamp \in 1..MaxClock
       /\ (h.kind = "Set" => h.op.type \in {"Add", "Remove"})
  BY <1>3 DEF EntriesInv, SInv, HInv, SetMade
<1>19. ASSUME NEW k \in SetKey PROVE Exact(sets'[c][k], E \cup {h}, k, Q)
  <2>1. PICK S, T : S = sets[c][k] /\ T = sets'[c][k]
    OBVIOUS
  <2>2. T = IF h.kind = "Set" /\ h.key = k THEN SetApply(S, h.op) ELSE S
    <3>1. \A m \in Node, j \in SetKey :
            /\ sets'[m][j] = IF m = c /\ h.kind = "Set" /\ h.key = j THEN SetApply(sets[m][j], h.op)
                                                                     ELSE sets[m][j]
            /\ Sourced(sets'[m][j], known'[m], j)
      BY <1>1, <1>5, <1>6, <1>18, EntriesApply
    <3> QED BY <1>1, <2>1, <3>1
  <2>3. Exact(S, E, k, R)
    BY <1>2, <1>10, <1>16, <2>1 DEF ExactAt
  <2>4. IsAdd(h, k) => \A r \in E : (IsRemove(r, k) /\ h.op.token \in r.op.tokens) => r \in Q
    <3>1. ASSUME IsAdd(h, k), NEW r \in E, IsRemove(r, k), h.op.token \in r.op.tokens
          PROVE  r \in Q
      <4>1. h \in past[r]
        BY <1>1, <1>3, <1>6, <3>1, TakerKnew
      <4> QED BY <1>15, <1>16, <3>1, <4>1 DEF IsRemove
    <3> QED BY <3>1
  <2>5. Exact(T, E \cup {h}, k, Q)
    BY <1>17, <1>18, <2>2, <2>3, <2>4, ExactApply
  <2> QED BY <2>1, <2>5
<1> QED BY <1>5, <1>6, <1>8, <1>13, <1>15, <1>16, <1>19 DEF ExactAt

LEMMA ExactStored ==
    ASSUME SInv, EntriesInv, ExactInv, NEW c \in Client, Receives(c), ReceiveStore(c),
           c \notin disordered' \cup overwritten'
    PROVE  \A k \in SetKey : Exact(sets'[c][k], known'[c], k, {})
<1>1. downlink[c] # <<>> /\ c \in Node /\ downlink[c][1] \in ToSet(downlink[c])
  BY FirstIn, ClientAssumption DEF Receives, SInv
<1>2. PICK f, E, F : f = downlink[c][1] /\ E = known[c] /\ F = f.data.known
  OBVIOUS
<1>3. /\ f.type = "SNAPSHOT" /\ relay = "rust" /\ Merge(c, f.data) /\ Hydrating(c, F)
      /\ disordered' = disordered \cup (IF Server \in disordered THEN {c} ELSE {})
  BY <1>2 DEF ReceiveStore
<1>4. c \notin disordered \cup overwritten /\ Server \notin disordered
  <2>1. overwritten \subseteq overwritten'
    BY <1>3 DEF Hydrating
  <2> QED BY <1>3, <2>1
<1>5. EntriesFrame(f) /\ ~f.begun /\ ExactStore(f.data.sets, F)
  BY <1>1, <1>2, <1>3, <1>4 DEF EntriesInv, ExactInv
<1>6. ExactAt(c) /\ ReplayOf(downlink[c]) = <<>> /\ ToSet(<<>>) = {}
  BY <1>2, <1>4, <1>5, ReplayNone DEF ExactInv, ReplayOf
<1>7. /\ \A r \in E : (r.kind = "Set" /\ r.op.type = "Remove") => r \in F
      /\ \A r \in F \ E : (r.kind = "Set" /\ r.op.type = "Remove")
            => \A p \in sets[c][r.key] : p[2] \notin r.op.tokens
  BY <1>2, <1>3, <1>4 DEF Hydrating
<1>8. known'[c] = E \cup F
  BY <1>1, <1>2, <1>3 DEF Merge, SInv, HInv
<1>9. \A k \in SetKey : sets'[c][k] = sets[c][k] \cup f.data.sets[k]
  <2>1. \A m \in Node, k \in SetKey :
          /\ sets'[m][k] = IF m = c THEN sets[m][k] \cup f.data.sets[k] ELSE sets[m][k]
          /\ Sourced(sets'[m][k], known'[m], k)
    BY <1>1, <1>3, <1>5, EntriesMerge
  <2> QED BY <1>1, <2>1
<1>10. ASSUME NEW k \in SetKey PROVE Exact(sets'[c][k], known'[c], k, {})
  <2>1. PICK S, T : S = sets[c][k] /\ T = f.data.sets[k]
    OBVIOUS
  <2>2. Exact(S, E, k, {}) /\ Exact(T, F, k, {})
    BY <1>2, <1>5, <1>6, <2>1 DEF ExactAt, ExactStore
  <2>3. /\ \A r \in E : IsRemove(r, k) => r \in F
        /\ \A r \in F \ E : IsRemove(r, k) => \A p \in S : p[2] \notin r.op.tokens
    BY <1>7, <2>1 DEF IsRemove
  <2>4. Exact(S \cup T, E \cup F, k, {})
    BY <2>2, <2>3, ExactMerge
  <2> QED BY <1>8, <1>9, <2>1, <2>4
<1> QED BY <1>10

LEMMA ExactReceives ==
    ASSUME SInv, EntriesInv, FreshInv, SortedInv, ExactInv, NEW c \in Client, Receives(c)
    PROVE  /\ sets'[Server] = sets[Server] /\ known'[Server] = known[Server]
           /\ \A d \in Client : d \in disordered' \cup overwritten' \/ ExactAt(d)'
<1>1. /\ downlink[c] # <<>> /\ c \in Node /\ c # Server /\ Server \in Node
      /\ known \in [Node -> SUBSET net] /\ sets \in [Node -> EntriesType] /\ PerClient(downlink)
  BY ClientAssumption, RelayAssumption DEF Receives, SInv, HInv, EntriesInv, Wired
<1>2. PICK fs, f, K : fs = downlink[c] /\ f = fs[1] /\ K = known[c]
  OBVIOUS
<1>3. fs # <<>> /\ fs \in Seq(ToSet(fs)) /\ Fresh(K, fs) /\ FrameOK(f)
  <2>1. FrameOK(downlink[c][1])
    BY <1>1, FirstOK
  <2> QED BY <1>1, <1>2, <2>1 DEF SInv, Wired, FreshInv
<1>4. /\ UNCHANGED past
      /\ \A m \in Node : m # c => sets'[m] = sets[m] /\ known'[m] = known[m]
      /\ \A d \in Client : d # c => downlink'[d] = downlink[d]
      /\ disordered \subseteq disordered' /\ overwritten \subseteq overwritten'
  <2>1. CASE ReceiveUpdate(c)
    <3>1. /\ UNCHANGED <<past, overwritten>> /\ disordered \subseteq disordered' /\ downlink' = Received(c)
          /\ known' = [known EXCEPT ![c] = known[c] \cup {f.data}]
          /\ sets' = IF f.data.kind # "Set" THEN sets
                     ELSE [sets EXCEPT ![c][f.data.key] = SetApply(@, f.data.op)]
      BY <1>2, <2>1 DEF ReceiveUpdate, Apply, ApplyEnvelope
    <3>2. \A d \in Client : d # c => downlink'[d] = downlink[d]
      BY <1>1, <3>1 DEF Received, PerClient
    <3> QED BY <1>1, <3>1, <3>2
  <2>2. CASE ReceiveLogged(c)
    <3>1. PICK h : h = Head(f.data)
      OBVIOUS
    <3>2. /\ UNCHANGED past /\ disordered \subseteq disordered'
          /\ known' = [known EXCEPT ![c] = known[c] \cup {h}]
          /\ sets' = IF h.kind # "Set" THEN sets ELSE [sets EXCEPT ![c][h.key] = SetApply(@, h.op)]
      BY <1>2, <2>2, <3>1 DEF ReceiveLogged, Apply, ApplyEnvelope
    <3>3. overwritten \subseteq overwritten'
      BY <2>2 DEF ReceiveLogged, Hydrating
    <3>4. downlink' = [downlink EXCEPT ![c] = [downlink[c] EXCEPT ![1] = Rest(downlink[c][1])]]
      BY <1>1, <2>2, LoggedFrame
    <3>5. \A d \in Client : d # c => downlink'[d] = downlink[d]
      BY <1>1, <3>4 DEF PerClient
    <3> QED BY <1>1, <3>2, <3>3, <3>5
  <2>3. CASE ReceiveLogEnd(c)
    <3>1. UNCHANGED <<vars, disordered, overwritten>> /\ downlink' = Received(c)
      BY <2>3 DEF ReceiveLogEnd
    <3>2. \A d \in Client : d # c => downlink'[d] = downlink[d]
      BY <1>1, <3>1 DEF Received, PerClient
    <3> QED BY <3>1, <3>2 DEF vars
  <2>4. CASE ReceiveStore(c)
    <3>1. PICK other : other = f.data
      OBVIOUS
    <3>2. /\ UNCHANGED past /\ disordered \subseteq disordered' /\ downlink' = Received(c)
          /\ known' = [known EXCEPT ![c] = known[c] \cup other.known]
          /\ sets' = [sets EXCEPT ![c] = [k \in SetKey |-> sets[c][k] \cup other.sets[k]]]
      BY <1>2, <2>4, <3>1 DEF ReceiveStore, Merge, SetMerge
    <3>3. overwritten \subseteq overwritten'
      BY <2>4 DEF ReceiveStore, Hydrating
    <3>4. \A d \in Client : d # c => downlink'[d] = downlink[d]
      BY <1>1, <3>2 DEF Received, PerClient
    <3> QED BY <1>1, <3>2, <3>3, <3>4
  <2> QED BY <2>1, <2>2, <2>3, <2>4 DEF Receives
<1>5. ASSUME NEW d \in Client, d # c PROVE d \in disordered' \cup overwritten' \/ ExactAt(d)'
  <2>1. d \in Node
    BY ClientAssumption
  <2> QED BY <1>4, <1>5, <2>1, ExactKept DEF ExactInv
<1>6. ASSUME downlink' = Received(c), c \notin disordered' \cup overwritten',
             \A k \in SetKey : Exact(sets'[c][k], known'[c], k, {})
      PROVE  ExactAt(c)'
  <2>1. PICK gs : gs = Tail(fs)
    OBVIOUS
  <2>2. gs # <<>> => gs[1].type = "UPDATE"
    BY <1>3, <2>1, ToldFirst
  <2>3. downlink'[c] = gs
    BY <1>1, <1>2, <1>6, <2>1 DEF Received, PerClient
  <2>4. ReplayOf(downlink'[c]) = <<>> /\ ToSet(<<>>) = {} /\ \A p, E : Undone(p, <<>>, E)
    BY <2>2, <2>3, ReplayNone DEF ReplayOf
  <2> QED BY <1>6, <2>4 DEF ExactAt
<1>7. ASSUME c \notin disordered' \cup overwritten' PROVE ExactAt(c)'
  <2>1. ExactAt(c) /\ c \notin disordered'
    BY <1>4, <1>7 DEF ExactInv
  <2>2. CASE ReceiveUpdate(c)
    <3>1. PICK e : e = f.data
      OBVIOUS
    <3>2. /\ f.type = "UPDATE" /\ Apply(c, e) /\ downlink' = Received(c) /\ e \in net
      BY <1>2, <1>3, <2>2, <3>1 DEF ReceiveUpdate, FrameOK
    <3>3. e \notin known[c]
      BY <1>2, <1>3, <3>1, <3>2, ToldFirst
    <3>4. ReplayOf(downlink[c]) = <<>> /\ ToSet(<<>>) = {}
      BY <1>2, <3>2, NoFrames DEF ReplayOf
    <3>5. \A k \in SetKey : Exact(sets[c][k], known[c], k, {})
      BY <2>1, <3>4 DEF ExactAt
    <3>6. \A k \in SetKey : Exact(sets'[c][k], known'[c], k, {})
      BY <1>1, <2>1, <3>2, <3>3, <3>5, ExactFresh
    <3> QED BY <1>6, <1>7, <3>2, <3>6
  <2>3. CASE ReceiveLogged(c)
    BY <1>7, <2>3, ExactReplayed
  <2>4. CASE ReceiveLogEnd(c)
    <3>1. UNCHANGED <<sets, known>> /\ downlink' = Received(c) /\ f.data = <<>>
      BY <1>2, <2>4 DEF ReceiveLogEnd, vars
    <3>2. ReplayOf(downlink[c]) = <<>> /\ ToSet(<<>>) = {}
      BY <1>2, <3>1, NoFrames DEF ReplayOf
    <3>3. \A k \in SetKey : Exact(sets'[c][k], known'[c], k, {})
      BY <2>1, <3>1, <3>2 DEF ExactAt
    <3> QED BY <1>6, <1>7, <3>1, <3>3
  <2>5. CASE ReceiveStore(c)
    <3>1. downlink' = Received(c)
      BY <2>5 DEF ReceiveStore
    <3> QED BY <1>6, <1>7, <2>5, <3>1, ExactStored
  <2> QED BY <2>2, <2>3, <2>4, <2>5 DEF Receives
<1> QED BY <1>1, <1>4, <1>5, <1>7

LEMMA ExactRelay ==
    ASSUME SInv, EntriesInv, ExactInv, NEW c \in Client, RelayReceive(c), relay = "rust"
    PROVE  /\ Server \in disordered' \/ ExactStore(sets'[Server], known'[Server])
           /\ disordered \subseteq disordered'
           /\ \A d \in Client : d \in disordered' \cup overwritten' \/ ExactAt(d)'
<1>1. PICK e : e = Head(uplink[c])
  OBVIOUS
<1>2. e \in net /\ Apply(Server, e) /\ UNCHANGED <<downlink, overwritten>> /\ Server \in Node
  BY <1>1, LineMoves, RelayAssumption DEF RelayReceive, RelayApplies
<1>3. e \notin known[Server]
  <2>1. PICK s, t : s = <<e>> /\ t = Line(c)'
    OBVIOUS
  <2>2. s \in Seq(net) /\ t \in Seq(net) /\ ToSet(s) = {e} /\ Line(c) = Join(s, t)
    BY <1>1, <1>2, <2>1, OneMember, LineMoves
  <2>3. ToSet(Join(s, t)) = ToSet(s) \cup ToSet(t)
    BY <2>2, Joined
  <2> QED BY <2>2, <2>3 DEF SInv, Accounted, AtRelay
<1>4. /\ known' = [known EXCEPT ![Server] = known[Server] \cup {e}] /\ UNCHANGED past
      /\ disordered \subseteq disordered'
      /\ sets' = IF e.kind # "Set" THEN sets ELSE [sets EXCEPT ![Server][e.key] = SetApply(@, e.op)]
  BY <1>2 DEF Apply, ApplyEnvelope
<1>5. \A m \in Node : m # Server => sets'[m] = sets[m] /\ known'[m] = known[m]
  BY <1>4 DEF EntriesInv, SInv, HInv
<1>6. ASSUME Server \notin disordered' PROVE ExactStore(sets'[Server], known'[Server])
  BY <1>2, <1>3, <1>4, <1>6, ExactFresh DEF ExactInv, ExactStore
<1>7. ASSUME NEW d \in Client PROVE d \in disordered' \cup overwritten' \/ ExactAt(d)'
  <2>1. d \in Node /\ d # Server
    BY ClientAssumption, RelayAssumption
  <2> QED BY <1>2, <1>4, <1>5, <2>1, ExactKept DEF ExactInv
<1> QED BY <1>4, <1>6, <1>7

LEMMA ExactInit == SyncInit => ExactInv
<1> SUFFICES ASSUME SyncInit PROVE ExactInv
  OBVIOUS
<1>1. \A n \in Node : known[n] = {} /\ \A k \in SetKey : sets[n][k] = {}
  BY DEF SyncInit, Init, EmptySet
<1>2. \A c \in Client : c \in Node /\ downlink[c] = <<>>
  BY ClientAssumption DEF SyncInit
<1>3. \A k, R : Exact({}, {}, k, R)
  BY DEF Exact
<1>4. \A n \in Node : ExactStore(sets[n], known[n])
  <2>1. ASSUME NEW n \in Node, NEW k \in SetKey PROVE Exact(sets[n][k], known[n], k, {})
    <3>1. sets[n][k] = {} /\ known[n] = {}
      BY <1>1
    <3> QED BY <1>3, <3>1
  <2> QED BY <2>1 DEF ExactStore
<1>5. ASSUME NEW c \in Client PROVE ExactAt(c) /\ \A f \in ToSet(downlink[c]) : FALSE
  <2>1. c \in Node /\ downlink[c] = <<>> /\ ReplayOf(<<>>) = <<>> /\ ToSet(<<>>) = {}
    BY <1>2, ReplayNone
  <2>2. ReplayOf(downlink[c]) = <<>> /\ ToSet(downlink[c]) = {} /\ ToSet(ReplayOf(downlink[c])) = {}
    BY <2>1
  <2>3. Undone(past, ReplayOf(downlink[c]), known[c])
    BY <2>2, ReplayNone
  <2>4. \A k \in SetKey : Exact(sets[c][k], known[c], k, {})
    BY <1>4, <2>1 DEF ExactStore
  <2> QED BY <2>2, <2>3, <2>4 DEF ExactAt
<1>6. relay = "rust" => Server \in Node
  BY RelayAssumption
<1> QED BY <1>4, <1>5, <1>6 DEF ExactInv

\* A step that changes no set, and no log that is being replayed.
LEMMA ExactStill ==
    ASSUME SInv, ExactInv, UNCHANGED <<sets, known, past, disordered, overwritten>>,
           \A d \in Client : ReplayOf(downlink'[d]) = ReplayOf(downlink[d])
    PROVE  \A d \in Client : d \in disordered' \cup overwritten' \/ ExactAt(d)'
BY ExactKept DEF ExactInv

LEMMA ExactConnect ==
    ASSUME SInv, ExactInv, NEW c \in Client, Connect(c) \/ Disconnect(c)
    PROVE  \A d \in Client : d \in disordered' \cup overwritten' \/ ExactAt(d)'
<1>1. UNCHANGED <<sets, known, past, disordered, overwritten>>
  BY DEF Connect, Disconnect, vars, ghosts
<1>2. PerClient(downlink) /\ (online[c] \/ downlink[c] = <<>>)
  BY DEF SInv, Wired
<1>3. \A d \in Client : d # c => downlink'[d] = downlink[d]
  BY <1>2 DEF Connect, Disconnect, PerClient
<1>4. ReplayOf(<<>>) = <<>>
  BY ReplayNone
<1>5. ReplayOf(downlink[c]) = <<>>
  BY <1>2, <1>4 DEF Connect, Disconnect, ReplayOf, Replaying
<1>6. ReplayOf(downlink'[c]) = <<>>
  <2>1. CASE Connect(c)
    <3>1. PICK f : f = Snapshot
      OBVIOUS
    <3>2. downlink'[c] = <<f>>
      BY <1>2, <2>1, <3>1 DEF Connect, PerClient
    <3>3. ~f.begun
      BY <3>1 DEF Snapshot
    <3>4. ReplayOf(<<f>>) = <<>>
      BY <3>3, ReplayNone
    <3> QED BY <3>2, <3>4
  <2>2. CASE Disconnect(c)
    <3>1. downlink'[c] = <<>>
      BY <1>2, <2>2 DEF Disconnect, PerClient
    <3> QED BY <1>4, <3>1
  <2> QED BY <2>1, <2>2
<1>7. ASSUME NEW d \in Client PROVE ReplayOf(downlink'[d]) = ReplayOf(downlink[d])
  BY <1>3, <1>5, <1>6
<1> QED BY <1>1, <1>7, ExactStill

LEMMA ExactSends ==
    ASSUME SInv, ExactInv, NEW c \in Client, RelaySend(c) \/ (RelayReceive(c) /\ relay = "ts")
    PROVE  \A d \in Client : d \in disordered' \cup overwritten' \/ ExactAt(d)'
<1>1. UNCHANGED <<sets, known, past, disordered, overwritten>>
  BY DEF RelaySend, RelayReceive, RelayLogs, vars, ghosts
<1>2. PerClient(downlink) /\ \A d \in Client : downlink[d] \in Seq(ToSet(downlink[d]))
  BY DEF SInv, Wired
<1>3. PICK e : \A d \in Client : downlink'[d] = downlink[d] \/ downlink'[d] = Append(downlink[d], UpdateOf(e))
  <2>1. CASE RelaySend(c)
    <3>1. PICK e : e = sending[c].env
      OBVIOUS
    <3>2. PICK x \in sending[c].peers : downlink' = [downlink EXCEPT ![x] = Append(downlink[x], UpdateOf(e))]
      BY <2>1, <3>1 DEF RelaySend
    <3>3. \A d \in Client : downlink'[d] = downlink[d] \/ downlink'[d] = Append(downlink[d], UpdateOf(e))
      BY <1>2, <3>2 DEF PerClient
    <3> QED BY <3>3
  <2>2. CASE RelayReceive(c) /\ relay = "ts"
    <3>1. PICK e : e = Head(uplink[c])
      OBVIOUS
    <3>2. downlink' = [d \in Client |->
            IF d \in Peers(c) THEN Append(downlink[d], UpdateOf(e)) ELSE downlink[d]]
      BY <2>2, <3>1 DEF RelayReceive, RelayLogs
    <3>3. \A d \in Client : downlink'[d] = downlink[d] \/ downlink'[d] = Append(downlink[d], UpdateOf(e))
      BY <3>2
    <3> QED BY <3>3
  <2> QED BY <2>1, <2>2
<1>4. ASSUME NEW d \in Client PROVE ReplayOf(downlink'[d]) = ReplayOf(downlink[d])
  <2>1. ReplayOf(Append(downlink[d], UpdateOf(e))) = ReplayOf(downlink[d])
    BY <1>2, ReplayMore
  <2> QED BY <1>3, <2>1
<1> QED BY <1>1, <1>4, ExactStill

LEMMA ExactNext ==
    ASSUME SInv, SInv', TInv, EntriesInv, FreshInv, SortedInv, ExactInv, [SyncNext]_allVars
    PROVE  ExactInv'
<1>1. SeqInv /\ HInv /\ HInv'
  BY DEF SInv, TInv
<1>2. /\ relay' = relay
      /\ \A c \in Client : \A f \in ToSet(downlink'[c]) :
            (relay = "rust" /\ f.type # "UPDATE") =>
                f \in ToSet(downlink[c]) \/ (f = Snapshot /\ UNCHANGED <<vars, disordered>>)
  BY StoresSent
<1> DEFINE Clients == \A d \in Client : d \in disordered' \cup overwritten' \/ ExactAt(d)'
           Relay   == /\ disordered \subseteq disordered'
                      /\ relay = "rust" => Server \in disordered' \/ ExactStore(sets'[Server], known'[Server])
<1>3. Relay
  <2>1. disordered \subseteq disordered'
    BY <1>1, StoreSteps DEF StoreStep, Apply
  <2>2. CASE sets'[Server] = sets[Server] /\ known'[Server] = known[Server]
    BY <2>1, <2>2 DEF ExactInv
  <2>3. ASSUME UNCHANGED vars PROVE Relay
    BY <2>2, <2>3 DEF vars
  <2>4. CASE UNCHANGED allVars
    BY <2>3, <2>4 DEF allVars
  <2>5. CASE SyncNext
    <3>1. PICK c \in Client : Call(c) \/ Connect(c) \/ Disconnect(c) \/ Works(c)
      BY <2>5 DEF SyncNext
    <3>2. CASE Call(c)
      BY <1>1, <2>2, <3>2, ExactCall
    <3>3. CASE Receives(c)
      BY <2>2, <3>3, ExactReceives
    <3>4. CASE RelayReceive(c)
      <4>1. CASE relay = "rust"
        BY <3>4, <4>1, ExactRelay
      <4>2. CASE relay # "rust"
        BY <2>1, <4>2
      <4> QED BY <4>1, <4>2
    <3>5. CASE Connect(c) \/ Disconnect(c) \/ Drains(c) \/ EndProxy(c) \/ Send(c) \/ RelaySend(c)
      BY <2>3, <3>5 DEF Connect, Disconnect, Drains, DrainPending, EndProxy, DropProxy, Send, RelaySend
    <3> QED BY <3>1, <3>2, <3>3, <3>4, <3>5 DEF Works
  <2> QED BY <2>4, <2>5
<1>4. Clients
  <2>1. ASSUME UNCHANGED <<vars, wires, disordered, overwritten>> PROVE Clients
    BY <2>1, ExactStill DEF vars, wires
  <2>2. CASE UNCHANGED allVars
    BY <2>1, <2>2 DEF allVars, ghosts
  <2>3. CASE SyncNext
    <3>1. PICK c \in Client : Call(c) \/ Connect(c) \/ Disconnect(c) \/ Works(c)
      BY <2>3 DEF SyncNext
    <3>2. CASE Call(c)
      BY <1>1, <3>2, ExactCall
    <3>3. CASE Receives(c)
      BY <3>3, ExactReceives
    <3>4. CASE RelayReceive(c)
      <4>1. CASE relay = "rust"
        BY <3>4, <4>1, ExactRelay
      <4>2. CASE relay = "ts"
        BY <3>4, <4>2, ExactSends
      <4> QED BY <4>1, <4>2 DEF SInv, Wired
    <3>5. CASE RelaySend(c)
      BY <3>5, ExactSends
    <3>6. CASE Connect(c) \/ Disconnect(c)
      BY <3>6, ExactConnect
    <3>7. CASE Drains(c) \/ EndProxy(c)
      BY <2>1, <3>7 DEF Drains, DrainPending, EndProxy, DropProxy, ghosts
    <3>8. CASE Send(c)
      <4>1. UNCHANGED <<sets, known, past, downlink, disordered, overwritten>>
        BY <3>8 DEF Send, vars, ghosts
      <4> QED BY <4>1, ExactStill
    <3> QED BY <3>1, <3>2, <3>3, <3>4, <3>5, <3>6, <3>7, <3>8 DEF Works
  <2> QED BY <2>2, <2>3
<1>5. ASSUME relay = "rust", NEW c \in Client, NEW f \in ToSet(downlink'[c]), f.type # "UPDATE"
      PROVE  ~f.begun /\ (Server \in disordered' \/ ExactStore(f.data.sets, f.data.known))
  <2>1. CASE f \in ToSet(downlink[c])
    BY <1>3, <1>5, <2>1 DEF ExactInv
  <2>2. CASE f = Snapshot
    <3>1. ~f.begun /\ f.data.sets = sets[Server] /\ Reflects(f) = f.data.known
      BY <1>5, <2>2 DEF Snapshot, StoreCopy, Reflects
    <3>2. Server \in disordered \/ Reflects(f) = known[Server]
      BY <1>5, <2>2, CopyTells
    <3> QED BY <1>3, <1>5, <3>1, <3>2 DEF ExactInv
  <2> QED BY <1>2, <1>5, <2>1, <2>2
<1>6. relay = "rust" => Server \in disordered' \/ ExactStore(sets[Server], known[Server])'
  BY <1>3
<1> HIDE DEF Relay, Clients
<1>7. ExactInv'
  BY <1>2, <1>4, <1>5, <1>6 DEF ExactInv, Clients
<1> QED BY <1>7

\* Sets that hold what was added and not removed are the same.
LEMMA SameExact ==
    ASSUME NEW E, NEW k, NEW S, Exact(S, E, k, {}), Sourced(S, E, k), NEW T, Exact(T, E, k, {})
    PROVE  S \subseteq T
<1> SUFFICES ASSUME NEW p \in S PROVE p \in T
  OBVIOUS
<1>1. PICK a \in E : IsAdd(a, k) /\ p = EntryOf(a)
  BY DEF Sourced
<1>2. p[2] = a.op.token
  BY <1>1 DEF EntryOf
<1>3. \A r \in E : IsRemove(r, k) => a.op.token \notin r.op.tokens
  BY <1>2 DEF Exact
<1> QED BY <1>1, <1>3 DEF Exact

LEMMA SameSets ==
    ASSUME EntriesInv, ExactInv, NEW c \in Client \ (disordered \cup overwritten),
           NEW d \in Client \ (disordered \cup overwritten), known[c] = known[d],
           ~Replaying(c), ~Replaying(d), NEW k \in SetKey
    PROVE  sets[c][k] = sets[d][k]
<1>1. c \in Node /\ d \in Node
  BY ClientAssumption
<1>2. ReplayOf(downlink[c]) = <<>> /\ ReplayOf(downlink[d]) = <<>> /\ ToSet(<<>>) = {}
  BY ReplayNone DEF ReplayOf, Replaying
<1>3. PICK S, T, E : S = sets[c][k] /\ T = sets[d][k] /\ E = known[c]
  OBVIOUS
<1>4. Exact(S, E, k, {}) /\ Exact(T, E, k, {})
  BY <1>2, <1>3 DEF ExactInv, ExactAt
<1>5. Sourced(S, E, k) /\ Sourced(T, E, k)
  BY <1>1, <1>3 DEF EntriesInv
<1>6. S \subseteq T /\ T \subseteq S
  BY <1>4, <1>5, SameExact
<1> QED BY <1>3, <1>6

-----------------------------------------------------------------------------
(* What programs read.                                                     *)

\* What a program reads, whichever its API.
ReadsOf(n) ==
    [registers |-> [k \in RegKey |-> GetRegister(n, k)],
     sets      |-> [k \in SetKey |-> {v \in Value : SetHas(n, k, v)}],
     sequences |-> [k \in SeqKey |-> SeqItems(n, k)]]

LEMMA ViewReads ==
    ASSUME EntriesInv, NEW c \in Client
    PROVE  View(c) = ReadsOf(c)
<1>1. CASE c \in Agent
  BY <1>1 DEF View, AgentView, ReadsOf, TypedGet, ProxyGet, ProxySetContains, ProxySeqItems
<1>2. CASE c \notin Agent
  <2>1. ASSUME NEW k \in SetKey PROVE WasmSetItems(c, k) = {v \in Value : SetHas(c, k, v)}
    <3>1. PICK S : S = sets[c][k]
      OBVIOUS
    <3>2. S \in SUBSET (Value \X Token)
      BY <3>1, ClientAssumption DEF EntriesInv, EntriesType
    <3>3. \A p \in S : p[1] \in Value
      BY <3>2
    <3>4. {p[1] : p \in S} = {v \in Value : \E p \in S : p[1] = v}
      BY <3>3
    <3> QED BY <3>1, <3>4 DEF WasmSetItems, SetItems, SetHas, SetContains
  <2> QED BY <1>2, <2>1 DEF View, BrowserView, ReadsOf, WasmGetRegister, WasmSeqItems
<1> QED BY <1>1, <1>2

LEMMA SameReads ==
    ASSUME SInv, TInv, ListsInv, RegistersInv, EntriesInv, ExactInv
    PROVE  SameWritesSameView
<1> SUFFICES ASSUME NEW c \in Client \ (disordered \cup overwritten),
                    NEW d \in Client \ (disordered \cup overwritten),
                    known[c] = known[d], ~Replaying(c), ~Replaying(d)
             PROVE  View(c) = View(d)
  BY DEF SameWritesSameView
<1>1. c \in Node \ disordered /\ d \in Node \ disordered
  BY ClientAssumption
<1>2. \A k \in RegKey : GetRegister(c, k) = GetRegister(d, k)
  BY <1>1, SameRegisters DEF RegistersInv
<1>3. \A k \in SeqKey : SeqItems(c, k) = SeqItems(d, k)
  BY <1>1, SameLists
<1>4. \A k \in SetKey : sets[c][k] = sets[d][k]
  BY SameSets
<1>5. \A k \in SetKey : {v \in Value : SetHas(c, k, v)} = {v \in Value : SetHas(d, k, v)}
  BY <1>4 DEF SetHas
<1>6. ReadsOf(c) = ReadsOf(d)
  BY <1>2, <1>3, <1>5 DEF ReadsOf
<1> QED BY <1>6, ViewReads

\* Who is hydrated and has nothing to come has what the relay has.
LEMMA CaughtUpNow == SInv /\ Stores => CaughtUp
<1> SUFFICES ASSUME SInv, Stores, relay = "ts" \/ lost = {}, NEW c \in Client,
                    hydrated[c], downlink[c] = <<>>,
                    \A d \in Client : c \notin sending[d].peers
             PROVE  AtRelay \subseteq known[c]
  BY DEF CaughtUp
<1>1. online[c]
  BY DEF SInv, Wired
<1>2. CASE relay = "ts"
  BY <1>1, <1>2, NoFrames DEF SInv, Logs, LogCovers, AtRelay
<1>3. CASE relay # "ts"
  <2>1. relay = "rust" /\ lost = {}
    BY <1>3 DEF SInv, Wired
  <2>2. known[Server] \subseteq known[c] \cup Reaching(downlink[c]) \cup SentTo(c)
    BY <1>1, <2>1 DEF Stores, StoreReaches
  <2>3. SentTo(c) = {}
    BY DEF SentTo
  <2> QED BY <1>3, <2>2, <2>3, ReachingNone DEF AtRelay
<1> QED BY <1>2, <1>3

\* When nothing is on its way and nothing was lost, every client has every write.
LEMMA QuietHasAll ==
    ASSUME SInv, Stores, Quiet, NEW c \in Client
    PROVE  known[c] = net
<1>1. lost = {} /\ \A d \in Client : /\ online[d] /\ hydrated[d] /\ downlink[d] = <<>>
                                      /\ queued[d] = <<>> /\ pending[d] = <<>> /\ uplink[d] = <<>>
                                      /\ sending[d] = NotSending
  BY DEF Quiet
<1>2. \A d \in Client : c \notin sending[d].peers
  BY <1>1 DEF NotSending
<1>3. AtRelay \subseteq known[c]
  BY <1>1, <1>2, CaughtUpNow DEF CaughtUp
<1>4. ASSUME NEW d \in Client PROVE ToSet(Line(d)) = {}
  <2>1. PICK s : s = <<>>
    OBVIOUS
  <2>2. s \in Seq({}) /\ ToSet(s) = {}
    BY <2>1, NoFrames
  <2>3. Join(s, s) = s
    BY <2>1, <2>2, JoinedNone
  <2>4. Line(d) = s
    BY <1>1, <2>1, <2>3 DEF Line
  <2> QED BY <2>2, <2>4
<1>5. ASSUME NEW e \in net PROVE e \in AtRelay
  <2>1. e.node \in Client /\ e \in ToSet(Line(e.node)) \cup AtRelay \cup lost
    BY DEF SInv, Wired, Accounted
  <2> QED BY <1>1, <1>4, <2>1
<1>6. known[c] \subseteq net
  BY ClientAssumption DEF SInv, HInv
<1> QED BY <1>3, <1>5, <1>6

\* The inductive invariant of all that a program reads.
ViewInv == /\ SInv /\ TInv /\ Stores /\ ListsInv /\ RegistersInv
           /\ EntriesInv /\ FreshInv /\ SortedInv /\ ExactInv

LEMMA ViewInit == SyncInit => ViewInv
BY SInit, UInit, ListsInit, RegistersInit, EntriesInit, FreshInit, SortedInit, ExactInit DEF ViewInv

LEMMA ViewNext == ViewInv /\ [SyncNext]_allVars => ViewInv'
<1> SUFFICES ASSUME ViewInv, [SyncNext]_allVars PROVE ViewInv'
  OBVIOUS
<1> USE DEF ViewInv
<1>1. SInv' /\ SeqInv
  BY SNext DEF TInv
<1>2. TInv' /\ Stores'
  BY <1>1, UNext
<1>3. ListsInv' /\ RegistersInv' /\ EntriesInv'
  BY <1>1, <1>2, ListsNext, RegistersNext, EntriesNext
<1>4. FreshInv' /\ SortedInv' /\ ExactInv'
  BY <1>1, FreshNext, SortedNext, ExactNext
<1> QED BY <1>1, <1>2, <1>3, <1>4

-----------------------------------------------------------------------------
(* Theorems.                                                               *)

LEMMA AccountedOnce == SInv => WritesAccounted
<1> SUFFICES ASSUME SInv, NEW e \in net
             PROVE  Cardinality({i \in 1..5 :
                        CASE i = 1 -> e \in ToSet(queued[e.node])
                          [] i = 2 -> e \in ToSet(pending[e.node])
                          [] i = 3 -> e \in ToSet(uplink[e.node])
                          [] i = 4 -> e \in AtRelay
                          [] i = 5 -> e \in lost}) = 1
  BY DEF WritesAccounted
<1> DEFINE c == e.node  u == uplink[c]  v == pending[c]  w == queued[c]
           Q == e \in ToSet(w)  P == e \in ToSet(v)  U == e \in ToSet(u)
           A == e \in AtRelay   L == e \in lost
           S == {i \in 1..5 : CASE i = 1 -> Q [] i = 2 -> P [] i = 3 -> U
                                [] i = 4 -> A [] i = 5 -> L}
<1>1. c \in Client
  BY DEF SInv, Wired
<1>2. u \in Seq(net) /\ v \in Seq(net) /\ w \in Seq(net) /\ Line(c) = Join(u, Join(v, w))
  BY <1>1 DEF SInv, Wired, Line
<1>3. /\ Once(Line(c)) /\ ToSet(Line(c)) \cap (AtRelay \cup lost) = {}
      /\ AtRelay \cap lost = {} /\ e \in ToSet(Line(c)) \cup AtRelay \cup lost
  BY <1>1 DEF SInv, Accounted
<1> HIDE DEF c, u, v, w
<1>4. /\ Join(v, w) \in Seq(net) /\ ToSet(Join(v, w)) = ToSet(v) \cup ToSet(w)
      /\ Once(Join(v, w)) <=> Once(v) /\ Once(w) /\ ToSet(v) \cap ToSet(w) = {}
  BY <1>2, Joined
<1> DEFINE r == Join(v, w)
<1> HIDE DEF r
<1>5. /\ ToSet(Line(c)) = ToSet(u) \cup ToSet(r)
      /\ Once(r) /\ ToSet(u) \cap ToSet(r) = {}
  <2>1. r \in Seq(net) /\ Line(c) = Join(u, r)
    BY <1>2, <1>4 DEF r
  <2> QED BY <1>2, <1>3, <2>1, Joined
<1>6. /\ Q \/ P \/ U \/ A \/ L
      /\ ~(Q /\ P) /\ ~(Q /\ U) /\ ~(P /\ U)
      /\ ~(A /\ L) /\ ((Q \/ P \/ U) => ~(A \/ L))
  BY <1>3, <1>4, <1>5 DEF r
<1> HIDE DEF Q, P, U, A, L
<1>7. (1 \in S <=> Q) /\ (2 \in S <=> P) /\ (3 \in S <=> U) /\ (4 \in S <=> A) /\ (5 \in S <=> L)
  OBVIOUS
<1>8. \A i \in S : i \in {1, 2, 3, 4, 5}
  OBVIOUS
<1> HIDE DEF S
<1>9. \E i \in 1..5 : S = {i}
  BY <1>6, <1>7, <1>8
<1>10. Cardinality(S) = 1
  BY <1>9, FS_Singleton
<1> QED BY <1>10 DEF S, Q, P, U, A, L, u, v, w, c

\* No write is lost unseen, kept twice or sent twice: through proxies, drops and
\* reconnections every write is in one place, for any number of clients.
THEOREM NoWriteUnaccounted == SyncSpec => []WritesAccounted
BY SInit, SNext, AccountedOnce, PTL DEF SyncSpec

\* One log and FIFO streams deliver in causal order to any number of clients.
THEOREM LogKeepsCausalOrder == SyncSpec => []CausalDelivery
<1>1. SInv => CausalDelivery
  BY DEF SInv, Logs, LogOrdered, CausalDelivery
<1> QED BY SInit, SNext, <1>1, PTL DEF SyncSpec

\* CaughtUp of the "ts" relay, whether or not writes were lost.
CaughtUpWithLog ==
    relay = "ts" => \A c \in Client :
        (hydrated[c] /\ downlink[c] = <<>>) => AtRelay \subseteq known[c]

\* No envelope falls between a log that is replayed and what is sent after it.
THEOREM NothingBetweenLogAndUpdates == SyncSpec => []CaughtUpWithLog
<1>1. SInv => CaughtUpWithLog
  <2> SUFFICES ASSUME SInv, relay = "ts", NEW c \in Client, hydrated[c], downlink[c] = <<>>
               PROVE  AtRelay \subseteq known[c]
    BY DEF CaughtUpWithLog
  <2>1. online[c]
    BY DEF SInv, Wired
  <2> QED BY <2>1, NoFrames DEF SInv, Logs, LogCovers, AtRelay
<1> QED BY SInit, SNext, <1>1, PTL DEF SyncSpec

\* Who is hydrated and has nothing to come has all that the relay has, of either
\* relay, for any number of clients: a store that lost no write buffers nothing,
\* so what it sends is all that it knows, and what it applies later is sent
\* after it.
THEOREM NothingBetweenSnapshotAndUpdates == SyncSpec => []CaughtUp
BY CaughtUpNow, SInit, SNext, UInit, UNext, PTL DEF SyncSpec

\* Programs that reflect the same writes read the same, in any number of agents
\* and browsers and over either relay: a register is the greatest write's, a
\* list is the one that the inserts' anchors determine less what was deleted,
\* and a set is what was added less what was removed.
THEOREM SameWritesReadTheSame == SyncSpec => []SameWritesSameView
<1>1. ViewInv => SameWritesSameView
  BY SameReads DEF ViewInv
<1> QED BY <1>1, ViewInit, ViewNext, PTL DEF SyncSpec

\* What README.md:38-41 promises, with the exceptions of SameWritesSameView:
\* QuietSameView, but for who got writes out of causal order or hydrated over a
\* removal that only one side had made.
QuietAgreement ==
    Quiet => \A c, d \in Client \ (disordered \cup overwritten) : View(c) = View(d)

\* When all is delivered, all that was written is everywhere, and programs agree.
THEOREM DeliveredProgramsAgree == SyncSpec => []QuietAgreement
<1>1. ViewInv => QuietAgreement
  <2> SUFFICES ASSUME ViewInv, Quiet, NEW c \in Client \ (disordered \cup overwritten),
                      NEW d \in Client \ (disordered \cup overwritten)
               PROVE  View(c) = View(d)
    BY DEF QuietAgreement
  <2>1. known[c] = known[d]
    BY QuietHasAll DEF ViewInv
  <2>2. ~Replaying(c) /\ ~Replaying(d)
    BY DEF Quiet, Replaying
  <2>3. SameWritesSameView
    BY SameReads DEF ViewInv
  <2> QED BY <2>1, <2>2, <2>3 DEF SameWritesSameView
<1> QED BY <1>1, ViewInit, ViewNext, PTL DEF SyncSpec
=============================================================================
