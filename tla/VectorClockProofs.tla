-------------------------- MODULE VectorClockProofs --------------------------
(***************************************************************************)
(* Proofs about vector clocks, for any nodes and any number of events:     *)
(* timestamps characterise causality.                                      *)
(***************************************************************************)
EXTENDS VectorClock, TLAPS

Stamps == {e.stamp : e \in events}

Vector == UNION {[D -> Nat] : D \in SUBSET Node}

Types ==
    /\ vector \in [Node -> Vector]
    /\ events \subseteq [stamp : Vector, past : SUBSET Vector]
    /\ seen \in [Node -> SUBSET Stamps]
    /\ \A e \in events : e.past \subseteq Stamps

\* No entry of v exceeds w's.
AtMost(v, w) == \A k \in Node : Get(v, k) <= Get(w, k)

\* Nobody knows of more events of n than n has had.
Owned ==
    \A n \in Node :
        /\ \A m \in Node : Get(vector[m], n) <= Get(vector[n], n)
        /\ \A e \in events : Get(e.stamp, n) <= Get(vector[n], n)

\* The past of a node or of an event has smaller timestamps.
PastIsLess ==
    /\ \A n \in Node : \A s \in seen[n] : AtMost(s, vector[n])
    /\ \A f \in events : \A s \in f.past : HappenedBefore(s, f.stamp)

\* e is an event of n: whose entry for n has reached e's has e in its past.
EventOf(e, n) ==
    /\ \A m \in Node : Get(vector[m], n) >= Get(e.stamp, n) <=> e.stamp \in seen[m]
    /\ \A f \in events :
            Get(f.stamp, n) >= Get(e.stamp, n) <=> (f = e \/ e.stamp \in f.past)

\* The inductive invariant.
VInv ==
    /\ Types
    /\ Owned
    /\ PastIsLess
    /\ \A e \in events : \E n \in Node : EventOf(e, n)

-----------------------------------------------------------------------------
(* The operators.                                                          *)

LEMMA Entry ==
    ASSUME NEW v \in Vector, NEW k
    PROVE  Get(v, k) \in Nat /\ (k \notin DOMAIN v => Get(v, k) = 0)
BY DEF Vector, Get

\* HappenedBefore is the strict component-wise order.
LEMMA LessOrder ==
    ASSUME NEW v \in Vector, NEW w \in Vector
    PROVE  HappenedBefore(v, w) <=>
              AtMost(v, w) /\ \E k \in Node : Get(v, k) < Get(w, k)
<1>1. /\ DOMAIN v \subseteq Node /\ DOMAIN w \subseteq Node
      /\ \A k \in DOMAIN v : v[k] = Get(v, k)
      /\ \A k \in DOMAIN w : w[k] = Get(w, k)
  BY DEF Vector, Get
<1>2. \A k : /\ Get(v, k) \in Nat /\ Get(w, k) \in Nat
             /\ k \notin DOMAIN v => Get(v, k) = 0
             /\ k \notin DOMAIN w => Get(w, k) = 0
  BY Entry
<1> QED BY ONLY <1>1, <1>2 DEF HappenedBefore, AtMost

\* IncrementOf counts one more event of n.
LEMMA Incremented ==
    ASSUME NEW v \in Vector, NEW n \in Node
    PROVE  /\ IncrementOf(v, n) \in Vector
           /\ Get(IncrementOf(v, n), n) = Get(v, n) + 1
           /\ \A k \in Node \ {n} : Get(IncrementOf(v, n), k) = Get(v, k)
<1> DEFINE D == DOMAIN v \cup {n}
           w == IncrementOf(v, n)
<1>1. D \in SUBSET Node
  BY DEF Vector
<1>2. w = [k \in D |-> Get(v, k) + (IF k = n THEN 1 ELSE 0)]
  BY DEF IncrementOf
<1>3. \A k \in D : Get(v, k) + (IF k = n THEN 1 ELSE 0) \in Nat
  BY Entry
<1>4. w \in [D -> Nat]
  BY <1>2, <1>3
<1>5. Get(w, n) = Get(v, n) + 1
  BY <1>2 DEF Get
<1>6. ASSUME NEW k \in Node \ {n} PROVE Get(w, k) = Get(v, k)
  <2>1. Get(v, k) + 0 = Get(v, k)
    BY Entry
  <2> QED BY <1>2, <2>1, Entry DEF Get
<1> QED BY <1>1, <1>4, <1>5, <1>6 DEF Vector

\* MaxOf is the component-wise maximum.
LEMMA Maximum ==
    ASSUME NEW v \in Vector, NEW r \in Vector
    PROVE  /\ MaxOf(v, r) \in Vector
           /\ \A k \in Node : Get(MaxOf(v, r), k) =
                    IF Get(r, k) > Get(v, k) THEN Get(r, k) ELSE Get(v, k)
<1> DEFINE D == DOMAIN v \cup DOMAIN r
           w == MaxOf(v, r)
<1>1. D \in SUBSET Node
  BY DEF Vector
<1>2. w = [k \in D |-> IF Get(r, k) > Get(v, k) THEN Get(r, k) ELSE Get(v, k)]
  BY DEF MaxOf
<1>3. w \in [D -> Nat]
  BY <1>2, Entry
<1>4. ASSUME NEW k \in Node
      PROVE  Get(w, k) = IF Get(r, k) > Get(v, k) THEN Get(r, k) ELSE Get(v, k)
  BY <1>2, Entry DEF Get
<1> QED BY <1>1, <1>3, <1>4 DEF Vector

-----------------------------------------------------------------------------
(* An event of n.                                                          *)

LEMMA VEvent ==
    ASSUME VInv, NEW n \in Node, NEW v \in Vector, NEW before \in SUBSET Stamps,
           Event(n, v, before),
           Get(v, n) > Get(vector[n], n),
           \A k \in Node \ {n} : Get(v, k) <= Get(vector[k], k),
           AtMost(vector[n], v),
           \A s \in before : AtMost(s, v),
           \A e \in events, a \in Node :
                EventOf(e, a) => (Get(v, a) >= Get(e.stamp, a) <=> e.stamp \in before)
    PROVE  VInv'
<1> DEFINE new == [stamp |-> v, past |-> before]
<1>1. /\ vector' = [vector EXCEPT ![n] = v]
      /\ events' = events \cup {new}
      /\ seen' = [seen EXCEPT ![n] = before \cup {v}]
      /\ new.stamp = v /\ new.past = before
  BY DEF Event
<1>2. Stamps' = Stamps \cup {v}
  BY <1>1 DEF Stamps
<1>3. \A e \in events : e.stamp \in Vector /\ e.past \subseteq Vector
  BY DEF VInv, Types
<1>4. \A s \in Stamps : s \in Vector
  BY <1>3 DEF Stamps
<1>5. /\ vector[n] \in Vector /\ \A m \in Node : vector[m] \in Vector
      /\ vector'[n] = v /\ \A m \in Node \ {n} : vector'[m] = vector[m]
      /\ seen'[n] = before \cup {v} /\ \A m \in Node \ {n} : seen'[m] = seen[m]
  BY <1>1 DEF VInv, Types
<1>6. Types'
  <2>1. events' \subseteq [stamp : Vector, past : SUBSET Vector]
    BY <1>1, <1>4 DEF VInv, Types
  <2>2. seen' \in [Node -> SUBSET Stamps']
    BY <1>1, <1>2 DEF VInv, Types
  <2>3. \A e \in events' : e.past \subseteq Stamps'
    BY <1>1, <1>2 DEF VInv, Types
  <2> QED BY <1>1, <2>1, <2>2, <2>3 DEF VInv, Types
<1>7. \A k : Get(v, k) \in Nat /\ \A w \in Vector : Get(w, k) \in Nat
  BY Entry
<1>8. Owned'
  <2>1. ASSUME NEW k \in Node PROVE Get(vector'[k], k) >= Get(vector[k], k)
    BY <1>5, <1>7
  <2>2. ASSUME NEW k \in Node PROVE Get(v, k) <= Get(vector'[k], k)
    BY <1>5, <1>7
  <2>3. ASSUME NEW k \in Node, NEW m \in Node
        PROVE  Get(vector'[m], k) <= Get(vector'[k], k)
    <3>1. Get(vector[m], k) <= Get(vector[k], k)
      BY DEF VInv, Owned
    <3>2. Get(vector'[k], k) \in Nat
      BY <1>5, <1>7
    <3> QED BY <1>5, <1>7, <2>1, <2>2, <3>1, <3>2
  <2>4. ASSUME NEW k \in Node, NEW e \in events'
        PROVE  Get(e.stamp, k) <= Get(vector'[k], k)
    <3>1. e \in events => Get(e.stamp, k) <= Get(vector[k], k)
      BY DEF VInv, Owned
    <3>2. Get(vector'[k], k) \in Nat
      BY <1>5, <1>7
    <3> QED BY <1>1, <1>3, <1>5, <1>7, <2>1, <2>2, <3>1, <3>2
  <2> QED BY <2>3, <2>4 DEF Owned
<1>9. \A s \in Stamps : Get(s, n) < Get(v, n) /\ s # v
  <2>1. \A s \in Stamps : Get(s, n) <= Get(vector[n], n)
    BY DEF VInv, Owned, Stamps
  <2> QED BY <2>1, <1>4, <1>5, <1>7
<1>10. PastIsLess'
  <2>1. ASSUME NEW s \in seen'[n] PROVE AtMost(s, v)
    <3>1. AtMost(v, v)
      BY <1>7 DEF AtMost
    <3> QED BY <1>5, <3>1
  <2>2. ASSUME NEW s \in before PROVE HappenedBefore(s, v)
    BY <1>4, <1>9, LessOrder
  <2> QED BY <1>1, <1>5, <2>1, <2>2 DEF VInv, PastIsLess
<1>11. ASSUME NEW e \in events, NEW a \in Node, EventOf(e, a) PROVE EventOf(e, a)'
  <2>1. e.stamp # v
    BY <1>9 DEF Stamps
  <2>2. Get(v, a) >= Get(e.stamp, a) <=> e.stamp \in before
    BY <1>11
  <2>3. e # new
    BY <1>1, <2>1
  <2>4. \A m \in Node : Get(vector'[m], a) >= Get(e.stamp, a) <=> e.stamp \in seen'[m]
    BY <1>5, <1>11, <2>1, <2>2 DEF EventOf
  <2>5. \A f \in events' :
            Get(f.stamp, a) >= Get(e.stamp, a) <=> (f = e \/ e.stamp \in f.past)
    BY <1>1, <1>11, <2>2, <2>3 DEF EventOf
  <2> QED BY <2>4, <2>5 DEF EventOf
<1>12. EventOf(new, n)'
  <2>1. \A f \in events : f # new /\ v \notin f.past /\ ~(Get(f.stamp, n) >= Get(v, n))
    <3>1. \A f \in events : f.stamp \in Stamps /\ f.past \subseteq Stamps
      BY DEF VInv, Types, Stamps
    <3> QED BY <1>1, <1>3, <1>7, <1>9, <3>1
  <2>2. Get(v, n) >= Get(v, n)
    BY <1>7
  <2>3. \A m \in Node \ {n} : v \notin seen[m] /\ ~(Get(vector[m], n) >= Get(v, n))
    <3>1. \A m \in Node : seen[m] \subseteq Stamps /\ Get(vector[m], n) <= Get(vector[n], n)
      BY DEF VInv, Types, Owned
    <3> QED BY <1>5, <1>7, <1>9, <3>1
  <2>4. \A m \in Node : Get(vector'[m], n) >= Get(new.stamp, n) <=> new.stamp \in seen'[m]
    BY <1>1, <1>5, <2>2, <2>3
  <2>5. \A f \in events' :
            Get(f.stamp, n) >= Get(new.stamp, n) <=> (f = new \/ new.stamp \in f.past)
    BY <1>1, <2>1, <2>2
  <2> QED BY <2>4, <2>5 DEF EventOf
<1>13. \A e \in events' : \E a \in Node : EventOf(e, a)'
  BY <1>1, <1>11, <1>12 DEF VInv
<1> QED BY <1>6, <1>8, <1>10, <1>13 DEF VInv

-----------------------------------------------------------------------------
(* The actions.                                                            *)

LEMMA VIncrement ==
    ASSUME VInv, NEW n \in Node, Increment(n)
    PROVE  VInv'
<1> DEFINE v == IncrementOf(vector[n], n)
<1>1. vector[n] \in Vector /\ seen[n] \in SUBSET Stamps
  BY DEF VInv, Types
<1>2. /\ v \in Vector
      /\ Get(v, n) = Get(vector[n], n) + 1
      /\ \A k \in Node \ {n} : Get(v, k) = Get(vector[n], k)
  BY <1>1, Incremented
<1>3. \A k : Get(v, k) \in Nat /\ \A w \in Vector : Get(w, k) \in Nat
  BY <1>2, Entry
<1>4. Get(v, n) > Get(vector[n], n)
  BY <1>1, <1>2, <1>3
<1>5. \A k \in Node \ {n} : Get(v, k) <= Get(vector[k], k)
  BY <1>2 DEF VInv, Owned
<1>6. AtMost(vector[n], v)
  BY <1>1, <1>2, <1>3 DEF AtMost
<1>7. ASSUME NEW s \in seen[n] PROVE AtMost(s, v)
  <2>1. AtMost(s, vector[n])
    BY DEF VInv, PastIsLess
  <2>2. s \in Vector
    BY DEF VInv, Types, Stamps
  <2> QED BY <1>1, <1>3, <1>6, <2>1, <2>2 DEF AtMost
<1>8. ASSUME NEW e \in events, NEW a \in Node, EventOf(e, a)
      PROVE  Get(v, a) >= Get(e.stamp, a) <=> e.stamp \in seen[n]
  <2>1. Get(vector[n], a) >= Get(e.stamp, a) <=> e.stamp \in seen[n]
    BY <1>8 DEF EventOf
  <2>2. CASE a = n
    <3>1. Get(e.stamp, n) <= Get(vector[n], n) /\ e.stamp \in Vector
      BY DEF VInv, Owned, Types
    <3> QED BY <1>1, <1>2, <1>3, <2>1, <2>2, <3>1
  <2> QED BY <1>2, <2>1, <2>2
<1>9. Event(n, v, seen[n])
  BY DEF Increment
<1> HIDE DEF v
<1> QED BY <1>1, <1>2, <1>4, <1>5, <1>6, <1>7, <1>8, <1>9, VEvent

LEMMA VReceive ==
    ASSUME VInv, NEW n \in Node, Receive(n)
    PROVE  VInv'
<1> PICK r \in events :
        Event(n, UpdateOf(vector[n], r.stamp, n), seen[n] \cup r.past \cup {r.stamp})
  BY DEF Receive
<1> DEFINE m == MaxOf(vector[n], r.stamp)
           v == IncrementOf(m, n)
           before == seen[n] \cup r.past \cup {r.stamp}
<1>1. /\ vector[n] \in Vector /\ r.stamp \in Vector /\ before \in SUBSET Stamps
  BY DEF VInv, Types, Stamps
<1>2. /\ m \in Vector
      /\ \A k \in Node : Get(m, k) =
            IF Get(r.stamp, k) > Get(vector[n], k) THEN Get(r.stamp, k) ELSE Get(vector[n], k)
  BY <1>1, Maximum
<1> HIDE DEF m
<1>3. /\ v \in Vector
      /\ Get(v, n) = Get(m, n) + 1
      /\ \A k \in Node \ {n} : Get(v, k) = Get(m, k)
  BY <1>2, Incremented
<1>4. \A k : Get(v, k) \in Nat /\ \A w \in Vector : Get(w, k) \in Nat
  BY <1>3, Entry
<1>5. Get(r.stamp, n) <= Get(vector[n], n)
  BY DEF VInv, Owned
<1>6. Get(m, n) = Get(vector[n], n)
  BY <1>1, <1>2, <1>4, <1>5
<1>7. Get(v, n) > Get(vector[n], n)
  BY <1>1, <1>3, <1>4, <1>6
<1>8. \A k \in Node \ {n} : Get(v, k) <= Get(vector[k], k)
  BY <1>2, <1>3 DEF VInv, Owned
<1> HIDE DEF v
<1>9. AtMost(vector[n], v) /\ AtMost(r.stamp, v)
  BY <1>1, <1>2, <1>3, <1>4 DEF AtMost
<1>10. ASSUME NEW s \in before PROVE AtMost(s, v)
  <2>1. s \in seen[n] => AtMost(s, vector[n])
    BY DEF VInv, PastIsLess
  <2>2. s \in Vector /\ (s \in r.past => s \in Vector)
    BY <1>1 DEF VInv, Types, Stamps
  <2>3. s \in r.past => AtMost(s, r.stamp)
    BY <1>1, <2>2, LessOrder DEF VInv, PastIsLess
  <2>4. \A w \in Vector : AtMost(s, w) /\ AtMost(w, v) => AtMost(s, v)
    BY <1>4, <2>2 DEF AtMost
  <2> QED BY <1>1, <1>9, <2>1, <2>3, <2>4
<1>11. ASSUME NEW e \in events, NEW a \in Node, EventOf(e, a)
       PROVE  Get(v, a) >= Get(e.stamp, a) <=> e.stamp \in before
  <2>1. Get(vector[n], a) >= Get(e.stamp, a) <=> e.stamp \in seen[n]
    BY <1>11 DEF EventOf
  <2>2. Get(r.stamp, a) >= Get(e.stamp, a) <=> (r = e \/ e.stamp \in r.past)
    BY <1>11 DEF EventOf
  <2>3. Get(m, a) >= Get(e.stamp, a) <=> e.stamp \in before
    <3>1. e.stamp \in Vector /\ Get(e.stamp, a) \in Nat
      BY <1>4 DEF VInv, Types
    <3>2. Get(m, a) >= Get(e.stamp, a) <=>
            \/ Get(r.stamp, a) >= Get(e.stamp, a)
            \/ Get(vector[n], a) >= Get(e.stamp, a)
      <4>1. \A x, y, z \in Nat : (IF x > y THEN x ELSE y) >= z <=> (x >= z \/ y >= z)
        OBVIOUS
      <4>2. Get(r.stamp, a) \in Nat /\ Get(vector[n], a) \in Nat
        BY <1>1, <1>4
      <4> QED BY <1>2, <3>1, <4>1, <4>2
    <3>3. e.stamp = r.stamp => Get(r.stamp, a) >= Get(e.stamp, a)
      BY <3>1
    <3>4. r = e => e.stamp = r.stamp
      OBVIOUS
    <3> QED BY <2>1, <2>2, <3>2, <3>3, <3>4
  <2>4. CASE a = n
    <3>1. Get(e.stamp, n) <= Get(vector[n], n) /\ e.stamp \in Vector
      BY DEF VInv, Owned, Types
    <3> QED BY <1>1, <1>3, <1>4, <1>6, <2>3, <2>4, <3>1
  <2> QED BY <1>3, <2>3, <2>4
<1>12. Event(n, v, before)
  BY DEF UpdateOf, v, m
<1> HIDE DEF before
<1> QED BY <1>1, <1>3, <1>7, <1>8, <1>9, <1>10, <1>11, <1>12, VEvent

LEMMA VStart == Init => VInv
<1> SUFFICES ASSUME Init PROVE VInv
  OBVIOUS
<1>1. [k \in {} |-> 0] \in Vector
  <2>1. [k \in {} |-> 0] \in [{} -> Nat]
    OBVIOUS
  <2> QED BY <2>1 DEF Vector
<1>2. Types
  BY <1>1 DEF Init, Types
<1>3. Owned
  BY DEF Init, Owned, Get
<1> QED BY <1>2, <1>3 DEF Init, VInv, PastIsLess

LEMMA VStep == VInv /\ [Next]_vars => VInv'
<1> SUFFICES ASSUME VInv, [Next]_vars PROVE VInv'
  OBVIOUS
<1>1. ASSUME NEW n \in Node, Increment(n) PROVE VInv'
  BY <1>1, VIncrement
<1>2. ASSUME NEW n \in Node, Receive(n) PROVE VInv'
  BY <1>2, VReceive
<1>3. CASE UNCHANGED vars
  BY <1>3 DEF vars, VInv, Types, Stamps, Owned, PastIsLess, EventOf
<1> QED BY <1>1, <1>2, <1>3 DEF Next

-----------------------------------------------------------------------------
(* The theorem.                                                            *)

\* One event happened before another exactly when its timestamp says so, two
\* events are concurrent exactly when neither is in the other's past, and no
\* two share a timestamp, whatever is received, in any order, any number of
\* times or never.
THEOREM ClocksCharacteriseCausality == Spec => []StampsCharacterise
<1>1. ASSUME VInv PROVE StampsCharacterise
  <2>1. ASSUME NEW e \in events, NEW f \in events
        PROVE  /\ HappenedBefore(e.stamp, f.stamp) <=> e.stamp \in f.past
               /\ e.stamp = f.stamp => e = f
               /\ e = f => ~HappenedBefore(e.stamp, f.stamp)
    <3> PICK n \in Node : EventOf(e, n)
      BY <1>1 DEF VInv
    <3>1. e.stamp \in Vector /\ f.stamp \in Vector
      BY <1>1 DEF VInv, Types
    <3>2. Get(e.stamp, n) \in Nat /\ Get(f.stamp, n) \in Nat
      BY <3>1, Entry
    <3>3. e.stamp = f.stamp => ~HappenedBefore(e.stamp, f.stamp)
      BY <3>1, LessOrder, Entry
    <3>4. e.stamp \in f.past => HappenedBefore(e.stamp, f.stamp)
      BY <1>1 DEF VInv, PastIsLess
    <3>5. Get(f.stamp, n) >= Get(e.stamp, n) <=> (f = e \/ e.stamp \in f.past)
      BY DEF EventOf
    <3>6. HappenedBefore(e.stamp, f.stamp) => Get(f.stamp, n) >= Get(e.stamp, n)
      BY <3>1, <3>2, LessOrder DEF AtMost
    <3>7. e.stamp = f.stamp => Get(f.stamp, n) >= Get(e.stamp, n)
      BY <3>2
    <3> QED BY <3>3, <3>4, <3>5, <3>6, <3>7
  <2> QED BY <2>1 DEF StampsCharacterise, ConcurrentWith
<1> QED BY VStart, VStep, <1>1, PTL DEF Spec
=============================================================================
