---------------------------- MODULE VectorClock ----------------------------
(***************************************************************************)
(* Vector clocks, src/src/vector_clock.rs: nodes that stamp their events   *)
(* and the messages they send, and update their clocks on what they        *)
(* receive, in any order, any number of times, or never.  A vector is a    *)
(* map from node ids to counters; a missing entry counts as 0.             *)
(***************************************************************************)
EXTENDS Naturals, FiniteSets

CONSTANTS
    Node,       \* the nodes
    MaxEvents   \* bound: events (sends and receives) in a behaviour

ASSUME BoundAssumption == MaxEvents \in Nat

VARIABLES
    vector,  \* VectorClock.vector of each node
    events,  \* every event: its VectorTimestamp and the events before it
    seen     \* history: the timestamps of the events in each node's past

vars == <<vector, events, seen>>

\* get(node).unwrap_or(0)
Get(v, k) == IF k \in DOMAIN v THEN v[k] ELSE 0

\* Mutant of HappenedBefore: the entries only the second has are not looked at.
HappenedBeforeOwnEntries(v, w) ==
    /\ \A k \in DOMAIN v : v[k] <= Get(w, k)
    /\ \E k \in DOMAIN v : v[k] < Get(w, k)

\* VectorTimestamp::happened_before: no entry of the first exceeds the
\* second's, and some entry of either is less in the first.
HappenedBefore(v, w) ==
    /\ \A k \in DOMAIN v : v[k] <= Get(w, k)
    /\ \/ \E k \in DOMAIN v : v[k] < Get(w, k)
       \/ \E k \in DOMAIN w : w[k] > Get(v, k)

\* VectorTimestamp::concurrent_with
ConcurrentWith(v, w) == ~HappenedBefore(v, w) /\ ~HappenedBefore(w, v) /\ v # w

\* VectorClock::increment: or_insert(0), then += 1.
IncrementOf(v, n) ==
    [k \in DOMAIN v \cup {n} |-> Get(v, k) + (IF k = n THEN 1 ELSE 0)]

\* The component-wise maximum of VectorClock::update.
MaxOf(v, received) ==
    [k \in DOMAIN v \cup DOMAIN received |->
        IF Get(received, k) > Get(v, k) THEN Get(received, k) ELSE Get(v, k)]

\* VectorClock::update
UpdateOf(v, received, n) == IncrementOf(MaxOf(v, received), n)

\* VectorClock::new
Init ==
    /\ vector = [n \in Node |-> [k \in {} |-> 0]]
    /\ events = {}
    /\ seen   = [n \in Node |-> {}]

\* An event of n, after the events in `before`, that leaves its clock at v.
Event(n, v, before) ==
    /\ Cardinality(events) < MaxEvents
    /\ vector' = [vector EXCEPT ![n] = v]
    /\ events' = events \cup {[stamp |-> v, past |-> before]}
    /\ seen'   = [seen EXCEPT ![n] = before \cup {v}]

\* A local event or a send.
Increment(n) == Event(n, IncrementOf(vector[n], n), seen[n])

\* The receipt of a message stamped like event e.
Receive(n) ==
    \E e \in events :
        Event(n, UpdateOf(vector[n], e.stamp, n), seen[n] \cup e.past \cup {e.stamp})

Next == \E n \in Node : Increment(n) \/ Receive(n)

Spec == Init /\ [][Next]_vars

-----------------------------------------------------------------------------
(* Properties.                                                             *)

\* Timestamps characterise causality (vector_clock.rs:12-14, 67-70): one event
\* happened before another exactly when its timestamp says so, two events are
\* concurrent exactly when neither is in the other's past, and no two events
\* share a timestamp.
StampsCharacterise ==
    \A e, f \in events :
        /\ HappenedBefore(e.stamp, f.stamp) <=> e.stamp \in f.past
        /\ ConcurrentWith(e.stamp, f.stamp) <=>
              (e # f /\ e.stamp \notin f.past /\ f.stamp \notin e.past)
        /\ e.stamp = f.stamp => e = f
=============================================================================
