-------------------------- MODULE StoreRefinement --------------------------
(***************************************************************************)
(* The store of StateStore implements its parts: seen through one key, it  *)
(* is a set of replicas of that key's CRDT, ORSetReplicas or RGAReplicas   *)
(* whose tombstones are dropped at any time.                               *)
(***************************************************************************)
EXTENDS SetRefinement

NamedRGA(k) ==
    INSTANCE RGAReplicas WITH
        Orderly <- {},
        MaxPending <- MaxClock * MaxOps,
        rga   <- [n \in Node |-> sequences[n][k]],
        net   <- NetOf("Sequence", k),
        known <- KnownOf("Sequence", k),
        copy  <- IF ~snapshot.taken THEN NoSnapshot
                 ELSE [taken |-> TRUE, from |-> snapshot.node,
                       rga |-> snapshot.sequences[k],
                       known |-> OpsOf(snapshot.known, "Sequence", k)]

\* Every named sequence of the store behaves like replicas of RGA whose
\* operations arrive in any order, whose copies are merged and which prune:
\* apply_envelope, merge and prune_tombstones dispatch once, to the right key,
\* and the clock work around it does not show.
ImplementsRGA ==
    /\ \A k \in SeqKey : NamedRGA(k)!Init
    /\ [][\A k \in SeqKey :
            \/ NamedRGA(k)!Next
            \/ \E n \in Node, before_ts \in 1..MaxClock :
                  NamedRGA(k)!PruneTombstones(n, before_ts)
            \/ UNCHANGED NamedRGA(k)!vars]_vars
=============================================================================
