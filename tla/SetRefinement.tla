--------------------------- MODULE SetRefinement ---------------------------
(***************************************************************************)
(* The store of StateStore implements its sets: seen through one key, it   *)
(* is a set of replicas of ORSetReplicas.                                  *)
(***************************************************************************)
EXTENDS StateStore

\* The operations on one key, and the network that carries them.
OpsOf(envs, kind, k) == {e.op : e \in {x \in envs : x.kind = kind /\ x.key = k}}
NetOf(kind, k) ==
    {[op |-> e.op, past |-> OpsOf(past[e], kind, k)] :
        e \in {x \in net : x.kind = kind /\ x.key = k}}
KnownOf(kind, k) == [n \in Node |-> OpsOf(known[n], kind, k)]

NamedORSet(k) ==
    INSTANCE ORSetReplicas WITH
        Orderly <- {},
        Token   <- Node \X (1..MaxClock),
        entries <- [n \in Node |-> sets[n][k]],
        net     <- NetOf("Set", k),
        known   <- KnownOf("Set", k),
        copy    <- IF ~snapshot.taken THEN NoSnapshot
                   ELSE [taken |-> TRUE, from |-> snapshot.node,
                         entries |-> snapshot.sets[k],
                         known |-> OpsOf(snapshot.known, "Set", k)]

\* Every named set behaves like replicas of ORSet whose operations
\* arrive in any order and whose copies are merged: apply_envelope and merge
\* dispatch once, to the right key; the clock work and prune_empties do not show.
ImplementsORSet ==
    /\ \A k \in SetKey : NamedORSet(k)!Init
    /\ [][\A k \in SetKey :
            NamedORSet(k)!Next \/ UNCHANGED NamedORSet(k)!vars]_vars
=============================================================================
