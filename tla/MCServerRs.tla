------------------------------ MODULE MCServerRs ------------------------------
(***************************************************************************)
(* Bounds for TLC: one client is there to see two others in turn; or two   *)
(* clients exchange three envelopes, so that a PRUNE finds some of them    *)
(* still waiting to be sent; or the room is saved, left, lost and restored *)
(* under one or two clients.                                               *)
(***************************************************************************)
EXTENDS ServerRs

MCBounds == {[conns |-> 3, envelopes |-> 2, saves |-> FALSE],
             [conns |-> 2, envelopes |-> 3, saves |-> FALSE],
             [conns |-> 2, envelopes |-> 2, saves |-> TRUE]}

\* Connection 2 must sign and is restricted, the values set for 1 are unusable.
MCEnv == {[name |-> "CRDT_KEY", conn |-> 2, value |-> "64 hex digits"],
          [name |-> "CRDT_KEY", conn |-> 1, value |-> "other"],
          [name |-> "CRDT_ACL", conn |-> 2, value |-> "prefixes"],
          [name |-> "CRDT_ACL", conn |-> 1, value |-> "blank"]}
=============================================================================
