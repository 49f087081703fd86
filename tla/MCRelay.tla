-------------------------------- MODULE MCRelay --------------------------------
(***************************************************************************)
(* Bounds for TLC: two timestamps where an adapter interleaves its answers *)
(* with everything else, three where only the pruning is at stake.         *)
(***************************************************************************)
EXTENDS Relay

MCMaxTimestamp == [p \in BOOLEAN |-> IF p THEN 2 ELSE 3]
=============================================================================
