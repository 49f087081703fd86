---------------------------- MODULE LamportClock ----------------------------
(***************************************************************************)
(* The scalar logical clock of src/src/lamport_clock.rs.  A clock is the   *)
(* natural number its `time` field holds; the u64 range is not reached.    *)
(***************************************************************************)
EXTENDS Naturals

\* LamportClock::new
ClockInit == 0

\* LamportClock::tick: the timestamp of a local event or a send.
Tick(time) == time + 1

\* Mutant of Update: the received timestamp is forgotten.
UpdateForgetsReceived(time, received) == time + 1

\* LamportClock::update: the receive rule.
Update(time, received) == (IF time >= received THEN time ELSE received) + 1

\* The total order on the (counter, node id) pairs used by LWWRegister::apply
\* and by the derived Ord of RGAId: the counter first, then the node id.
Later(c1, n1, c2, n2) == c1 > c2 \/ (c1 = c2 /\ n1 > n2)
=============================================================================
