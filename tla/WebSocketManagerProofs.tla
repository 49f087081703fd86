----------------------- MODULE WebSocketManagerProofs -----------------------
(***************************************************************************)
(* Proofs about WebSocketManager, for any number of writes and             *)
(* connections: nothing is lost or reordered, nothing leaves before the    *)
(* SNAPSHOT, and no envelope waits without a flush.                        *)
(***************************************************************************)
EXTENDS WebSocketManager, SequenceTheorems, TLAPS

Types ==
    /\ offlineQueue \in Seq(Nat)
    /\ pendingEnvelopes \in Seq(Nat)
    /\ sent \in Seq(Nat)
    /\ written \in Nat

\* While the socket is open and a SNAPSHOT was applied, that SNAPSHOT came over
\* this connection and has let out what was queued.
Hydration ==
    (readyState = "OPEN" /\ snapshotReceived) =>
        hydrated = connection /\ offlineQueue = <<>>

\* The inductive invariant.
MInv == Types /\ NothingLost /\ FlushArmed /\ Hydration

\* What a flush sends or queues again keeps its place.
LEMMA KeepsOrder ==
    ASSUME Types
    PROVE  /\ (sent \o offlineQueue) \o pendingEnvelopes
                = sent \o (offlineQueue \o pendingEnvelopes)
           /\ \A s \in Seq(Nat) : s \o <<>> = s
           /\ <<>> \in Seq(Nat)
           /\ sent \o offlineQueue \in Seq(Nat)
           /\ sent \o (offlineQueue \o pendingEnvelopes) \in Seq(Nat)
           /\ offlineQueue \o pendingEnvelopes \in Seq(Nat)
           /\ sent \o pendingEnvelopes \in Seq(Nat)
BY SMTT(30), ConcatAssociative, ConcatProperties, ConcatEmptySeq, EmptySeq DEF Types

LEMMA MInit == Init => MInv
<1> SUFFICES ASSUME Init PROVE MInv
  OBVIOUS
<1>1. Types
  BY DEF Init, Types
<1>2. NothingLost
  BY DEF Init, NothingLost
<1> QED BY <1>1, <1>2 DEF Init, MInv, FlushArmed, Hydration

LEMMA MStep == MInv /\ [Next]_vars => MInv'
<1> SUFFICES ASSUME MInv, [Next]_vars PROVE MInv'
  OBVIOUS
<1> USE KeepsOrder DEF MInv
<1>1. ASSUME Write PROVE MInv'
  <2>1. /\ written' = written + 1 /\ written' \in Nat
        /\ pendingEnvelopes' = Append(pendingEnvelopes, written')
        /\ UNCHANGED <<subscribed, offlineQueue, sent>>
    BY <1>1 DEF Write, Types
  <2>2. Types'
    BY <2>1, AppendProperties DEF Types
  <2>3. NothingLost'
    <3> SUFFICES ASSUME subscribed
                 PROVE  (sent \o offlineQueue) \o pendingEnvelopes'
                            = [i \in 1..(written + 1) |-> i]
      BY <2>1 DEF NothingLost
    <3> DEFINE before == (sent \o offlineQueue) \o pendingEnvelopes
    <3>1. before = [i \in 1..written |-> i]
      BY DEF NothingLost
    <3>2. before \in Seq(Nat) /\ Len(before) = written
      BY <3>1, ConcatProperties DEF Types
    <3>3. (sent \o offlineQueue) \o pendingEnvelopes' = Append(before, written + 1)
      BY SMTT(30), <2>1, ConcatAssociative, AppendIsConcat, ConcatProperties DEF Types
    <3>4. Append(before, written + 1) = [i \in 1..(written + 1) |-> i]
      <4> HIDE DEF before
      <4> QED BY <3>1, <3>2, AppendProperties DEF Types
    <3> QED BY <3>3, <3>4
  <2> QED BY <1>1, <2>2, <2>3 DEF Write, FlushArmed, Hydration
<1>2. ASSUME DoFlush PROVE MInv'
  BY <1>2 DEF DoFlush, FlushBatch, history, Types, NothingLost, FlushArmed, Hydration
<1>3. ASSUME OnOpen PROVE MInv'
  BY <1>3 DEF OnOpen, Types, NothingLost, FlushArmed, Hydration
<1>4. ASSUME OnSnapshot PROVE MInv'
  BY <1>4 DEF OnSnapshot, FlushOfflineQueue, Types, NothingLost, FlushArmed, Hydration
<1>5. ASSUME OnClose \/ Reconnect PROVE MInv'
  BY <1>5 DEF OnClose, Reconnect, queues, history, Types, NothingLost, FlushArmed, Hydration
<1>6. ASSUME Disconnect PROVE MInv'
  BY <1>6 DEF Disconnect, history, Types, NothingLost, FlushArmed, Hydration
<1>7. ASSUME UNCHANGED vars PROVE MInv'
  BY <1>7 DEF vars, Types, NothingLost, FlushArmed, Hydration
<1> QED BY <1>1, <1>2, <1>3, <1>4, <1>5, <1>6, <1>7 DEF Next

\* However closes, reopenings, timers and SNAPSHOTs interleave, what was sent,
\* queued and collected are the writes, in order, each once.
THEOREM EverythingKept == Spec => []NothingLost
<1>1. MInv => NothingLost
  BY DEF MInv
<1> QED BY MInit, MStep, <1>1, PTL DEF Spec

\* No envelope is collected without a flush to come.
THEOREM FlushIsArmed == Spec => []FlushArmed
<1>1. MInv => FlushArmed
  BY DEF MInv
<1> QED BY MInit, MStep, <1>1, PTL DEF Spec

\* Whatever is sent follows the SNAPSHOT of the connection it is sent over.
THEOREM SentAfterSnapshot == Spec => SnapshotFirst
<1> DEFINE AfterSnapshot == sent' # sent => hydrated' = connection'
<1>1. ASSUME MInv, [Next]_vars PROVE AfterSnapshot \/ UNCHANGED vars
  BY <1>1 DEF MInv, Hydration, Next, vars, queues, history, Write, DoFlush, FlushBatch,
     OnOpen, OnSnapshot, FlushOfflineQueue, OnClose, Reconnect, Disconnect
<1> QED BY MInit, MStep, <1>1, PTL DEF Spec, SnapshotFirst
=============================================================================
