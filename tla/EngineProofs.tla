---------------------------- MODULE EngineProofs ----------------------------
(***************************************************************************)
(* The loop of the engine for every set of buffers, ring size and QUEUE_SZ *)
(* and every schedule of the loop, the NIC, the mux and Ctrl+C.  To the    *)
(* channel the buffers of the NIC are as good as free: receiving a burst   *)
(* is an allocation of Channel and handing it over an enqueue_bulk, so     *)
(* that the lemmas of ChannelProofs carry over.                            *)
(***************************************************************************)
EXTENDS Engine, LifetimeProofs, FiniteSetTheorems

Own == INSTANCE ChannelProofs WITH pool <- pool \cup Range(nic) \cup tx

(* The loop within the life of the process *)

\* What the loop, the NIC and Ctrl+C do leaves the shared objects, the port
\* and the mux's handles alone; the end of the loop is EngineExit.
LEMMA StepIsOfLifetime == [EngineNext]_allVars => [Next]_vars
  BY DEF EngineNext, Arrive, MuxSends, Signal, Loop, LoopTest, LoopExit, RecvPkts,
         LoopRecvPkts, SendToPacketiser, RecvFromPacketiser, XmitPkts,
         ClearOutPkts, ReadsFreed, allVars, Next

\* The engine with its loop, the NIC and the user's Ctrl+C does to the shared
\* objects only what Lifetime says, so that what is proved of Lifetime holds.
THEOREM LoopKeepsLifetime == EngineSpec => Spec
<1>1. EngineInit => Init
  BY DEF EngineInit
<1> QED
  BY <1>1, StepIsOfLifetime, PTL DEF EngineSpec, Spec

----------------------------------------------------------------------------
(* The NIC's queue, and the two instances of the channel *)

LEMMA OwnAssumptions == Own!MbufAssumption /\ Own!RingSizeAssumption
  BY SizesAssumption
  DEF Own!MbufAssumption, Own!RingSizeAssumption, Own!IsFiniteSet, IsFiniteSet

\* The NIC appends a buffer that is not in its queue.
LEMMA AppendRange ==
  ASSUME NEW T, NEW s \in Seq(T), NEW m \in T, m \notin Range(s), IsInjective(s)
  PROVE  Range(Append(s, m)) = Range(s) \cup {m} /\ IsInjective(Append(s, m))
  BY OwnAssumptions, Own!RangeAppend
     DEF Range, IsInjective, Own!Range, Own!IsInjective

\* rte_eth_rx_burst takes the n oldest buffers, which may be none.
LEMMA SplitRange ==
  ASSUME NEW T, NEW s \in Seq(T), NEW n \in 0 .. Len(s), IsInjective(s)
  PROVE  /\ SubSeq(s, n + 1, Len(s)) \in Seq(T)
         /\ IsInjective(SubSeq(s, n + 1, Len(s)))
         /\ Range(SubSeq(s, 1, n)) \subseteq Range(s)
         /\ Range(SubSeq(s, n + 1, Len(s))) = Range(s) \ Range(SubSeq(s, 1, n))
<1>1. CASE n = 0
  <2>1. SubSeq(s, 1, 0) = <<>> /\ SubSeq(s, 0 + 1, Len(s)) = s
    OBVIOUS
  <2>2. Range(<<>>) = {}
    BY DEF Range
  <2> QED
    BY <1>1, <2>1, <2>2
<1>2. CASE n # 0
  <2>1. n \in 1 .. Len(s)
    BY <1>2
  <2>2. Own!IsInjective(s)
    BY DEF IsInjective, Own!IsInjective
  <2> QED
    BY <2>1, <2>2, OwnAssumptions, Own!RangeSplit
       DEF Range, IsInjective, Own!Range, Own!IsInjective
<1> QED
  BY <1>1, <1>2

LEMMA SameOwnership == WithNic!Ownership <=> Own!Ownership
  BY DEF WithNic!Ownership, WithNic!TypeOK, WithNic!OneOwner,
         WithNic!NoDuplicates, WithNic!Accounted, WithNic!Place, WithNic!At,
         WithNic!Proc, WithNic!Ring, WithNic!Leak, WithNic!Range,
         WithNic!IsInjective,
         Own!Ownership, Own!TypeOK, Own!OneOwner, Own!NoDuplicates,
         Own!Accounted, Own!Place, Own!At, Own!Proc, Own!Ring, Own!Leak,
         Own!Range, Own!IsInjective

\* What ownership says of the NIC's buffers, the handles and the rings.
LEMMA Owners ==
  ASSUME Own!Ownership
  PROVE  /\ pool \subseteq Mbuf /\ Range(nic) \subseteq Mbuf
         /\ held \in [{"engine", "mux"} -> SUBSET Mbuf]
         /\ ring \in [{"E2C", "C2E"} -> Seq(Mbuf)]
  BY DEF Own!Ownership, Own!TypeOK, Own!Proc, Own!Ring

----------------------------------------------------------------------------
(* The inductive invariant *)

\* out_pkts stays empty, because recv_from_packetiser_bulk asks the ring for
\* 0 packets; so nothing is ever sent, and in_pkts is empty but between
\* port.receive and send_to_packetiser_bulk.
LoopState ==
  /\ out_pkts = <<>> /\ tx = {}
  /\ pc # "bulk" => held["engine"] = {}

\* The buffers of the NIC: different from each other, and not free.
NicState ==
  /\ nic \in Seq(Mbuf) /\ IsInjective(nic)
  /\ pool \cap Range(nic) = {}

EngineInv == LoopState /\ NicState /\ WithNic!Ownership

LEMMA EngineInvInit == EngineInit => EngineInv
<1> SUFFICES ASSUME EngineInit PROVE EngineInv
  OBVIOUS
<1>1. Range(nic) = {} /\ IsInjective(nic) /\ nic \in Seq(Mbuf)
  BY DEF EngineInit, Range, IsInjective
<1>2. pool \cup Range(nic) \cup tx = pool
  BY <1>1 DEF EngineInit
<1>3. Own!Init
  BY <1>2 DEF EngineInit, Ch!Init, Ch!Ring, Ch!Proc, Ch!Leak,
              Own!Init, Own!Ring, Own!Proc, Own!Leak
<1>4. Own!Ownership
  BY <1>3, OwnAssumptions, Own!InitOwnership
<1>5. LoopState
  BY DEF EngineInit, LoopState, Ch!Init, Ch!Proc
<1>6. NicState
  BY <1>1 DEF NicState
<1> QED
  BY <1>4, <1>5, <1>6, SameOwnership DEF EngineInv

\* Nothing that ownership is about has changed.
LEMMA OwnStutters ==
  ASSUME Own!Ownership, UNCHANGED <<ring, held, lost>>,
         (pool \cup Range(nic) \cup tx)' = pool \cup Range(nic) \cup tx
  PROVE  Own!Ownership'
  BY DEF Own!Ownership, Own!TypeOK, Own!OneOwner, Own!NoDuplicates,
         Own!Accounted, Own!Place, Own!At, Own!Proc, Own!Ring, Own!Leak

\* The NIC takes a free buffer for a packet.
LEMMA ArriveStep ==
  ASSUME EngineInv, Own!Ownership, NEW m \in Mbuf, Arrive(m)
  PROVE  LoopState' /\ NicState' /\ Own!Ownership'
<1>1. m \in pool /\ m \notin Range(nic) /\ nic \in Seq(Mbuf) /\ IsInjective(nic)
  BY DEF EngineInv, NicState, Arrive
<1>2. Range(Append(nic, m)) = Range(nic) \cup {m} /\ IsInjective(Append(nic, m))
  BY <1>1, AppendRange
<1>3. NicState'
  <2>1. Append(nic, m) \in Seq(Mbuf)
    BY <1>1
  <2> QED
    BY <1>2, <2>1 DEF EngineInv, NicState, Arrive
<1>4. (pool \cup Range(nic) \cup tx)' = pool \cup Range(nic) \cup tx
  BY <1>1, <1>2 DEF Arrive
<1>5. Own!Ownership'
  BY <1>4, OwnStutters DEF Arrive
<1>6. LoopState'
  BY DEF EngineInv, LoopState, Arrive
<1> QED
  BY <1>3, <1>5, <1>6

\* The mux sends a new buffer, or loses it to a full ring.
LEMMA MuxSendsStep ==
  ASSUME EngineInv, Own!Ownership, NEW m \in Mbuf, MuxSends(m)
  PROVE  LoopState' /\ NicState' /\ Own!Ownership'
<1> DEFINE free == pool \cup Range(nic) \cup tx
<1>1. m \in pool /\ m \notin Range(nic) /\ tx = {}
  BY DEF EngineInv, LoopState, NicState, MuxSends
<1>2. m \in free /\ free' = free \ {m}
  BY <1>1 DEF MuxSends
<1>3. "C2E" \in Own!Ring
  BY DEF Own!Ring
<1>4. /\ UNCHANGED held
      /\ \/ ring' = [ring EXCEPT !["C2E"] = Append(@, m)] /\ UNCHANGED lost
         \/ lost' = [lost EXCEPT !["full"] = @ \cup {m}] /\ UNCHANGED ring
  BY DEF MuxSends
<1>5. Own!Ownership'
  BY <1>2, <1>3, <1>4, OwnAssumptions, Own!SendNewStep, Zenon
<1>6. LoopState' /\ NicState'
  BY DEF EngineInv, LoopState, NicState, MuxSends
<1> QED
  BY <1>5, <1>6

\* port.receive moves the n oldest packets of the NIC into in_pkts.
LEMMA ReceiveStep ==
  ASSUME EngineInv, Own!Ownership, NEW n \in 0 .. Len(nic),
         nic' = SubSeq(nic, n + 1, Len(nic)),
         held' = [held EXCEPT !["engine"] = @ \cup Range(SubSeq(nic, 1, n))],
         UNCHANGED <<pool, ring, lost, tx>>
  PROVE  NicState' /\ Own!Ownership'
<1> DEFINE S == Range(SubSeq(nic, 1, n))
           free == pool \cup Range(nic) \cup tx
<1>1. nic \in Seq(Mbuf) /\ IsInjective(nic) /\ pool \cap Range(nic) = {} /\ tx = {}
  BY DEF EngineInv, LoopState, NicState
<1>2. /\ nic' \in Seq(Mbuf) /\ IsInjective(nic')
      /\ S \subseteq Range(nic) /\ Range(nic)' = Range(nic) \ S
  BY <1>1, SplitRange
<1> HIDE DEF S
<1>3. S \in SUBSET Mbuf
  BY <1>2, Owners
<1>4. S \subseteq free /\ free' = free \ S
  BY <1>1, <1>2
<1>5. Own!AllocBulk("engine", S)
  BY <1>4 DEF Own!AllocBulk, S
<1>6. "engine" \in Own!Proc
  BY DEF Own!Proc
<1>7. Own!Ownership'
  BY <1>3, <1>5, <1>6, OwnAssumptions, Own!PoolStep, Zenon
<1>8. NicState'
  BY <1>1, <1>2 DEF NicState
<1> QED
  BY <1>7, <1>8

\* recv_pkts and dpdk_loop's loop as far as port.receive: in_pkts is empty
\* when it is called, so the engine asks for QUEUE_SZ packets and dpdk_loop
\* for none.
LEMMA RecvPktsStep ==
  ASSUME EngineInv, Own!Ownership, RecvPkts \/ LoopRecvPkts
  PROVE  LoopState' /\ NicState' /\ Own!Ownership'
<1>1. in_pkts = {} /\ held["engine"] = {} /\ nic \in Seq(Mbuf)
  BY DEF EngineInv, LoopState, NicState, in_pkts, RecvPkts, LoopRecvPkts
<1>2. Cardinality(in_pkts) = 0
  BY <1>1, FS_EmptySet
<1>3. Len(nic) \in Nat /\ QueueSz \in Nat \ {0}
  BY <1>1, QueueSzAssumption
<1> DEFINE Burst(sz) == IF sz < Len(nic) THEN sz ELSE Len(nic)
<1>4. /\ UNCHANGED <<pool, ring, lost, tx, out_pkts>>
      /\ \/ Receive(QueueSz) /\ pc' = "bulk"
         \/ Receive(0) /\ pc' = "test"
  BY <1>2, <1>3 DEF RecvPkts, LoopRecvPkts
<1>5. ASSUME NEW sz \in Nat, Receive(sz)
      PROVE  NicState' /\ Own!Ownership'
  <2>1. Burst(sz) \in 0 .. Len(nic)
    BY <1>3
  <2>2. /\ nic' = SubSeq(nic, Burst(sz) + 1, Len(nic))
        /\ held' = [held EXCEPT !["engine"] =
                      @ \cup Range(SubSeq(nic, 1, Burst(sz)))]
    BY <1>5 DEF Receive
  <2> HIDE DEF Burst
  <2> QED
    BY <1>4, <2>1, <2>2, ReceiveStep
<1>6. CASE Receive(QueueSz) /\ pc' = "bulk"
  <2>1. LoopState'
    BY <1>4, <1>6 DEF EngineInv, LoopState
  <2> QED
    BY <1>3, <1>5, <1>6, <2>1
<1>7. CASE Receive(0) /\ pc' = "test"
  <2>1. Burst(0) = 0
    BY <1>3
  <2>2. Range(SubSeq(nic, 1, 0)) = {}
    <3>1. SubSeq(nic, 1, 0) = <<>>
      BY <1>1
    <3> QED
      BY <3>1 DEF Range
  <2>3. held' = [held EXCEPT !["engine"] = @ \cup {}]
    BY <1>7, <2>1, <2>2 DEF Receive
  <2>4. held'["engine"] = {}
    BY <1>1, <2>3, Owners
  <2>5. LoopState'
    BY <1>4, <2>4 DEF EngineInv, LoopState
  <2> QED
    BY <1>5, <1>7, <2>5
<1> QED
  BY <1>4, <1>6, <1>7

\* send_to_packetiser_bulk gives up every handle of in_pkts.
LEMMA SendToPacketiserStep ==
  ASSUME EngineInv, Own!Ownership, SendToPacketiser
  PROVE  LoopState' /\ NicState' /\ Own!Ownership'
<1>1. in_pkts = held["engine"]
  BY DEF EngineInv, LoopState, in_pkts, Range
<1>2. held["engine"] \in SUBSET Mbuf /\ held' = [held EXCEPT !["engine"] = {}]
  BY <1>1, Owners DEF SendToPacketiser, Ch!EnqueueBulk
<1>3. Own!EnqueueBulk("engine", held["engine"])
  BY <1>1 DEF SendToPacketiser, Ch!EnqueueBulk, Own!EnqueueBulk
<1>4. "engine" \in Own!Proc
  BY DEF Own!Proc
<1>5. Own!Ownership'
  BY <1>2, <1>3, <1>4, OwnAssumptions, Own!BulkStep, Zenon
<1>6. LoopState'
  BY <1>2, Owners DEF EngineInv, LoopState, SendToPacketiser
<1>7. NicState'
  BY DEF EngineInv, NicState, SendToPacketiser, Ch!EnqueueBulk
<1> QED
  BY <1>5, <1>6, <1>7

\* port.send is given no packet, and out_pkts.clear() drops no handle.
LEMMA XmitStep ==
  ASSUME EngineInv, Own!Ownership, XmitPkts \/ ClearOutPkts
  PROVE  LoopState' /\ NicState' /\ Own!Ownership'
<1>1. out_pkts = <<>> /\ Len(out_pkts) = 0 /\ tx = {} /\ Range(out_pkts) = {}
  BY DEF EngineInv, LoopState, Range
<1>2. UNCHANGED <<pool, ring, held, lost, nic, tx, out_pkts>> /\ pc # "bulk"
  <2>1. CASE XmitPkts
    <3>1. PICK count \in 0 .. 0 : Send(count)
      BY <1>1, <2>1 DEF XmitPkts
    <3>2. count = 0 /\ Range(SubSeq(out_pkts, 1, 0)) = {}
      BY <1>1 DEF Range
    <3>3. tx' = tx /\ pool' = pool
      BY <1>1, <3>1, <3>2 DEF Send
    <3> QED
      BY <2>1, <3>3 DEF XmitPkts
  <2>2. CASE ClearOutPkts
    <3>1. pool' = pool /\ held' = [held EXCEPT !["engine"] = @ \ {}]
      BY <1>1, <2>2 DEF ClearOutPkts, Ch!Free
    <3>2. held' = held
      BY <3>1, Owners
    <3> QED
      BY <1>1, <2>2, <3>1, <3>2 DEF ClearOutPkts, Ch!Free
  <2> QED
    BY <2>1, <2>2
<1>3. (pool \cup Range(nic) \cup tx)' = pool \cup Range(nic) \cup tx
  BY <1>2
<1>4. Own!Ownership'
  BY <1>2, <1>3, OwnStutters
<1>5. LoopState' /\ NicState'
  BY <1>2 DEF EngineInv, LoopState, NicState
<1> QED
  BY <1>4, <1>5

\* The other steps move no buffer, and none of them leads to "bulk".
LEMMA OtherStep ==
  ASSUME EngineInv, Own!Ownership,
         \/ UNCHANGED loopVars \/ Signal \/ LoopTest \/ RecvFromPacketiser
  PROVE  LoopState' /\ NicState' /\ Own!Ownership'
<1>1. /\ UNCHANGED <<pool, ring, held, lost, nic, tx, out_pkts>>
      /\ pc' = pc \/ pc # "bulk"
  BY DEF loopVars, chanVars, Signal, LoopTest, RecvFromPacketiser
<1>2. (pool \cup Range(nic) \cup tx)' = pool \cup Range(nic) \cup tx
  BY <1>1
<1>3. Own!Ownership'
  BY <1>1, <1>2, OwnStutters
<1>4. LoopState' /\ NicState'
  BY <1>1 DEF EngineInv, LoopState, NicState
<1> QED
  BY <1>3, <1>4

LEMMA EngineInvNext == EngineInv /\ [EngineNext]_allVars => EngineInv'
<1> SUFFICES ASSUME EngineInv, [EngineNext]_allVars PROVE EngineInv'
  OBVIOUS
<1>1. Own!Ownership
  BY SameOwnership DEF EngineInv
<1>2. LoopState' /\ NicState' /\ Own!Ownership'
  <2>1. CASE (Life /\ UNCHANGED loopVars) \/ UNCHANGED allVars \/ LoopExit
             \/ ReadsFreed
    BY <1>1, <2>1, OtherStep DEF allVars, LoopExit, ReadsFreed
  <2>2. CASE \E m \in Mbuf : Arrive(m) \/ MuxSends(m)
    BY <1>1, <2>2, ArriveStep, MuxSendsStep
  <2>3. CASE Signal \/ LoopTest \/ RecvFromPacketiser
    BY <1>1, <2>3, OtherStep
  <2>4. CASE RecvPkts \/ LoopRecvPkts
    BY <1>1, <2>4, RecvPktsStep
  <2>5. CASE SendToPacketiser
    BY <1>1, <2>5, SendToPacketiserStep
  <2>6. CASE XmitPkts \/ ClearOutPkts
    BY <1>1, <2>6, XmitStep
  <2> QED
    BY <2>1, <2>2, <2>3, <2>4, <2>5, <2>6 DEF EngineNext, Loop
<1>3. WithNic!Ownership' <=> Own!Ownership'
  BY SameOwnership, PTL
<1> QED
  BY <1>2, <1>3 DEF EngineInv

----------------------------------------------------------------------------

\* However the engine's loop, the NIC, the mux and Ctrl+C interleave between
\* two calls of recv_pkts and xmit_pkts, a buffer of the NIC is nobody
\* else's, and every other buffer has one owner.
THEOREM NicBuffersAreItsOwn == EngineSpec => []NicOwnsItsBuffers
<1>1. EngineInv => NicOwnsItsBuffers
  BY DEF EngineInv, LoopState, NicState, NicOwnsItsBuffers
<1> QED
  BY <1>1, EngineInvInit, EngineInvNext, PTL DEF EngineSpec
=============================================================================
