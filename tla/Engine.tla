------------------------------- MODULE Engine -------------------------------
(***************************************************************************)
(* The loop of the primary process (src/l3enginelib/src/main.rs: recv_pkts *)
(* and xmit_pkts; src/l3enginelib/src/apis/port.rs: receive and send) and  *)
(* the buffers it moves between the NIC, the channel and the pool, on top  *)
(* of the start and the end of the process in Lifetime.  Each call into    *)
(* DPDK is a step: the NIC, the mux and Ctrl+C come in between.            *)
(*                                                                         *)
(* The buffers are those of Channel, held["engine"] the handles in in_pkts *)
(* and out_pkts.  A mux that ends frees the pool and the rings while the   *)
(* loop goes on with them: a call that reads freed memory then either does *)
(* what it did before (it asks the ring for 0 packets) or faults.          *)
(* dpdk_loop runs a loop of its own over a copy of Port.                   *)
(***************************************************************************)
EXTENDS Lifetime, FiniteSets, Functions

CONSTANTS
  Mbuf, RingSize,   \* as in Channel
  QueueSz           \* QUEUE_SZ: capacity of in_pkts and of out_pkts

ASSUME SizesAssumption == IsFiniteSet(Mbuf) /\ RingSize \in Nat \ {0}
ASSUME QueueSzAssumption == QueueSz \in Nat \ {0}

VARIABLES
  pool, ring, held, lost,   \* as in Channel
  nic,            \* the buffers the NIC has filled, oldest first
  tx,             \* the buffers the NIC is sending
  out_pkts,       \* the packets to send
  keep_running,
  pc              \* where the loop is

chanVars == <<pool, ring, held, lost>>
loopVars == <<chanVars, nic, tx, out_pkts, keep_running, pc>>
allVars == <<vars, loopVars>>

Ch == INSTANCE Channel

EngineInit ==
  /\ Init /\ Ch!Init
  /\ nic = <<>> /\ tx = {} /\ out_pkts = <<>>
  /\ keep_running = TRUE /\ pc = "test"

\* The local vector of recv_pkts' caller.
in_pkts == held["engine"] \ Range(out_pkts)

----------------------------------------------------------------------------
(* The surroundings *)

\* The NIC takes a buffer of the pool for a packet that arrives.
Arrive(m) ==
  /\ step = "started" /\ epc \in {"wait", "e2c", "c2e", "handler", "run"}
  /\ object["POOL"] = "live" /\ m \in pool
  /\ pool' = pool \ {m}
  /\ nic' = Append(nic, m)
  /\ UNCHANGED <<vars, ring, held, lost, tx, out_pkts, keep_running, pc>>

\* The mux allocates a buffer and sends it to the engine.
MuxSends(m) ==
  /\ mpc = "up" /\ m \in pool
  /\ object["POOL"] = "live" /\ object["C2E"] = "live"
  /\ pool' = pool \ {m}
  /\ \/ /\ Len(ring["C2E"]) < RingSize
        /\ ring' = [ring EXCEPT !["C2E"] = Append(@, m)]
        /\ UNCHANGED lost
     \/ /\ Len(ring["C2E"]) = RingSize
        /\ lost' = [lost EXCEPT !["full"] = @ \cup {m}]
        /\ UNCHANGED ring
  /\ UNCHANGED <<vars, held, nic, tx, out_pkts, keep_running, pc>>

\* The handler of Ctrl+C.
Signal ==
  /\ epc = "run" /\ keep_running
  /\ keep_running' = FALSE
  /\ UNCHANGED <<vars, chanVars, nic, tx, out_pkts, pc>>

----------------------------------------------------------------------------
(* Port::receive and Port::send *)

\* rte_eth_rx_burst of at most sz; in_pkts is extended by what came.
Receive(sz) ==
  LET n == IF sz < Len(nic) THEN sz ELSE Len(nic) IN
  /\ nic' = SubSeq(nic, n + 1, Len(nic))
  /\ held' = [held EXCEPT !["engine"] = @ \cup Range(SubSeq(nic, 1, n))]

\* The pool after the buffers S were put back.
MbufFreeBulk(S) == pool \cup S

\* rte_eth_tx_burst takes the first count packets.  If it does not take all
\* of them, all are freed, those it has taken included.
Send(count) ==
  /\ tx' = tx \cup Range(SubSeq(out_pkts, 1, count))
  /\ pool' = IF count < Len(out_pkts) THEN MbufFreeBulk(Range(out_pkts)) ELSE pool

----------------------------------------------------------------------------
(* The loop *)

\* Mutant: the loop goes on until the ring from the mux is empty.
LoopTestLate ==
  /\ epc = "run" /\ pc = "test" /\ (keep_running \/ Len(ring["C2E"]) > 0)
  /\ pc' = "recv"
  /\ UNCHANGED <<vars, chanVars, nic, tx, out_pkts, keep_running>>

\* while keep_running.load(SeqCst)
LoopTest ==
  /\ epc = "run" /\ pc = "test" /\ keep_running
  /\ pc' = "recv"
  /\ UNCHANGED <<vars, chanVars, nic, tx, out_pkts, keep_running>>

\* The loop ends, and with it the process.
LoopExit ==
  /\ pc = "test" /\ ~keep_running
  /\ EngineExit
  /\ UNCHANGED loopVars

\* recv_pkts as far as port.receive; it returns early when in_pkts is full.
RecvPkts ==
  LET len == QueueSz - Cardinality(in_pkts) IN
  /\ pc = "recv" /\ prog = "l3enginelib"
  /\ Receive(len)
  /\ pc' = IF len = 0 THEN "xmit" ELSE "bulk"
  /\ UNCHANGED <<vars, pool, ring, lost, tx, out_pkts, keep_running>>

\* dpdk_loop asks for as many packets as in_pkts holds, and that is none; it
\* skips the rest of its loop when it got none.
LoopRecvPkts ==
  /\ pc = "recv" /\ prog = "dpdk_loop"
  /\ Receive(Cardinality(in_pkts))
  /\ pc' = "test"
  /\ UNCHANGED <<vars, pool, ring, lost, tx, out_pkts, keep_running>>

\* Mutant: the packets stay in in_pkts when the ring takes none of them.
SendToPacketiserKeeps ==
  /\ pc = "bulk"
  /\ pc' = "xmit"
  /\ UNCHANGED <<vars, chanVars, nic, tx, out_pkts, keep_running>>

\* recv_pkts ends with send_to_packetiser_bulk(in_pkts).
SendToPacketiser ==
  /\ pc = "bulk"
  /\ Ch!EnqueueBulk("engine", in_pkts)
  /\ pc' = "xmit"
  /\ UNCHANGED <<vars, nic, tx, out_pkts, keep_running>>

\* Mutant: the burst is received into out_pkts.
RecvFromPacketiserFills ==
  /\ pc = "xmit"
  /\ pc' = "send"
  /\ IF ring["C2E"] = <<>> THEN UNCHANGED <<ring, held, out_pkts>>
     ELSE /\ ring' = [ring EXCEPT !["C2E"] = Tail(@)]
          /\ held' = [held EXCEPT !["engine"] = @ \cup {Head(ring["C2E"])}]
          /\ out_pkts' = Append(out_pkts, Head(ring["C2E"]))
  /\ UNCHANGED <<vars, pool, lost, nic, tx, keep_running>>

\* xmit_pkts: recv_from_packetiser_bulk is given a vector with room for the
\* packets but none in it, so it asks the ring for 0.
RecvFromPacketiser ==
  /\ pc = "xmit"
  /\ pc' = "send"
  /\ UNCHANGED <<vars, chanVars, nic, tx, out_pkts, keep_running>>

XmitPkts ==
  /\ pc = "send"
  /\ \E count \in 0 .. Len(out_pkts) : Send(count)
  /\ pc' = "clear"
  /\ UNCHANGED <<vars, ring, held, lost, nic, out_pkts, keep_running>>

\* out_pkts.clear() drops every handle, whatever became of its packet.
ClearOutPkts ==
  /\ pc = "clear"
  /\ Ch!Free("engine", Range(out_pkts))
  /\ out_pkts' = <<>>
  /\ pc' = "test"
  /\ UNCHANGED <<vars, nic, tx, keep_running>>

\* What a call of the loop reads.
Reads == [recv |-> "POOL", bulk |-> "E2C", xmit |-> "C2E"]

\* A mux has freed it, and the call faults: the process ends without a Drop.
ReadsFreed ==
  /\ pc \in DOMAIN Reads /\ object[Reads[pc]] = "freed"
  /\ EngineExit
  /\ UNCHANGED loopVars

Loop ==
  \/ LoopTest \/ LoopExit \/ RecvPkts \/ LoopRecvPkts
  \/ SendToPacketiser \/ RecvFromPacketiser \/ XmitPkts \/ ClearOutPkts

EngineNext ==
  \/ Life /\ UNCHANGED loopVars
  \/ \E m \in Mbuf : Arrive(m) \/ MuxSends(m)
  \/ Signal
  \/ Loop \/ ReadsFreed

\* No call of the loop blocks.
EngineSpec == EngineInit /\ [][EngineNext]_allVars /\ WF_allVars(Loop)

----------------------------------------------------------------------------
(* Properties *)

WithNic == INSTANCE Channel WITH pool <- pool \cup Range(nic) \cup tx

\* A buffer that the NIC fills or sends from is nobody else's, neither free
\* nor in a ring nor behind a handle, whatever the loop, the mux and the NIC
\* do between two calls of the loop; every other buffer has one owner.
NicOwnsItsBuffers ==
  /\ WithNic!Ownership
  /\ pool \cap (Range(nic) \cup tx) = {} /\ Range(nic) \cap tx = {}
  /\ IsInjective(nic)

\* The engine's loop does not get stuck on packets it could not hand over:
\* each packet in the NIC is received unless the engine ends.
EveryPacketTaken ==
  \A m \in Mbuf :
    (epc = "run" /\ prog = "l3enginelib" /\ m \in Range(nic))
      ~> (m \notin Range(nic) \/ epc = "exit")

\* Both programs end after Ctrl+C, whatever the mux does and however many
\* packets arrive.
StopsOnSignal == (epc = "run" /\ ~keep_running) ~> (epc = "exit")
=============================================================================
