--------------------------- MODULE LifetimeProofs ---------------------------
(***************************************************************************)
(* Proofs about Port and Lifetime: how many queues a started port has, and *)
(* what the two processes may rely on of the objects they share, for any   *)
(* number of cores and of runs of the mux.                                 *)
(***************************************************************************)
EXTENDS Lifetime, TLAPS

(* The port *)

\* Every call of Port keeps account of the queues that are set up.
LEMMA PortStep == PortInv /\ [PortNext]_portVars => PortInv'
<1> SUFFICES ASSUME PortInv, [PortNext]_portVars PROVE PortInv'
  OBVIOUS
<1> USE DEF PortInv, PortTypeOK, QueuesSoFar, NCores, Prog
<1>1. CASE New
  BY <1>1 DEF New
<1>2. CASE Configure
  <2>1. 0 .. (0 - 1) = {}
    OBVIOUS
  <2> QED
    BY <1>2, <2>1 DEF Configure
<1>2a. CASE ConfigureRounded
  <2>1. 0 .. (0 - 1) = {}
    OBVIOUS
  <2> QED
    BY <1>2a, <2>1 DEF ConfigureRounded
<1>3. CASE RxQueueSetup
  <2>1. i \in Nat /\ 0 .. i = (0 .. (i - 1)) \cup {i}
    OBVIOUS
  <2>2. CASE step' = "failed"
    BY <1>3, <2>2 DEF RxQueueSetup
  <2>3. CASE step' = "tx"
    BY <1>3, <2>1, <2>3 DEF RxQueueSetup, HasQueue
  <2> QED
    BY <1>3, <2>2, <2>3 DEF RxQueueSetup
<1>4. CASE TxQueueSetup
  <2>1. i \in Nat /\ i + 1 \in Nat /\ 0 .. ((i + 1) - 1) = 0 .. i
    OBVIOUS
  <2>2. 0 .. i = (0 .. (i - 1)) \cup {i}
    OBVIOUS
  <2>3. CASE step' = "failed"
    BY <1>4, <2>3 DEF TxQueueSetup
  <2>4. CASE step' = "rx"
    <3>1. /\ i < nq /\ txq' = txq \cup {i} /\ i' = i + 1 /\ step = "tx"
          /\ num_cores' = num_cores /\ prog' = prog /\ nq' = nq /\ rxq' = rxq
      BY <1>4, <2>4 DEF TxQueueSetup, HasQueue
    <3>2. txq' = 0 .. (i' - 1) /\ rxq' = 0 .. (i' - 1)
      <4>1. txq = 0 .. (i - 1) /\ rxq = 0 .. i
        BY <3>1
      <4> QED
        BY <3>1, <4>1, <2>1, <2>2
    <3>3. /\ PortTypeOK' /\ i' <= nq'
          /\ nq' = IF prog' = "dpdk_loop" THEN NCores' ELSE num_cores'
      BY <2>1, <2>4, <3>1, <3>2
    <3> QED
      BY <2>4, <3>2, <3>3
  <2> QED
    BY <1>4, <2>3, <2>4 DEF TxQueueSetup
<1>5. CASE Promiscuous
  BY <1>5 DEF Promiscuous
<1>6. CASE Start
  BY <1>6 DEF Start
<1>7. CASE UNCHANGED portVars
  BY <1>7 DEF portVars
<1> QED
  BY <1>1, <1>2, <1>2a, <1>3, <1>4, <1>5, <1>6, <1>7 DEF PortNext

\* A port that was started has an even number of queues, all of them set up:
\* an odd one would have ended in a queue that the device does not have,
\* and dpdk_loop never asks for an odd one.
LEMMA Paired == PortInv => QueuesArePaired
<1> SUFFICES ASSUME PortInv, step = "started", NEW q \in 0 .. (nq - 1)
             PROVE  {q, Peer(q)} \subseteq rxq /\ {q, Peer(q)} \subseteq txq
  <2>1. PortInv /\ step = "started" /\ prog = "l3enginelib" => num_cores % 2 = 0
    BY DEF PortInv, PortTypeOK, QueuesSoFar, NCores
  <2> QED
    BY <2>1 DEF QueuesArePaired
<1> USE DEF PortInv, PortTypeOK, QueuesSoFar, NCores
<1>1. nq \in Nat /\ q \in Nat /\ q < nq
  OBVIOUS
<1>2. nq % 2 = 0 /\ rxq = 0 .. (nq - 1) /\ txq = 0 .. (nq - 1)
  OBVIOUS
<1>3. Peer(q) \in 0 .. (nq - 1)
  BY <1>1, <1>2 DEF Peer
<1> QED
  BY <1>1, <1>2, <1>3

----------------------------------------------------------------------------
(* The two processes *)

\* The engine and the mux start with nothing.
LEMMA Initially == Init => IInv
BY MaxCoresAssumption DEF Init, PortInit, IInv, TypeOK, PortInv, PortTypeOK, QueuesSoFar,
   MadeInOrder, FoundIsKept, FailedEngineLeavesNothing, Object, Early, Prog

\* A step other than the engine's work on its port leaves the port alone.
LEMMA PortLeft == PortInv /\ UNCHANGED portVars => PortInv'
BY PortStep

\* A second port starts out like the first.
LEMMA PortAgain == PortInv /\ SecondPort => PortInv'
BY DEF PortInv, PortTypeOK, QueuesSoFar, SecondPort

\* Every step of either process keeps the invariant.
LEMMA Preserved == IInv /\ [Next]_vars => IInv'
<1> SUFFICES ASSUME IInv, [Next]_vars PROVE IInv'
  OBVIOUS
<1>0. PortInv'
  <2>1. CASE UNCHANGED portVars
    BY <2>1, PortLeft DEF IInv
  <2>2. CASE EnginePort
    BY <2>2, PortStep DEF IInv, EnginePort
  <2>3. CASE SecondPort
    BY <2>3, PortAgain DEF IInv
  <2> QED
    BY <2>1, <2>2, <2>3 DEF Next, Life, EngineEal, EngineNewPool, EngineReady, EngineNewE2C,
       EngineNewC2E, EngineHandler, EngineExit, MuxStart, MuxStop, MuxDrop, MuxGone, MuxKilled,
       Lookup, LookupFails, vars
<1> DEFINE Rest == TypeOK /\ MadeInOrder /\ FoundIsKept /\ FailedEngineLeavesNothing
<1> USE DEF TypeOK, MadeInOrder, FoundIsKept, FailedEngineLeavesNothing, Object, Early,
        Free, portVars
<1>a. Rest
  BY DEF IInv
<1> SUFFICES Rest'
  BY <1>0 DEF IInv
<1>1. CASE EngineEal
  BY <1>1, <1>a DEF EngineEal
<1>2. CASE EngineNewPool
  BY <1>2, <1>a DEF EngineNewPool
<1>3. CASE EnginePort
  <2>1. prog' = prog
    BY <1>3 DEF EnginePort, PortNext, New, Configure, ConfigureRounded, RxQueueSetup,
       TxQueueSetup, Promiscuous, Start
  <2>2. prog \in Prog
    BY DEF IInv, PortInv, PortTypeOK
  <2> QED
    BY <1>3, <1>a, <2>1, <2>2 DEF EnginePort, AfterPort, Prog
<1>3a. CASE SecondPort
  BY <1>3a, <1>a DEF SecondPort
<1>4. CASE EngineReady
  BY <1>4, <1>a DEF EngineReady
<1>5. CASE EngineNewE2C
  BY <1>5, <1>a DEF EngineNewE2C
<1>6. CASE EngineNewC2E
  BY <1>6, <1>a DEF EngineNewC2E
<1>6a. CASE EngineHandler
  BY <1>6a, <1>a DEF EngineHandler
<1>7. CASE EngineExit
  BY <1>7, <1>a DEF EngineExit
<1>8. CASE MuxStart
  BY <1>8, <1>a DEF MuxStart
<1>9. CASE MuxStop
  BY <1>9, <1>a DEF MuxStop
<1>10. CASE MuxDrop
  BY <1>10, <1>a DEF MuxDrop
<1>11. CASE MuxGone
  BY <1>11, <1>a DEF MuxGone
<1>12. CASE MuxKilled
  BY <1>12, <1>a DEF MuxKilled
<1>13. ASSUME NEW o \in Object, Lookup(o) PROVE Rest'
  <2>1. Kept[o] \in Seq(Object)
    <3>1. \A x, y, z \in Object :
            <<x>> \in Seq(Object) /\ <<x, y>> \in Seq(Object) /\ <<x, y, z>> \in Seq(Object)
      BY DEF Object
    <3>2. "C2E" \in Object /\ "E2C" \in Object /\ "POOL" \in Object
      OBVIOUS
    <3>3. /\ Kept["E2C"] = <<"E2C">> /\ Kept["C2E"] = <<"C2E", "E2C">>
          /\ Kept["POOL"] = <<"C2E", "E2C", "POOL">>
      BY DEF Kept
    <3>4. o = "E2C" \/ o = "C2E" \/ o = "POOL"
      BY <1>13
    <3> HIDE DEF Object
    <3>5. <<"E2C">> \in Seq(Object) /\ <<"C2E", "E2C">> \in Seq(Object)
      BY <3>1, <3>2
    <3>6. <<"C2E", "E2C", "POOL">> \in Seq(Object)
      BY <3>1, <3>2, Zenon
    <3> QED
      BY <3>3, <3>4, <3>5, <3>6
  <2>2. o = "E2C" \/ o = "C2E" \/ o = "POOL"
    BY <1>13
  <2>3. CASE o = "E2C"
    <3>1. prog \in Prog
      BY DEF IInv, PortInv, PortTypeOK
    <3> QED
      BY <1>13, <1>a, <2>1, <2>3, <3>1 DEF Lookup, After, Prog
  <2>4. CASE o = "C2E"
    BY <1>13, <1>a, <2>1, <2>4 DEF Lookup, After
  <2>5. CASE o = "POOL"
    BY <1>13, <1>a, <2>1, <2>5 DEF Lookup, After
  <2> QED
    BY <2>2, <2>3, <2>4, <2>5
<1>14. ASSUME NEW o \in Object, LookupFails(o) PROVE Rest'
  BY <1>14, <1>a DEF LookupFails
<1>15. CASE UNCHANGED vars
  BY <1>15, <1>a DEF vars
<1> QED
  BY <1>1, <1>2, <1>3, <1>3a, <1>4, <1>5, <1>6, <1>6a, <1>7, <1>8, <1>9, <1>10, <1>11,
     <1>12,     <1>13, <1>14, <1>15 DEF Next, Life

\* The invariant holds however creation, lookup, drop, kill and restart
\* interleave (memring.rs:229-261, mempool.rs:23-75, both mains).
THEOREM SharedObjects == Spec => []IInv
<1>1. Init => IInv
  BY Initially
<1>2. IInv /\ [Next]_vars => IInv'
  BY Preserved
<1> QED
  BY <1>1, <1>2, PTL DEF Spec

\* A mux that has got through Mux::new (mux/mod.rs:40-65) has an engine behind
\* it, and both rings and the pool until it stops, unless that engine fails.
THEOREM MuxIsConnected == Spec => []UpMeansConnected
<1>1. IInv => UpMeansConnected
  BY DEF IInv, TypeOK, PortInv, PortTypeOK, Prog, MadeInOrder, FoundIsKept,
     UpMeansConnected, Object
<1> QED
  BY <1>1, SharedObjects, PTL

\* An engine that fails while it starts leaves neither pool nor rings.
THEOREM NothingLeftBehind == Spec => []FailedEngineLeavesNothing
<1>1. IInv => FailedEngineLeavesNothing
  BY DEF IInv
<1> QED
  BY <1>1, SharedObjects, PTL

\* Whatever number of cores Port::configure (port.rs:55) is called with, the
\* queues of a port that was started come in pairs q, q ^ 1, and no port of
\* l3enginelib is started with an odd number.
THEOREM StartedPortIsPaired == Spec => []QueuesArePaired
<1>1. IInv => QueuesArePaired
  BY Paired DEF IInv
<1> QED
  BY <1>1, SharedObjects, PTL
=============================================================================
