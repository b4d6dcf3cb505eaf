-------------------------------- MODULE Port --------------------------------
(***************************************************************************)
(* A NIC port on its way to being started (src/l3enginelib/src/apis/       *)
(* port.rs: new, configure, start), one DPDK call per action; each call    *)
(* may fail.  A core receives on the queue of its number q and sends on    *)
(* queue q ^ 1, so queues are needed in pairs.  The forwarding program     *)
(* dpdk_loop has a copy of port.rs that configures the device otherwise.   *)
(***************************************************************************)
EXTENDS Naturals

CONSTANT MaxCores   \* bound: the most cores a port is configured for

ASSUME MaxCoresAssumption == MaxCores \in Nat

VARIABLES
  prog,        \* the program whose port it is
  num_cores,   \* the argument of configure
  step,        \* the next call
  nq,          \* how many queues of each kind the device was configured with
  rxq, txq,    \* the queues that are set up
  i            \* the loop variable of configure

portVars == <<prog, num_cores, step, nq, rxq, txq, i>>

Prog == {"l3enginelib", "dpdk_loop"}

\* The main of l3enginelib passes 1, the length of cores.  The larger counts
\* are those of an engine with more cores in that list: with an odd count no
\* port of l3enginelib is ever started (QueuesArePaired).
PortInit ==
  /\ prog \in Prog
  /\ num_cores \in 1 .. MaxCores
  /\ step = "new" /\ nq = 0 /\ rxq = {} /\ txq = {} /\ i = 0

\* n_cores: num_cores rounded up to an even number.
NCores == IF num_cores % 2 = 1 THEN num_cores + 1 ELSE num_cores

\* queue_id ^ 1
Peer(q) == IF q % 2 = 0 THEN q + 1 ELSE q - 1

----------------------------------------------------------------------------
\* Port::new: rte_eth_dev_info_get.
New ==
  /\ step = "new"
  /\ step' \in {"configure", "failed"}
  /\ UNCHANGED <<prog, num_cores, nq, rxq, txq, i>>

\* rte_eth_dev_configure is given num_cores, before it is rounded up.
Configure ==
  /\ step = "configure" /\ prog = "l3enginelib"
  /\ \/ nq' = num_cores /\ step' = "rx"
     \/ UNCHANGED nq /\ step' = "failed"
  /\ UNCHANGED <<prog, num_cores, rxq, txq, i>>

\* The configure of dpdk_loop rounds first.
ConfigureRounded ==
  /\ step = "configure" /\ prog = "dpdk_loop"
  /\ \/ nq' = NCores /\ step' = "rx"
     \/ UNCHANGED nq /\ step' = "failed"
  /\ UNCHANGED <<prog, num_cores, rxq, txq, i>>

\* Whether DPDK accepts the setup of queue i: the device must have it.
HasQueue == i < nq

\* rte_eth_rx_queue_setup(i)
RxQueueSetup ==
  /\ step = "rx" /\ i < NCores
  /\ \/ HasQueue /\ rxq' = rxq \cup {i} /\ step' = "tx"
     \/ UNCHANGED rxq /\ step' = "failed"
  /\ UNCHANGED <<prog, num_cores, nq, txq, i>>

\* rte_eth_tx_queue_setup(i), and on to the next queue.
TxQueueSetup ==
  /\ step = "tx"
  /\ \/ HasQueue /\ txq' = txq \cup {i} /\ i' = i + 1 /\ step' = "rx"
     \/ UNCHANGED <<txq, i>> /\ step' = "failed"
  /\ UNCHANGED <<prog, num_cores, nq, rxq>>

\* Mutant: the loop ends at num_cores.
PromiscuousAfterCores ==
  /\ step = "rx" /\ i = num_cores
  /\ step' \in {"start", "failed"}
  /\ UNCHANGED <<prog, num_cores, nq, rxq, txq, i>>

\* rte_eth_promiscuous_enable, after the loop.
Promiscuous ==
  /\ step = "rx" /\ i = NCores
  /\ step' \in {"start", "failed"}
  /\ UNCHANGED <<prog, num_cores, nq, rxq, txq, i>>

\* Port::start: rte_eth_dev_start.
Start ==
  /\ step = "start"
  /\ step' \in {"started", "failed"}
  /\ UNCHANGED <<prog, num_cores, nq, rxq, txq, i>>

PortNext ==
  \/ New \/ Configure \/ ConfigureRounded
  \/ RxQueueSetup \/ TxQueueSetup \/ Promiscuous \/ Start

PortSpec == PortInit /\ [][PortNext]_portVars

----------------------------------------------------------------------------
(* Properties *)

PortTypeOK ==
  /\ prog \in Prog
  /\ num_cores \in Nat /\ nq \in Nat /\ i \in Nat
  /\ step \in {"new", "configure", "rx", "tx", "start", "started", "failed"}
  /\ rxq \subseteq Nat /\ txq \subseteq Nat

\* The queues set up so far are those below the loop variable, none of them
\* beyond what the device has, and none at all before the device is
\* configured.
QueuesSoFar ==
  /\ step \in {"new", "configure"} => rxq = {} /\ txq = {} /\ i = 0
  /\ step \in {"rx", "tx", "start", "started"} =>
       /\ nq = (IF prog = "dpdk_loop" THEN NCores ELSE num_cores) /\ i <= nq
       /\ txq = 0 .. (i - 1)
       /\ rxq = IF step = "tx" THEN 0 .. i ELSE 0 .. (i - 1)
  /\ step = "tx" => i < nq
  /\ step \in {"start", "started"} => i = NCores

PortInv == PortTypeOK /\ QueuesSoFar

\* port.rs:3 "by ensuring that every Port always sets up an even number of
\* queues": on a port that was started every queue a core receives on has a
\* transmit queue q ^ 1 to go with it, and both are set up for both uses.
\* l3enginelib pays for it, since configure rounds the count after it has
\* given it to the device: with an odd count, its own 1 included, the port is
\* never started.
QueuesArePaired ==
  step = "started" =>
    /\ \A q \in 0 .. (nq - 1) : {q, Peer(q)} \subseteq rxq /\ {q, Peer(q)} \subseteq txq
    /\ prog = "l3enginelib" => num_cores % 2 = 0
=============================================================================
