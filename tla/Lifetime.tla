------------------------------ MODULE Lifetime ------------------------------
(***************************************************************************)
(* The lives of the named DPDK objects that the two processes share: the   *)
(* mempool GLOBAL_MEMPOOL and the rings E2C and C2E.  The engine creates   *)
(* them (l3enginelib/src/main.rs, Mempool::new, Channel::new); each run of *)
(* the mux looks them up (Mux::new, Channel::lookup, Mempool::lookup).     *)
(* Both wrap them in Mempool and Ring, whose Drop frees the shared object, *)
(* whichever process drops the wrapper.                                    *)
(*                                                                         *)
(* Creation and lookup take one DPDK call per object, so the two processes *)
(* interleave inside Channel::new and Channel::lookup.  Between the pool   *)
(* and the rings the engine brings up its port (module Port).  The mux is  *)
(* taken to be attached to the engine's EAL.                               *)
(*                                                                         *)
(* The primary process may also be dpdk_loop/l3engine (prog), which makes  *)
(* the pool under the same name, brings up two ports and makes no rings.   *)
(***************************************************************************)
EXTENDS Port, Sequences

CONSTANT MaxRuns   \* bound: how often the mux is started

ASSUME MaxRunsAssumption == MaxRuns \in Nat

VARIABLES
  object,    \* "none" before creation, then "live", then "freed"
  epc,       \* the engine
  mpc,       \* the mux
  handles,   \* the wrappers the mux owns, in the order they are dropped
  runs       \* how often the mux was started

vars == <<object, epc, mpc, handles, runs, portVars>>

Object == {"POOL", "E2C", "C2E"}

\* The engine before it has made a ring.
Early == {"eal", "pool", "port", "port2", "wait", "e2c"}

Init ==
  /\ object = [o \in Object |-> "none"]
  /\ epc = "eal"
  /\ mpc = "dead" /\ handles = <<>> /\ runs = 0
  /\ PortInit

Free(S) == [o \in Object |-> IF o \in S THEN "freed" ELSE object[o]]

----------------------------------------------------------------------------
(* The engine *)

\* eal_init; a failure panics.
EngineEal ==
  /\ epc = "eal"
  /\ epc' \in {"pool", "dead"}
  /\ UNCHANGED <<object, mpc, handles, runs, portVars>>

\* Mempool::new; a failure panics.
EngineNewPool ==
  /\ epc = "pool"
  /\ \/ object' = [object EXCEPT !["POOL"] = "live"] /\ epc' = "port"
     \/ UNCHANGED object /\ epc' = "dead"
  /\ UNCHANGED <<mpc, handles, runs, portVars>>

\* The engine waits for the mux now; dpdk_loop brings up its second port,
\* and enters its loop after that.
AfterPort ==
  IF prog = "l3enginelib" THEN "wait"
  ELSE IF epc = "port" THEN "port2" ELSE "run"

\* dpdk_loop goes on to Port::new for the second port.
SecondPort ==
  /\ epc = "port2" /\ step = "started"
  /\ step' = "new" /\ nq' = 0 /\ rxq' = {} /\ txq' = {} /\ i' = 0
  /\ UNCHANGED <<object, epc, mpc, handles, runs, prog, num_cores>>

\* Port::new, configure, start.  When one of them fails main panics and its
\* mempool is dropped.
EnginePort ==
  /\ epc \in {"port", "port2"}
  /\ PortNext
  /\ epc' = CASE step' = "started" -> AfterPort
              [] step' = "failed" -> "dead"
              [] OTHER -> epc
  /\ object' = IF step' = "failed" THEN Free({"POOL"}) ELSE object
  /\ UNCHANGED <<mpc, handles, runs>>

\* bind and responder.recv: some client says that the secondary is there.
\* When one of them fails main panics and its mempool is dropped.
EngineReady ==
  /\ epc = "wait"
  /\ \/ UNCHANGED object /\ epc' = "e2c"
     \/ object' = Free({"POOL"}) /\ epc' = "dead"
  /\ UNCHANGED <<mpc, handles, runs, portVars>>

\* Channel::new, the first Ring::new.  When it fails main panics and its
\* mempool is dropped.
EngineNewE2C ==
  /\ epc = "e2c"
  /\ \/ object' = [object EXCEPT !["E2C"] = "live"] /\ epc' = "c2e"
     \/ object' = Free({"POOL"}) /\ epc' = "dead"
  /\ UNCHANGED <<mpc, handles, runs, portVars>>

\* Mutant: Channel::new forgets its first ring when the second one fails.
EngineNewC2ELeaks ==
  /\ epc = "c2e"
  /\ \/ object' = [object EXCEPT !["C2E"] = "live"] /\ epc' = "handler"
     \/ object' = Free({"POOL"}) /\ epc' = "dead"
  /\ UNCHANGED <<mpc, handles, runs, portVars>>

\* The second Ring::new.  When it fails the first ring is dropped by `?`.
EngineNewC2E ==
  /\ epc = "c2e"
  /\ \/ object' = [object EXCEPT !["C2E"] = "live"] /\ epc' = "handler"
     \/ object' = Free({"E2C", "POOL"}) /\ epc' = "dead"
  /\ UNCHANGED <<mpc, handles, runs, portVars>>

\* handle_signal.  When set_handler fails main panics, and its channel and its
\* mempool are dropped, although a mux may have found them by now.
EngineHandler ==
  /\ epc = "handler"
  /\ \/ UNCHANGED object /\ epc' = "run"
     \/ object' = Free(Object) /\ epc' = "dead"
  /\ UNCHANGED <<mpc, handles, runs, portVars>>

\* Ctrl+C ends the loop; _pkt_stop_and_close_ports calls exit(0), so that
\* neither eal_cleanup nor any Drop of main runs.
EngineExit ==
  /\ epc = "run"
  /\ epc' = "exit"
  /\ UNCHANGED <<object, mpc, handles, runs, portVars>>

----------------------------------------------------------------------------
(* The mux *)

MuxStart ==
  /\ mpc = "dead" /\ runs < MaxRuns
  /\ mpc' = "E2C"
  /\ runs' = runs + 1
  /\ UNCHANGED <<object, epc, handles, portVars>>

\* What the mux looks up after o, and the order the wrappers are dropped in:
\* Mux drops its channel (to_engine, to_packetiser) before its mempool.
After == [E2C |-> "C2E", C2E |-> "POOL", POOL |-> "up"]
Kept == [E2C |-> <<"E2C">>, C2E |-> <<"C2E", "E2C">>,
         POOL |-> <<"C2E", "E2C", "POOL">>]

\* Mutant: a lookup that finds nothing is taken for a success.
LookupUnchecked(o) ==
  /\ mpc = o
  /\ mpc' = After[o]
  /\ handles' = Kept[o]
  /\ UNCHANGED <<object, epc, runs, portVars>>

\* Ring::lookup(E2P), Ring::lookup(P2E), Mempool::lookup in turn.
Lookup(o) ==
  /\ mpc = o /\ object[o] = "live"
  /\ mpc' = After[o]
  /\ handles' = Kept[o]
  /\ UNCHANGED <<object, epc, runs, portVars>>

\* NoEntries: `?` drops what was looked up before, and main panics.
LookupFails(o) ==
  /\ mpc = o /\ object[o] # "live"
  /\ mpc' = "drop"
  /\ UNCHANGED <<object, epc, handles, runs, portVars>>

\* The loop of main ends, or main unwinds from a panic.
MuxStop ==
  /\ mpc = "up"
  /\ mpc' = "drop"
  /\ UNCHANGED <<object, epc, handles, runs, portVars>>

\* Drop for Ring, Drop for Mempool: one wrapper at a time.
MuxDrop ==
  /\ mpc = "drop" /\ handles # <<>>
  /\ object' = Free({Head(handles)})
  /\ handles' = Tail(handles)
  /\ UNCHANGED <<epc, mpc, runs, portVars>>

MuxGone ==
  /\ mpc = "drop" /\ handles = <<>>
  /\ mpc' = "dead"
  /\ UNCHANGED <<object, epc, handles, runs, portVars>>

\* The mux is killed: nothing is dropped.
MuxKilled ==
  /\ mpc # "dead"
  /\ mpc' = "dead" /\ handles' = <<>>
  /\ UNCHANGED <<object, epc, runs, portVars>>

----------------------------------------------------------------------------
\* What the two processes do apart from the loop of the primary one.
Life ==
  \/ EngineEal \/ EngineNewPool \/ EnginePort \/ SecondPort
  \/ EngineReady \/ EngineNewE2C \/ EngineNewC2E \/ EngineHandler
  \/ MuxStart \/ MuxStop \/ MuxDrop \/ MuxGone \/ MuxKilled
  \/ \E o \in Object : Lookup(o) \/ LookupFails(o)

Next == Life \/ EngineExit

Spec == Init /\ [][Next]_vars

----------------------------------------------------------------------------
(* Properties *)

\* A mux that came up has an engine behind it, and never dpdk_loop: one that
\* has made its channel and runs (or has exited and left everything in place),
\* and then the pool and both rings stay alive for as long as the mux uses
\* them; or one that failed after all.
UpMeansConnected ==
  mpc = "up" =>
    /\ prog = "l3enginelib"
    /\ \/ epc = "dead"
       \/ /\ epc \in {"handler", "run", "exit"}
          /\ \A o \in Object : object[o] = "live"

\* When the engine cannot come up, wherever it fails, it takes back the pool
\* and the rings it had made, whatever a mux is doing at the same time.
FailedEngineLeavesNothing ==
  epc = "dead" => \A o \in Object : object[o] # "live"

TypeOK ==
  /\ object \in [Object -> {"none", "live", "freed"}]
  /\ epc \in Early \cup {"c2e", "handler", "run", "exit", "dead"}
  /\ mpc \in Object \cup {"dead", "up", "drop"}
  /\ handles \in Seq(Object)
  /\ runs \in Nat

\* Nothing is found before the engine has made it, and dpdk_loop makes no
\* ring that a mux could find.
MadeInOrder ==
  /\ epc \in {"eal", "pool"} => object["POOL"] = "none"
  /\ epc \in {"wait", "e2c", "c2e", "handler"} => prog = "l3enginelib"
  /\ epc \in Early \/ prog = "dpdk_loop" =>
       object["E2C"] = "none" /\ object["C2E"] = "none" /\ handles = <<>>
  /\ object["C2E"] = "live" => epc \in {"handler", "run", "exit"}
  /\ epc \in {"wait", "e2c", "c2e", "handler", "run", "exit"} => step = "started"

\* What a mux has looked up is alive until the mux itself lets go of it, or
\* the engine fails.
FoundIsKept ==
  /\ mpc \in {"C2E", "POOL", "up"} => prog = "l3enginelib"
  /\ mpc \in {"C2E", "POOL", "up"} /\ epc # "dead" => object["E2C"] = "live"
  /\ mpc \in {"POOL", "up"} /\ epc # "dead" => object["C2E"] = "live"
  /\ mpc = "up" /\ epc # "dead" => object["POOL"] = "live"

\* The inductive invariant: the order in which the engine makes its objects
\* and its port, what a mux may rely on, and what a failed engine leaves.
IInv ==
  TypeOK /\ PortInv /\ MadeInOrder /\ FoundIsKept /\ FailedEngineLeavesNothing
=============================================================================
