-------------------------------- MODULE Mux --------------------------------
(***************************************************************************)
(* The Mux of the secondary process (src/l3enginemux/src/mux/mod.rs): the  *)
(* channel to the engine, the queues in_buf and out_buf, and the functions *)
(* that move mbufs between them, one thread calling them while the engine  *)
(* uses its end of the channel.  A function that allocates or frees buffer *)
(* by buffer, or calls the ring in between, is split there: the engine's   *)
(* steps come in between.                                                  *)
(* held["mux"] is every handle the process owns; pkts, in_buf, out_buf and *)
(* routed say where a handle is.                                           *)
(***************************************************************************)
EXTENDS Naturals, Sequences, FiniteSets, Functions

CONSTANTS
  Mbuf, RingSize,   \* as in Channel
  BurstSz           \* capacity of in_buf and of out_buf

ASSUME BurstSzAssumption == BurstSz \in Nat \ {0}
ASSUME SizesAssumption == IsFiniteSet(Mbuf) /\ RingSize \in Nat \ {0}

VARIABLES
  pool, ring, held, lost,   \* as in Channel
  in_buf,    \* the ArrayQueue of incoming packets
  out_buf,   \* the ArrayQueue of outgoing packets
  routed,    \* the handles with a worker, in a client's channel or with its
             \* handler
  pkts,      \* the local Vec of the running function
  want,      \* its local len
  pc         \* where the thread is

vars == <<pool, ring, held, lost, in_buf, out_buf, routed, pkts, want, pc>>

Ch == INSTANCE Channel

Init ==
  /\ Ch!Init
  /\ in_buf = <<>> /\ out_buf = <<>> /\ routed = {} /\ pkts = <<>>
  /\ want = 0 /\ pc = "idle"

----------------------------------------------------------------------------
(* recv_from_engine_burst *)

\* Mutant: the room left in in_buf is taken for its whole capacity.
BurstBeginWhole ==
  /\ pc = "idle"
  /\ want' = BurstSz
  /\ pc' = "alloc"
  /\ UNCHANGED <<pool, ring, held, lost, in_buf, out_buf, routed, pkts>>

\* len = in_buf.capacity() - in_buf.len()
BurstBegin ==
  /\ pc = "idle"
  /\ want' = BurstSz - Len(in_buf)
  /\ pc' = "alloc"
  /\ UNCHANGED <<pool, ring, held, lost, in_buf, out_buf, routed, pkts>>

\* One Mbuf::new of the loop that fills pkts.
BurstAlloc ==
  /\ pc = "alloc" /\ Len(pkts) < want
  /\ \E m \in Mbuf : Ch!New("mux", m) /\ pkts' = Append(pkts, m)
  /\ UNCHANGED <<in_buf, out_buf, routed, want, pc>>

\* pkts holds len buffers, or the pool is empty (pkts.truncate(k) keeps all).
BurstAllocDone ==
  /\ pc = "alloc" /\ (Len(pkts) = want \/ pool = {})
  /\ pc' = "dequeue"
  /\ UNCHANGED <<pool, ring, held, lost, in_buf, out_buf, routed, pkts, want>>

\* channel.recv_from_engine_burst(&mut pkts, len): sz pointers leave the
\* ring.  want holds sz from here on.
BurstDequeue ==
  /\ pc = "dequeue"
  /\ want' = Ch!Burst("E2C", Len(pkts))
  /\ \/ Ch!DequeueBurst("mux", Range(pkts))
     \/ want' = 0 /\ UNCHANGED <<pool, ring, held, lost>>
  /\ pc' = "truncate"
  /\ UNCHANGED <<in_buf, out_buf, routed, pkts>>

\* Mutant: all of pkts is freed, what is kept included.
BurstTruncateFreesAll ==
  /\ pc = "truncate"
  /\ Ch!Free("mux", Range(pkts))
  /\ pkts' = SubSeq(pkts, 1, want)
  /\ pc' = "push"
  /\ UNCHANGED <<in_buf, out_buf, routed, want>>

\* pkts.truncate(sz) drops the buffers that no packet was received for.
BurstTruncate ==
  /\ pc = "truncate"
  /\ Ch!Free("mux", Range(SubSeq(pkts, want + 1, Len(pkts))))
  /\ pkts' = SubSeq(pkts, 1, want)
  /\ pc' = "push"
  /\ UNCHANGED <<in_buf, out_buf, routed, want>>

\* pkts.drain(..) pushes the rest; unwrap panics when in_buf is full.
BurstPush ==
  /\ pc = "push"
  /\ in_buf' = in_buf \o pkts
  /\ pkts' = <<>> /\ want' = 0
  /\ pc' = IF Len(in_buf) + Len(pkts) <= BurstSz THEN "idle" ELSE "panic"
  /\ UNCHANGED <<pool, ring, held, lost, out_buf, routed>>

----------------------------------------------------------------------------
(* The other operations *)

\* in_buf.pop(): the packet goes to a worker.
Route ==
  /\ pc = "idle" /\ in_buf # <<>>
  /\ routed' = routed \cup {Head(in_buf)}
  /\ in_buf' = Tail(in_buf)
  /\ UNCHANGED <<pool, ring, held, lost, out_buf, pkts, want, pc>>

\* The worker drops the packet, or it waits in a client's channel until its
\* handler gives it up by into_ptr, or until it is dropped with the channel.
\* The handlers are threads of their own: it may happen at any time.
Consume ==
  /\ \E m \in routed :
       /\ Ch!Free("mux", {m}) \/ Ch!IntoPtr("mux", m)
       /\ routed' = routed \ {m}
  /\ UNCHANGED <<in_buf, out_buf, pkts, want, pc>>

\* A packet for the engine is put into out_buf.
Queue ==
  /\ pc = "idle" /\ Len(out_buf) < BurstSz
  /\ \E m \in Mbuf : Ch!New("mux", m) /\ out_buf' = Append(out_buf, m)
  /\ UNCHANGED <<in_buf, routed, pkts, want, pc>>

\* xmit_to_engine_bulk: out_buf is emptied into pkts and sent in bulk.
XmitBulk ==
  /\ pc = "idle" /\ out_buf # <<>>
  /\ Ch!EnqueueBulk("mux", Range(out_buf))
  /\ out_buf' = <<>>
  /\ UNCHANGED <<in_buf, routed, pkts, want, pc>>

\* recv and xmit begin with Mbuf::from_bytes.
RecvOrXmitBegin(f) ==
  /\ pc = "idle"
  /\ \E m \in Mbuf : Ch!New("mux", m) /\ pkts' = <<m>>
  /\ pc' = f
  /\ UNCHANGED <<in_buf, out_buf, routed, want>>

\* recv: channel.receive_from_engine(&mut pkt), then pkt is dropped.
RecvDequeue ==
  /\ pc = "recv"
  /\ Ch!Dequeue("mux") \/ Ch!DequeueEmpty("mux")
  /\ pc' = "drop"
  /\ UNCHANGED <<in_buf, out_buf, routed, pkts, want>>

RecvDrop ==
  /\ pc = "drop"
  /\ Ch!Free("mux", Range(pkts))
  /\ pkts' = <<>>
  /\ pc' = "idle"
  /\ UNCHANGED <<in_buf, out_buf, routed, want>>

\* xmit: channel.send_to_engine(pkt).
XmitSend ==
  /\ pc = "xmit"
  /\ Ch!Enqueue("mux", pkts[1]) \/ Ch!EnqueueFull("mux", pkts[1])
  /\ pkts' = <<>>
  /\ pc' = "idle"
  /\ UNCHANGED <<in_buf, out_buf, routed, want>>

----------------------------------------------------------------------------
(* The engine's end of the channel *)

\* The other process may call whatever Channel and Mbuf offer, one packet at a
\* time or in bulk (l3enginelib's own main uses the bulk calls only).
Engine ==
  /\ Ch!Call("engine")
  /\ UNCHANGED <<in_buf, out_buf, routed, pkts, want, pc>>

Next ==
  \/ BurstBegin \/ BurstAlloc \/ BurstAllocDone \/ BurstDequeue
  \/ BurstTruncate \/ BurstPush
  \/ Route \/ Consume \/ Queue \/ XmitBulk
  \/ RecvOrXmitBegin("recv") \/ RecvOrXmitBegin("xmit")
  \/ RecvDequeue \/ RecvDrop \/ XmitSend
  \/ Engine

Spec == Init /\ [][Next]_vars

----------------------------------------------------------------------------
(* Properties *)

\* in_buf.push(pkt).unwrap() never panics (mod.rs:94, "we should never hit
\* the unwrap"), also when the pool runs dry or the ring holds more packets
\* than were asked for.
NeverHitTheUnwrap == pc # "panic"

\* No handle is in two places, none is dropped or lost while some place still
\* has it: what the threads of the process work on, the packets that wait in
\* the clients' channels included, is exactly what the process owns.
HandlesAreOwned ==
  LET all == pkts \o in_buf \o out_buf IN
  /\ IsInjective(all) /\ Range(all) \cap routed = {}
  /\ Range(all) \cup routed = held["mux"]
=============================================================================
