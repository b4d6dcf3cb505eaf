------------------------------ MODULE Channel ------------------------------
(***************************************************************************)
(* The channel between the engine (the primary DPDK process) and the mux   *)
(* (the secondary one): two rte_rings of mbuf pointers and the memory pool *)
(* the mbufs come from (src/l3enginelib/src/apis/memring.rs, mbuf.rs).     *)
(* The module follows who owns each mbuf.  An Mbuf handle owns its buffer  *)
(* until it is dropped or turned into a raw pointer by into_ptr; a raw     *)
(* pointer that no ring, pool or handle remembers is a leaked buffer.      *)
(* Both processes may call any operation at any time.                      *)
(***************************************************************************)
EXTENDS Naturals, Sequences, FiniteSets, Functions

CONSTANTS
  Mbuf,      \* the buffers of GLOBAL_MEMPOOL
  RingSize   \* how many pointers a ring holds (RING_CAPACITY - 1)

ASSUME MbufAssumption == IsFiniteSet(Mbuf)
ASSUME RingSizeAssumption == RingSize \in Nat \ {0}

VARIABLES
  pool,   \* the buffers the mempool can allocate
  ring,   \* the pointers queued in each ring, oldest first
  held,   \* the buffers each process owns a handle of
  lost    \* the buffers nobody remembers, by the place they got lost

vars == <<pool, ring, held, lost>>

Proc == {"engine", "mux"}
Ring == {"E2C", "C2E"}
Leak == {"full", "bulk", "dequeue", "burst", "into_ptr"}

\* E2C carries packets from the engine to the mux, C2E the other way.
Out(p) == IF p = "engine" THEN "E2C" ELSE "C2E"
In(p) == IF p = "engine" THEN "C2E" ELSE "E2C"

Init ==
  /\ pool = Mbuf
  /\ ring = [r \in Ring |-> <<>>]
  /\ held = [p \in Proc |-> {}]
  /\ lost = [l \in Leak |-> {}]

----------------------------------------------------------------------------
(* Mbuf *)

\* Mbuf::new, and from_bytes when the data fits.
New(p, m) ==
  /\ m \in pool
  /\ pool' = pool \ {m}
  /\ held' = [held EXCEPT ![p] = @ \cup {m}]
  /\ UNCHANGED <<ring, lost>>

\* The pool is empty: MemoryError::NoBuf.
NewNoBuf(p) == pool = {} /\ UNCHANGED vars

\* Mbuf::alloc_bulk: all of the buffers or none (NoBuf).
AllocBulk(p, S) ==
  /\ S \subseteq pool
  /\ pool' = pool \ S
  /\ held' = [held EXCEPT ![p] = @ \cup S]
  /\ UNCHANGED <<ring, lost>>

\* Drop for Mbuf, free_bulk, and a Vec of handles going out of scope.
Free(p, S) ==
  /\ S \subseteq held[p]
  /\ pool' = pool \cup S
  /\ held' = [held EXCEPT ![p] = @ \ S]
  /\ UNCHANGED <<ring, lost>>

\* Mbuf::into_ptr called outside this module: only the caller knows the
\* pointer now, and no function of the repository gives it back.
IntoPtr(p, m) ==
  /\ m \in held[p]
  /\ held' = [held EXCEPT ![p] = @ \ {m}]
  /\ lost' = [lost EXCEPT !["into_ptr"] = @ \cup {m}]
  /\ UNCHANGED <<pool, ring>>

----------------------------------------------------------------------------
(* Ring *)

\* Mutant: the buffer is handed over by get_ptr, so its handle survives.
EnqueueKeepsHandle(p, m) ==
  /\ m \in held[p]
  /\ Len(ring[Out(p)]) < RingSize
  /\ ring' = [ring EXCEPT ![Out(p)] = Append(@, m)]
  /\ UNCHANGED <<pool, held, lost>>

\* enqueue: into_ptr gives up the handle, the ring keeps the pointer.
Enqueue(p, m) ==
  /\ m \in held[p]
  /\ Len(ring[Out(p)]) < RingSize
  /\ held' = [held EXCEPT ![p] = @ \ {m}]
  /\ ring' = [ring EXCEPT ![Out(p)] = Append(@, m)]
  /\ UNCHANGED <<pool, lost>>

\* enqueue on a full ring: the handle is gone when the error is returned.
EnqueueFull(p, m) ==
  /\ m \in held[p]
  /\ Len(ring[Out(p)]) = RingSize
  /\ held' = [held EXCEPT ![p] = @ \ {m}]
  /\ lost' = [lost EXCEPT !["full"] = @ \cup {m}]
  /\ UNCHANGED <<pool, ring>>

\* dequeue(&mut pkt): rte_ring_dequeue stores the oldest pointer in a
\* temporary copy of pkt's pointer.  pkt itself still owns its old buffer.
Dequeue(p) ==
  /\ held[p] # {}
  /\ ring[In(p)] # <<>>
  /\ ring' = [ring EXCEPT ![In(p)] = Tail(@)]
  /\ lost' = [lost EXCEPT !["dequeue"] = @ \cup {Head(ring[In(p)])}]
  /\ UNCHANGED <<pool, held>>

DequeueEmpty(p) == held[p] # {} /\ ring[In(p)] = <<>> /\ UNCHANGED vars

\* enqueue_bulk: every handle is drained into ptrs, and the ring is then
\* asked to enqueue pkts.len() of them, which is 0 by now.
EnqueueBulk(p, S) ==
  /\ S \subseteq held[p]
  /\ held' = [held EXCEPT ![p] = @ \ S]
  /\ lost' = [lost EXCEPT !["bulk"] = @ \cup S]
  /\ UNCHANGED <<pool, ring>>

\* How many pointers a burst of n takes out of ring r.
Burst(r, n) == IF n < Len(ring[r]) THEN n ELSE Len(ring[r])

\* dequeue_burst(pkts): up to pkts.len() pointers are stored over the local
\* copies of the pkts' pointers; the handles in pkts stay what they were.
DequeueBurst(p, S) ==
  LET k == Burst(In(p), Cardinality(S)) IN
  /\ S \subseteq held[p]
  /\ k > 0
  /\ ring' = [ring EXCEPT ![In(p)] = SubSeq(@, k + 1, Len(@))]
  /\ lost' = [lost EXCEPT !["burst"] = @ \cup Range(SubSeq(ring[In(p)], 1, k))]
  /\ UNCHANGED <<pool, held>>

----------------------------------------------------------------------------
\* Whatever process p may call next.
Call(p) ==
  \/ \E m \in Mbuf : \/ New(p, m) \/ IntoPtr(p, m)
                     \/ Enqueue(p, m) \/ EnqueueFull(p, m)
  \/ \E S \in (SUBSET Mbuf) \ {{}} :
       AllocBulk(p, S) \/ Free(p, S) \/ EnqueueBulk(p, S)
                       \/ DequeueBurst(p, S)
  \/ NewNoBuf(p) \/ Dequeue(p) \/ DequeueEmpty(p)

Next == \E p \in Proc : Call(p)

Spec == Init /\ [][Next]_vars

----------------------------------------------------------------------------
(* Properties *)

TypeOK ==
  /\ pool \subseteq Mbuf
  /\ ring \in [Ring -> Seq(Mbuf)]
  /\ held \in [Proc -> SUBSET Mbuf]
  /\ lost \in [Leak -> SUBSET Mbuf]

\* The places a buffer can be in.
Place == {"pool"} \cup Ring \cup Proc \cup Leak

At(l) ==
  IF l = "pool" THEN pool
  ELSE IF l \in Ring THEN Range(ring[l])
  ELSE IF l \in Proc THEN held[l]
  ELSE lost[l]

\* Whatever the two processes do, a buffer is never in two places: nobody
\* owns a buffer that is also in the pool, in a ring, or the other's.
OneOwner == \A l1, l2 \in Place : l1 # l2 => At(l1) \cap At(l2) = {}

\* No ring holds the same pointer twice.
NoDuplicates == \A r \in Ring : IsInjective(ring[r])

\* Nor does a buffer disappear from the books.
Accounted == Mbuf = UNION {At(l) : l \in Place}

\* Ownership of the buffers as a whole: the inductive invariant.
Ownership == TypeOK /\ OneOwner /\ NoDuplicates /\ Accounted

\* memring.rs:25 "A ring is intended to communicate between two DPDK processes
\* by sending/receiving `Mbuf`": a packet that its sender gives to a ring which
\* does not refuse it is in that ring until the other process takes it, and
\* then it is one of that process's handles; it is not forgotten on the way.
PacketsHandedOver == lost["bulk"] = {} /\ lost["dequeue"] = {} /\ lost["burst"] = {}
=============================================================================
