------------------------------ MODULE RingBuf ------------------------------
(***************************************************************************)
(* The circular queue of ipc-queue (src/ipc-queue/src/lib.rs): a base      *)
(* pointer into shared memory and two atomic indexes, used by one producer *)
(* and one consumer.  push and pop are split where the other side can see  *)
(* the difference: the test of the indexes, the store of the own index,    *)
(* and the access to the slot.  Each side alone stores its own index, so   *)
(* its Relaxed load is part of the test.                                   *)
(*                                                                         *)
(* An element is represented by its ordinal: the n-th element pushed is n. *)
(* 0 is no element: what memory holds before anything was written to it.   *)
(***************************************************************************)
EXTENDS Integers, Sequences

CONSTANTS
  Capacity,  \* the capacity given to RingBuf::new
  MaxPush    \* bound: how many elements a behaviour pushes

ASSUME CapacityAssumption == Capacity \in Nat \ {0}
ASSUME MaxPushAssumption == MaxPush \in Nat

VARIABLES
  shared,  \* TRUE: a producer and a consumer thread share the RingBuf;
           \* FALSE: one thread owns it and calls push and pop in turn
  slots,   \* the memory behind base
  write,   \* index of the slot pushed last
  read,    \* index of the slot popped last
  ppc,     \* where the producer is inside push
  pcur,    \* cur_ind of that push
  pout,    \* what the last push returned
  cpc,     \* where the consumer is inside pop
  ccur,    \* cur_ind of that pop
  cout,    \* what the last pop returned
  npush,   \* history: how many times write was stored
  npop     \* history: how many times read was stored

vars == <<shared, slots, write, read, ppc, pcur, pout, cpc, ccur, cout,
          npush, npop>>

Slot == 0 .. (Capacity - 1)

\* new: both indexes start at 0 over memory it does not touch.
Init ==
  /\ shared \in BOOLEAN
  /\ slots = [i \in Slot |-> 0]
  /\ write = 0 /\ read = 0
  /\ ppc = "idle" /\ pcur = 0 /\ pout = "none"
  /\ cpc = "idle" /\ ccur = 0 /\ cout = <<"none">>
  /\ npush = 0 /\ npop = 0

----------------------------------------------------------------------------
(* push *)

\* Mutant: the index is not wrapped.
AdvanceUnwrapped(i) == i + 1

\* (cur_ind + 1) % self.capacity
Advance(i) == (i + 1) % Capacity

\* Mutant: indexes that meet are taken for a full buffer.
PushFullWhenEqual ==
  /\ ppc = "idle"
  /\ shared \/ cpc = "idle"
  /\ write = read
  /\ pout' = "full"
  /\ UNCHANGED <<shared, slots, write, read, ppc, pcur, cpc, ccur, cout,
                 npush, npop>>

\* The next slot is the one popped last: "Buf full".
PushFull ==
  /\ ppc = "idle"
  /\ shared \/ cpc = "idle"
  /\ Advance(write) = read
  /\ pout' = "full"
  /\ UNCHANGED <<shared, slots, write, read, ppc, pcur, cpc, ccur, cout,
                 npush, npop>>

\* Mutant: a full buffer is not noticed.
PushReserveUntested ==
  /\ ppc = "idle"
  /\ shared \/ cpc = "idle"
  /\ npush < MaxPush
  /\ pcur' = Advance(write)
  /\ ppc' = "publish"
  /\ UNCHANGED <<shared, slots, write, read, pout, cpc, ccur, cout, npush,
                 npop>>

PushReserve ==
  /\ ppc = "idle"
  /\ shared \/ cpc = "idle"
  /\ npush < MaxPush
  /\ Advance(write) # read
  /\ pcur' = Advance(write)
  /\ ppc' = "publish"
  /\ UNCHANGED <<shared, slots, write, read, pout, cpc, ccur, cout, npush,
                 npop>>

\* self.write.store(cur_ind, Release), before the element is in its slot.
PushPublish ==
  /\ ppc = "publish"
  /\ write' = pcur
  /\ npush' = npush + 1
  /\ ppc' = "store"
  /\ UNCHANGED <<shared, slots, read, pcur, pout, cpc, ccur, cout, npop>>

\* ptr::write(self.base.offset(cur_ind), elem)
PushStore ==
  /\ ppc = "store"
  /\ slots' = [slots EXCEPT ![pcur] = npush]
  /\ ppc' = "idle"
  /\ pout' = "ok"
  /\ UNCHANGED <<shared, write, read, pcur, cpc, ccur, cout, npush, npop>>

----------------------------------------------------------------------------
(* pop *)

PopEmpty ==
  /\ cpc = "idle"
  /\ shared \/ ppc = "idle"
  /\ read = write
  /\ cout' = <<"none">>
  /\ UNCHANGED <<shared, slots, write, read, ppc, pcur, pout, cpc, ccur,
                 npush, npop>>

\* Mutant: the last queued element is taken for an empty buffer.
PopReserveLeavesOne ==
  /\ cpc = "idle"
  /\ shared \/ ppc = "idle"
  /\ read # write /\ Advance(read) # write
  /\ ccur' = Advance(read)
  /\ cpc' = "publish"
  /\ UNCHANGED <<shared, slots, write, read, ppc, pcur, pout, cout, npush,
                 npop>>

PopReserve ==
  /\ cpc = "idle"
  /\ shared \/ ppc = "idle"
  /\ read # write
  /\ ccur' = Advance(read)
  /\ cpc' = "publish"
  /\ UNCHANGED <<shared, slots, write, read, ppc, pcur, pout, cout, npush,
                 npop>>

\* self.read.store(cur_ind, Release), before the element is taken out.
PopPublish ==
  /\ cpc = "publish"
  /\ read' = ccur
  /\ npop' = npop + 1
  /\ cpc' = "load"
  /\ UNCHANGED <<shared, slots, write, ppc, pcur, pout, ccur, cout, npush>>

\* Mutant: the slot is read at the index that was popped before.
PopLoadPrevious ==
  /\ cpc = "load"
  /\ cout' = <<"some", slots[(ccur + Capacity - 1) % Capacity]>>
  /\ cpc' = "idle"
  /\ UNCHANGED <<shared, slots, write, read, ppc, pcur, pout, ccur, npush,
                 npop>>

\* ptr::read(self.base.offset(cur_ind)).  Neither access to the slot is
\* atomic: a load that races the store of the same slot finds the old
\* element, the new one, or a mixture of both (0, no element at all).
PopLoad ==
  /\ cpc = "load"
  /\ \E e \in IF ppc = "store" /\ pcur = ccur
              THEN {slots[ccur], npush, 0} ELSE {slots[ccur]} :
       cout' = <<"some", e>>
  /\ cpc' = "idle"
  /\ UNCHANGED <<shared, slots, write, read, ppc, pcur, pout, ccur, npush,
                 npop>>

----------------------------------------------------------------------------
Consumer == PopEmpty \/ PopReserve \/ PopPublish \/ PopLoad

Next ==
  \/ PushFull \/ PushReserve \/ PushPublish \/ PushStore
  \/ PopEmpty \/ PopReserve \/ PopPublish \/ PopLoad

Spec == Init /\ [][Next]_vars

\* The consumer polls: it goes on calling pop, and a call that was begun is
\* carried on.  The producer may stop at any time, but not inside push.
FairSpec ==
  /\ Spec
  /\ WF_vars(Consumer)
  /\ WF_vars(PushPublish \/ PushStore)

----------------------------------------------------------------------------
(* Properties *)

TypeOK ==
  /\ shared \in BOOLEAN
  /\ slots \in [Slot -> 0 .. MaxPush]
  /\ write \in Slot /\ read \in Slot
  /\ pcur \in Slot /\ ccur \in Slot
  /\ ppc \in {"idle", "publish", "store"}
  /\ cpc \in {"idle", "publish", "load"}
  /\ pout \in {"none", "ok", "full"}
  /\ cout \in {<<"none">>} \cup ({"some"} \X (0 .. MaxPush))
  /\ npush \in 0 .. MaxPush /\ npop \in 0 .. MaxPush

\* However push and pop interleave, the two indexes never run past each
\* other: they stay the positions of the last push and of the last pop, and
\* at most Capacity - 1 elements lie between them (lib.rs:27, "The size of
\* the queue is 1 less than the provided capacity").
Occupancy ==
  /\ write = npush % Capacity
  /\ read = npop % Capacity
  /\ npush - npop \in 0 .. (Capacity - 1)

\* pop stores read before it takes the element out, yet the producer never
\* overwrites the slot in between: what the consumer is about to load is its
\* own element, unless that very element has not been stored yet by push.
LoadSeesOwnElement ==
  cpc = "load" =>
    \/ slots[ccur] = npop
    \/ ppc = "store" /\ pcur = ccur /\ npush = npop

\* Why the two invariants above hold: an operation in progress owns the
\* position after its side's index, and every queued position but the one
\* being stored holds its element.
Reservations ==
  /\ ppc = "publish" => /\ pcur = (npush + 1) % Capacity
                        /\ npush < MaxPush
                        /\ npush + 1 - npop <= Capacity - 1
  /\ ppc = "store" => pcur = npush % Capacity /\ npush >= 1
  /\ cpc = "publish" => ccur = (npop + 1) % Capacity /\ npop < npush
  /\ cpc = "load" => ccur = npop % Capacity /\ npop >= 1

Contents ==
  \A k \in (npop + 1) .. npush :
    slots[k % Capacity] = k \/ (k = npush /\ ppc = "store")

\* The inductive invariant: the slot protocol of push and pop as a whole.
IInv == TypeOK /\ Occupancy /\ Reservations /\ Contents /\ LoadSeesOwnElement

\* What pop returns is the oldest element that was not popped before.
ReturnsInOrder ==
  cpc # "load" => (cout = <<"none">> \/ cout = <<"some", npop>>)

\* So it is for a user who calls push and pop in turn, wrap-around included.
PopsInOrder == ~shared => ReturnsInOrder

\* Every element pushed is popped by a consumer that keeps polling.
EveryPushPopped ==
  \A n \in 1 .. MaxPush : (npush >= n) ~> (npop >= n)

\* The queue as its users see it.  To a thread that calls push and pop in
\* turn it is what the slots between the indexes hold; two threads hand each
\* other positions, whatever the slots hold by then.
Stored == IF ppc = "store" THEN npush - 1 ELSE npush
Taken == IF cpc = "load" THEN npop - 1 ELSE npop

Queue ==
  INSTANCE BoundedQueue WITH
    Elem <- 1 .. MaxPush,
    Size <- Capacity - 1,
    q <- IF shared
         THEN [i \in 1 .. (npush - npop) |-> npop + i]
         ELSE [i \in 1 .. (Stored - Taken) |-> slots[(Taken + i) % Capacity]],
    pout <- IF shared /\ ppc = "store" THEN "ok" ELSE pout,
    cout <- IF shared
            THEN IF cpc = "load" \/ cout[1] = "some"
                 THEN <<"some", npop>> ELSE <<"none">>
            ELSE cout

\* push and pop implement the bounded FIFO: order, contents, and the "Buf
\* full" and None answers when called in turn; and with two threads running,
\* positions are handed over first in first out, and "Buf full" and None are
\* only ever answered when they are true.
IsBoundedFifo == Queue!Spec
=============================================================================
