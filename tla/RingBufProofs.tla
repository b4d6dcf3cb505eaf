--------------------------- MODULE RingBufProofs ---------------------------
(***************************************************************************)
(* For every capacity and every number of pushes: the indexes of a RingBuf *)
(* shared by a producer and a consumer never run past each other, and the  *)
(* slot a pop has claimed is never overwritten before the pop loads it.    *)
(***************************************************************************)
EXTENDS RingBuf, TLAPS

----------------------------------------------------------------------------
(* Arithmetic of the wrap-around, (cur_ind + 1) % self.capacity *)

\* Quotient and remainder of a position by the capacity.
LEMMA DivMod ==
  ASSUME NEW c \in Nat \ {0}, NEW n \in Nat
  PROVE  /\ n % c \in 0 .. (c - 1)
         /\ n \div c \in Nat
         /\ n = c * (n \div c) + (n % c)
  BY SMT

\* The remainder is determined by the decomposition.
LEMMA ModUnique ==
  ASSUME NEW c \in Nat \ {0}, NEW k \in Int, NEW r \in 0 .. (c - 1)
  PROVE  (c * k + r) % c = r
  BY SMT

\* Advancing an index is advancing the position it stands for.
LEMMA ModSucc ==
  ASSUME NEW c \in Nat \ {0}, NEW n \in Nat
  PROVE  ((n % c) + 1) % c = (n + 1) % c
<1> DEFINE k == n \div c
           r == n % c
<1>1. k \in Nat /\ r \in 0 .. (c - 1) /\ n = c * k + r
  BY DivMod
<1> HIDE DEF k, r
<1>2. CASE r + 1 < c
  <2>1. r + 1 \in 0 .. (c - 1)
    BY <1>1, <1>2
  <2>2. (c * k + (r + 1)) % c = r + 1
    BY <1>1, <2>1, ModUnique
  <2>3. (c * 0 + (r + 1)) % c = r + 1
    BY <2>1, ModUnique
  <2>4. n + 1 = c * k + (r + 1) /\ c * 0 + (r + 1) = r + 1
    BY <1>1
  <2> QED
    BY <2>2, <2>3, <2>4 DEF r
<1>3. CASE r + 1 = c
  <2>1. (c * (k + 1) + 0) % c = 0
    BY <1>1, ModUnique
  <2>2. (c * 1 + 0) % c = 0
    BY <1>1, ModUnique
  <2>3. n + 1 = c * (k + 1) + 0 /\ r + 1 = c * 1 + 0
    BY <1>1, <1>3
  <2> QED
    BY <2>1, <2>2, <2>3 DEF r
<1> QED
  BY <1>1, <1>2, <1>3

\* Positions a capacity apart lie in the same slot.
LEMMA ModLap ==
  ASSUME NEW c \in Nat \ {0}, NEW n \in Nat
  PROVE  (n + c) % c = n % c
<1> DEFINE k == n \div c
           r == n % c
<1>1. k \in Nat /\ r \in 0 .. (c - 1) /\ n = c * k + r
  BY DivMod
<1> HIDE DEF k, r
<1>2. (c * (k + 1) + r) % c = r
  BY <1>1, ModUnique
<1>3. n + c = c * (k + 1) + r
  BY <1>1
<1> QED
  BY <1>2, <1>3 DEF r

\* Positions less than a capacity apart lie in different slots.
LEMMA ModDistinct ==
  ASSUME NEW c \in Nat \ {0}, NEW m \in Nat, NEW n \in Nat,
         m < n, n - m < c
  PROVE  m % c # n % c
<1> DEFINE a == m \div c
           b == n \div c
<1> SUFFICES ASSUME m % c = n % c
             PROVE  FALSE
  OBVIOUS
<1>1. /\ a \in Int /\ b \in Int
      /\ m = c * a + (m % c) /\ n = c * b + (n % c)
  BY DivMod
<1>2. n - m = c * (b - a) /\ b - a \in Int
  BY <1>1
<1> HIDE DEF a, b
<1>3. CASE b - a <= 0
  BY <1>2, <1>3
<1>4. CASE b - a >= 1
  BY <1>2, <1>4
<1> QED
  BY <1>2, <1>3, <1>4

----------------------------------------------------------------------------
(* The inductive invariant *)

USE CapacityAssumption, MaxPushAssumption

\* Stepping the index of position n gives the index of position n + 1.
LEMMA AdvanceIndex ==
  ASSUME NEW n \in Nat
  PROVE  Advance(n % Capacity) = (n + 1) % Capacity
  BY ModSucc DEF Advance

\* RingBuf::new establishes the slot protocol.
LEMMA InitIInv == Init => IInv
<1> SUFFICES ASSUME Init PROVE IInv
  OBVIOUS
<1>1. 0 % Capacity = 0
  <2>1. (Capacity * 0 + 0) % Capacity = 0
    BY ModUnique
  <2> QED
    BY <2>1
<1>2. TypeOK
  BY DEF Init, TypeOK, Slot
<1>3. Occupancy
  BY <1>1 DEF Init, Occupancy
<1>4. Reservations /\ Contents /\ LoadSeesOwnElement
  BY DEF Init, Reservations, Contents, LoadSeesOwnElement
<1> QED
  BY <1>2, <1>3, <1>4 DEF IInv

\* Every step of push and of pop preserves the slot protocol.
LEMMA NextIInv == IInv /\ [Next]_vars => IInv'
<1> SUFFICES ASSUME IInv, [Next]_vars
             PROVE  IInv'
  OBVIOUS
<1> USE DEF IInv
<1>1. CASE PushFull
  BY <1>1 DEF PushFull, TypeOK, Occupancy, Reservations, Contents,
              LoadSeesOwnElement
<1>2. CASE PushReserve
  <2>1. pcur' = (npush + 1) % Capacity /\ pcur' \in Slot
    <3>1. npush \in Nat /\ npush + 1 \in Nat
      BY DEF TypeOK
    <3>2. pcur' = (npush + 1) % Capacity
      BY <1>2, <3>1, AdvanceIndex DEF PushReserve, Occupancy
    <3> QED
      BY <3>1, <3>2, DivMod DEF Slot
  <2>2. npush + 1 - npop # Capacity
    \* otherwise the next slot would be the one popped last
    <3> SUFFICES ASSUME npush + 1 = npop + Capacity PROVE FALSE
      BY DEF TypeOK
    <3>1. npop \in Nat /\ npush \in Nat
      BY DEF TypeOK
    <3>2. (npop + Capacity) % Capacity = npop % Capacity
      BY <3>1, ModLap
    <3> QED
      BY <1>2, <2>1, <3>2 DEF PushReserve, Occupancy
  <2>3. TypeOK' /\ Occupancy' /\ Contents' /\ LoadSeesOwnElement'
    BY <1>2, <2>1 DEF PushReserve, TypeOK, Occupancy, Contents,
                      LoadSeesOwnElement
  <2>4. Reservations'
    BY <1>2, <2>1, <2>2 DEF PushReserve, TypeOK, Occupancy, Reservations
  <2> QED
    BY <2>3, <2>4
<1>3. CASE PushPublish
  <2>1. TypeOK'
    BY <1>3 DEF PushPublish, TypeOK, Reservations
  <2>2. Occupancy' /\ Reservations'
    BY <1>3 DEF PushPublish, TypeOK, Occupancy, Reservations
  <2>4. Contents'
    BY <1>3 DEF PushPublish, TypeOK, Contents
  <2>3. LoadSeesOwnElement'
    BY <1>3 DEF PushPublish, TypeOK, Occupancy, Reservations,
                LoadSeesOwnElement
  <2> QED
    BY <2>1, <2>2, <2>3, <2>4
<1>4. CASE PushStore
  <2>1. TypeOK' /\ Occupancy' /\ Reservations'
    BY <1>4 DEF PushStore, TypeOK, Occupancy, Reservations
  <2>2. Contents'
    <3> SUFFICES ASSUME NEW k \in (npop + 1) .. npush
                 PROVE  slots'[k % Capacity] = k
      BY <1>4 DEF PushStore, Contents
    <3>1. k % Capacity \in Slot /\ k \in Nat /\ npush \in Nat
      BY DivMod DEF TypeOK, Slot
    <3>2. CASE k = npush
      BY <1>4, <3>1, <3>2 DEF PushStore, TypeOK, Reservations
    <3>3. CASE k # npush
      <4>1. k < npush /\ npush - k < Capacity
        BY <3>1, <3>3 DEF Occupancy, TypeOK
      <4>2. k % Capacity # npush % Capacity
        BY <3>1, <4>1, ModDistinct
      <4> QED
        BY <1>4, <3>1, <3>3, <4>2 DEF PushStore, TypeOK, Reservations, Contents
    <3> QED
      BY <3>2, <3>3
  <2>3. LoadSeesOwnElement'
    <3> SUFFICES ASSUME cpc = "load"
                 PROVE  slots'[ccur] = npop
      BY <1>4 DEF PushStore, LoadSeesOwnElement
    <3>1. CASE npush = npop
      BY <1>4, <3>1 DEF PushStore, TypeOK, Reservations
    <3>2. CASE npush # npop
      <4>1. /\ npop \in Nat /\ npush \in Nat
            /\ npop < npush /\ npush - npop < Capacity
        BY <3>2 DEF Occupancy, TypeOK
      <4>2. npop % Capacity # npush % Capacity
        BY <4>1, ModDistinct
      <4> QED
        BY <1>4, <3>2, <4>2 DEF PushStore, TypeOK, Reservations,
                                LoadSeesOwnElement
    <3> QED
      BY <3>1, <3>2
  <2> QED
    BY <2>1, <2>2, <2>3
<1>5. CASE PopEmpty
  BY <1>5 DEF PopEmpty, TypeOK, Occupancy, Reservations, Contents,
              LoadSeesOwnElement
<1>6. CASE PopReserve
  <2>1. ccur' = (npop + 1) % Capacity /\ ccur' \in Slot
    <3>1. npop \in Nat /\ npop + 1 \in Nat
      BY DEF TypeOK
    <3>2. ccur' = (npop + 1) % Capacity
      BY <1>6, <3>1, AdvanceIndex DEF PopReserve, Occupancy
    <3> QED
      BY <3>1, <3>2, DivMod DEF Slot
  <2>2. npop < npush
    BY <1>6 DEF PopReserve, TypeOK, Occupancy
  <2> QED
    BY <1>6, <2>1, <2>2 DEF PopReserve, TypeOK, Occupancy, Reservations,
                            Contents, LoadSeesOwnElement
<1>7. CASE PopPublish
  <2>1. TypeOK' /\ Occupancy' /\ Reservations'
    BY <1>7 DEF PopPublish, TypeOK, Occupancy, Reservations
  <2>2. Contents'
    BY <1>7 DEF PopPublish, TypeOK, Contents
  <2>3. LoadSeesOwnElement'
    <3>1. slots[(npop + 1) % Capacity] = npop + 1
          \/ (npop + 1 = npush /\ ppc = "store")
      BY <1>7 DEF PopPublish, TypeOK, Reservations, Contents
    <3> QED
      BY <1>7, <3>1 DEF PopPublish, TypeOK, Reservations, LoadSeesOwnElement
  <2> QED
    BY <2>1, <2>2, <2>3
<1>8. CASE PopLoad
  BY <1>8 DEF PopLoad, TypeOK, Occupancy, Reservations, Contents,
              LoadSeesOwnElement
<1>9. CASE UNCHANGED vars
  BY <1>9 DEF vars, TypeOK, Occupancy, Reservations, Contents,
              LoadSeesOwnElement
<1> QED
  BY <1>1, <1>2, <1>3, <1>4, <1>5, <1>6, <1>7, <1>8, <1>9 DEF Next

\* The slot protocol as a whole, for every capacity and number of pushes.
THEOREM SlotProtocol == Spec => []IInv
  BY InitIInv, NextIInv, PTL DEF Spec

\* Indexes, program counters and slots keep their types.
THEOREM TypeCorrect == Spec => []TypeOK
<1>1. IInv => TypeOK
  BY DEF IInv
<1> QED
  BY <1>1, SlotProtocol, PTL

\* The indexes never run past each other and at most Capacity - 1 elements
\* are queued (RingBuf::push, the test against read).
THEOREM IndexesNeverCross == Spec => []Occupancy
<1>1. IInv => Occupancy
  BY DEF IInv
<1> QED
  BY <1>1, SlotProtocol, PTL

\* A pop's slot is not overwritten between the store of read and the load
\* (RingBuf::pop); only an element push has not stored yet can be missed.
THEOREM ClaimedSlotIsStable == Spec => []LoadSeesOwnElement
<1>1. IInv => LoadSeesOwnElement
  BY DEF IInv
<1> QED
  BY <1>1, SlotProtocol, PTL

----------------------------------------------------------------------------
(* One thread calling push and pop in turn *)

\* Called in turn, push and pop do not overlap, and nobody pops an element
\* before it is stored.
Turn ==
  ~shared => (ppc = "idle" \/ cpc = "idle") /\ (ppc = "store" => npop < npush)

\* Each step keeps the calls apart.
LEMMA TurnKept == IInv /\ Turn /\ [Next]_vars => Turn'
  BY DEF IInv, TypeOK, Occupancy, Turn, Next, vars, PushFull, PushReserve,
         PushPublish, PushStore, PopEmpty, PopReserve, PopPublish, PopLoad

\* Each step keeps the answers in order.
LEMMA NextInTurn ==
  IInv /\ Turn /\ PopsInOrder /\ [Next]_vars => Turn' /\ PopsInOrder'
<1> SUFFICES ASSUME IInv, Turn, PopsInOrder, [Next]_vars
             PROVE  Turn' /\ PopsInOrder'
  OBVIOUS
<1>1. Turn'
  BY TurnKept
<1>2. CASE PopLoad
  <2> SUFFICES ASSUME ~shared PROVE cout' = <<"some", npop'>>
    BY <1>1, <1>2 DEF PopLoad, PopsInOrder, ReturnsInOrder
  <2>1. ppc = "idle" /\ npop' = npop
    BY <1>2 DEF PopLoad, Turn
  <2>2. slots[ccur] = npop
    BY <1>2, <2>1 DEF PopLoad, IInv, LoadSeesOwnElement
  <2>3. cout' = <<"some", slots[ccur]>>
    BY <1>2, <2>1 DEF PopLoad
  <2> QED
    BY <2>1, <2>2, <2>3
<1>3. CASE PushFull \/ PushReserve \/ PushPublish \/ PushStore \/ UNCHANGED vars
  BY <1>1, <1>3 DEF PushFull, PushReserve, PushPublish, PushStore, vars,
              PopsInOrder, ReturnsInOrder
<1>4. CASE PopEmpty \/ PopReserve \/ PopPublish
  BY <1>1, <1>4 DEF PopEmpty, PopReserve, PopPublish, PopsInOrder,
                    ReturnsInOrder
<1> QED
  BY <1>1, <1>2, <1>3, <1>4 DEF Next

\* A user who calls push and pop in turn pops every element once, in the
\* order pushed, for every capacity (RingBuf as MemEnpsf uses it).
THEOREM InTurnIsFifo == Spec => []PopsInOrder
<1>1. Init => Turn /\ PopsInOrder
  BY DEF Init, Turn, PopsInOrder, ReturnsInOrder
<1> QED
  BY <1>1, NextInTurn, SlotProtocol, PTL DEF Spec

----------------------------------------------------------------------------
(* push and pop implement the bounded FIFO *)

\* The queue that BoundedQueue sees: by positions, or by what the slots hold.
ByPosition == [k \in 1 .. (npush - npop) |-> npop + k]
BySlot == [k \in 1 .. (Stored - Taken) |-> slots[(Taken + k) % Capacity]]

\* The abstract variables.
AbsQ == IF shared THEN ByPosition ELSE BySlot
AbsPout == IF shared /\ ppc = "store" THEN "ok" ELSE pout
AbsCout ==
  IF shared
  THEN IF cpc = "load" \/ cout[1] = "some" THEN <<"some", npop>> ELSE <<"none">>
  ELSE cout

\* BoundedQueue's steps in terms of the abstract variables.
LEMMA AbstractSteps ==
  /\ Queue!vars = <<AbsQ, AbsPout, AbsCout>>
  /\ Queue!vars' = <<AbsQ, AbsPout, AbsCout>>'
  /\ \A e \in 1 .. MaxPush :
       /\ Len(AbsQ) < Capacity - 1 /\ AbsQ' = Append(AbsQ, e)
       /\ AbsPout' = "ok" /\ AbsCout' = AbsCout
       => Queue!Next
  /\ Len(AbsQ) = Capacity - 1 /\ AbsPout' = "full"
       /\ AbsQ' = AbsQ /\ AbsCout' = AbsCout => Queue!Next
  /\ AbsQ # <<>> /\ AbsCout' = <<"some", Head(AbsQ)>> /\ AbsQ' = Tail(AbsQ)
       /\ AbsPout' = AbsPout => Queue!Next
  /\ AbsQ = <<>> /\ AbsCout' = <<"none">> /\ AbsQ' = AbsQ
       /\ AbsPout' = AbsPout => Queue!Next
<1> USE DEF AbsQ, AbsPout, AbsCout, ByPosition, BySlot
<1>1. Queue!vars = <<AbsQ, AbsPout, AbsCout>> /\ Queue!vars' = <<AbsQ, AbsPout, AbsCout>>'
  BY DEF Queue!vars
<1>2. ASSUME NEW e \in 1 .. MaxPush,
             Len(AbsQ) < Capacity - 1, AbsQ' = Append(AbsQ, e),
             AbsPout' = "ok", AbsCout' = AbsCout
      PROVE  Queue!Next
  <2>1. Queue!Push(e)
    BY <1>2 DEF Queue!Push
  <2> QED
    BY <2>1 DEF Queue!Next
<1>3. ASSUME Len(AbsQ) = Capacity - 1, AbsPout' = "full", AbsQ' = AbsQ,
             AbsCout' = AbsCout
      PROVE  Queue!Next
  <2>1. Queue!PushFull
    BY <1>3 DEF Queue!PushFull
  <2> QED
    BY <2>1 DEF Queue!Next
<1>4. ASSUME AbsQ # <<>>, AbsCout' = <<"some", Head(AbsQ)>>, AbsQ' = Tail(AbsQ),
             AbsPout' = AbsPout
      PROVE  Queue!Next
  <2>1. Queue!Pop
    BY <1>4 DEF Queue!Pop
  <2> QED
    BY <2>1 DEF Queue!Next
<1>5. ASSUME AbsQ = <<>>, AbsCout' = <<"none">>, AbsQ' = AbsQ,
             AbsPout' = AbsPout
      PROVE  Queue!Next
  <2>1. Queue!PopEmpty
    BY <1>5 DEF Queue!PopEmpty
  <2> QED
    BY <2>1 DEF Queue!Next
<1> QED
  BY <1>1, <1>2, <1>3, <1>4, <1>5

\* A function on 1 .. n is a sequence of length n.
LEMMA FunSeq ==
  ASSUME NEW T, NEW n \in Nat, NEW f \in [1 .. n -> T]
  PROVE  f \in Seq(T) /\ Len(f) = n
  OBVIOUS

\* One more element at the end.
LEMMA FunAppend ==
  ASSUME NEW T, NEW n \in Nat, NEW f \in [1 .. n -> T],
         NEW g \in [1 .. (n + 1) -> T], \A k \in 1 .. n : g[k] = f[k]
  PROVE  g = Append(f, g[n + 1])
<1>1. f \in Seq(T) /\ Len(f) = n /\ g \in Seq(T) /\ Len(g) = n + 1
  BY FunSeq
<1> DEFINE a == Append(f, g[n + 1])
<1>2. a \in Seq(T) /\ Len(a) = n + 1 /\ a[n + 1] = g[n + 1]
      /\ \A k \in 1 .. n : a[k] = f[k]
  BY <1>1
<1> HIDE DEF a
<1>3. \A k \in 1 .. (n + 1) : g[k] = a[k]
  BY <1>2
<1> QED
  BY <1>1, <1>2, <1>3 DEF a

\* One element less at the front.
LEMMA FunTail ==
  ASSUME NEW T, NEW n \in Nat, NEW f \in [1 .. (n + 1) -> T],
         NEW g \in [1 .. n -> T], \A k \in 1 .. n : g[k] = f[k + 1]
  PROVE  f # <<>> /\ Head(f) = f[1] /\ g = Tail(f)
<1>1. f \in Seq(T) /\ Len(f) = n + 1 /\ g \in Seq(T) /\ Len(g) = n
  BY FunSeq
<1> DEFINE t == Tail(f)
<1>2. f # <<>> /\ Head(f) = f[1] /\ t \in Seq(T) /\ Len(t) = n
      /\ \A k \in 1 .. n : t[k] = f[k + 1]
  BY <1>1
<1> HIDE DEF t
<1>3. g = t
  BY <1>1, <1>2
<1> QED
  BY <1>2, <1>3 DEF t

\* The tests of push and pop are right: when the next index is the other
\* side's, Capacity - 1 elements are queued; when the indexes meet, none is.
LEMMA TestsAreRight ==
  ASSUME IInv
  PROVE  /\ Advance(write) = read => npush - npop = Capacity - 1
         /\ read = write => npush = npop
<1>1. npush \in Nat /\ npop \in Nat /\ npop <= npush /\ npush - npop < Capacity
  BY DEF IInv, TypeOK, Occupancy
<1>2. Advance(write) = (npush + 1) % Capacity
  BY <1>1, AdvanceIndex DEF IInv, Occupancy
<1>3. npush + 1 - npop < Capacity => npop % Capacity # (npush + 1) % Capacity
  <2> DEFINE n == npush + 1
  <2>1. n \in Nat /\ npop < n
    BY <1>1
  <2> HIDE DEF n
  <2>2. n - npop < Capacity => npop % Capacity # n % Capacity
    BY <1>1, <2>1, ModDistinct
  <2>3. n - npop = npush + 1 - npop
    BY <1>1 DEF n
  <2> QED
    BY <2>2, <2>3 DEF n
<1>4. npop < npush => npop % Capacity # npush % Capacity
  BY <1>1, ModDistinct
<1> QED
  BY <1>1, <1>2, <1>3, <1>4 DEF IInv, Occupancy

\* With two threads the store of an index is the instant a call takes effect.
LEMMA SharedStep ==
  ASSUME IInv, shared, Next
  PROVE  [Queue!Next]_(Queue!vars)
<1> USE DEF IInv
<1>1. npush \in Nat /\ npop \in Nat /\ npush - npop \in Nat /\ shared'
  <2>1. npush \in Nat /\ npop \in Nat /\ npush - npop \in Nat
    BY DEF TypeOK, Occupancy
  <2>2. shared'
    BY Zenon DEF Next, PushFull, PushReserve, PushPublish, PushStore,
                 PopEmpty, PopReserve, PopPublish, PopLoad
  <2> QED
    BY <2>1, <2>2
<1>2. ByPosition \in [1 .. (npush - npop) -> Nat] /\ Len(ByPosition) = npush - npop
  <2>1. ByPosition \in [1 .. (npush - npop) -> Nat]
    BY <1>1 DEF ByPosition
  <2> QED
    BY <1>1, <2>1, FunSeq
<1>3. AbsQ = ByPosition /\ AbsQ' = ByPosition'
  BY <1>1 DEF AbsQ
<1>4. AbsPout = (IF ppc = "store" THEN "ok" ELSE pout)
      /\ AbsPout' = (IF ppc' = "store" THEN "ok" ELSE pout')
  BY <1>1 DEF AbsPout
<1>5. /\ AbsCout = (IF cpc = "load" \/ cout[1] = "some" THEN <<"some", npop>> ELSE <<"none">>)
      /\ AbsCout' = (IF cpc' = "load" \/ cout'[1] = "some" THEN <<"some", npop'>> ELSE <<"none">>)
  BY <1>1 DEF AbsCout
<1>6. CASE PushFull
  <2>1. npush' = npush /\ npop' = npop /\ Len(AbsQ) = Capacity - 1
    BY <1>2, <1>3, <1>6, TestsAreRight DEF PushFull
  <2>2. AbsQ' = AbsQ
    BY <1>3, <2>1 DEF ByPosition
  <2>3. AbsPout' = "full" /\ AbsCout' = AbsCout
    BY <1>4, <1>5, <1>6 DEF PushFull
  <2> QED
    BY <2>1, <2>2, <2>3, AbstractSteps
<1>7. CASE PushReserve \/ PushStore \/ PopReserve \/ PopLoad
  <2>1. npush' = npush /\ npop' = npop
    BY <1>7 DEF PushReserve, PushStore, PopReserve, PopLoad
  <2>2. AbsQ' = AbsQ
    BY <1>3, <2>1 DEF ByPosition
  <2>3. AbsPout' = AbsPout
    BY <1>4, <1>7 DEF PushReserve, PushStore, PopReserve, PopLoad
  <2>4. AbsCout' = AbsCout
    <3>1. CASE PushReserve \/ PushStore \/ PopReserve
      BY <1>5, <3>1 DEF PushReserve, PushStore, PopReserve
    <3>2. CASE PopLoad
      <4>1. PICK e : cout' = <<"some", e>>
        BY <3>2 DEF PopLoad
      <4>2. cout'[1] = "some"
        BY <4>1
      <4> QED
        BY <1>5, <3>2, <4>2 DEF PopLoad
    <3> QED
      BY <1>7, <3>1, <3>2
  <2> QED
    BY <2>2, <2>3, <2>4, AbstractSteps
<1>8. CASE PushPublish
  <2>1. npush' = npush + 1 /\ npop' = npop /\ npush + 1 - npop <= Capacity - 1
        /\ npush + 1 \in 1 .. MaxPush
    BY <1>1, <1>8 DEF PushPublish, Reservations, TypeOK
  <2>2. ByPosition' \in [1 .. ((npush - npop) + 1) -> Nat]
        /\ \A k \in 1 .. ((npush - npop) + 1) : ByPosition'[k] = npop + k
    BY <1>1, <2>1 DEF ByPosition
  <2>3. \A k \in 1 .. (npush - npop) : ByPosition'[k] = ByPosition[k]
    BY <1>1, <2>2 DEF ByPosition
  <2>4. ByPosition' = Append(ByPosition, ByPosition'[(npush - npop) + 1])
    BY <1>1, <1>2, <2>2, <2>3, FunAppend
  <2>5. ByPosition'[(npush - npop) + 1] = npush + 1
    BY <1>1, <2>2
  <2>6. AbsPout' = "ok" /\ AbsCout' = AbsCout
    BY <1>4, <1>5, <1>8 DEF PushPublish
  <2>7. Len(AbsQ) < Capacity - 1
    BY <1>1, <1>2, <1>3, <2>1
  <2> QED
    BY <1>3, <2>1, <2>4, <2>5, <2>6, <2>7, AbstractSteps
<1>9. CASE PopEmpty
  <2>1. npush' = npush /\ npop' = npop /\ npush = npop
    BY <1>9, TestsAreRight DEF PopEmpty
  <2>2. AbsQ' = AbsQ
    BY <1>3, <2>1 DEF ByPosition
  <2>3. AbsQ = <<>>
    BY <1>1, <1>2, <1>3, <2>1
  <2>4. AbsPout' = AbsPout /\ AbsCout' = <<"none">>
    BY <1>4, <1>5, <1>9 DEF PopEmpty
  <2> QED
    BY <2>2, <2>3, <2>4, AbstractSteps
<1>10. CASE PopPublish
  <2> DEFINE n == npush - npop - 1
  <2>1. npush' = npush /\ npop' = npop + 1 /\ n \in Nat /\ npush - npop = n + 1
    BY <1>1, <1>10 DEF PopPublish, Reservations
  <2>2. ByPosition' \in [1 .. n -> Nat]
        /\ \A k \in 1 .. n : ByPosition'[k] = npop + 1 + k
    BY <1>1, <2>1 DEF ByPosition
  <2>3. \A k \in 1 .. n : ByPosition'[k] = ByPosition[k + 1]
    BY <1>1, <2>2 DEF ByPosition
  <2>4. ByPosition \in [1 .. (n + 1) -> Nat] /\ ByPosition[1] = npop + 1
    BY <1>1, <1>2, <2>1 DEF ByPosition
  <2> HIDE DEF n
  <2>5. ByPosition # <<>> /\ Head(ByPosition) = ByPosition[1]
        /\ ByPosition' = Tail(ByPosition)
    BY <2>1, <2>2, <2>3, <2>4, FunTail
  <2>6. AbsPout' = AbsPout /\ AbsCout' = <<"some", npop + 1>>
    BY <1>4, <1>5, <1>10 DEF PopPublish
  <2> QED
    BY <1>3, <2>4, <2>5, <2>6, AbstractSteps
<1> QED
  BY <1>6, <1>7, <1>8, <1>9, <1>10 DEF Next

\* To one thread a push takes effect when its element is stored, a pop when
\* its element is loaded.
LEMMA TurnStep ==
  ASSUME IInv, Turn, ~shared, Next
  PROVE  [Queue!Next]_(Queue!vars)
<1> USE DEF IInv
<1>1. ~shared'
  BY Zenon DEF Next, PushFull, PushReserve, PushPublish, PushStore,
               PopEmpty, PopReserve, PopPublish, PopLoad
<1>2. AbsQ = BySlot /\ AbsQ' = BySlot' /\ AbsPout = pout /\ AbsPout' = pout'
      /\ AbsCout = cout /\ AbsCout' = cout'
  BY <1>1 DEF AbsQ, AbsPout, AbsCout
<1> DEFINE n == Stored - Taken
<1>3. /\ npush \in Nat /\ npop \in Nat /\ npop <= npush /\ npush - npop <= Capacity - 1
      /\ Taken \in Nat /\ Stored \in Nat /\ n \in Nat
      /\ ppc = "idle" \/ cpc = "idle"
  <2>1. npush \in Nat /\ npop \in Nat /\ npop <= npush /\ npush - npop <= Capacity - 1
    BY DEF TypeOK, Occupancy
  <2>2. ppc = "idle" \/ cpc = "idle"
    BY DEF Turn
  <2>3. ppc = "store" => npop <= npush - 1 /\ npush - 1 \in Nat
    BY <2>1 DEF Turn
  <2>4. cpc = "load" => npop - 1 \in Nat
    BY <2>1 DEF Reservations
  <2> QED
    BY <2>1, <2>2, <2>3, <2>4 DEF Taken, Stored
<1>4. \A k \in Nat : k % Capacity \in Slot /\ slots[k % Capacity] \in Nat
  <2>1. \A k \in Nat : k % Capacity \in Slot
    BY DivMod DEF Slot
  <2>2. \A j \in Slot : slots[j] \in Nat
    BY DEF TypeOK
  <2> QED
    BY <2>1, <2>2
<1>5. /\ BySlot \in [1 .. n -> Nat] /\ Len(BySlot) = n
      /\ \A k \in 1 .. n : BySlot[k] = slots[(Taken + k) % Capacity]
  <2>1. \A k \in 1 .. n : Taken + k \in Nat
    BY <1>3
  <2>2. BySlot \in [1 .. n -> Nat]
    BY <1>4, <2>1 DEF BySlot
  <2>3. Len(BySlot) = n
    BY <1>3, <2>2, FunSeq
  <2> QED
    BY <2>2, <2>3 DEF BySlot
<1>6. CASE PushFull
  <2>1. Stored = npush /\ Taken = npop /\ npush - npop = Capacity - 1
    BY <1>6, TestsAreRight DEF PushFull, Stored, Taken
  <2>2. Stored' = Stored /\ Taken' = Taken /\ slots' = slots
    BY <1>6 DEF PushFull, Stored, Taken
  <2>3. BySlot' = BySlot
    BY <2>2 DEF BySlot
  <2> QED
    BY <1>2, <1>5, <1>6, <2>1, <2>3, AbstractSteps DEF PushFull
<1>7. CASE PushReserve \/ PopReserve \/ PushPublish \/ PopPublish
  <2>1. Stored' = Stored /\ Taken' = Taken /\ slots' = slots
    BY <1>3, <1>7 DEF PushReserve, PopReserve, PushPublish, PopPublish, Stored, Taken
  <2>2. BySlot' = BySlot
    BY <2>1 DEF BySlot
  <2>3. pout' = pout /\ cout' = cout
    BY <1>7 DEF PushReserve, PopReserve, PushPublish, PopPublish
  <2> QED
    BY <1>2, <2>2, <2>3, AbstractSteps
<1>8. CASE PopEmpty
  <2>1. Stored = npush /\ Taken = npop /\ npush = npop
    BY <1>8, TestsAreRight DEF PopEmpty, Stored, Taken
  <2>2. Stored' = Stored /\ Taken' = Taken /\ slots' = slots
    BY <1>8 DEF PopEmpty, Stored, Taken
  <2>3. BySlot' = BySlot
    BY <2>2 DEF BySlot
  <2>4. BySlot = <<>>
    BY <1>3, <1>5, <2>1
  <2> QED
    BY <1>2, <1>8, <2>3, <2>4, AbstractSteps DEF PopEmpty
<1>9. CASE PushStore
  <2>1. Stored = npush - 1 /\ Stored' = npush /\ Taken = npop /\ Taken' = npop
        /\ npush >= 1 /\ pcur = npush % Capacity /\ cpc = "idle"
    BY <1>3, <1>9 DEF PushStore, Reservations, Stored, Taken
  <2>2. n = npush - 1 - npop /\ n + 1 = npush - npop /\ npop + (n + 1) = npush
    BY <1>3, <2>1
  <2>4. pcur \in Slot /\ slots' = [slots EXCEPT ![pcur] = npush]
    BY <1>9 DEF PushStore, TypeOK
  <2>5. slots'[npush % Capacity] = npush
    BY <2>1, <2>4 DEF TypeOK
  <2>6. ASSUME NEW k \in 1 .. n
        PROVE  slots'[(npop + k) % Capacity] = slots[(npop + k) % Capacity]
    <3> DEFINE j == npop + k
    <3>1. j \in Nat /\ j < npush /\ npush - j < Capacity
      BY <1>3, <2>2
    <3> HIDE DEF j
    <3>2. j % Capacity # npush % Capacity
      BY <1>3, <3>1, ModDistinct
    <3>3. slots'[j % Capacity] = slots[j % Capacity]
      BY <1>4, <2>1, <2>4, <3>1, <3>2 DEF TypeOK
    <3> QED
      BY <3>3 DEF j
  <2>7. BySlot' = [k \in 1 .. (n + 1) |-> slots'[(npop + k) % Capacity]]
    <3>1. Stored' - Taken' = n + 1
      BY <2>1, <2>2
    <3> HIDE DEF n
    <3> QED
      BY <2>1, <3>1 DEF BySlot
  <2> HIDE DEF n
  <2>8. \A k \in 1 .. n : BySlot'[k] = BySlot[k]
    BY <1>3, <1>5, <2>1, <2>6, <2>7
  <2>9. BySlot'[n + 1] = npush
    BY <1>3, <2>2, <2>5, <2>7
  <2>10. BySlot' \in [1 .. (n + 1) -> Nat]
    <3>1. \A k \in 1 .. (n + 1) : BySlot'[k] \in Nat
      <4>1. \A k \in 1 .. (n + 1) : k \in 1 .. n \/ k = n + 1
        BY <1>3
      <4> QED
        BY <1>3, <1>5, <2>8, <2>9, <4>1
    <3> QED
      BY <2>7, <3>1
  <2>11. BySlot' = Append(BySlot, BySlot'[n + 1])
    BY <1>3, <1>5, <2>8, <2>10, FunAppend
  <2>12. Len(BySlot) < Capacity - 1
    BY <1>3, <1>5, <2>2
  <2>13. npush \in 1 .. MaxPush
    BY <2>1 DEF TypeOK
  <2>14. pout' = "ok" /\ cout' = cout
    BY <1>9 DEF PushStore
  <2>15. BySlot' = Append(BySlot, npush)
    BY <2>9, <2>11
  <2> QED
    BY <1>2, <2>12, <2>13, <2>14, <2>15, AbstractSteps
<1>10. CASE PopLoad
  <2>1. Stored = npush /\ Stored' = npush /\ Taken = npop - 1 /\ Taken' = npop
        /\ npop >= 1 /\ ccur = npop % Capacity /\ ppc = "idle" /\ slots' = slots
    BY <1>3, <1>10 DEF PopLoad, Reservations, Stored, Taken
  <2>2. slots[ccur] = npop /\ cout' = <<"some", slots[ccur]>> /\ pout' = pout
    BY <1>10, <2>1 DEF PopLoad, LoadSeesOwnElement
  <2> DEFINE m == npush - npop
  <2>3. m \in Nat /\ n = m + 1
    BY <1>3, <2>1
  <2>4. BySlot' = [k \in 1 .. m |-> slots[(npop + k) % Capacity]]
    BY <2>1 DEF BySlot
  <2>5. \A k \in 1 .. m : npop + k \in Nat
    BY <1>3, <2>3
  <2>6. BySlot' \in [1 .. m -> Nat]
    BY <1>4, <2>4, <2>5
  <2>7. \A k \in 1 .. m : k + 1 \in 1 .. n /\ Taken + (k + 1) = npop + k
    BY <1>3, <2>1, <2>3
  <2>8. \A k \in 1 .. m : BySlot'[k] = BySlot[k + 1]
    BY <1>5, <2>4, <2>7
  <2>9. BySlot[1] = npop
    <3>1. 1 \in 1 .. n /\ Taken + 1 = npop
      BY <1>3, <2>1, <2>3
    <3> QED
      BY <1>5, <2>1, <2>2, <3>1
  <2>10. BySlot \in [1 .. (m + 1) -> Nat]
    BY <1>5, <2>3
  <2> HIDE DEF m
  <2>11. BySlot # <<>> /\ Head(BySlot) = BySlot[1] /\ BySlot' = Tail(BySlot)
    BY <2>3, <2>6, <2>8, <2>10, FunTail
  <2> QED
    BY <1>2, <2>2, <2>9, <2>11, AbstractSteps
<1> QED
  BY <1>6, <1>7, <1>8, <1>9, <1>10 DEF Next

\* push and pop implement the bounded FIFO for every capacity and number of
\* pushes: two threads hand positions over first in first out and are told
\* "Buf full" and None only when it is true; a thread that calls them in turn
\* gets its elements back in order as well.
THEOREM ImplementsBoundedFifo == Spec => IsBoundedFifo
<1>1. Init => Queue!Init /\ Turn
  <2> SUFFICES ASSUME Init PROVE Queue!Init /\ Turn
    OBVIOUS
  <2>1. ByPosition = <<>> /\ BySlot = <<>>
    BY DEF Init, ByPosition, BySlot, Stored, Taken
  <2>2. AbsQ = <<>> /\ AbsPout = "none" /\ AbsCout = <<"none">>
    BY <2>1 DEF Init, AbsQ, AbsPout, AbsCout
  <2>3. Queue!Init
    BY <2>2 DEF Queue!Init, AbsQ, AbsPout, AbsCout, ByPosition, BySlot
  <2> QED
    BY <2>3 DEF Init, Turn
<1>2. IInv /\ Turn /\ [Next]_vars => Turn'
  BY TurnKept
<1>3. IInv /\ Turn /\ [Next]_vars => [Queue!Next]_(Queue!vars)
  <2> SUFFICES ASSUME IInv, Turn, [Next]_vars PROVE [Queue!Next]_(Queue!vars)
    OBVIOUS
  <2>1. CASE UNCHANGED vars
    <3>1. <<AbsQ, AbsPout, AbsCout>>' = <<AbsQ, AbsPout, AbsCout>>
      BY <2>1 DEF vars, AbsQ, AbsPout, AbsCout, ByPosition, BySlot, Stored, Taken
    <3> QED
      BY <3>1, AbstractSteps
  <2>2. CASE Next
    BY <2>2, SharedStep, TurnStep
  <2> QED
    BY <2>1, <2>2
<1> QED
  BY <1>1, <1>2, <1>3, SlotProtocol, PTL DEF Spec, IsBoundedFifo, Queue!Spec
=============================================================================
