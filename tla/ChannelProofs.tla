--------------------------- MODULE ChannelProofs ---------------------------
(***************************************************************************)
(* Ownership of the buffers, for every set of buffers and every ring size. *)
(* Each operation of Mbuf, Ring and Channel moves a set of buffers from    *)
(* one place to another (a Transfer); a transfer keeps every buffer in     *)
(* exactly one place, and a ring without duplicates keeps none.            *)
(***************************************************************************)
EXTENDS Channel, FiniteSetTheorems, TLAPS

(* What the operations on rings do to the set of queued pointers *)

\* Enqueueing a pointer that is not queued.
LEMMA RangeAppend ==
  ASSUME NEW T, NEW s \in Seq(T), NEW m \in T, m \notin Range(s),
         IsInjective(s)
  PROVE  /\ Range(Append(s, m)) = Range(s) \cup {m}
         /\ IsInjective(Append(s, m))
<1>1. Append(s, m) \in Seq(T) /\ Len(Append(s, m)) = Len(s) + 1
  OBVIOUS
<1>2. /\ Append(s, m)[Len(s) + 1] = m
      /\ \A i \in 1 .. Len(s) : Append(s, m)[i] = s[i]
  OBVIOUS
<1>3. DOMAIN Append(s, m) = 1 .. (Len(s) + 1) /\ DOMAIN s = 1 .. Len(s)
  BY <1>1
<1>4. Len(s) \in Nat
  OBVIOUS
<1> QED
  BY <1>2, <1>3, <1>4 DEF Range, IsInjective

\* Dequeueing k pointers from the head splits the queued ones in two.
LEMMA RangeSplit ==
  ASSUME NEW T, NEW s \in Seq(T), NEW k \in 1 .. Len(s), IsInjective(s)
  PROVE  LET taken == SubSeq(s, 1, k)
             rest == SubSeq(s, k + 1, Len(s))
         IN  /\ rest \in Seq(T)
             /\ IsInjective(rest)
             /\ Range(taken) \subseteq Range(s)
             /\ Range(rest) = Range(s) \ Range(taken)
<1> DEFINE taken == SubSeq(s, 1, k)
           rest == SubSeq(s, k + 1, Len(s))
<1>1. /\ DOMAIN s = 1 .. Len(s) /\ Len(s) \in Nat /\ k \in Nat /\ k <= Len(s)
      /\ \A i \in 1 .. Len(s) : s[i] \in T
  OBVIOUS
<1>2. taken \in Seq(T) /\ DOMAIN taken = 1 .. k
      /\ \A i \in 1 .. k : taken[i] = s[i]
  BY <1>1
<1>3. rest \in Seq(T) /\ DOMAIN rest = 1 .. (Len(s) - k)
      /\ \A i \in 1 .. (Len(s) - k) : rest[i] = s[k + i]
  BY <1>1
<1> HIDE DEF taken, rest
<1>4. IsInjective(rest)
  <2> SUFFICES ASSUME NEW i \in 1 .. (Len(s) - k), NEW j \in 1 .. (Len(s) - k),
                      rest[i] = rest[j]
               PROVE  i = j
    BY <1>3 DEF IsInjective
  <2>1. k + i \in 1 .. Len(s) /\ k + j \in 1 .. Len(s)
    BY <1>1
  <2>2. s[k + i] = s[k + j]
    BY <1>3
  <2>3. k + i = k + j
    BY <1>1, <2>1, <2>2 DEF IsInjective
  <2> QED
    BY <1>1, <2>3
<1>5. Range(taken) \subseteq Range(s)
  BY <1>1, <1>2 DEF Range
<1>6. ASSUME NEW i \in 1 .. Len(s), i > k
      PROVE  s[i] \in Range(rest)
  <2>1. i - k \in 1 .. (Len(s) - k) /\ s[k + (i - k)] = s[i]
    BY <1>1, <1>6
  <2> QED
    BY <1>3, <2>1 DEF Range
<1>7. Range(rest) = Range(s) \ Range(taken)
  <2>1. ASSUME NEW x \in Range(rest)
        PROVE  x \in Range(s) /\ x \notin Range(taken)
    <3>1. PICK i \in 1 .. (Len(s) - k) : x = s[k + i]
      BY <1>3 DEF Range
    <3>2. k + i \in 1 .. Len(s) /\ k + i > k
      BY <1>1
    <3>3. \A j \in 1 .. k : j \in 1 .. Len(s) /\ j # k + i
      BY <1>1
    <3>4. \A j \in 1 .. k : taken[j] # x
      BY <1>1, <1>2, <3>1, <3>2, <3>3 DEF IsInjective
    <3> QED
      BY <1>1, <1>2, <3>1, <3>2, <3>4 DEF Range
  <2>2. ASSUME NEW x \in Range(s), x \notin Range(taken)
        PROVE  x \in Range(rest)
    <3>1. PICK i \in 1 .. Len(s) : x = s[i]
      BY <1>1 DEF Range
    <3>2. i > k
      BY <1>1, <1>2, <2>2, <3>1 DEF Range
    <3> QED
      BY <1>6, <3>1, <3>2
  <2> QED
    BY <2>1, <2>2
<1> QED
  BY <1>3, <1>4, <1>5, <1>7 DEF taken, rest

----------------------------------------------------------------------------
(* Transfers *)

\* The buffers of S move from place a to place b.
Transfer(S, a, b) ==
  /\ a \in Place /\ b \in Place /\ a # b
  /\ S \subseteq At(a)
  /\ \A l \in Place :
       At(l)' = IF l = a THEN At(a) \ S
                ELSE IF l = b THEN At(b) \cup S ELSE At(l)

\* A transfer keeps every buffer in exactly one place.
LEMMA TransferKeepsOwners ==
  ASSUME NEW S, NEW a, NEW b, Transfer(S, a, b), OneOwner, Accounted
  PROVE  OneOwner' /\ Accounted'
<1> DEFINE F(l) == IF l = a THEN At(a) \ S
                   ELSE IF l = b THEN At(b) \cup S ELSE At(l)
<1>1. /\ a \in Place /\ b \in Place /\ a # b /\ S \subseteq At(a)
      /\ \A l \in Place : At(l)' = F(l)
  BY DEF Transfer
<1>2. ASSUME NEW l1 \in Place, NEW l2 \in Place, l1 # l2
      PROVE  F(l1) \cap F(l2) = {}
  <2> HIDE DEF At, Place
  <2> QED
    BY <1>1, <1>2 DEF OneOwner
<1>3. UNION {F(l) : l \in Place} = UNION {At(l) : l \in Place}
  <2> HIDE DEF At, Place
  <2> QED
    BY <1>1
<1>4. OneOwner'
  <2> SUFFICES ASSUME NEW l1 \in Place, NEW l2 \in Place, l1 # l2
               PROVE  At(l1)' \cap At(l2)' = {}
    BY DEF OneOwner, Place, Ring, Proc, Leak
  <2> QED
    BY <1>1, <1>2
<1>5. Accounted'
  <2>1. Accounted' <=> Mbuf = UNION {At(l)' : l \in Place}
    BY DEF Accounted, Place, Ring, Proc, Leak
  <2>2. {At(l)' : l \in Place} = {F(l) : l \in Place}
    BY <1>1
  <2> QED
    BY <1>3, <2>1, <2>2 DEF Accounted
<1> QED
  BY <1>4, <1>5

----------------------------------------------------------------------------
(* The operations *)

USE DEF Ring, Proc, Leak

\* The pool, a ring, a process and a leak are different places.
LEMMA Places ==
  /\ "pool" \in Place /\ At("pool") = pool
  /\ \A r \in Ring : r \in Place /\ r # "pool" /\ At(r) = Range(ring[r])
  /\ \A p \in Proc : p \in Place /\ p # "pool" /\ At(p) = held[p]
  /\ \A l \in Leak : l \in Place /\ l # "pool" /\ At(l) = lost[l]
  BY DEF Place, At

\* At the start every buffer is in the pool.
LEMMA InitOwnership == Init => Ownership
<1> SUFFICES ASSUME Init PROVE Ownership
  OBVIOUS
<1>1. TypeOK
  BY DEF Init, TypeOK
<1>2. At("pool") = Mbuf /\ \A l \in Place : l # "pool" => At(l) = {}
  BY DEF Init, Place, At, Range
<1>3. OneOwner
  BY <1>2 DEF OneOwner
<1>4. Accounted
  BY <1>2, Places DEF Accounted
<1>5. NoDuplicates
  BY DEF Init, NoDuplicates, IsInjective
<1> QED
  BY <1>1, <1>3, <1>4, <1>5 DEF Ownership

\* Mbuf::new, alloc_bulk and Drop move buffers between pool and process.
LEMMA PoolStep ==
  ASSUME Ownership, NEW p \in Proc, NEW S \in SUBSET Mbuf,
         AllocBulk(p, S) \/ Free(p, S)
  PROVE  Ownership'
<1>1. TypeOK' /\ NoDuplicates'
  BY DEF Ownership, TypeOK, NoDuplicates, AllocBulk, Free
<1>2. CASE AllocBulk(p, S)
  <2>1. Transfer(S, "pool", p)
    BY <1>2 DEF Ownership, TypeOK, AllocBulk, Transfer, Place, At
  <2> QED
    BY <1>1, <2>1, TransferKeepsOwners DEF Ownership
<1>3. CASE Free(p, S)
  <2>1. Transfer(S, p, "pool")
    BY <1>3 DEF Ownership, TypeOK, Free, Transfer, Place, At
  <2> QED
    BY <1>1, <2>1, TransferKeepsOwners DEF Ownership
<1> QED
  BY <1>2, <1>3

\* enqueue_bulk forgets every buffer it is given.
LEMMA BulkStep ==
  ASSUME Ownership, NEW p \in Proc, NEW S \in SUBSET Mbuf, EnqueueBulk(p, S)
  PROVE  Ownership'
<1>1. TypeOK' /\ NoDuplicates'
  BY DEF EnqueueBulk, Ownership, TypeOK, NoDuplicates
<1>2. Transfer(S, p, "bulk")
  BY DEF EnqueueBulk, Ownership, TypeOK, Transfer, Place, At
<1> QED
  BY <1>1, <1>2, TransferKeepsOwners DEF Ownership

\* A buffer whose handle a process gives up goes to its ring or is lost.
LEMMA SendStep ==
  ASSUME Ownership, NEW p \in Proc, NEW m \in Mbuf, NEW S \in SUBSET Mbuf,
         \/ Enqueue(p, m) \/ EnqueueFull(p, m)
         \/ EnqueueBulk(p, S) \/ IntoPtr(p, m)
  PROVE  Ownership'
<1>1. CASE Enqueue(p, m)
  <2> DEFINE r == Out(p)
             s == ring[r]
  <2>1. r \in Ring /\ s \in Seq(Mbuf) /\ IsInjective(s)
    BY DEF Out, Ownership, TypeOK, NoDuplicates
  <2>2. m \in At(p) /\ p \in Place /\ r \in Place /\ p # r /\ At(r) = Range(s)
    BY <1>1, <2>1, Places DEF Enqueue
  <2>3. m \notin Range(s)
    BY <2>2 DEF Ownership, OneOwner
  <2>4. /\ Range(Append(s, m)) = Range(s) \cup {m}
        /\ IsInjective(Append(s, m))
    BY <2>1, <2>3, RangeAppend
  <2>5. ring'[r] = Append(s, m) /\ \A q \in Ring : q # r => ring'[q] = ring[q]
    BY <1>1, <2>1 DEF Enqueue, Ownership, TypeOK
  <2>6. Append(s, m) \in Seq(Mbuf)
    BY <2>1
  <2>7. TypeOK'
    BY <1>1, <2>1, <2>6 DEF Enqueue, Ownership, TypeOK
  <2>8. NoDuplicates'
    BY <2>4, <2>5 DEF Ownership, NoDuplicates
  <2>9. Transfer({m}, p, r)
    BY <1>1, <2>1, <2>2, <2>4, <2>5
    DEF Enqueue, Ownership, TypeOK, Transfer, Place, At
  <2> QED
    BY <2>7, <2>8, <2>9, TransferKeepsOwners DEF Ownership
<1>2. CASE EnqueueFull(p, m)
  <2>1. TypeOK' /\ NoDuplicates'
    BY <1>2 DEF EnqueueFull, Ownership, TypeOK, NoDuplicates
  <2>2. Transfer({m}, p, "full")
    BY <1>2 DEF EnqueueFull, Ownership, TypeOK, Transfer, Place, At
  <2> QED
    BY <2>1, <2>2, TransferKeepsOwners DEF Ownership
<1>3. CASE EnqueueBulk(p, S)
  BY <1>3, BulkStep
<1>4. CASE IntoPtr(p, m)
  <2>1. TypeOK' /\ NoDuplicates'
    BY <1>4 DEF IntoPtr, Ownership, TypeOK, NoDuplicates
  <2>2. Transfer({m}, p, "into_ptr")
    BY <1>4 DEF IntoPtr, Ownership, TypeOK, Transfer, Place, At
  <2> QED
    BY <2>1, <2>2, TransferKeepsOwners DEF Ownership
<1> QED
  BY <1>1, <1>2, <1>3, <1>4

\* A buffer that is allocated and sent at once goes from the pool to a ring,
\* or is lost when the ring is full.
LEMMA SendNewStep ==
  ASSUME Ownership, NEW m \in pool, NEW r \in Ring,
         pool' = pool \ {m}, UNCHANGED held,
         \/ ring' = [ring EXCEPT ![r] = Append(@, m)] /\ UNCHANGED lost
         \/ lost' = [lost EXCEPT !["full"] = @ \cup {m}] /\ UNCHANGED ring
  PROVE  Ownership'
<1>1. CASE ring' = [ring EXCEPT ![r] = Append(@, m)] /\ UNCHANGED lost
  <2> DEFINE s == ring[r]
  <2>1. s \in Seq(Mbuf) /\ IsInjective(s) /\ m \in Mbuf
    BY DEF Ownership, TypeOK, NoDuplicates
  <2>2. m \in At("pool") /\ "pool" \in Place /\ r \in Place /\ r # "pool"
        /\ At(r) = Range(s)
    BY Places
  <2>3. m \notin Range(s)
    BY <2>2 DEF Ownership, OneOwner
  <2>4. /\ Range(Append(s, m)) = Range(s) \cup {m}
        /\ IsInjective(Append(s, m))
    BY <2>1, <2>3, RangeAppend
  <2>5. ring'[r] = Append(s, m) /\ \A q \in Ring : q # r => ring'[q] = ring[q]
    BY <1>1 DEF Ownership, TypeOK
  <2>6. Append(s, m) \in Seq(Mbuf)
    BY <2>1
  <2>7. TypeOK'
    BY <1>1, <2>6 DEF Ownership, TypeOK
  <2>8. NoDuplicates'
    BY <2>4, <2>5 DEF Ownership, NoDuplicates
  <2>9. Transfer({m}, "pool", r)
    BY <1>1, <2>2, <2>4, <2>5 DEF Ownership, TypeOK, Transfer, Place, At
  <2> QED
    BY <2>7, <2>8, <2>9, TransferKeepsOwners DEF Ownership
<1>2. CASE lost' = [lost EXCEPT !["full"] = @ \cup {m}] /\ UNCHANGED ring
  <2>1. TypeOK' /\ NoDuplicates'
    BY <1>2 DEF Ownership, TypeOK, NoDuplicates
  <2>2. Transfer({m}, "pool", "full")
    BY <1>2 DEF Ownership, TypeOK, Transfer, Place, At
  <2> QED
    BY <2>1, <2>2, TransferKeepsOwners DEF Ownership
<1> QED
  BY <1>1, <1>2

\* Taking the k oldest pointers out of ring r and forgetting them.
LEMMA TakeStep ==
  ASSUME Ownership, NEW r \in Ring, NEW l \in Leak,
         NEW k \in 1 .. Len(ring[r]),
         ring' = [ring EXCEPT ![r] = SubSeq(@, k + 1, Len(@))],
         lost' = [lost EXCEPT ![l] = @ \cup Range(SubSeq(ring[r], 1, k))],
         UNCHANGED <<pool, held>>
  PROVE  Ownership'
<1> DEFINE s == ring[r]
           taken == SubSeq(s, 1, k)
           rest == SubSeq(s, k + 1, Len(s))
<1>1. s \in Seq(Mbuf) /\ IsInjective(s)
  BY DEF Ownership, TypeOK, NoDuplicates
<1>2. /\ rest \in Seq(Mbuf)
      /\ IsInjective(rest)
      /\ Range(taken) \subseteq Range(s)
      /\ Range(rest) = Range(s) \ Range(taken)
  BY <1>1, RangeSplit
<1>3. ring'[r] = rest /\ \A q \in Ring : q # r => ring'[q] = ring[q]
  BY DEF Ownership, TypeOK
<1> HIDE DEF taken, rest
<1>4. Range(s) \subseteq Mbuf
  BY <1>1 DEF Range
<1>5. ring' \in [Ring -> Seq(Mbuf)]
  BY <1>2, <1>3 DEF Ownership, TypeOK, rest
<1>6. lost' \in [Leak -> SUBSET Mbuf] /\ lost'[l] = lost[l] \cup Range(taken)
      /\ \A i \in Leak : i # l => lost'[i] = lost[i]
  BY <1>2, <1>4 DEF Ownership, TypeOK, taken
<1>7. TypeOK'
  BY <1>5, <1>6 DEF Ownership, TypeOK
<1>8. NoDuplicates'
  BY <1>2, <1>3 DEF Ownership, NoDuplicates
<1>9. Transfer(Range(taken), r, l)
  <2>1. At(r) = Range(s) /\ At(r)' = Range(rest)
    BY <1>3 DEF At
  <2>2. At(l) = lost[l] /\ At(l)' = lost'[l]
    BY DEF At
  <2>3. \A x \in Place : x # r /\ x # l => At(x)' = At(x)
    BY <1>3, <1>6 DEF Place, At
  <2>4. r \in Place /\ l \in Place /\ r # l
    BY DEF Place
  <2> QED
    BY <1>2, <1>6, <2>1, <2>2, <2>3, <2>4 DEF Transfer
<1> QED
  BY <1>7, <1>8, <1>9, TransferKeepsOwners DEF Ownership

\* dequeue and dequeue_burst take pointers out of the process's in-ring.
LEMMA ReceiveStep ==
  ASSUME Ownership, NEW p \in Proc, NEW S \in SUBSET Mbuf,
         Dequeue(p) \/ DequeueBurst(p, S)
  PROVE  Ownership'
<1> DEFINE r == In(p)
<1>1. r \in Ring /\ ring[r] \in Seq(Mbuf)
  BY DEF In, Ownership, TypeOK
<1>2. CASE Dequeue(p)
  <2>1. Len(ring[r]) \in Nat /\ 1 \in 1 .. Len(ring[r])
    BY <1>1, <1>2 DEF Dequeue
  <2>2. Tail(ring[r]) = SubSeq(ring[r], 2, Len(ring[r]))
    BY <1>1, <1>2 DEF Dequeue
  <2>3. Range(SubSeq(ring[r], 1, 1)) = {Head(ring[r])}
    <3>1. DOMAIN SubSeq(ring[r], 1, 1) = 1 .. 1 /\ 1 .. 1 = {1}
      BY <1>1, <2>1
    <3>2. SubSeq(ring[r], 1, 1)[1] = Head(ring[r])
      BY <1>1, <2>1
    <3> QED
      BY <3>1, <3>2 DEF Range
  <2>4. /\ ring' = [ring EXCEPT ![r] = SubSeq(ring[r], 2, Len(ring[r]))]
        /\ lost' = [lost EXCEPT !["dequeue"] = @ \cup Range(SubSeq(ring[r], 1, 1))]
        /\ UNCHANGED <<pool, held>>
    BY <1>2, <2>2, <2>3 DEF Dequeue
  <2>5. ring' = [ring EXCEPT ![r] = SubSeq(@, 1 + 1, Len(@))]
    BY <2>4
  <2> QED
    BY <1>1, <2>1, <2>4, <2>5, TakeStep
<1>3. CASE DequeueBurst(p, S)
  <2> DEFINE k == Burst(r, Cardinality(S))
  <2>1. Cardinality(S) \in Nat /\ Len(ring[r]) \in Nat
    BY <1>1, MbufAssumption, FS_Subset, FS_CardinalityType
  <2>2. k \in 1 .. Len(ring[r])
    BY <1>3, <2>1 DEF DequeueBurst, Burst
  <2>3. /\ ring' = [ring EXCEPT ![r] = SubSeq(@, k + 1, Len(@))]
        /\ lost' = [lost EXCEPT !["burst"] = @ \cup Range(SubSeq(ring[r], 1, k))]
        /\ UNCHANGED <<pool, held>>
    BY <1>3 DEF DequeueBurst
  <2> HIDE DEF k
  <2> QED
    BY <1>1, <2>2, <2>3, TakeStep
<1> QED
  BY <1>2, <1>3

\* Every operation of the two processes keeps ownership in order.
LEMMA NextOwnership == Ownership /\ [Next]_vars => Ownership'
<1> SUFFICES ASSUME Ownership, [Next]_vars PROVE Ownership'
  OBVIOUS
<1>1. CASE UNCHANGED vars
  BY <1>1 DEF vars, Ownership, TypeOK, OneOwner, NoDuplicates, Accounted,
              Place, At
<1>2. CASE Next
  <2>1. PICK p \in Proc : Call(p)
    BY <1>2 DEF Next
  <2>2. ASSUME NEW m \in Mbuf, New(p, m)
        PROVE  Ownership'
    <3>1. {m} \in SUBSET Mbuf /\ AllocBulk(p, {m})
      BY <2>2 DEF New, AllocBulk
    <3> QED
      BY <3>1, PoolStep
  <2>3. CASE NewNoBuf(p) \/ DequeueEmpty(p)
    BY <1>1, <2>3 DEF NewNoBuf, DequeueEmpty
  <2> QED
    BY <2>1, <2>2, <2>3, PoolStep, SendStep, ReceiveStep DEF Call
<1> QED
  BY <1>1, <1>2

\* However the engine and the mux interleave their calls of Mbuf, Ring and
\* Channel, every buffer is in exactly one place.
THEOREM BuffersAreOwned == Spec => []Ownership
  BY InitOwnership, NextOwnership, PTL DEF Spec

=============================================================================
