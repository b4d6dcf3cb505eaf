----------------------------- MODULE MuxProofs -----------------------------
(***************************************************************************)
(* The Mux for every set of buffers, ring size and burst size.  First,     *)
(* every step of the Mux is a call of Channel, so that what ChannelProofs  *)
(* shows of every caller holds of this one.  From ownership of the buffers *)
(* follows that a buffer Mbuf::new returns is in no place of the process,  *)
(* and from that who holds which handle.                                   *)
(***************************************************************************)
EXTENDS Mux, FiniteSetTheorems, SequenceTheorems, TLAPS

Own == INSTANCE ChannelProofs

(* The two instances of the channel are the same specification *)

LEMMA OwnAssumptions == Own!MbufAssumption /\ Own!RingSizeAssumption
  BY SizesAssumption
  DEF Own!MbufAssumption, Own!RingSizeAssumption, Own!IsFiniteSet, IsFiniteSet

LEMMA SameOwnership == Ch!Ownership <=> Own!Ownership
  BY DEF Ch!Ownership, Ch!TypeOK, Ch!OneOwner, Ch!NoDuplicates, Ch!Accounted,
         Ch!Place, Ch!At, Ch!Proc, Ch!Ring, Ch!Leak, Ch!Range, Ch!IsInjective,
         Own!Ownership, Own!TypeOK, Own!OneOwner, Own!NoDuplicates,
         Own!Accounted, Own!Place, Own!At, Own!Proc, Own!Ring, Own!Leak,
         Own!Range, Own!IsInjective

LEMMA SameNext == Ch!Next <=> Own!Next
  BY DEF Ch!Next, Ch!Call, Ch!New, Ch!IntoPtr, Ch!Enqueue, Ch!EnqueueFull, Ch!AllocBulk,
         Ch!Free, Ch!EnqueueBulk, Ch!DequeueBurst, Ch!Burst, Ch!NewNoBuf,
         Ch!Dequeue, Ch!DequeueEmpty, Ch!vars, Ch!Proc, Ch!Range, Ch!Out, Ch!In,
         Ch!Cardinality,
         Own!Next, Own!Call, Own!New, Own!IntoPtr, Own!Enqueue, Own!EnqueueFull,
         Own!AllocBulk, Own!Free, Own!EnqueueBulk, Own!DequeueBurst, Own!Burst,
         Own!NewNoBuf, Own!Dequeue, Own!DequeueEmpty, Own!vars, Own!Proc,
         Own!Range, Own!Out, Own!In, Own!Cardinality

LEMMA SameInit == Ch!Init <=> Own!Init
  BY DEF Ch!Init, Ch!Ring, Ch!Proc, Ch!Leak,
         Own!Init, Own!Ring, Own!Proc, Own!Leak

\* What ChannelProofs shows, of the instance that Mux uses.
LEMMA ChannelKeepsOwnership ==
  /\ Ch!Init => Ch!Ownership
  /\ Ch!Ownership /\ [Ch!Next]_(Ch!vars) => Ch!Ownership'
<1>1. Own!Init => Own!Ownership
  BY OwnAssumptions, Own!InitOwnership
<1>2. Own!Ownership /\ [Own!Next]_(Own!vars) => Own!Ownership'
  BY OwnAssumptions, Own!NextOwnership
<1>3. Ch!vars = Own!vars /\ Ch!vars' = Own!vars'
  BY DEF Ch!vars, Own!vars
<1>4. Ch!Ownership' <=> Own!Ownership'
  BY SameOwnership, PTL
<1> QED
  BY <1>1, <1>2, <1>3, <1>4, SameOwnership, SameNext, SameInit

\* The part of ownership that the handles rest on.
LEMMA Owners ==
  ASSUME Ch!Ownership
  PROVE  /\ pool \subseteq Mbuf
         /\ held \in [Ch!Proc -> SUBSET Mbuf]
         /\ ring \in [Ch!Ring -> Seq(Mbuf)]
         /\ lost \in [Ch!Leak -> SUBSET Mbuf]
         /\ pool \cap held["mux"] = {}
         /\ held["engine"] \cap held["mux"] = {}
<1>1. Ch!TypeOK
  BY DEF Ch!Ownership
<1>2. /\ "pool" \in Ch!Place /\ "mux" \in Ch!Place /\ "engine" \in Ch!Place
      /\ Ch!At("pool") = pool /\ Ch!At("mux") = held["mux"]
      /\ Ch!At("engine") = held["engine"]
  BY DEF Ch!Place, Ch!Proc, Ch!Ring, Ch!Leak, Ch!At
<1>3. pool \cap held["mux"] = {} /\ held["engine"] \cap held["mux"] = {}
  BY <1>2 DEF Ch!Ownership, Ch!OneOwner
<1> QED
  BY <1>1, <1>3 DEF Ch!TypeOK

----------------------------------------------------------------------------
(* Mux uses the channel as any caller may *)

\* A Vec that goes out of scope frees its buffers, which may be none.
LEMMA FreeIsAStep ==
  ASSUME Ch!Ownership, NEW S, Ch!Free("mux", S)
  PROVE  [Ch!Next]_(Ch!vars)
<1>1. CASE S = {}
  BY <1>1, Owners DEF Ch!Free, Ch!vars, Ch!Proc
<1>2. CASE S # {}
  <2>1. "mux" \in Ch!Proc /\ S \in (SUBSET Mbuf) \ {{}}
    BY <1>2, Owners DEF Ch!Free, Ch!Proc
  <2> QED
    BY <2>1 DEF Ch!Next, Ch!Call
<1> QED
  BY <1>1, <1>2

\* channel.recv_from_engine_burst takes packets only when it has buffers.
LEMMA BurstIsAStep ==
  ASSUME Ch!Ownership, NEW S, Ch!DequeueBurst("mux", S)
  PROVE  [Ch!Next]_(Ch!vars)
<1>1. S \subseteq Mbuf /\ "mux" \in Ch!Proc
  BY Owners DEF Ch!DequeueBurst, Ch!Proc
<1>2. S # {}
  <2> SUFFICES ASSUME S = {} PROVE FALSE
    OBVIOUS
  <2>1. Ch!Cardinality({}) = 0
    <3>1. Cardinality({}) = 0
      BY FS_EmptySet
    <3> QED
      BY <3>1 DEF Cardinality, Ch!Cardinality
  <2>2. Len(ring["E2C"]) \in Nat
    BY Owners DEF Ch!Ring
  <2>3. Ch!In("mux") = "E2C"
    BY DEF Ch!In
  <2> QED
    BY <2>1, <2>2, <2>3 DEF Ch!DequeueBurst, Ch!Burst
<1>3. S \in (SUBSET Mbuf) \ {{}}
  BY <1>1, <1>2
<1> QED
  BY <1>1, <1>3 DEF Ch!Next, Ch!Call

\* Every step of the thread or of the engine is a call of Channel, or leaves
\* the channel alone.
LEMMA StepIsACall == Ch!Ownership /\ [Next]_vars => [Ch!Next]_(Ch!vars)
<1> SUFFICES ASSUME Ch!Ownership, [Next]_vars PROVE [Ch!Next]_(Ch!vars)
  OBVIOUS
<1>1. "mux" \in Ch!Proc /\ "engine" \in Ch!Proc
  BY DEF Ch!Proc
<1>2. ASSUME NEW p \in Ch!Proc, NEW m \in Mbuf,
             \/ Ch!New(p, m) \/ Ch!IntoPtr(p, m)
             \/ Ch!Enqueue(p, m) \/ Ch!EnqueueFull(p, m)
      PROVE  Ch!Next
  BY <1>2 DEF Ch!Next, Ch!Call
<1>3. ASSUME NEW p \in Ch!Proc, Ch!Dequeue(p) \/ Ch!DequeueEmpty(p)
      PROVE  Ch!Next
  BY <1>3 DEF Ch!Next, Ch!Call
<1>4. CASE BurstBegin \/ BurstAllocDone \/ BurstPush \/ Route \/ UNCHANGED vars
  BY <1>4 DEF BurstBegin, BurstAllocDone, BurstPush, Route, vars, Ch!vars
<1>5. CASE BurstAlloc \/ Queue \/ RecvOrXmitBegin("recv") \/ RecvOrXmitBegin("xmit")
  BY <1>1, <1>2, <1>5 DEF BurstAlloc, Queue, RecvOrXmitBegin
<1>6. CASE BurstDequeue
  BY <1>6, BurstIsAStep DEF BurstDequeue, Ch!vars
<1>7. CASE BurstTruncate \/ RecvDrop
  BY <1>7, FreeIsAStep DEF BurstTruncate, RecvDrop
<1>8. CASE Consume
  <2>1. PICK m \in routed : Ch!Free("mux", {m}) \/ Ch!IntoPtr("mux", m)
    BY <1>8 DEF Consume
  <2>2. CASE Ch!Free("mux", {m})
    BY <2>2, FreeIsAStep
  <2>3. CASE Ch!IntoPtr("mux", m)
    <3>1. m \in Mbuf
      BY <1>1, <2>3, Owners DEF Ch!IntoPtr
    <3> QED
      BY <1>1, <1>2, <2>3, <3>1
  <2> QED
    BY <2>1, <2>2, <2>3
<1>9. CASE XmitBulk
  <2> DEFINE S == Range(out_buf)
  <2>1. Ch!EnqueueBulk("mux", S)
    BY <1>9 DEF XmitBulk
  <2> HIDE DEF S
  <2>2. S \subseteq Mbuf
    BY <1>1, <2>1, Owners DEF Ch!EnqueueBulk
  <2>3. CASE S = {}
    BY <2>1, <2>3, Owners DEF Ch!EnqueueBulk, Ch!vars, Ch!Proc, Ch!Leak
  <2>4. CASE S # {}
    BY <1>1, <2>1, <2>2, <2>4 DEF Ch!Next, Ch!Call
  <2> QED
    BY <2>3, <2>4
<1>10. CASE RecvDequeue
  BY <1>1, <1>3, <1>10 DEF RecvDequeue
<1>11. CASE XmitSend
  <2>1. Ch!Enqueue("mux", pkts[1]) \/ Ch!EnqueueFull("mux", pkts[1])
    BY <1>11 DEF XmitSend
  <2>2. pkts[1] \in Mbuf
    BY <1>1, <2>1, Owners DEF Ch!Enqueue, Ch!EnqueueFull
  <2> QED
    BY <1>1, <1>2, <2>1, <2>2
<1>12. CASE Engine
  BY <1>1, <1>12 DEF Engine, Ch!Next
<1> QED
  BY <1>4, <1>5, <1>6, <1>7, <1>8, <1>9, <1>10, <1>11, <1>12 DEF Next

\* However the thread's half-finished functions, the handlers and the engine
\* interleave, every buffer of the pool is in exactly one place.
THEOREM MuxKeepsOwnership == Spec => []Ch!Ownership
<1>1. Init => Ch!Init
  BY DEF Init
<1> QED
  BY <1>1, ChannelKeepsOwnership, StepIsACall, PTL DEF Spec

----------------------------------------------------------------------------
(* What concatenation, appending and splitting do to a Vec of handles *)

LEMMA RangeOfConcat ==
  ASSUME NEW T, NEW s \in Seq(T), NEW t \in Seq(T)
  PROVE  /\ s \o t \in Seq(T) /\ Len(s \o t) = Len(s) + Len(t)
         /\ Range(s \o t) = Range(s) \cup Range(t)
         /\ IsInjective(s \o t) <=> /\ IsInjective(s) /\ IsInjective(t)
                                    /\ Range(s) \cap Range(t) = {}
<1> DEFINE u == s \o t
           m == Len(s)
           n == Len(t)
<1>1. m \in Nat /\ n \in Nat /\ u \in Seq(T) /\ Len(u) = m + n
  OBVIOUS
<1>2. DOMAIN s = 1 .. m /\ DOMAIN t = 1 .. n /\ DOMAIN u = 1 .. (m + n)
  BY <1>1
<1>3. /\ \A i \in 1 .. m : i \in 1 .. (m + n) /\ u[i] = s[i]
      /\ \A i \in 1 .. n : m + i \in 1 .. (m + n) /\ u[m + i] = t[i]
  BY <1>1
<1>4. \A i \in 1 .. (m + n) : i \in 1 .. m \/ (i - m \in 1 .. n /\ m + (i - m) = i)
  BY <1>1
<1> HIDE DEF u, m, n
<1>5. \A i \in 1 .. (m + n) : \/ i \in 1 .. m /\ u[i] = s[i]
                              \/ i - m \in 1 .. n /\ u[i] = t[i - m]
  <2> TAKE i \in 1 .. (m + n)
  <2>1. CASE i \in 1 .. m
    <3>1. u[i] = s[i]
      BY <1>3, <2>1
    <3> QED
      BY <2>1, <3>1, Zenon
  <2>2. CASE i \notin 1 .. m
    <3> DEFINE j == i - m
    <3>1. j \in 1 .. n /\ m + j = i
      BY <1>4, <2>2
    <3> HIDE DEF j
    <3>2. u[m + j] = t[j]
      BY <1>3, <3>1
    <3>3. j \in 1 .. n /\ u[i] = t[j]
      BY <3>1, <3>2
    <3> QED
      BY <3>3 DEF j
  <2> QED
    BY <2>1, <2>2
<1>6. Range(u) = Range(s) \cup Range(t)
  BY <1>2, <1>3, <1>5 DEF Range
<1>7. ASSUME IsInjective(u)
      PROVE  IsInjective(s) /\ IsInjective(t) /\ Range(s) \cap Range(t) = {}
  <2>1. \A i, j \in 1 .. (m + n) : u[i] = u[j] => i = j
    BY <1>2, <1>7 DEF IsInjective
  <2>2. IsInjective(s)
    BY <1>2, <1>3, <2>1 DEF IsInjective
  <2>3. \A i, j \in 1 .. n : t[i] = t[j] => m + i = m + j
    BY <1>3, <2>1
  <2>4. IsInjective(t)
    BY <1>1, <1>2, <2>3 DEF IsInjective
  <2>5. \A i \in 1 .. m, j \in 1 .. n : i # m + j
    BY <1>1
  <2>6. \A i \in 1 .. m, j \in 1 .. n : s[i] # t[j]
    BY <1>3, <2>1, <2>5
  <2> QED
    BY <1>2, <2>2, <2>4, <2>6 DEF Range
<1>8. ASSUME IsInjective(s), IsInjective(t), Range(s) \cap Range(t) = {}
      PROVE  IsInjective(u)
  <2>1. /\ \A i, j \in 1 .. m : s[i] = s[j] => i = j
        /\ \A i, j \in 1 .. n : t[i] = t[j] => i = j
        /\ \A i \in 1 .. m, j \in 1 .. n : s[i] # t[j]
    BY <1>2, <1>8 DEF IsInjective, Range
  <2>2. \A i, j \in 1 .. (m + n) : i - m = j - m => i = j
    BY <1>1
  <2> SUFFICES ASSUME NEW i \in 1 .. (m + n), NEW j \in 1 .. (m + n), u[i] = u[j]
               PROVE  i = j
    BY <1>2 DEF IsInjective
  <2> QED
    BY <1>5, <2>1, <2>2
<1> QED
  BY <1>1, <1>6, <1>7, <1>8 DEF u, m, n

\* One handle.
LEMMA OneHandle ==
  ASSUME NEW T, NEW m \in T
  PROVE  <<m>> \in Seq(T) /\ Range(<<m>>) = {m} /\ IsInjective(<<m>>)
  BY DEF Range, IsInjective

LEMMA NoHandle == <<>> \in Seq(Mbuf) /\ Range(<<>>) = {} /\ IsInjective(<<>>)
  BY DEF Range, IsInjective

\* Vec::push.
LEMMA RangeOfAppend ==
  ASSUME NEW T, NEW s \in Seq(T), NEW m \in T, IsInjective(s), m \notin Range(s)
  PROVE  /\ Append(s, m) \in Seq(T) /\ Len(Append(s, m)) = Len(s) + 1
         /\ Range(Append(s, m)) = Range(s) \cup {m}
         /\ IsInjective(Append(s, m))
<1>1. Append(s, m) = s \o <<m>>
  OBVIOUS
<1>2. Append(s, m) \in Seq(T) /\ Len(Append(s, m)) = Len(s) + 1
  OBVIOUS
<1> DEFINE t == <<m>>
<1>3. t \in Seq(T) /\ Range(t) = {m} /\ IsInjective(t) /\ Append(s, m) = s \o t
  BY <1>1, OneHandle
<1> HIDE DEF t
<1>4. /\ Range(s \o t) = Range(s) \cup Range(t)
      /\ IsInjective(s) /\ IsInjective(t) /\ Range(s) \cap Range(t) = {}
           => IsInjective(s \o t)
  BY <1>3, RangeOfConcat
<1>5. Range(s) \cap Range(t) = {}
  BY <1>3
<1> QED
  BY <1>2, <1>3, <1>4, <1>5

\* Vec::truncate(k) keeps the first k, and drops the others.
LEMMA RangeOfSplit ==
  ASSUME NEW T, NEW s \in Seq(T), NEW k \in 0 .. Len(s), IsInjective(s)
  PROVE  LET kept == SubSeq(s, 1, k)
             rest == SubSeq(s, k + 1, Len(s))
         IN  /\ kept \in Seq(T) /\ Len(kept) = k /\ IsInjective(kept)
             /\ Range(kept) \cup Range(rest) = Range(s)
             /\ Range(kept) \cap Range(rest) = {}
<1> DEFINE kept == SubSeq(s, 1, k)
           rest == SubSeq(s, k + 1, Len(s))
<1>1. kept \in Seq(T) /\ rest \in Seq(T) /\ Len(kept) = k
  OBVIOUS
<1>2. kept \o rest = s
  <2>1. /\ 1 \in 1 .. (Len(s) + 1) /\ k \in (1 - 1) .. Len(s)
        /\ Len(s) \in k .. Len(s)
    OBVIOUS
  <2>2. kept \o rest = SubSeq(s, 1, Len(s))
    BY <2>1, ConcatAdjacentSubSeq, Zenon
  <2> QED
    BY <2>2, SubSeqFull
<1> HIDE DEF kept, rest
<1>3. /\ IsInjective(kept) /\ Range(kept) \cap Range(rest) = {}
      /\ Range(kept) \cup Range(rest) = Range(s)
  BY <1>1, <1>2, RangeOfConcat
<1> QED
  BY <1>1, <1>3 DEF kept, rest

\* ArrayQueue::pop.
LEMMA RangeOfTail ==
  ASSUME NEW T, NEW s \in Seq(T), s # <<>>, IsInjective(s)
  PROVE  /\ Tail(s) \in Seq(T) /\ Len(Tail(s)) <= Len(s) /\ IsInjective(Tail(s))
         /\ Head(s) \in Range(s) /\ Range(Tail(s)) = Range(s) \ {Head(s)}
<1>1. Tail(s) \in Seq(T) /\ Head(s) \in T /\ Len(Tail(s)) <= Len(s)
  OBVIOUS
<1>2. s = <<Head(s)>> \o Tail(s)
  OBVIOUS
<1> DEFINE h == <<Head(s)>>
           t == Tail(s)
<1>3. /\ h \in Seq(T) /\ Range(h) = {Head(s)} /\ IsInjective(h)
      /\ t \in Seq(T) /\ s = h \o t
  BY <1>1, <1>2, OneHandle
<1> HIDE DEF h, t
<1>4. /\ Range(h \o t) = Range(h) \cup Range(t)
      /\ IsInjective(h \o t) => IsInjective(t) /\ Range(h) \cap Range(t) = {}
  BY <1>3, RangeOfConcat
<1>5. /\ IsInjective(t) /\ {Head(s)} \cap Range(t) = {}
      /\ Range(s) = {Head(s)} \cup Range(t)
  BY <1>3, <1>4
<1> QED
  BY <1>1, <1>5 DEF t

----------------------------------------------------------------------------
(* The handles *)

\* HandlesAreOwned, variable by variable.
Handles ==
  /\ pkts \in Seq(Mbuf) /\ in_buf \in Seq(Mbuf) /\ out_buf \in Seq(Mbuf)
  /\ IsInjective(pkts) /\ IsInjective(in_buf) /\ IsInjective(out_buf)
  /\ Range(pkts) \cap Range(in_buf) = {}
  /\ Range(pkts) \cap Range(out_buf) = {}
  /\ Range(in_buf) \cap Range(out_buf) = {}
  /\ routed \cap (Range(pkts) \cup Range(in_buf) \cup Range(out_buf)) = {}
  /\ held["mux"] = Range(pkts) \cup Range(in_buf) \cup Range(out_buf) \cup routed

\* What pkts and want hold at each point of a function: recv and xmit work
\* on one buffer, a burst never has more buffers than in_buf has room for.
Progress ==
  /\ want \in Nat
  /\ pc \in {"idle", "alloc", "dequeue", "truncate", "push", "recv", "drop", "xmit"}
  /\ Len(in_buf) <= BurstSz
  /\ pc = "idle" => pkts = <<>>
  /\ pc = "alloc" => Len(pkts) <= want /\ Len(in_buf) + want <= BurstSz
  /\ pc \in {"dequeue", "truncate", "push"} => Len(in_buf) + Len(pkts) <= BurstSz
  /\ pc = "truncate" => want <= Len(pkts)
  /\ pc \in {"recv", "drop", "xmit"} => Len(pkts) = 1

\* The inductive invariant of the thread.
MuxInv == Handles /\ Progress

LEMMA HandlesImply == Handles => HandlesAreOwned
<1> SUFFICES ASSUME Handles PROVE HandlesAreOwned
  OBVIOUS
<1> DEFINE two == pkts \o in_buf
<1>1. /\ two \in Seq(Mbuf) /\ Range(two) = Range(pkts) \cup Range(in_buf)
      /\ IsInjective(two)
  BY RangeOfConcat DEF Handles
<1> HIDE DEF two
<1>2. out_buf \in Seq(Mbuf) /\ IsInjective(out_buf) /\ Range(two) \cap Range(out_buf) = {}
  BY <1>1 DEF Handles
<1>3. /\ Range(two \o out_buf) = Range(two) \cup Range(out_buf)
      /\ IsInjective(two \o out_buf)
  BY <1>1, <1>2, RangeOfConcat
<1> QED
  BY <1>1, <1>3 DEF HandlesAreOwned, Handles, two

\* The lengths that Progress speaks of are numbers.
LEMMA Lengths ==
  ASSUME MuxInv
  PROVE  /\ want \in Nat /\ BurstSz \in Nat \ {0}
         /\ Len(pkts) \in Nat /\ Len(in_buf) \in Nat
         /\ Len(in_buf) <= BurstSz
  BY BurstSzAssumption DEF MuxInv, Handles, Progress

\* The engine never touches a handle of the mux.
LEMMA EngineKeepsHandles ==
  ASSUME Ch!Ownership, MuxInv, Engine
  PROVE  MuxInv'
<1>1. UNCHANGED <<in_buf, out_buf, routed, pkts, want, pc>>
  BY DEF Engine
<1>2. held'["mux"] = held["mux"]
  BY Owners DEF Engine, Ch!Call, Ch!New, Ch!IntoPtr, Ch!Enqueue, Ch!EnqueueFull,
                Ch!AllocBulk, Ch!Free, Ch!EnqueueBulk, Ch!DequeueBurst,
                Ch!NewNoBuf, Ch!Dequeue, Ch!DequeueEmpty, Ch!vars, Ch!Proc
<1> QED
  BY <1>1, <1>2 DEF MuxInv, Handles, Progress

\* Mbuf::new returns a buffer that no place of the process has.
LEMMA NewIsFresh ==
  ASSUME Ch!Ownership, Handles, NEW m \in Mbuf, Ch!New("mux", m)
  PROVE  /\ held'["mux"] = held["mux"] \cup {m}
         /\ m \notin Range(pkts) /\ m \notin Range(in_buf) /\ m \notin Range(out_buf)
        /\ m \notin routed
<1>1. m \in pool /\ held'["mux"] = held["mux"] \cup {m}
  BY Owners DEF Ch!New, Ch!Proc
<1> QED
  BY <1>1, Owners DEF Handles

\* The steps that allocate.
LEMMA AllocatingKeeps ==
  ASSUME Ch!Ownership, MuxInv,
         BurstAlloc \/ Queue \/ \E f \in {"recv", "xmit"} : RecvOrXmitBegin(f)
  PROVE  MuxInv'
<1>1. CASE BurstAlloc
  <2>1. PICK m \in Mbuf : Ch!New("mux", m) /\ pkts' = Append(pkts, m)
    BY <1>1 DEF BurstAlloc
  <2>2. /\ held'["mux"] = held["mux"] \cup {m}
        /\ m \notin Range(pkts) /\ m \notin Range(in_buf) /\ m \notin Range(out_buf)
        /\ m \notin routed
    BY <2>1, NewIsFresh DEF MuxInv
  <2>3. /\ pkts' \in Seq(Mbuf) /\ Len(pkts') = Len(pkts) + 1
        /\ Range(pkts') = Range(pkts) \cup {m} /\ IsInjective(pkts')
    BY <2>1, <2>2, RangeOfAppend DEF MuxInv, Handles
  <2>4. /\ UNCHANGED <<in_buf, out_buf, routed, want, pc>>
        /\ pc = "alloc" /\ Len(pkts) < want
    BY <1>1 DEF BurstAlloc
  <2>5. Handles'
    BY <2>2, <2>3, <2>4 DEF MuxInv, Handles
  <2>6. Progress'
    BY <2>3, <2>4, Lengths DEF MuxInv, Progress
  <2> QED
    BY <2>5, <2>6 DEF MuxInv
<1>2. CASE Queue
  <2>1. PICK m \in Mbuf : Ch!New("mux", m) /\ out_buf' = Append(out_buf, m)
    BY <1>2 DEF Queue
  <2>2. /\ held'["mux"] = held["mux"] \cup {m}
        /\ m \notin Range(pkts) /\ m \notin Range(in_buf) /\ m \notin Range(out_buf)
        /\ m \notin routed
    BY <2>1, NewIsFresh DEF MuxInv
  <2>3. /\ out_buf' \in Seq(Mbuf)
        /\ Range(out_buf') = Range(out_buf) \cup {m} /\ IsInjective(out_buf')
    BY <2>1, <2>2, RangeOfAppend DEF MuxInv, Handles
  <2>4. UNCHANGED <<in_buf, routed, pkts, want, pc>>
    BY <1>2 DEF Queue
  <2>5. Handles'
    BY <2>2, <2>3, <2>4 DEF MuxInv, Handles
  <2>6. Progress'
    BY <2>4 DEF MuxInv, Progress
  <2> QED
    BY <2>5, <2>6 DEF MuxInv
<1>3. ASSUME NEW f \in {"recv", "xmit"}, RecvOrXmitBegin(f)
      PROVE  MuxInv'
  <2>1. PICK m \in Mbuf : Ch!New("mux", m) /\ pkts' = <<m>>
    BY <1>3 DEF RecvOrXmitBegin
  <2>2. /\ held'["mux"] = held["mux"] \cup {m}
        /\ m \notin Range(in_buf) /\ m \notin Range(out_buf) /\ m \notin routed
    BY <2>1, NewIsFresh DEF MuxInv
  <2>3. pkts' \in Seq(Mbuf) /\ Range(pkts') = {m} /\ IsInjective(pkts')
    BY <2>1, OneHandle
  <2>4. UNCHANGED <<in_buf, out_buf, routed, want>> /\ pc = "idle" /\ pc' = f
    BY <1>3 DEF RecvOrXmitBegin
  <2>5. Range(pkts) = {} /\ Len(pkts') = 1
    BY <2>1, <2>4, NoHandle DEF MuxInv, Progress
  <2>6. Handles'
    BY <2>2, <2>3, <2>4, <2>5 DEF MuxInv, Handles
  <2>7. Progress'
    BY <1>3, <2>4, <2>5 DEF MuxInv, Progress
  <2> QED
    BY <2>6, <2>7 DEF MuxInv
<1> QED
  BY <1>1, <1>2, <1>3

\* The steps of a burst that leave the ownership of the handles alone.
LEMMA BurstingKeeps ==
  ASSUME Ch!Ownership, MuxInv, BurstBegin \/ BurstAllocDone \/ BurstDequeue
  PROVE  MuxInv'
<1>1. held' = held /\ UNCHANGED <<in_buf, out_buf, routed, pkts>>
  BY DEF BurstBegin, BurstAllocDone, BurstDequeue, Ch!DequeueBurst
<1>2. Handles'
  BY <1>1 DEF MuxInv, Handles
<1>3. CASE BurstBegin
  <2>1. pc = "idle" /\ pc' = "alloc" /\ want' = BurstSz - Len(in_buf)
    BY <1>3 DEF BurstBegin
  <2>2. Len(pkts) = 0
    BY <2>1 DEF MuxInv, Progress
  <2> QED
    BY <1>1, <1>2, <2>1, <2>2, Lengths DEF MuxInv, Progress
<1>4. CASE BurstAllocDone
  <2>1. pc = "alloc" /\ pc' = "dequeue" /\ want' = want
    BY <1>4 DEF BurstAllocDone
  <2> QED
    BY <1>1, <1>2, <2>1, Lengths DEF MuxInv, Progress
<1>5. CASE BurstDequeue
  <2>1. /\ pc = "dequeue" /\ pc' = "truncate"
        /\ want' = IF Len(pkts) < Len(ring["E2C"]) THEN Len(pkts) ELSE Len(ring["E2C"])
    BY <1>5 DEF BurstDequeue, Ch!Burst
  <2>2. Len(ring["E2C"]) \in Nat
    BY Owners DEF Ch!Ring
  <2>3. want' \in Nat /\ want' <= Len(pkts)
    BY <2>1, <2>2, Lengths
  <2> QED
    BY <1>1, <1>2, <2>1, <2>3 DEF MuxInv, Progress
<1> QED
  BY <1>3, <1>4, <1>5

\* pkts.truncate(sz): what is dropped was in pkts, what stays is not freed.
LEMMA TruncateKeeps ==
  ASSUME Ch!Ownership, MuxInv, BurstTruncate
  PROVE  MuxInv'
<1> DEFINE kept == SubSeq(pkts, 1, want)
           rest == SubSeq(pkts, want + 1, Len(pkts))
<1>1. pc = "truncate" /\ want \in 0 .. Len(pkts)
  BY Lengths DEF BurstTruncate, MuxInv, Progress
<1>2. /\ kept \in Seq(Mbuf) /\ Len(kept) = want /\ IsInjective(kept)
      /\ Range(kept) \cup Range(rest) = Range(pkts)
      /\ Range(kept) \cap Range(rest) = {}
  BY <1>1, RangeOfSplit DEF MuxInv, Handles
<1>3. /\ pkts' = kept /\ pc' = "push" /\ UNCHANGED <<in_buf, out_buf, routed, want>>
      /\ Ch!Free("mux", Range(rest))
  BY DEF BurstTruncate
<1> HIDE DEF kept, rest
<1>4. held'["mux"] = held["mux"] \ Range(rest)
  BY <1>3, Owners DEF Ch!Free, Ch!Proc
<1>5. Handles'
  BY <1>2, <1>3, <1>4 DEF MuxInv, Handles
<1>6. Progress'
  BY <1>1, <1>2, <1>3, Lengths DEF MuxInv, Progress
<1> QED
  BY <1>5, <1>6 DEF MuxInv

\* pkts.drain(..) moves the rest to in_buf, which has room for it.
LEMMA PushKeeps ==
  ASSUME Ch!Ownership, MuxInv, BurstPush
  PROVE  MuxInv'
<1>1. pc = "push" /\ in_buf' = in_buf \o pkts /\ pkts' = <<>> /\ want' = 0
      /\ out_buf' = out_buf /\ routed' = routed /\ held' = held
  BY DEF BurstPush
<1>2. /\ in_buf' \in Seq(Mbuf) /\ Len(in_buf') = Len(in_buf) + Len(pkts)
      /\ Range(in_buf') = Range(in_buf) \cup Range(pkts) /\ IsInjective(in_buf')
  BY <1>1, RangeOfConcat DEF MuxInv, Handles
<1>3. Len(in_buf) + Len(pkts) <= BurstSz
  BY <1>1 DEF MuxInv, Progress
<1>4. pc' = "idle"
  BY <1>3 DEF BurstPush
<1>5. Handles'
  BY <1>1, <1>2, NoHandle DEF MuxInv, Handles
<1>6. Progress'
  BY <1>1, <1>2, <1>3, <1>4 DEF Progress
<1> QED
  BY <1>5, <1>6 DEF MuxInv

\* A packet leaves in_buf for a worker, which has its handle now.
LEMMA RouteKeeps ==
  ASSUME Ch!Ownership, MuxInv, Route
  PROVE  MuxInv'
<1>1. /\ in_buf # <<>> /\ in_buf' = Tail(in_buf) /\ held' = held
      /\ routed' = routed \cup {Head(in_buf)}
      /\ UNCHANGED <<out_buf, pkts, want, pc>> /\ pc = "idle"
  BY DEF Route
<1>2. /\ in_buf' \in Seq(Mbuf) /\ Len(in_buf') <= Len(in_buf) /\ IsInjective(in_buf')
      /\ Head(in_buf) \in Range(in_buf) /\ Range(in_buf') = Range(in_buf) \ {Head(in_buf)}
  BY <1>1, RangeOfTail DEF MuxInv, Handles
<1>3. Handles'
  BY <1>1, <1>2 DEF MuxInv, Handles
<1>4. Len(in_buf') \in Nat
  BY <1>2
<1>5. Progress'
  BY <1>1, <1>2, <1>4, Lengths DEF MuxInv, Progress
<1> QED
  BY <1>3, <1>5 DEF MuxInv

\* A worker or a handler gives up a packet, whatever the main thread is doing.
LEMMA ConsumeKeeps ==
  ASSUME Ch!Ownership, MuxInv, Consume
  PROVE  MuxInv'
<1>1. PICK m \in routed :
        (Ch!Free("mux", {m}) \/ Ch!IntoPtr("mux", m)) /\ routed' = routed \ {m}
  BY DEF Consume
<1>2. UNCHANGED <<in_buf, out_buf, pkts, want, pc>>
  BY DEF Consume
<1>3. held'["mux"] = held["mux"] \ {m}
  BY <1>1, Owners DEF Ch!Free, Ch!IntoPtr, Ch!Proc
<1>4. Handles'
  BY <1>1, <1>2, <1>3 DEF MuxInv, Handles
<1>5. Progress'
  BY <1>2 DEF MuxInv, Progress
<1> QED
  BY <1>4, <1>5 DEF MuxInv

\* xmit_to_engine_bulk gives up the handles of out_buf.
LEMMA XmitBulkKeeps ==
  ASSUME Ch!Ownership, MuxInv, XmitBulk
  PROVE  MuxInv'
<1>1. out_buf' = <<>> /\ UNCHANGED <<in_buf, routed, pkts, want, pc>>
  BY DEF XmitBulk
<1>2. held'["mux"] = held["mux"] \ Range(out_buf)
  BY Owners DEF XmitBulk, Ch!EnqueueBulk, Ch!Proc
<1>3. Handles'
  BY <1>1, <1>2, NoHandle DEF MuxInv, Handles
<1>4. Progress'
  BY <1>1 DEF MuxInv, Progress
<1> QED
  BY <1>3, <1>4 DEF MuxInv

\* recv and xmit end by giving up their one buffer.
LEMMA OneBufferKeeps ==
  ASSUME Ch!Ownership, MuxInv, RecvDequeue \/ RecvDrop \/ XmitSend
  PROVE  MuxInv'
<1>1. CASE RecvDequeue
  <2>1. held' = held /\ UNCHANGED <<in_buf, out_buf, routed, pkts, want>>
        /\ pc = "recv" /\ pc' = "drop"
    BY <1>1 DEF RecvDequeue, Ch!Dequeue, Ch!DequeueEmpty, Ch!vars
  <2> QED
    BY <2>1 DEF MuxInv, Handles, Progress
<1>2. ASSUME pkts' = <<>>, held'["mux"] = held["mux"] \ Range(pkts), pc' = "idle",
             UNCHANGED <<in_buf, out_buf, routed, want>>
      PROVE  MuxInv'
  <2>1. Handles'
    BY <1>2, NoHandle DEF MuxInv, Handles
  <2>2. Progress'
    BY <1>2 DEF MuxInv, Progress
  <2> QED
    BY <2>1, <2>2 DEF MuxInv
<1>3. CASE RecvDrop
  <2>1. held'["mux"] = held["mux"] \ Range(pkts)
    BY <1>3, Owners DEF RecvDrop, Ch!Free, Ch!Proc
  <2> QED
    BY <1>2, <1>3, <2>1 DEF RecvDrop
<1>4. CASE XmitSend
  <2>1. Len(pkts) = 1 /\ pkts \in Seq(Mbuf)
    BY <1>4 DEF XmitSend, MuxInv, Handles, Progress
  <2>2. Range(pkts) = {pkts[1]}
    BY <2>1 DEF Range
  <2>3. held'["mux"] = held["mux"] \ {pkts[1]}
    BY <1>4, Owners DEF XmitSend, Ch!Enqueue, Ch!EnqueueFull, Ch!Proc
  <2> QED
    BY <1>2, <1>4, <2>2, <2>3 DEF XmitSend
<1> QED
  BY <1>1, <1>3, <1>4

LEMMA MuxInvPreserved == Ch!Ownership /\ MuxInv /\ [Next]_vars => MuxInv'
<1> SUFFICES ASSUME Ch!Ownership, MuxInv, [Next]_vars PROVE MuxInv'
  OBVIOUS
<1>1. CASE UNCHANGED vars
  BY <1>1 DEF vars, MuxInv, Handles, Progress
<1> QED
  BY <1>1, EngineKeepsHandles, AllocatingKeeps, BurstingKeeps, TruncateKeeps,
     PushKeeps, RouteKeeps, ConsumeKeeps, XmitBulkKeeps, OneBufferKeeps DEF Next

LEMMA MuxInvInitially == Init => MuxInv
<1> SUFFICES ASSUME Init PROVE MuxInv
  OBVIOUS
<1>1. /\ in_buf = <<>> /\ out_buf = <<>> /\ pkts = <<>> /\ want = 0 /\ pc = "idle"
      /\ held["mux"] = {} /\ routed = {}
  BY DEF Init, Ch!Init, Ch!Proc
<1>2. Handles
  BY <1>1, NoHandle DEF Handles
<1>3. Progress
  BY <1>1, BurstSzAssumption DEF Progress
<1> QED
  BY <1>2, <1>3 DEF MuxInv

LEMMA MuxInvariant == Spec => []MuxInv
  BY MuxInvInitially, MuxInvPreserved, MuxKeepsOwnership, PTL DEF Spec

\* in_buf.push(pkt).unwrap() (mux/mod.rs:94) never panics, whatever the burst
\* size, the state of the pool and the number of packets in the ring.
THEOREM TheUnwrapIsNeverHit == Spec => []NeverHitTheUnwrap
<1>1. MuxInv => NeverHitTheUnwrap
  BY DEF MuxInv, Progress, NeverHitTheUnwrap
<1> QED
  BY <1>1, MuxInvariant, PTL

\* pkts, in_buf, out_buf and the workers, channels and handlers of the clients
\* hold every handle that the process owns, each one once: nothing is dropped
\* twice, kept after it was sent, or forgotten.
THEOREM EveryHandleIsOwned == Spec => []HandlesAreOwned
<1>1. MuxInv => HandlesAreOwned
  BY HandlesImply DEF MuxInv
<1> QED
  BY <1>1, MuxInvariant, PTL
=============================================================================
