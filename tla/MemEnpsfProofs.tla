--------------------------- MODULE MemEnpsfProofs ---------------------------
(***************************************************************************)
(* The shared-memory interface, for every number and size of slots, every  *)
(* page size and whatever a peer sends: an accepted packet is never        *)
(* overwritten, and what the client has announced is there.                *)
(***************************************************************************)
EXTENDS MemEnpsf, Integers, TLAPS

----------------------------------------------------------------------------
(* The indexes of the queues *)

\* The remainder is determined by the decomposition.
LEMMA Remainder ==
  ASSUME NEW c \in Nat \ {0}, NEW k \in Int, NEW r \in 0 .. (c - 1)
  PROVE  (c * k + r) % c = r
  BY SMT

\* (cur_ind + 1) % self.capacity: an index either grows or comes back to 0.
LEMMA AdvanceSlot ==
  ASSUME NEW i \in Slot
  PROVE  /\ Advance(i) \in Slot
         /\ Advance(i) # 0 => Advance(i) = i + 1
<1>1. Cap \in Nat \ {0} /\ i \in 0 .. (Cap - 1)
  BY SizesAssumption DEF Slot
<1>2. CASE i + 1 = Cap
  <2>1. (Cap * 1 + 0) % Cap = 0
    BY <1>1, Remainder
  <2>2. Cap * 1 + 0 = i + 1
    BY <1>1, <1>2
  <2> QED
    BY <1>1, <2>1, <2>2 DEF Advance, Slot
<1>3. CASE i + 1 < Cap
  <2>1. i + 1 \in 0 .. (Cap - 1)
    BY <1>1, <1>3
  <2>2. (Cap * 0 + (i + 1)) % Cap = i + 1
    BY <1>1, <2>1, Remainder
  <2>3. Cap * 0 + (i + 1) = i + 1
    BY <1>1
  <2> QED
    BY <2>1, <2>2, <2>3 DEF Advance, Slot
<1> QED
  BY <1>1, <1>2, <1>3

IndexType ==
  /\ mem \in [Queue -> [Slot -> Nat]]
  /\ write \in [Endpoint -> [Queue -> Slot]]
  /\ read \in [Endpoint -> [Queue -> Slot]]

\* An endpoint moves the write index of the queue it transmits on and no
\* other index: its copies of the peer's indexes stay where they were.
OnlyOwnIndexMoves ==
  \A e \in Endpoint : write[e][In(e)] = 0 /\ \A q \in Queue : read[e][q] = 0

\* The inductive invariant of the queues.
QueueInv == IndexType /\ OnlyOwnIndexMoves /\ NothingOverwritten

LEMMA QueueInitially == Init => QueueInv
<1> SUFFICES ASSUME Init PROVE QueueInv
  OBVIOUS
<1>1. 0 \in Slot
  BY SizesAssumption DEF Slot
<1>2. \A e \in Endpoint : In(e) \in Queue /\ Out(e) \in Queue
  BY DEF In, Out, Queue
<1> QED
  BY <1>1, <1>2 DEF Init, QueueInv, IndexType, OnlyOwnIndexMoves, NothingOverwritten, Written

\* xmit_to_client and xmit_to_srv write the slot after the last one.
LEMMA XmitKeepsQueues ==
  ASSUME QueueInv, NEW e \in Endpoint, Xmit(e)
  PROVE  QueueInv'
<1> DEFINE q == Out(e)
           w == write[e][q]
           i == Advance(w)
<1>1. /\ q \in Queue /\ w \in Slot /\ read[e][q] = 0
      /\ \A f \in Endpoint : In(f) \in Queue /\ Out(f) \in Queue /\ In(f) # Out(f)
  BY DEF QueueInv, IndexType, OnlyOwnIndexMoves, In, Out, Queue
<1>2. /\ i # 0
      /\ write' = [write EXCEPT ![e][q] = i]
      /\ read' = read
      /\ \/ mem' = [mem EXCEPT ![q][i] = @ + 1] /\ fault' = fault
         \/ mem' = mem /\ fault' = fault \cup {e}
      /\ e \notin fault
  BY <1>1 DEF Xmit, Returns, Faults, Up
<1>3. i \in Slot /\ i = w + 1 /\ w \in Nat /\ \A j \in Slot : j \in Nat
  BY <1>1, <1>2, AdvanceSlot, SizesAssumption DEF Slot
<1> HIDE DEF i
<1>4. IndexType'
  <2>1. write' \in [Endpoint -> [Queue -> Slot]] /\ read' \in [Endpoint -> [Queue -> Slot]]
    BY <1>1, <1>2, <1>3 DEF QueueInv, IndexType
  <2>2. CASE mem' = mem
    BY <2>1, <2>2 DEF QueueInv, IndexType
  <2>3. CASE mem' = [mem EXCEPT ![q][i] = @ + 1]
    <3>1. mem[q][i] + 1 \in Nat
      BY <1>1, <1>3 DEF QueueInv, IndexType
    <3> HIDE DEF q
    <3>2. mem' \in [Queue -> [Slot -> Nat]]
      BY <1>1, <1>3, <2>3, <3>1 DEF QueueInv, IndexType
    <3> QED
      BY <2>1, <3>2 DEF IndexType
  <2> QED
    BY <1>2, <2>2, <2>3
<1>5. \A f \in Endpoint : f # e => /\ Out(f) # q /\ write'[f] = write[f]
                                   /\ f \in fault' <=> f \in fault
  BY <1>1, <1>2, FilesAssumption DEF QueueInv, IndexType, Out
<1>6. OnlyOwnIndexMoves'
  BY <1>1, <1>2, <1>5 DEF QueueInv, IndexType, OnlyOwnIndexMoves
<1>7. ASSUME NEW f \in Endpoint, NEW j \in Slot
      PROVE  mem'[Out(f)][j] = IF j \in 1 .. Written(f)' THEN 1 ELSE 0
  <2>1. CASE f # e
    <3>1. mem'[Out(f)] = mem[Out(f)]
      BY <1>1, <1>2, <1>5, <2>1 DEF QueueInv, IndexType
    <3> QED
      BY <1>5, <2>1, <3>1 DEF QueueInv, NothingOverwritten, Written
  <2>2. CASE f = e
    <3>1. write'[e][q] = w + 1
      BY <1>1, <1>2, <1>3 DEF QueueInv, IndexType
    <3>2. mem[q][j] = IF j \in 1 .. w THEN 1 ELSE 0
      BY <1>2 DEF QueueInv, NothingOverwritten, Written
    <3>3. CASE mem' = mem /\ fault' = fault \cup {e}
      <4>1. Written(f)' = w
        BY <1>3, <2>2, <3>1, <3>3 DEF Written
      <4> QED
        BY <2>2, <3>2, <3>3, <4>1
    <3>4. CASE mem' = [mem EXCEPT ![q][i] = @ + 1] /\ fault' = fault
      <4>1. mem'[q][j] = IF j = w + 1 THEN mem[q][j] + 1 ELSE mem[q][j]
        BY <1>1, <1>3, <3>4 DEF QueueInv, IndexType
      <4>2. Written(f)' = w + 1
        BY <1>2, <2>2, <3>1, <3>4 DEF Written
      <4> HIDE DEF w, q
      <4>3. mem'[q][j] = IF j \in 1 .. (w + 1) THEN 1 ELSE 0
        BY <1>3, <3>2, <4>1
      <4> QED
        BY <2>2, <4>2, <4>3 DEF q
    <3> QED
      BY <1>2, <3>3, <3>4
  <2> QED
    BY <2>1, <2>2
<1> QED
  BY <1>4, <1>6, <1>7 DEF QueueInv, NothingOverwritten

\* recv_from_client and recv_from_srv find nothing and change nothing.
LEMMA RecvKeepsQueues ==
  ASSUME QueueInv, NEW e \in Endpoint, Recv(e)
  PROVE  UNCHANGED <<mem, write, read, fault>> /\ Announce(e)
<1>1. read[e][In(e)] = write[e][In(e)]
  BY DEF QueueInv, OnlyOwnIndexMoves, In, Queue
<1> QED
  BY <1>1 DEF Recv, Returns

\* Receiving the descriptor and being refused leave the queues alone.
LEMMA OthersKeepQueues ==
  ASSUME NEW e \in Endpoint, Peer(e) \/ New(e) \/ XmitFull(e)
  PROVE  UNCHANGED <<mem, write, read, fault>>
  BY DEF Peer, New, XmitFull, Returns

LEMMA QueuePreserved == QueueInv /\ [Next]_vars => QueueInv'
<1> SUFFICES ASSUME QueueInv, [Next]_vars PROVE QueueInv'
  OBVIOUS
<1>1. CASE UNCHANGED <<mem, write, read, fault>>
  BY <1>1 DEF QueueInv, IndexType, OnlyOwnIndexMoves, NothingOverwritten, Written
<1>2. ASSUME NEW e \in Endpoint, Xmit(e)
      PROVE  QueueInv'
  BY <1>2, XmitKeepsQueues
<1>3. CASE UNCHANGED vars
  BY <1>1, <1>3 DEF vars
<1> QED
  BY <1>1, <1>2, <1>3, RecvKeepsQueues, OthersKeepQueues DEF Next

\* A packet that xmit_to_client or xmit_to_srv accepted stays in its slot,
\* whatever both ends do: after cap - 1 packets every push is refused.
THEOREM AcceptedPacketsStay == Spec => []NothingOverwritten
<1>1. QueueInv => NothingOverwritten
  BY DEF QueueInv
<1> QED
  BY <1>1, QueueInitially, QueuePreserved, PTL DEF Spec

----------------------------------------------------------------------------
(* The announcements *)

\* What was announced is not ahead of what was written.
AnnounceInv ==
  /\ ctl \in [Endpoint -> Seq(Nat)]
  /\ Announced("cli") <= Written("cli")
  /\ Announced("srv") = 0

\* A byte is never ahead of the index it is made of.
LEMMA ByteOfIndex ==
  ASSUME NEW w \in Nat, NEW r \in Nat, NEW k \in 1 .. 2
  PROVE  LET p == SubSeq(Pointers(w, r), 1, k)
         IN  p \in Seq(Nat) /\ p # <<>> /\ Head(p) <= w /\ Head(p) \in Nat
                 /\ (w = 0 => Head(p) = 0)
<1> DEFINE a == w % 256
           b == r % 256
<1>1. a \in Nat /\ b \in Nat /\ a <= w /\ (w = 0 => a = 0)
  OBVIOUS
<1>2. Pointers(w, r) = <<a, b>>
  BY DEF Pointers
<1> HIDE DEF a, b
<1>3. <<a, b>> \in Seq(Nat) /\ Len(<<a, b>>) = 2
  BY <1>1
<1>4. SubSeq(<<a, b>>, 1, k) \in Seq(Nat) /\ Len(SubSeq(<<a, b>>, 1, k)) = k
      /\ SubSeq(<<a, b>>, 1, k)[1] = a
  BY <1>1, <1>3
<1>5. SubSeq(<<a, b>>, 1, k) # <<>> /\ Head(SubSeq(<<a, b>>, 1, k)) = a
  BY <1>4
<1> QED
  BY <1>1, <1>2, <1>4, <1>5

\* A call that announces: the position after it, a part of it, or nothing.
LEMMA AnnounceKeeps ==
  ASSUME QueueInv, QueueInv', AnnounceInv, NEW e \in Endpoint, Announce(e),
         e \notin fault', Written("cli") <= Written("cli")'
  PROVE  AnnounceInv'
<1>1. "cli" \in Endpoint /\ "srv" \in Endpoint /\ "c2s" \in Queue
      /\ In("srv") = "c2s" /\ Out("cli") = "c2s" /\ e \in {"cli", "srv"}
  BY FilesAssumption DEF Queue, In, Out
<1>2. /\ write'[e]["c2s"] \in Nat /\ read'[e]["c2s"] \in Nat
      /\ write'["cli"]["c2s"] \in Nat /\ write'["srv"]["c2s"] = 0
  BY <1>1, SizesAssumption DEF QueueInv, IndexType, OnlyOwnIndexMoves, Slot
<1>3. Announced("cli") \in Nat /\ ctl \in [Endpoint -> Seq(Nat)]
  BY <1>1 DEF AnnounceInv, Announced
<1>4. Written("cli") \in Int /\ Written("cli")' \in Int
  <2>1. Written("cli")' \in Int
    BY <1>1, <1>2 DEF Written
  <2>2. write["cli"]["c2s"] \in Nat
    BY <1>1, SizesAssumption DEF QueueInv, IndexType, Slot
  <2> QED
    BY <1>1, <2>1, <2>2 DEF Written
<1>5. CASE UNCHANGED ctl
  <2>1. Announced("cli")' = Announced("cli") /\ Announced("srv")' = Announced("srv")
    BY <1>5 DEF Announced
  <2> QED
    BY <1>3, <1>4, <1>5, <2>1 DEF AnnounceInv
<1>6. ASSUME NEW k \in 1 .. 2,
             ctl' = [ctl EXCEPT ![e] =
               SubSeq(Pointers(write'[e]["c2s"], read'[e]["c2s"]), 1, k)]
      PROVE  AnnounceInv'
  <2> DEFINE p == SubSeq(Pointers(write'[e]["c2s"], read'[e]["c2s"]), 1, k)
  <2>1. p \in Seq(Nat) /\ p # <<>> /\ Head(p) <= write'[e]["c2s"] /\ Head(p) \in Nat
        /\ (write'[e]["c2s"] = 0 => Head(p) = 0)
    BY <1>2, ByteOfIndex
  <2>2. ctl' = [ctl EXCEPT ![e] = p]
    BY <1>6
  <2> HIDE DEF p
  <2>3. ctl' \in [Endpoint -> Seq(Nat)]
    BY <1>3, <2>1, <2>2
  <2>4. Announced(e)' = Head(p) /\ \A f \in Endpoint : f # e => ctl'[f] = ctl[f]
    BY <1>3, <2>1, <2>2 DEF Announced
  <2>5. CASE e = "cli"
    <3>1. Written("cli")' = write'["cli"]["c2s"]
      BY <1>1, <2>5 DEF Written
    <3>2. Announced("cli")' <= Written("cli")'
      BY <2>1, <2>4, <2>5, <3>1
    <3>3. Announced("srv")' = 0
      BY <1>1, <2>4, <2>5 DEF AnnounceInv, Announced
    <3> QED
      BY <2>3, <3>2, <3>3 DEF AnnounceInv
  <2>6. CASE e = "srv"
    <3>1. Announced("srv")' = 0
      BY <1>2, <2>1, <2>4, <2>6
    <3>2. Announced("cli")' = Announced("cli")
      BY <1>1, <2>4, <2>6 DEF Announced
    <3> QED
      BY <1>3, <1>4, <2>3, <3>1, <3>2 DEF AnnounceInv
  <2> QED
    BY <1>1, <2>5, <2>6
<1> QED
  BY <1>5, <1>6 DEF Announce

LEMMA AnnouncePreserved == QueueInv /\ AnnounceInv /\ [Next]_vars => AnnounceInv'
<1> SUFFICES ASSUME QueueInv, AnnounceInv, [Next]_vars PROVE AnnounceInv'
  OBVIOUS
<1>1. QueueInv'
  BY QueuePreserved
<1>2. "cli" \in Endpoint /\ "c2s" \in Queue /\ Out("cli") = "c2s" /\ Out("srv") = "s2c"
  BY FilesAssumption DEF Queue, Out
<1>3. write["cli"]["c2s"] \in Nat
  BY <1>2, SizesAssumption DEF QueueInv, IndexType, Slot
<1>4. CASE UNCHANGED <<ctl, write, fault>>
  BY <1>4 DEF AnnounceInv, Announced, Written
<1>5. ASSUME NEW e \in Endpoint, Xmit(e)
      PROVE  AnnounceInv'
  <2>1. /\ e \notin fault
        /\ \/ Announce(e) /\ fault' = fault
           \/ ctl' = ctl /\ fault' = fault \cup {e}
    BY <1>5 DEF Xmit, Returns, Faults, Up
  <2> DEFINE i == Advance(write[e][Out(e)])
  <2>2. /\ write' = [write EXCEPT ![e][Out(e)] = i]
        /\ i # read[e][Out(e)]
    BY <1>5 DEF Xmit
  <2>3. i = write[e][Out(e)] + 1
    <3>1. Out(e) \in Queue /\ write[e][Out(e)] \in Slot /\ read[e][Out(e)] = 0
      BY DEF QueueInv, IndexType, OnlyOwnIndexMoves, Out, Queue
    <3> QED
      BY <2>2, <3>1, AdvanceSlot
  <2> HIDE DEF i
  <2>4. CASE e = "cli"
    <3>1. Written("cli") = write["cli"]["c2s"]
      BY <1>2, <2>1, <2>4 DEF Written
    <3>2. write'["cli"]["c2s"] = write["cli"]["c2s"] + 1
      BY <1>2, <2>2, <2>3, <2>4 DEF QueueInv, IndexType
    <3>3. CASE Announce(e) /\ fault' = fault
      <4>1. Written("cli")' = write'["cli"]["c2s"]
        BY <1>2, <2>1, <2>4, <3>3 DEF Written
      <4>2. Written("cli") <= Written("cli")'
        BY <1>3, <3>1, <3>2, <4>1
      <4> QED
        BY <1>1, <2>1, <3>3, <4>2, AnnounceKeeps
    <3>4. CASE ctl' = ctl /\ fault' = fault \cup {e}
      <4>1. Written("cli")' = write'["cli"]["c2s"] - 1
        BY <1>2, <2>4, <3>4 DEF Written
      <4>2. Written("cli")' = Written("cli")
        BY <1>3, <3>1, <3>2, <4>1
      <4> QED
        BY <3>4, <4>2 DEF AnnounceInv, Announced
    <3> QED
      BY <2>1, <3>3, <3>4
  <2>5. CASE e # "cli"
    <3>1. write'["cli"] = write["cli"]
      BY <1>2, <2>2, <2>5 DEF QueueInv, IndexType
    <3>2. "cli" \in fault' <=> "cli" \in fault
      BY <2>1, <2>5
    <3>3. Written("cli")' = Written("cli") /\ Written("cli") \in Int
      BY <1>2, <1>3, <3>1, <3>2 DEF Written
    <3>4. CASE Announce(e) /\ fault' = fault
      <4>1. Written("cli") <= Written("cli")'
        BY <3>3
      <4> QED
        BY <1>1, <2>1, <3>4, <4>1, AnnounceKeeps
    <3>5. CASE ctl' = ctl
      BY <3>3, <3>5 DEF AnnounceInv, Announced
    <3> QED
      BY <2>1, <3>4, <3>5
  <2> QED
    BY <2>4, <2>5
<1>6. ASSUME NEW e \in Endpoint, XmitFull(e) \/ Recv(e)
      PROVE  AnnounceInv'
  <2>1. Announce(e) /\ UNCHANGED <<write, fault>> /\ e \notin fault
    BY <1>6, RecvKeepsQueues DEF XmitFull, Returns, Recv, Up
  <2>2. Written("cli")' = Written("cli") /\ Written("cli") \in Int
    BY <1>2, <1>3, <2>1 DEF Written
  <2>3. Written("cli") <= Written("cli")'
    BY <2>2
  <2> QED
    BY <1>1, <2>1, <2>3, AnnounceKeeps
<1>7. ASSUME NEW e \in Endpoint, Peer(e) \/ New(e)
      PROVE  UNCHANGED <<ctl, write, fault>>
  BY <1>7 DEF Peer, New
<1>8. CASE UNCHANGED vars
  BY <1>4, <1>8 DEF vars
<1> QED
  BY <1>4, <1>5, <1>6, <1>7, <1>8 DEF Next

\* What the client has announced over the stream (RingBuf::pointers, as bytes)
\* is there to be read, for any number of slots, also after a write to the
\* stream that failed or was cut short and after a push that ended in a fault.
\* The server never announces what it has transmitted.
THEOREM AnnouncedPacketsAreThere == Spec => []AnnouncedIsWritten
<1>1. Init => AnnounceInv
  <2> SUFFICES ASSUME Init PROVE AnnounceInv
    OBVIOUS
  <2>1. /\ ctl = [e \in Endpoint |-> <<>>] /\ fault = {}
        /\ write = [e \in Endpoint |-> [q \in Queue |-> 0]]
    BY DEF Init
  <2>2. "cli" \in Endpoint /\ "srv" \in Endpoint /\ Out("cli") \in Queue
    BY FilesAssumption DEF Out, Queue
  <2>3. Announced("cli") = 0 /\ Announced("srv") = 0 /\ Written("cli") = 0
    BY <2>1, <2>2 DEF Announced, Written
  <2> QED
    BY <2>1, <2>3 DEF AnnounceInv
<1>2. QueueInv /\ AnnounceInv => AnnouncedIsWritten
  <2> SUFFICES ASSUME QueueInv, AnnounceInv, NEW i \in 1 .. Announced("cli")
               PROVE  mem["c2s"][i] = 1
    BY DEF AnnouncedIsWritten, AnnounceInv
  <2>1. "cli" \in Endpoint /\ "c2s" \in Queue /\ Out("cli") = "c2s"
    BY FilesAssumption DEF Queue, Out
  <2>2. write["cli"]["c2s"] \in 0 .. (Cap - 1) /\ Cap \in Nat
    BY <2>1, SizesAssumption DEF QueueInv, IndexType, Slot
  <2>3. Written("cli") \in Int /\ Written("cli") <= write["cli"]["c2s"]
    BY <2>1, <2>2 DEF Written
  <2>4. Announced("cli") \in Nat /\ Announced("cli") <= Written("cli")
    BY <2>1 DEF AnnounceInv, Announced
  <2>5. i \in 1 .. Written("cli") /\ i \in Slot
    BY <2>2, <2>3, <2>4 DEF Slot
  <2> QED
    BY <2>1, <2>5 DEF QueueInv, NothingOverwritten
<1> QED
  BY <1>1, <1>2, AnnouncePreserved, QueueInitially, QueuePreserved, PTL DEF Spec
=============================================================================
