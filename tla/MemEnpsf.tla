------------------------------ MODULE MemEnpsf ------------------------------
(***************************************************************************)
(* The shared-memory interface between a handler of the mux (srv) and its  *)
(* client (cli), src/memenpsf/src/lib.rs: two ring buffers over one mapped *)
(* file, s2c and c2s, and a Unix stream over which each call announces     *)
(* positions.  The memory of the slots is shared; the indexes live in each *)
(* endpoint's own RingBuf structs, created by its own MemEnpsf::new, and   *)
(* nothing in the repository reads the stream.                             *)
(*                                                                         *)
(* A RingBuf is used by one thread here, so push and pop are atomic (the   *)
(* module RingBuf shows it).  A packet is its ordinal in its direction.    *)
(* MemEnpsf::new gets the file to map by recv_fd (module FdPass).          *)
(***************************************************************************)
EXTENDS FdPass

CONSTANTS
  Mappable,   \* the files that can be mapped for reading and writing
  Cap,    \* CAP: slots of each queue
  Mtu,    \* bytes of a slot
  Page    \* bytes of a memory page: mmap rounds the mapping up to it

ASSUME SizesAssumption ==
  Cap \in Nat \ {0} /\ Mtu \in Nat \ {0} /\ Page \in Nat \ {0}

ASSUME FilesAssumption == Mappable \subseteq File /\ Endpoint = {"srv", "cli"}

Queue == {"s2c", "c2s"}
Slot == 0 .. (Cap - 1)

\* xmit_to_client pushes to s2c, xmit_to_srv to c2s; recv_* the other.
Out(e) == IF e = "srv" THEN "s2c" ELSE "c2s"
In(e) == IF e = "srv" THEN "c2s" ELSE "s2c"

VARIABLES
  mem,     \* the shared slots of both queues
  write,   \* write[e][q]: the write index of queue q at endpoint e
  read,    \* read[e][q]: the read index
  ctl,     \* what each endpoint announced last, <<>> before the first time
  res,     \* what its last call returned
  fault    \* the endpoints that touched memory outside the mapping

vars == <<fdVars, mem, write, read, ctl, res, fault>>

\* The queues as MemEnpsf::new makes them, over a file of zeros.
Init ==
  /\ FdInit
  /\ mem = [q \in Queue |-> [i \in Slot |-> 0]]
  /\ write = [e \in Endpoint |-> [q \in Queue |-> 0]]
  /\ read = [e \in Endpoint |-> [q \in Queue |-> 0]]
  /\ ctl = [e \in Endpoint |-> <<>>]
  /\ res = [e \in Endpoint |-> "none"]
  /\ fault = {}

\* recv_fd(&mut stream, vec![0]).unwrap() of MemEnpsf::new.
New(e) ==
  /\ RecvFd(e, <<0>>) \/ RecvFdEof(e)
  /\ UNCHANGED <<mem, write, read, ctl, res, fault>>

\* What a peer does before.
Peer(e) ==
  /\ \E id \in Id :
       \/ \E f \in File : SendFd(e, id, f)
       \/ \E n \in 0 .. MaxFds : \E fds \in [1 .. n -> File] : OtherPeerSends(e, id, fds)
  /\ UNCHANGED <<mem, write, read, ctl, res, fault>>

\* ftruncate and mmap of cap bytes, where cap * MTU bytes per queue are used;
\* nobody looks whether they succeeded.
Mapped(e) ==
  IF file[e] \in Mappable THEN Page * ((Cap + Page - 1) \div Page) ELSE 0

\* The endpoint exists and has not been ended by a fault.
Up(e) == fd[e] = "got" /\ e \notin fault

\* The byte after slot i of queue q; c2s starts cap * MTU after s2c.
SlotEnd(q, i) == (IF q = "s2c" THEN 0 ELSE Cap * Mtu) + (i + 1) * Mtu

\* The slot lies within the mapping.
Fits(e, q, i) == SlotEnd(q, i) <= Mapped(e)

\* RingBuf::pointers, as u8.
Pointers(w, r) == <<w % 256, r % 256>>

\* Each of the four calls ends by writing the pointers of c2s_q to the stream,
\* and goes on when the write fails or takes only the first byte.
Announce(e) ==
  \/ UNCHANGED ctl
  \/ \E k \in 1 .. 2 : ctl' = [ctl EXCEPT ![e] =
       SubSeq(Pointers(write'[e]["c2s"], read'[e]["c2s"]), 1, k)]

\* The call announces and returns r.
Returns(e, r) ==
  /\ Announce(e)
  /\ res' = [res EXCEPT ![e] = r]
  /\ UNCHANGED fault

\* The call touches a slot outside the mapping: the process ends.
Faults(e) ==
  /\ fault' = fault \cup {e}
  /\ UNCHANGED <<ctl, res>>

Advance(i) == (i + 1) % Cap

\* Mutant: a full queue is not noticed.
XmitUntested(e) ==
  LET q == Out(e)
      i == Advance(write[e][q])
  IN
  /\ Up(e)
  /\ write' = [write EXCEPT ![e][q] = i]
  /\ UNCHANGED <<fdVars, read>>
  /\ IF Fits(e, q, i)
     THEN mem' = [mem EXCEPT ![q][i] = @ + 1] /\ Returns(e, "ok")
     ELSE UNCHANGED mem /\ Faults(e)

\* Mutant: the position is announced before the packet is copied.
XmitAnnouncesFirst(e) ==
  LET q == Out(e)
      i == Advance(write[e][q])
  IN
  /\ Up(e)
  /\ i # read[e][q]
  /\ write' = [write EXCEPT ![e][q] = i]
  /\ UNCHANGED <<fdVars, read>>
  /\ Announce(e)
  /\ IF Fits(e, q, i)
     THEN /\ mem' = [mem EXCEPT ![q][i] = @ + 1]
          /\ res' = [res EXCEPT ![e] = "ok"]
          /\ UNCHANGED fault
     ELSE fault' = fault \cup {e} /\ UNCHANGED <<mem, res>>

\* xmit_to_client and xmit_to_srv: push stores the index, then the packet.  A
\* slot counts how often it was written.
Xmit(e) ==
  LET q == Out(e)
      i == Advance(write[e][q])
  IN
  /\ Up(e)
  /\ i # read[e][q]
  /\ write' = [write EXCEPT ![e][q] = i]
  /\ UNCHANGED <<fdVars, read>>
  /\ IF Fits(e, q, i)
     THEN mem' = [mem EXCEPT ![q][i] = @ + 1] /\ Returns(e, "ok")
     ELSE UNCHANGED mem /\ Faults(e)

\* "Buf full", announced all the same.
XmitFull(e) ==
  LET q == Out(e) IN
  /\ Up(e)
  /\ Advance(write[e][q]) = read[e][q]
  /\ UNCHANGED <<fdVars, mem, write, read>>
  /\ Returns(e, "full")

\* recv_from_client and recv_from_srv: pop stores the index, then loads the
\* packet.
Recv(e) ==
  LET q == In(e)
      i == Advance(read[e][q])
  IN
  /\ Up(e)
  /\ UNCHANGED <<fdVars, mem, write>>
  /\ IF read[e][q] = write[e][q]
     THEN UNCHANGED read /\ Returns(e, "empty")
     ELSE /\ read' = [read EXCEPT ![e][q] = i]
          /\ IF Fits(e, q, i) THEN Returns(e, "packet") ELSE Faults(e)

Next ==
  \E e \in Endpoint : Peer(e) \/ New(e) \/ Xmit(e) \/ XmitFull(e) \/ Recv(e)

Spec == Init /\ [][Next]_vars

\* MemEnpsf::new takes what has come; both ends go on: each transmits until
\* it is refused, and polls.
FairSpec ==
  Spec /\ \A e \in Endpoint :
            WF_vars(New(e)) /\ WF_vars(Xmit(e)) /\ WF_vars(Recv(e))

----------------------------------------------------------------------------
(* Properties *)

\* How many packets an endpoint has written: a push that ends it in a fault
\* has moved the index and not written its packet.
Written(e) ==
  IF e \in fault THEN write[e][Out(e)] - 1 ELSE write[e][Out(e)]

\* An accepted packet is never overwritten before the peer could read it: the
\* packets lie in the slots from 1 on, each slot is written once, and no slot
\* behind them is touched.
NothingOverwritten ==
  \A e \in Endpoint : \A i \in Slot :
    mem[Out(e)][i] = IF i \in 1 .. Written(e) THEN 1 ELSE 0

\* The write position that the peer of an endpoint has been told last.
Announced(e) == IF ctl[e] = <<>> THEN 0 ELSE Head(ctl[e])

\* A server that followed the client's announcements (memenpsf/src/lib.rs:3
\* "positions of read/write pointers") would only ever read packets that are
\* there, whichever announcements were lost or cut short and also when the
\* client has died inside a push.  The client could not do the same: the
\* server announces c2s as well, whichever queue it has used, and so 0.
AnnouncedIsWritten ==
  /\ \A i \in 1 .. Announced("cli") : mem["c2s"][i] = 1
  /\ Announced("srv") = 0

\* send_fd and recv_fd agree on the form of the message: an endpoint whose
\* peer sends its file first comes up with that file, and nothing the two
\* ends do later takes it away.
OfferIsTaken ==
  \A e \in Endpoint, f \in File :
    (fd[e] = "wait" /\ wire[e] # <<>>
       /\ Head(wire[e]) = [id |-> <<0>>, fds |-> FdPadding(f)])
      ~> [](fd[e] = "got" /\ file[e] = f)

\* Both ends have mapped the same file.
Connected ==
  file["srv"] = file["cli"] /\ file["srv"] \in Mappable /\ fault = {}

\* memenpsf/src/lib.rs:1 "A user-space memory interface based on shared
\* memory IPC": a packet that was transmitted reaches a peer that polls.
PacketsArrive ==
  (Connected /\ write["srv"]["s2c"] > 0) ~> (res["cli"] = "packet" \/ fault # {})
=============================================================================
