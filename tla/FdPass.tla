------------------------------- MODULE FdPass -------------------------------
(***************************************************************************)
(* Passing a file descriptor over a Unix stream (src/fdpass-rs/src/lib.rs  *)
(* and ffi.rs): send_fd sends an id with the descriptor attached, recv_fd  *)
(* takes what comes first and compares the id.  A message is the bytes of  *)
(* its id and the descriptors attached to it.  FdPadding fills the control *)
(* message up to 8 bytes, so that it holds two descriptors: the file and   *)
(* number 0, the sender's standard input.                                  *)
(***************************************************************************)
EXTENDS Naturals, Sequences

CONSTANTS
  Endpoint,   \* the processes that receive
  File,       \* what a peer may pass
  Id,         \* the ids a peer may send with it
  MaxMsg,     \* bound: how many messages a peer sends
  MaxFds      \* bound: how many descriptors it attaches to one

ASSUME FdPassAssumption == Id \subseteq Seq(Nat) /\ MaxMsg \in Nat /\ MaxFds \in Nat

VARIABLES
  wire,      \* the messages on their way to each endpoint
  nmsg,      \* how many were sent
  fd,        \* recv_fd: "wait", "failed" or "got"
  file,      \* the file behind the FileDesc it returned
  leaked     \* descriptors received that no FileDesc closes

fdVars == <<wire, nmsg, fd, file, leaked>>

FdInit ==
  /\ wire = [e \in Endpoint |-> <<>>]
  /\ nmsg = [e \in Endpoint |-> 0]
  /\ fd = [e \in Endpoint |-> "wait"]
  /\ file = [e \in Endpoint |-> "none"]
  /\ leaked = [e \in Endpoint |-> <<>>]

----------------------------------------------------------------------------
(* Sending *)

\* The control message built from FdPadding::new(fd).
FdPadding(f) == <<f, "stdin">>

\* sendmsg: it may fail, for example when descriptor 0 is not open, and without
\* a byte to carry them the stream drops the descriptors.
SendMsg(e, id, fds) ==
  /\ nmsg[e] < MaxMsg
  /\ nmsg' = [nmsg EXCEPT ![e] = @ + 1]
  /\ \/ UNCHANGED wire
     \/ /\ id # <<>>
        /\ wire' = [wire EXCEPT ![e] = Append(@, [id |-> id, fds |-> fds])]

\* send_fd and async_send_fd.
SendFd(e, id, f) ==
  /\ SendMsg(e, id, FdPadding(f))
  /\ UNCHANGED <<fd, file, leaked>>

\* A peer that does not use fdpass attaches any number of descriptors.
OtherPeerSends(e, id, fds) ==
  /\ SendMsg(e, id, fds)
  /\ UNCHANGED <<fd, file, leaked>>

----------------------------------------------------------------------------
(* Receiving *)

\* How many descriptors Cmsghdr<FdPadding> has room for.
Room == Len(FdPadding("any"))

\* The kernel installs as many descriptors as there is room for.
Installed(msg) == SubSeq(msg.fds, 1, IF Room < Len(msg.fds) THEN Room ELSE Len(msg.fds))

\* Mutant: the control message is expected to hold the descriptor alone.
RecvMsgOneFd(msg) == Len(Installed(msg)) = 1

\* recvmsg is content when msg_controllen and cmsg_len are those of a
\* Cmsghdr<FdPadding>: the control message is there and it is full.
RecvMsg(msg) == Len(Installed(msg)) = Room

\* set_len(msg_iovlen): one byte is compared, however many were asked for.
IdExpected(msg, expect) == <<Head(msg.id)>> = expect

\* recv_fd and async_recv_fd.  Descriptors that came with a message which is
\* refused stay open, and so does the second one of a message that is not.
RecvFd(e, expect) ==
  LET msg == Head(wire[e])
      ok == RecvMsg(msg) /\ IdExpected(msg, expect)
  IN
  /\ fd[e] = "wait" /\ wire[e] # <<>>
  /\ fd' = [fd EXCEPT ![e] = IF ok THEN "got" ELSE "failed"]
  /\ file' = [file EXCEPT ![e] = IF ok THEN Head(msg.fds) ELSE @]
  /\ leaked' = [leaked EXCEPT ![e] =
                  IF ok THEN Tail(Installed(msg)) ELSE Installed(msg)]
  /\ wire' = [wire EXCEPT ![e] =
                IF Len(msg.id) = 1 THEN Tail(@)
                ELSE <<[id |-> Tail(msg.id), fds |-> <<>>]>> \o Tail(@)]
  /\ UNCHANGED nmsg

\* The peer hangs up instead: recvmsg returns no control message.
RecvFdEof(e) ==
  /\ fd[e] = "wait" /\ wire[e] = <<>>
  /\ fd' = [fd EXCEPT ![e] = "failed"]
  /\ UNCHANGED <<wire, nmsg, file, leaked>>
=============================================================================
