------------------------------- MODULE Router -------------------------------
(***************************************************************************)
(* The threads of l3enginemux (src/l3enginemux/src/main.rs): the listener  *)
(* that registers clients in service_map, a detached handler per client,   *)
(* the main loop that receives bursts, and the worker it runs for each     *)
(* packet.  They share service_map behind a reader-writer lock, the        *)
(* bounded channel of each client, and keep_running.                       *)
(*                                                                         *)
(* A connection is its ordinal.  So is a packet, and a packet here is an   *)
(* Mbuf that recv_from_engine_burst pushes to in_buf: a buffer it has      *)
(* allocated, one for each pointer that came out of the ring (Mux follows  *)
(* the buffers; the pointers that came are lost, see Channel).             *)
(* service_map has one key, "dummy": map is the connection whose Sender it *)
(* holds, 0 none.                                                          *)
(* A panic of the worker reaches main through the unwraps of the scope and *)
(* ends the process; a panic of a handler ends that thread only.           *)
(***************************************************************************)
EXTENDS FiveTuple, FiniteSets, Functions

CONSTANTS
  BurstSz,      \* BURST_SZ: capacity of a client's channel and of in_buf
  MaxConn,      \* bound: how many clients connect
  MaxPkt,       \* bound: how many packets are pushed to in_buf
  ScopeJoins    \* TRUE: thread::scope joins the listener, as crossbeam does;
                \* FALSE: main goes on while the listener runs

ASSUME BoundsAssumption ==
  BurstSz \in Nat \ {0} /\ MaxConn \in Nat /\ MaxPkt \in Nat
ASSUME ScopeJoinsAssumption == ScopeJoins \in BOOLEAN

Conn == 1 .. MaxConn

\* No packet is being looked at.
NoFrame ==
  [own |-> FALSE, dst_mac |-> "none", dst_ip |-> "none", ip |-> "none",
   transport |-> "none"]

VARIABLES
  keep_running,
  map,      \* service_map
  reader,   \* the worker holds the lock for reading
  writer,   \* the listener holds the lock for writing
  chan,     \* the packets queued for each client
  lpc,      \* the listener
  lconn,    \* the connection it accepted last
  hpc,      \* the handlers
  hpkt,     \* the packet a handler has received
  mpc,      \* main
  in_buf,   \* Mux::in_buf
  npkt,     \* how many packets were pushed to it
  wpc,      \* the worker
  wpkt,     \* its packet
  frame,    \* what the bytes of the packet's buffer look like
  target,   \* the Sender it looked up
  sent      \* history: what was transmitted to each client

listenerVars == <<lpc, lconn>>
handlerVars == <<hpc, hpkt, sent>>
mainVars == <<mpc, in_buf, npkt>>
workerVars == <<wpc, wpkt, frame, target>>
lockVars == <<reader, writer>>
vars == <<keep_running, map, lockVars, chan, listenerVars, handlerVars,
          mainVars, workerVars>>

Init ==
  /\ keep_running = TRUE
  /\ map = 0
  /\ reader = FALSE /\ writer = FALSE
  /\ chan = [c \in Conn |-> <<>>]
  /\ lpc = "bind" /\ lconn = 0
  /\ hpc = [c \in Conn |-> "none"] /\ hpkt = [c \in Conn |-> 0]
  /\ sent = [c \in Conn |-> <<>>]
  /\ mpc = "scope" /\ in_buf = <<>> /\ npkt = 0
  /\ wpc = "idle" /\ wpkt = 0 /\ frame = NoFrame /\ target = 0

\* The process is alive.
Alive == mpc \notin {"panic", "done"}

\* The Sender of a connection exists: in the listener's hands or in the map.
Connected(c) == map = c \/ (lconn = c /\ lpc \in {"lock", "insert"})

----------------------------------------------------------------------------
(* The listener *)

\* UnixListener::bind; a failure panics, and ends this thread.
Bind ==
  /\ Alive /\ lpc = "bind"
  /\ lpc' \in {"accept", "panic"}
  /\ UNCHANGED <<keep_running, map, lockVars, chan, lconn, handlerVars,
                 mainVars, workerVars>>

\* accept, then bounded(BURST_SZ).
Accept ==
  /\ Alive /\ lpc = "accept" /\ lconn < MaxConn
  /\ lconn' = lconn + 1
  /\ lpc' = "lock"
  /\ UNCHANGED <<keep_running, map, lockVars, chan, handlerVars, mainVars,
                 workerVars>>

\* Mutant: the map is written while a worker reads it.
WriteLockShared ==
  /\ Alive /\ lpc = "lock"
  /\ writer' = TRUE
  /\ lpc' = "insert"
  /\ UNCHANGED <<keep_running, map, reader, chan, lconn, handlerVars,
                 mainVars, workerVars>>

\* service_map.write() waits for readers.
WriteLock ==
  /\ Alive /\ lpc = "lock" /\ ~reader
  /\ writer' = TRUE
  /\ lpc' = "insert"
  /\ UNCHANGED <<keep_running, map, reader, chan, lconn, handlerVars,
                 mainVars, workerVars>>

\* map.insert("dummy", send) drops the Sender of the client before.
Insert ==
  /\ Alive /\ lpc = "insert"
  /\ map' = lconn
  /\ writer' = FALSE
  /\ lpc' = "spawn"
  /\ UNCHANGED <<keep_running, reader, chan, lconn, handlerVars, mainVars,
                 workerVars>>

\* spawn(handle_client): its first step is to wait for the client's fd.
Spawn ==
  /\ Alive /\ lpc = "spawn"
  /\ hpc' = [hpc EXCEPT ![lconn] = "fd"]
  /\ lpc' = "accept"
  /\ UNCHANGED <<keep_running, map, lockVars, chan, lconn, hpkt, sent,
                 mainVars, workerVars>>

----------------------------------------------------------------------------
(* handle_client *)

\* A handler that ends drops its Receiver, and what is queued with it.
Gone(c) ==
  /\ hpc' = [hpc EXCEPT ![c] = "gone"]
  /\ chan' = [chan EXCEPT ![c] = <<>>]

\* MemEnpsf::new has received the client's fd.
FdReceived(c) ==
  /\ Alive /\ hpc[c] = "fd"
  /\ hpc' = [hpc EXCEPT ![c] = "recv"]
  /\ UNCHANGED <<keep_running, map, lockVars, chan, listenerVars, hpkt, sent,
                 mainVars, workerVars>>

\* The client hangs up instead: recv_fd(..).unwrap() panics.
FdFailed(c) ==
  /\ Alive /\ hpc[c] = "fd"
  /\ Gone(c)
  /\ UNCHANGED <<keep_running, map, lockVars, listenerVars, hpkt, sent,
                 mainVars, workerVars>>

\* cons.recv()
HandlerRecv(c) ==
  /\ Alive /\ hpc[c] = "recv" /\ chan[c] # <<>>
  /\ hpkt' = [hpkt EXCEPT ![c] = Head(chan[c])]
  /\ chan' = [chan EXCEPT ![c] = Tail(@)]
  /\ hpc' = [hpc EXCEPT ![c] = "xmit"]
  /\ UNCHANGED <<keep_running, map, lockVars, listenerVars, sent, mainVars,
                 workerVars>>

\* dev.xmit_to_client(pkt), whatever it answers; then the handler returns.
HandlerXmit(c) ==
  /\ Alive /\ hpc[c] = "xmit"
  /\ sent' = [sent EXCEPT ![c] = Append(@, hpkt[c])]
  /\ hpkt' = [hpkt EXCEPT ![c] = 0]
  /\ Gone(c)
  /\ UNCHANGED <<keep_running, map, lockVars, listenerVars, mainVars,
                 workerVars>>

\* Mutant: the handler ends when its Sender was dropped, whatever is queued.
HandlerClosedEarly(c) ==
  /\ Alive /\ hpc[c] = "recv" /\ ~Connected(c)
  /\ Gone(c)
  /\ UNCHANGED <<keep_running, map, lockVars, listenerVars, hpkt, sent,
                 mainVars, workerVars>>

\* Err: the channel is empty and its Sender was dropped.
HandlerClosed(c) ==
  /\ Alive /\ hpc[c] = "recv" /\ chan[c] = <<>> /\ ~Connected(c)
  /\ Gone(c)
  /\ UNCHANGED <<keep_running, map, lockVars, listenerVars, hpkt, sent,
                 mainVars, workerVars>>

----------------------------------------------------------------------------
(* main *)

\* thread::scope returns when the listener has ended, and its unwrap panics
\* then: the loop over incoming() never ends but by a panic.
ScopeReturns ==
  /\ mpc = "scope" /\ (ScopeJoins => lpc = "panic")
  /\ mpc' = IF lpc = "panic" THEN "panic" ELSE "start"
  /\ UNCHANGED <<keep_running, map, lockVars, chan, listenerVars,
                 handlerVars, in_buf, npkt, workerVars>>

\* Mux::new, mux::start and handle_signal; each of them may panic.
Start ==
  /\ mpc = "start"
  /\ mpc' \in {"check", "panic"}
  /\ UNCHANGED <<keep_running, map, lockVars, chan, listenerVars,
                 handlerVars, in_buf, npkt, workerVars>>

\* Mutant: the flag is not looked at.
CheckNothing ==
  /\ mpc = "check"
  /\ mpc' = "recv"
  /\ UNCHANGED <<keep_running, map, lockVars, chan, listenerVars,
                 handlerVars, in_buf, npkt, workerVars>>

\* while keep_running.load(SeqCst)
Check ==
  /\ mpc = "check"
  /\ mpc' = IF keep_running THEN "recv" ELSE "done"
  /\ UNCHANGED <<keep_running, map, lockVars, chan, listenerVars,
                 handlerVars, in_buf, npkt, workerVars>>

\* while mux.in_buf.is_empty() { recv_from_engine_burst }: n pointers come out
\* of the ring, and n of the buffers allocated for them are pushed to in_buf.
RecvBurst(n) ==
  /\ mpc = "recv" /\ npkt + n <= MaxPkt
  /\ in_buf' = [i \in 1 .. n |-> npkt + i]
  /\ npkt' = npkt + n
  /\ mpc' = IF n = 0 THEN "recv" ELSE "route"
  /\ UNCHANGED <<keep_running, map, lockVars, chan, listenerVars,
                 handlerVars, workerVars>>

\* Mutant: the newest packet is popped first.
StartWorkerNewest ==
  /\ mpc = "route" /\ in_buf # <<>>
  /\ wpkt' = in_buf[Len(in_buf)]
  /\ in_buf' = SubSeq(in_buf, 1, Len(in_buf) - 1)
  /\ wpc' = "parse" /\ frame' \in Frame
  /\ mpc' = "join"
  /\ UNCHANGED <<keep_running, map, lockVars, chan, listenerVars,
                 handlerVars, npkt, target>>

\* in_buf.pop(), and a scoped worker for the packet.  Its buffer may hold
\* anything.
StartWorker ==
  /\ mpc = "route" /\ in_buf # <<>>
  /\ wpkt' = Head(in_buf)
  /\ in_buf' = Tail(in_buf)
  /\ wpc' = "parse" /\ frame' \in Frame
  /\ mpc' = "join"
  /\ UNCHANGED <<keep_running, map, lockVars, chan, listenerVars,
                 handlerVars, npkt, target>>

BurstDone ==
  /\ mpc = "route" /\ in_buf = <<>>
  /\ mpc' = "check"
  /\ UNCHANGED <<keep_running, map, lockVars, chan, listenerVars,
                 handlerVars, in_buf, npkt, workerVars>>

\* The handler of Ctrl+C.
Signal ==
  /\ Alive /\ mpc \notin {"scope", "start"}
  /\ keep_running' = FALSE
  /\ UNCHANGED <<map, lockVars, chan, listenerVars, handlerVars, mainVars,
                 workerVars>>

----------------------------------------------------------------------------
(* The worker *)

\* The worker ends and the scope in main returns.
WorkerDone ==
  /\ wpc' = "idle" /\ wpkt' = 0 /\ frame' = NoFrame /\ target' = 0
  /\ mpc' = "route"

\* The worker panics with its packet; main's unwrap ends the process.
WorkerPanics ==
  /\ wpc' = "idle" /\ wpkt' = 0 /\ frame' = NoFrame /\ target' = 0
  /\ mpc' = "panic"
  /\ reader' = FALSE

\* parse_pkt refuses the packet: drop(pkt).
ParseFails ==
  /\ wpc = "parse" /\ ParsePkt(frame) # "Ok"
  /\ WorkerDone
  /\ UNCHANGED <<keep_running, map, lockVars, chan, listenerVars,
                 handlerVars, in_buf, npkt>>

\* parse_pkt accepts it; what handle_arp makes is discarded.
Parsed ==
  /\ wpc = "parse" /\ ParsePkt(frame) = "Ok"
  /\ wpc' = "lock"
  /\ UNCHANGED <<keep_running, map, lockVars, chan, listenerVars,
                 handlerVars, mainVars, wpkt, frame, target>>

\* service_map.read(), held until the packet is sent.
ReadLock ==
  /\ wpc = "lock" /\ ~writer
  /\ reader' = TRUE
  /\ wpc' = "get"
  /\ UNCHANGED <<keep_running, map, writer, chan, listenerVars, handlerVars,
                 mainVars, wpkt, frame, target>>

\* map.get(&srvc).unwrap()
Get ==
  /\ wpc = "get" /\ map # 0
  /\ target' = map
  /\ wpc' = "send"
  /\ UNCHANGED <<keep_running, map, lockVars, chan, listenerVars,
                 handlerVars, mainVars, wpkt, frame>>

GetNone ==
  /\ wpc = "get" /\ map = 0
  /\ WorkerPanics
  /\ UNCHANGED <<keep_running, map, writer, chan, listenerVars, handlerVars,
                 in_buf, npkt>>

\* Mutant: the read lock is not released.
SendKeepsLock ==
  /\ wpc = "send" /\ hpc[target] # "gone" /\ Len(chan[target]) < BurstSz
  /\ chan' = [chan EXCEPT ![target] = Append(@, wpkt)]
  /\ WorkerDone
  /\ UNCHANGED <<keep_running, map, lockVars, listenerVars, handlerVars,
                 in_buf, npkt>>

\* Mutant: the channel has no bound.
SendUnbounded ==
  /\ wpc = "send" /\ hpc[target] # "gone"
  /\ chan' = [chan EXCEPT ![target] = Append(@, wpkt)]
  /\ reader' = FALSE
  /\ WorkerDone
  /\ UNCHANGED <<keep_running, map, writer, listenerVars, handlerVars,
                 in_buf, npkt>>

\* sender.send(pkt) waits for room; the guard of the map is then dropped.
Send ==
  /\ wpc = "send" /\ hpc[target] # "gone" /\ Len(chan[target]) < BurstSz
  /\ chan' = [chan EXCEPT ![target] = Append(@, wpkt)]
  /\ reader' = FALSE
  /\ WorkerDone
  /\ UNCHANGED <<keep_running, map, writer, listenerVars, handlerVars,
                 in_buf, npkt>>

\* The Receiver is gone: SendError, and unwrap panics.
SendFails ==
  /\ wpc = "send" /\ hpc[target] = "gone"
  /\ WorkerPanics
  /\ UNCHANGED <<keep_running, map, writer, chan, listenerVars, handlerVars,
                 in_buf, npkt>>

\* The process has ended.
Ended == ~Alive /\ UNCHANGED vars

----------------------------------------------------------------------------
Listener == Bind \/ Accept \/ WriteLock \/ Insert \/ Spawn
Handler(c) == HandlerRecv(c) \/ HandlerXmit(c) \/ HandlerClosed(c)
Client(c) == FdReceived(c) \/ FdFailed(c)
Main == ScopeReturns \/ Start \/ Check \/ StartWorker \/ BurstDone
Packets == \E n \in 0 .. BurstSz : RecvBurst(n)
Worker ==
  \/ ParseFails \/ Parsed \/ ReadLock \/ Get \/ GetNone \/ Send \/ SendFails

Next ==
  \/ Listener
  \/ \E c \in Conn : Handler(c) \/ Client(c)
  \/ Main \/ Packets \/ Worker
  \/ Signal
  \/ Ended

Spec == Init /\ [][Next]_vars

\* Every thread of the process is scheduled.  Nothing is assumed of the
\* clients, of the packets (the inner loop may find none forever) or of the
\* user at the keyboard.
FairSpec ==
  /\ Spec
  /\ WF_vars(Listener) /\ WF_vars(Main) /\ WF_vars(Worker)
  /\ \A c \in Conn : WF_vars(Handler(c))

\* Moreover, a client that connected sends its fd or hangs up.
PromptSpec == FairSpec /\ \A c \in Conn : WF_vars(Client(c))

----------------------------------------------------------------------------
(* Properties *)

\* Types, and the capacities of in_buf and of the clients' channels.
TypeOK ==
  /\ keep_running \in BOOLEAN
  /\ map \in {0} \cup Conn /\ target \in {0} \cup Conn /\ lconn \in {0} \cup Conn
  /\ reader \in BOOLEAN /\ writer \in BOOLEAN
  /\ lpc \in {"bind", "panic", "accept", "lock", "insert", "spawn"}
  /\ hpc \in [Conn -> {"none", "fd", "recv", "xmit", "gone"}]
  /\ mpc \in {"scope", "start", "check", "recv", "route", "join", "panic", "done"}
  /\ wpc \in {"idle", "parse", "lock", "get", "send"}
  /\ frame \in Frame \cup {NoFrame}
  /\ wpkt \in 0 .. MaxPkt /\ npkt \in 0 .. MaxPkt
  /\ hpkt \in [Conn -> 0 .. MaxPkt]
  /\ chan \in [Conn -> Seq(1 .. MaxPkt)] /\ sent \in [Conn -> Seq(1 .. MaxPkt)]
  /\ in_buf \in Seq(1 .. MaxPkt) /\ Len(in_buf) <= BurstSz
  /\ \A c \in Conn : Len(chan[c]) <= BurstSz

\* Whatever the buffer held before, a worker that ends has queued its packet
\* for a client exactly when the packet, all of whose headers are its own, is
\* TCP over IPv4 for the addresses of this host.
RoutesExactlyOurs ==
  [][wpc # "idle" /\ wpc' = "idle" /\ mpc' = "route" /\ frame.own =>
       (ForUs(frame) <=> \E c \in Conn : Len(chan'[c]) > Len(chan[c]))]_vars

\* A packet is only ever queued for the client that is registered when it is
\* queued: the worker's lookup cannot go stale before its send.
NeverSentToReplacedClient ==
  [][\A c \in Conn : Len(chan'[c]) > Len(chan[c]) => map = c /\ map' = c]_vars

\* The packets a place holds.
Ordinal(n) == IF n = 0 THEN <<>> ELSE <<n>>

\* What was sent to a client, what its handler has, and what is queued for it.
Seen(c) == sent[c] \o Ordinal(hpkt[c]) \o chan[c]

\* Each client sees a subsequence of the packets in the order in which they
\* were pushed to in_buf, what still waits came later, and no packet goes to
\* two clients, whichever client the map names when it is sent.
RoutedInOrder ==
  \A c \in Conn :
    LET s == Seen(c) \o Ordinal(wpkt) \o in_buf IN
    /\ \A i, j \in 1 .. Len(s) : i < j => s[i] < s[j]
    /\ \A d \in Conn \ {c} : Range(Seen(c)) \cap Range(Seen(d)) = {}

\* mux/mod.rs:7 "This thread is responsible for / registering clients": a
\* client that connects is registered, unless the process ends.
RegistersClients ==
  \A c \in Conn : (lconn = c /\ lpc = "lock") ~> (map = c \/ ~Alive)

\* A client that has sent its fd is sent the packet that is queued for it, or
\* that the worker has looked its Sender up for, unless the process ends: also
\* when another client has taken its place in the map meanwhile.
QueuedReachesClient ==
  \A c \in Conn :
    (hpc[c] = "recv" /\ (chan[c] # <<>> \/ (wpc = "send" /\ target = c)))
      ~> (sent[c] # <<>> \/ ~Alive)

\* main.rs:38 "Handle Ctrl+C": once a burst has been received after the
\* signal, its packets are routed and the process ends, however clients come
\* and go and however full their channels are.  (Without a burst it waits on.)
StopsAfterBurst == (~keep_running /\ mpc = "route") ~> ~Alive

\* main.rs:138, the main loop: it is entered.
MainLoopStarts == <>(mpc # "scope")
=============================================================================
