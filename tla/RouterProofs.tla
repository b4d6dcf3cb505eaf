---------------------------- MODULE RouterProofs ----------------------------
(***************************************************************************)
(* The threads of l3enginemux for every burst size, number of clients and  *)
(* number of packets.  One invariant says where each thread is and what it *)
(* holds (Threads); on it rest the order of the packets (Order) and that   *)
(* no packet is in two places (Apart).                                     *)
(***************************************************************************)
EXTENDS Router, SequenceTheorems, TLAPS

(* The verdict of parse_pkt *)

\* Some check that fires is the first.
LEMMA FirstOf ==
  ASSUME NEW F \in SUBSET (1 .. 7), F # {}
  PROVE  \E i \in F : \A j \in F : i <= j
<1>1. \A i \in F : i \in {1, 2, 3, 4, 5, 6, 7}
  OBVIOUS
<1>2. CASE 1 \in F
  BY <1>1, <1>2
<1>3. CASE 1 \notin F /\ 2 \in F
  BY <1>1, <1>3
<1>4. CASE 1 \notin F /\ 2 \notin F /\ 3 \in F
  BY <1>1, <1>4
<1>5. CASE 1 \notin F /\ 2 \notin F /\ 3 \notin F /\ 4 \in F
  BY <1>1, <1>5
<1>6. CASE 1 \notin F /\ 2 \notin F /\ 3 \notin F /\ 4 \notin F
  <2>1. \A i \in F : i \in {5, 6, 7}
    BY <1>1, <1>6
  <2>2. CASE 5 \in F
    BY <2>1, <2>2
  <2>3. CASE 5 \notin F /\ 6 \in F
    BY <2>1, <2>3
  <2>4. CASE 5 \notin F /\ 6 \notin F
    <3>1. F = {7}
      BY <2>1, <2>4
    <3> QED
      BY <3>1
  <2> QED
    BY <2>2, <2>3, <2>4
<1> QED
  BY <1>2, <1>3, <1>4, <1>5, <1>6

\* A list of checks of which none leads to "Ok" answers "Ok" when none fires.
LEMMA VerdictOk ==
  ASSUME NEW n \in 1 .. 7, NEW checks, Len(checks) = n,
         \A i \in 1 .. n : checks[i][1] \in BOOLEAN /\ checks[i][2] # "Ok"
  PROVE  Verdict(checks) = "Ok" <=> \A i \in 1 .. n : ~checks[i][1]
<1> DEFINE fires == {i \in 1 .. Len(checks) : checks[i][1]}
           first == CHOOSE i \in fires : \A j \in fires : i <= j
<1>1. CASE fires = {}
  BY <1>1 DEF Verdict
<1>2. CASE fires # {}
  <2>1. fires \in SUBSET (1 .. 7)
    OBVIOUS
  <2>2. \E i \in fires : \A j \in fires : i <= j
    <3> HIDE DEF fires
    <3> QED
      BY <1>2, <2>1, FirstOf
  <2>3. first \in fires
    <3> HIDE DEF fires
    <3> QED
      BY <2>2
  <2>4. Verdict(checks) = checks[first][2]
    BY <1>2 DEF Verdict
  <2> HIDE DEF first
  <2>5. first \in 1 .. n /\ checks[first][1]
    BY <2>3
  <2> QED
    BY <2>4, <2>5
<1> QED
  BY <1>1, <1>2

\* parse_pkt accepts exactly TCP over IPv4 for the addresses of this host.
LEMMA MuxAccepts ==
  ASSUME NEW f \in Frame
  PROVE  ParsePkt(f) = "Ok" <=> ForUs(f)
<1> DEFINE checks == Checks(f)
<1>1. Len(checks) = 7
  BY DEF Checks
<1>2. /\ checks[1] = <<ReadError(f), "ReadError">>
      /\ checks[2] = <<f.ip = "none", "InvalidIP">>
      /\ checks[3] = <<f.transport = "none", "InvalidTransport">>
      /\ checks[4] = <<f.ip = "v6", "NoIPv6">>
      /\ checks[5] = <<f.transport = "udp", "NoUDP">>
      /\ checks[6] = <<f.dst_ip # "local", "WrongIP">>
      /\ checks[7] = <<f.dst_mac # "local", "WrongMAC">>
  BY DEF Checks
<1> HIDE DEF checks
<1>3. ReadError(f) \in BOOLEAN
  BY DEF ReadError
<1>4. /\ checks[1][1] = ReadError(f) /\ checks[1][2] = "ReadError"
      /\ checks[2][1] = (f.ip = "none") /\ checks[2][2] = "InvalidIP"
      /\ checks[3][1] = (f.transport = "none") /\ checks[3][2] = "InvalidTransport"
      /\ checks[4][1] = (f.ip = "v6") /\ checks[4][2] = "NoIPv6"
      /\ checks[5][1] = (f.transport = "udp") /\ checks[5][2] = "NoUDP"
      /\ checks[6][1] = (f.dst_ip # "local") /\ checks[6][2] = "WrongIP"
      /\ checks[7][1] = (f.dst_mac # "local") /\ checks[7][2] = "WrongMAC"
  BY <1>2
<1>5. Verdict(checks) = "Ok" <=> \A i \in 1 .. 7 : ~checks[i][1]
  <2>1. \A i \in {1, 2, 3, 4, 5, 6, 7} : checks[i][1] \in BOOLEAN /\ checks[i][2] # "Ok"
    BY <1>3, <1>4
  <2>2. \A i \in 1 .. 7 : checks[i][1] \in BOOLEAN /\ checks[i][2] # "Ok"
    BY <2>1
  <2> QED
    BY <1>1, <2>2, VerdictOk
<1>6. (\A i \in 1 .. 7 : ~checks[i][1]) <=>
        /\ ~ReadError(f) /\ f.ip # "none" /\ f.transport # "none" /\ f.ip # "v6"
        /\ f.transport # "udp" /\ f.dst_ip = "local" /\ f.dst_mac = "local"
  <2>1. 1 .. 7 = {1, 2, 3, 4, 5, 6, 7}
    OBVIOUS
  <2>2. (\A i \in {1, 2, 3, 4, 5, 6, 7} : ~checks[i][1]) <=>
          /\ ~checks[1][1] /\ ~checks[2][1] /\ ~checks[3][1] /\ ~checks[4][1]
          /\ ~checks[5][1] /\ ~checks[6][1] /\ ~checks[7][1]
    BY Zenon
  <2> QED
    BY <1>4, <2>1, <2>2
<1>7. ForUs(f) <=> /\ f.ip = "v4" /\ f.transport = "tcp"
                   /\ f.dst_ip = "local" /\ f.dst_mac = "local"
  BY DEF ForUs
<1>8. f.ip \in {"v4", "v6", "none", "bad"} /\ f.transport \in {"tcp", "udp", "none", "bad"}
  BY DEF Frame
<1> QED
  BY <1>5, <1>6, <1>7, <1>8 DEF ParsePkt, ReadError, checks

----------------------------------------------------------------------------
(* Queues of packets in the order in which they were received *)

Increasing(s) == \A i, j \in 1 .. Len(s) : i < j => s[i] < s[j]

Below(S, T) == \A x \in S : \A y \in T : x < y

LEMMA EmptyQueue ==
  Increasing(<<>>) /\ Range(<<>>) = {} /\ Len(<<>>) = 0 /\ <<>> \in Seq(Nat)
  BY DEF Increasing, Range

LEMMA QueueType ==
  ASSUME NEW T, NEW s \in Seq(T)
  PROVE  Range(s) \subseteq T /\ Len(s) \in Nat
  BY DEF Range

LEMMA QueuePop ==
  ASSUME NEW T, NEW s \in Seq(T), s # <<>>
  PROVE  /\ Head(s) \in T /\ Tail(s) \in Seq(T)
         /\ Len(Tail(s)) = Len(s) - 1 /\ Len(s) \in Nat
  OBVIOUS

\* One queue behind another.
LEMMA QueueConcat ==
  ASSUME NEW s \in Seq(Nat), NEW t \in Seq(Nat),
         Increasing(s), Increasing(t), Below(Range(s), Range(t))
  PROVE  /\ s \o t \in Seq(Nat) /\ Increasing(s \o t)
         /\ Range(s \o t) = Range(s) \cup Range(t)
<1> DEFINE u == s \o t
           m == Len(s)
           n == Len(t)
<1>1. m \in Nat /\ n \in Nat /\ u \in Seq(Nat) /\ Len(u) = m + n
  OBVIOUS
<1>2. DOMAIN s = 1 .. m /\ DOMAIN t = 1 .. n /\ DOMAIN u = 1 .. (m + n)
  BY <1>1
<1>3. /\ \A i \in 1 .. m : i \in 1 .. (m + n) /\ u[i] = s[i] /\ s[i] \in Nat
      /\ \A i \in 1 .. n : m + i \in 1 .. (m + n) /\ u[m + i] = t[i] /\ t[i] \in Nat
  BY <1>1
<1>4. \A i \in 1 .. (m + n) : i \in 1 .. m \/ (i - m \in 1 .. n /\ m + (i - m) = i)
  BY <1>1
<1>5. /\ \A i, j \in 1 .. m : i < j => s[i] < s[j]
      /\ \A i, j \in 1 .. n : i < j => t[i] < t[j]
  BY DEF Increasing
<1>6. \A i \in 1 .. m : \A j \in 1 .. n : s[i] < t[j]
  BY <1>2 DEF Below, Range
<1> HIDE DEF u, m, n
<1>7. \A i \in 1 .. (m + n) : \/ i \in 1 .. m /\ u[i] = s[i]
                              \/ i - m \in 1 .. n /\ u[i] = t[i - m]
  <2> TAKE i \in 1 .. (m + n)
  <2>1. CASE i \in 1 .. m
    BY <1>3, <2>1
  <2>2. CASE i \notin 1 .. m
    <3> DEFINE j == i - m
    <3>1. j \in 1 .. n /\ m + j = i
      BY <1>4, <2>2
    <3> HIDE DEF j
    <3>2. j \in 1 .. n /\ u[i] = t[j]
      BY <1>3, <3>1
    <3> QED
      BY <3>2 DEF j
  <2> QED
    BY <2>1, <2>2
<1>8. Range(u) = Range(s) \cup Range(t)
  BY <1>2, <1>3, <1>7 DEF Range
<1>9. ASSUME NEW i \in 1 .. (m + n), NEW j \in 1 .. (m + n), i < j
      PROVE  u[i] < u[j]
  <2>1. CASE j \in 1 .. m
    <3>1. i \in 1 .. m
      BY <1>1, <1>9, <2>1
    <3> QED
      BY <1>3, <1>5, <1>9, <2>1, <3>1
  <2>2. CASE j \notin 1 .. m
    <3>1. j - m \in 1 .. n /\ u[j] = t[j - m]
      BY <1>7, <2>2
    <3>2. CASE i \in 1 .. m
      BY <1>3, <1>6, <3>1, <3>2
    <3>3. CASE i \notin 1 .. m
      <4>1. i - m \in 1 .. n /\ u[i] = t[i - m]
        BY <1>7, <3>3
      <4>2. i - m < j - m
        BY <1>1, <1>9
      <4> QED
        BY <1>5, <3>1, <4>1, <4>2
    <3> QED
      BY <3>2, <3>3
  <2> QED
    BY <2>1, <2>2
<1> QED
  BY <1>1, <1>8, <1>9 DEF Increasing, u, m, n

\* One packet.
LEMMA OnePacket ==
  ASSUME NEW x \in Nat
  PROVE  /\ <<x>> \in Seq(Nat) /\ Increasing(<<x>>) /\ Range(<<x>>) = {x}
  BY DEF Increasing, Range

\* A packet joins a queue.
LEMMA QueueAppend ==
  ASSUME NEW T \in SUBSET Nat, NEW s \in Seq(T), NEW x \in T,
         Increasing(s), Below(Range(s), {x})
  PROVE  /\ Append(s, x) \in Seq(T) /\ Len(Append(s, x)) = Len(s) + 1
         /\ Increasing(Append(s, x)) /\ Range(Append(s, x)) = Range(s) \cup {x}
<1>1. Append(s, x) \in Seq(T) /\ Len(Append(s, x)) = Len(s) + 1
  OBVIOUS
<1>2. Append(s, x) = s \o <<x>> /\ s \in Seq(Nat) /\ x \in Nat
  <2>1. Append(s, x) = s \o <<x>>
    OBVIOUS
  <2>2. s \in Seq(Nat)
    BY SeqMonotonic, Zenon
  <2> QED
    BY <2>1, <2>2
<1> DEFINE t == <<x>>
<1>3. t \in Seq(Nat) /\ Increasing(t) /\ Range(t) = {x} /\ Append(s, x) = s \o t
  BY <1>2, OnePacket
<1> HIDE DEF t
<1>4. Increasing(s \o t) /\ Range(s \o t) = Range(s) \cup Range(t)
  BY <1>2, <1>3, QueueConcat
<1> QED
  BY <1>1, <1>3, <1>4

\* The oldest packet leaves a queue.
LEMMA QueueTail ==
  ASSUME NEW T \in SUBSET Nat, NEW s \in Seq(T), s # <<>>, Increasing(s)
  PROVE  /\ Head(s) \in T /\ Tail(s) \in Seq(T) /\ Len(Tail(s)) = Len(s) - 1
         /\ Increasing(Tail(s)) /\ Below({Head(s)}, Range(Tail(s)))
         /\ Range(s) = {Head(s)} \cup Range(Tail(s))
<1> DEFINE t == Tail(s)
           n == Len(s)
<1>1. n \in Nat /\ n > 0 /\ DOMAIN s = 1 .. n /\ Head(s) = s[1] /\ s[1] \in T
  OBVIOUS
<1>2. /\ t \in Seq(T) /\ Len(t) = n - 1 /\ DOMAIN t = 1 .. (n - 1)
      /\ \A i \in 1 .. (n - 1) : t[i] = s[i + 1]
  BY <1>1
<1>3. \A i, j \in 1 .. n : i < j => s[i] < s[j]
  BY DEF Increasing
<1> HIDE DEF t, n
<1>4. Increasing(t)
  <2> SUFFICES ASSUME NEW i \in 1 .. (n - 1), NEW j \in 1 .. (n - 1), i < j
               PROVE  t[i] < t[j]
    BY <1>2 DEF Increasing
  <2>1. i + 1 \in 1 .. n /\ j + 1 \in 1 .. n /\ i + 1 < j + 1
    BY <1>1
  <2> QED
    BY <1>2, <1>3, <2>1
<1>5. \A i \in 1 .. (n - 1) : 1 \in 1 .. n /\ i + 1 \in 1 .. n /\ 1 < i + 1
  BY <1>1
<1>6. Below({Head(s)}, Range(t))
  <2>1. \A i \in 1 .. (n - 1) : s[1] < t[i]
    BY <1>2, <1>3, <1>5
  <2> QED
    BY <1>1, <1>2, <2>1 DEF Below, Range
<1>7. Range(s) = {Head(s)} \cup Range(t)
  <2>1. \A i \in 1 .. n : i = 1 \/ (i - 1 \in 1 .. (n - 1) /\ (i - 1) + 1 = i)
    BY <1>1
  <2>2. \A i \in 1 .. n : i = 1 \/ (i - 1 \in 1 .. (n - 1) /\ t[i - 1] = s[i])
    BY <1>2, <2>1
  <2>3. Range(s) \subseteq {Head(s)} \cup Range(t)
    <3> SUFFICES ASSUME NEW x \in Range(s), x # Head(s)
                 PROVE  x \in Range(t)
      OBVIOUS
    <3>1. PICK i \in 1 .. n : x = s[i]
      BY <1>1 DEF Range
    <3>2. i - 1 \in 1 .. (n - 1) /\ t[i - 1] = x
      BY <1>1, <2>2, <3>1
    <3> QED
      BY <1>2, <3>2 DEF Range
  <2>4. Range(t) \subseteq Range(s)
    <3> SUFFICES ASSUME NEW x \in Range(t)
                 PROVE  x \in Range(s)
      OBVIOUS
    <3>1. PICK i \in 1 .. (n - 1) : x = t[i]
      BY <1>2 DEF Range
    <3>2. i + 1 \in 1 .. n /\ x = s[i + 1]
      BY <1>2, <1>5, <3>1
    <3> QED
      BY <1>1, <3>2 DEF Range
  <2>5. Head(s) \in Range(s)
    BY <1>1 DEF Range
  <2> QED
    BY <2>3, <2>4, <2>5
<1> QED
  BY <1>1, <1>2, <1>4, <1>6, <1>7 DEF t, n

\* A burst of n packets after the first k.
LEMMA QueueBurst ==
  ASSUME NEW k \in Nat, NEW n \in Nat
  PROVE  LET b == [i \in 1 .. n |-> k + i]
         IN  /\ b \in Seq((k + 1) .. (k + n)) /\ Len(b) = n
             /\ Increasing(b) /\ Range(b) = (k + 1) .. (k + n)
<1> DEFINE b == [i \in 1 .. n |-> k + i]
<1>1. b \in Seq((k + 1) .. (k + n)) /\ Len(b) = n /\ DOMAIN b = 1 .. n
      /\ \A i \in 1 .. n : b[i] = k + i
  OBVIOUS
<1> HIDE DEF b
<1>2. Increasing(b)
  BY <1>1 DEF Increasing
<1>3. \A x \in (k + 1) .. (k + n) : x - k \in 1 .. n /\ b[x - k] = x
  <2> TAKE x \in (k + 1) .. (k + n)
  <2>1. x - k \in 1 .. n /\ k + (x - k) = x
    OBVIOUS
  <2> QED
    BY <1>1, <2>1
<1>4. Range(b) = (k + 1) .. (k + n)
  <2>1. \A i \in 1 .. n : b[i] \in (k + 1) .. (k + n)
    BY <1>1
  <2> QED
    BY <1>1, <1>3, <2>1 DEF Range
<1> QED
  BY <1>1, <1>2, <1>4 DEF b

----------------------------------------------------------------------------
(* The inductive invariant *)

\* Where the worker is, and what it holds there: a packet and its frame from
\* in_buf.pop() on, an accepted frame from parse_pkt on, the lock and then
\* the Sender of the registered client.
WorkerHolds ==
  /\ wpc = "idle" <=> mpc # "join"
  /\ wpc = "idle" <=> wpkt = 0
  /\ wpc = "idle" => frame = NoFrame
  /\ wpc # "idle" => frame \in Frame
  /\ wpc \in {"lock", "get", "send"} => ParsePkt(frame) = "Ok"
  /\ wpc = "send" => target \in Conn /\ target = map

\* The lock of service_map has a writer or a reader, never both.
Locks ==
  /\ reader <=> wpc \in {"get", "send"}
  /\ writer <=> lpc = "insert"
  /\ ~(reader /\ writer)

\* A connection that was accepted has no handler until spawn; a handler has a
\* packet exactly while it transmits one; main waits with an empty in_buf.
Handlers ==
  /\ lpc \in {"lock", "insert", "spawn"} => lconn \in Conn
  /\ lpc \in {"bind", "panic"} => lconn = 0
  /\ \A c \in Conn : hpc[c] # "none" => c <= lconn /\ (c = lconn => lpc = "accept")
  /\ \A c \in Conn : hpkt[c] = 0 <=> hpc[c] # "xmit"
  /\ mpc \in {"scope", "start", "check", "recv", "done"} => in_buf = <<>>

Threads == TypeOK /\ WorkerHolds /\ Locks /\ Handlers

\* The packets that are not yet routed, and those of a client.
Pkt(n) == {n} \ {0}
Waiting == Pkt(wpkt) \cup Range(in_buf)
Place(c) == Range(sent[c]) \cup Pkt(hpkt[c]) \cup Range(chan[c])

\* RoutedInOrder, place by place.
Order ==
  /\ Increasing(in_buf) /\ Below(Pkt(wpkt), Range(in_buf))
  /\ \A c \in Conn :
       /\ Increasing(sent[c]) /\ Increasing(chan[c])
       /\ Below(Range(sent[c]), Pkt(hpkt[c]) \cup Range(chan[c]) \cup Waiting)
       /\ Below(Pkt(hpkt[c]), Range(chan[c]) \cup Waiting)
       /\ Below(Range(chan[c]), Waiting)

\* No packet is in two places.
Apart ==
  /\ \A x : x \in Waiting \/ (\E c \in Conn : x \in Place(c)) => x \in 1 .. npkt
  /\ \A c \in Conn : Place(c) \cap Waiting = {}
  /\ \A c, d \in Conn : c # d => Place(c) \cap Place(d) = {}

----------------------------------------------------------------------------
(* The threads *)

USE DEF lockVars, listenerVars, handlerVars, mainVars, workerVars

\* A connection's number is a number.
LEMMA Numbers ==
  ASSUME TypeOK
  PROVE  /\ \A c \in Conn : c \in Nat /\ c # 0
         /\ lconn \in Nat /\ MaxConn \in Nat /\ MaxPkt \in Nat /\ npkt \in Nat
         /\ BurstSz \in Nat \ {0}
  BY BoundsAssumption DEF TypeOK, Conn

\* The listener has the lock alone while it writes, and spawns the handler of
\* a connection once.
LEMMA ListenerKeepsThreads ==
  ASSUME Threads, Listener
  PROVE  Threads'
<1>1. CASE Accept
  <2>1. lconn' \in Conn
    BY <1>1, BoundsAssumption DEF Accept, Threads, TypeOK, Conn
  <2>2. TypeOK' /\ WorkerHolds' /\ Locks'
    BY <1>1, <2>1 DEF Accept, Threads, TypeOK, WorkerHolds, Locks
  <2>3. Handlers'
    BY <1>1, <2>1, Numbers DEF Accept, Threads, Handlers
  <2> QED
    BY <2>2, <2>3 DEF Threads
<1>2. CASE WriteLock
  <2>1. TypeOK' /\ WorkerHolds' /\ Locks'
    BY <1>2 DEF WriteLock, Threads, TypeOK, WorkerHolds, Locks
  <2>2. Handlers'
    BY <1>2 DEF WriteLock, Threads, Handlers
  <2> QED
    BY <2>1, <2>2 DEF Threads
<1>3. CASE Insert
  <2>1. TypeOK'
    BY <1>3 DEF Insert, Threads, TypeOK
  <2>2. WorkerHolds' /\ Locks'
    BY <1>3 DEF Insert, Threads, TypeOK, WorkerHolds, Locks
  <2>3. Handlers'
    BY <1>3 DEF Insert, Threads, Handlers
  <2> QED
    BY <2>1, <2>2, <2>3 DEF Threads
<1>4. CASE Spawn
  <2>1. lconn \in Conn
    BY <1>4 DEF Spawn, Threads, Handlers
  <2>2. TypeOK' /\ WorkerHolds' /\ Locks'
    BY <1>4 DEF Spawn, Threads, TypeOK, WorkerHolds, Locks
  <2>3. hpc[lconn] = "none" /\ hpkt[lconn] = 0
    BY <1>4, <2>1 DEF Spawn, Threads, Handlers
  <2>4. \A d \in Conn : hpc'[d] = IF d = lconn THEN "fd" ELSE hpc[d]
    BY <1>4, <2>1 DEF Spawn, Threads, TypeOK
  <2>5. UNCHANGED <<lconn, hpkt, mpc, in_buf>> /\ lpc' = "accept" /\ lpc = "spawn"
    BY <1>4 DEF Spawn
  <2>6. Handlers'
    BY <2>1, <2>3, <2>4, <2>5, Numbers DEF Threads, Handlers
  <2> QED
    BY <2>2, <2>6 DEF Threads
<1>5. CASE Bind
  <2>1. TypeOK' /\ WorkerHolds' /\ Locks'
    BY <1>5 DEF Bind, Threads, TypeOK, WorkerHolds, Locks
  <2>2. lconn = 0 /\ lconn' = 0
    BY <1>5 DEF Bind, Threads, Handlers
  <2>3. \A c \in Conn : hpc[c] = "none"
    BY <2>2, Numbers DEF Threads, Handlers
  <2>4. Handlers'
    BY <1>5, <2>2, <2>3 DEF Bind, Threads, Handlers
  <2> QED
    BY <2>1, <2>4 DEF Threads
<1> QED
  BY <1>1, <1>2, <1>3, <1>4, <1>5 DEF Listener

\* A handler that ends.
LEMMA GoneKeepsThreads ==
  ASSUME Threads, NEW c \in Conn, Gone(c), hpc[c] # "none",
         UNCHANGED <<keep_running, map, lockVars, listenerVars, mainVars, workerVars>>,
         \/ UNCHANGED <<hpkt, sent>> /\ hpc[c] # "xmit"
         \/ hpkt' = [hpkt EXCEPT ![c] = 0] /\ sent' \in [Conn -> Seq(1 .. MaxPkt)]
  PROVE  Threads'
<1>1. <<>> \in Seq(1 .. MaxPkt) /\ Len(<<>>) = 0
  OBVIOUS
<1>2. \A d \in Conn : chan'[d] = (IF d = c THEN <<>> ELSE chan[d])
  BY DEF Gone, Threads, TypeOK
<1>4. chan' \in [Conn -> Seq(1 .. MaxPkt)]
  BY <1>1 DEF Gone, Threads, TypeOK
<1>5. \A d \in Conn : Len(chan'[d]) <= BurstSz
  BY <1>1, <1>2, BoundsAssumption DEF Threads, TypeOK
<1>6. TypeOK'
  <2>1. hpkt' \in [Conn -> 0 .. MaxPkt]
    <3>1. 0 \in 0 .. MaxPkt
      BY BoundsAssumption
    <3> QED
      BY <3>1 DEF Threads, TypeOK
  <2>2. sent' \in [Conn -> Seq(1 .. MaxPkt)]
    BY DEF Threads, TypeOK
  <2>3. hpc' \in [Conn -> {"none", "fd", "recv", "xmit", "gone"}]
    BY DEF Gone, Threads, TypeOK
  <2> QED
    BY <1>4, <1>5, <2>1, <2>2, <2>3 DEF Threads, TypeOK
<1>7. WorkerHolds' /\ Locks'
  BY DEF Threads, WorkerHolds, Locks
<1>8. Handlers'
  BY DEF Gone, Threads, TypeOK, Handlers
<1> QED
  BY <1>6, <1>7, <1>8 DEF Threads

\* A handler has a packet of its own channel while it transmits.
LEMMA HandlerKeepsThreads ==
  ASSUME Threads, NEW c \in Conn, Handler(c) \/ Client(c)
  PROVE  Threads'
<1>1. CASE FdReceived(c)
  <2>1. TypeOK' /\ WorkerHolds' /\ Locks'
    BY <1>1 DEF FdReceived, Threads, TypeOK, WorkerHolds, Locks
  <2>2. Handlers'
    BY <1>1 DEF FdReceived, Threads, TypeOK, Handlers
  <2> QED
    BY <2>1, <2>2 DEF Threads
<1>2. CASE FdFailed(c) \/ HandlerClosed(c)
  BY <1>2, GoneKeepsThreads DEF FdFailed, HandlerClosed
<1>3. CASE HandlerRecv(c)
  <2>1. chan[c] \in Seq(1 .. MaxPkt) /\ chan[c] # <<>> /\ Len(chan[c]) <= BurstSz
    BY <1>3 DEF HandlerRecv, Threads, TypeOK
  <2>2. /\ Head(chan[c]) \in 1 .. MaxPkt /\ Tail(chan[c]) \in Seq(1 .. MaxPkt)
        /\ Len(Tail(chan[c])) <= BurstSz
    <3>1. /\ Head(chan[c]) \in 1 .. MaxPkt /\ Tail(chan[c]) \in Seq(1 .. MaxPkt)
          /\ Len(Tail(chan[c])) = Len(chan[c]) - 1 /\ Len(chan[c]) \in Nat
      BY <2>1, QueuePop
    <3> QED
      BY <2>1, <3>1, BoundsAssumption
  <2>3. /\ \A d \in Conn : chan'[d] = (IF d = c THEN Tail(chan[c]) ELSE chan[d])
        /\ \A d \in Conn : hpkt'[d] = (IF d = c THEN Head(chan[c]) ELSE hpkt[d])
        /\ \A d \in Conn : hpc'[d] = (IF d = c THEN "xmit" ELSE hpc[d])
    BY <1>3 DEF HandlerRecv, Threads, TypeOK
  <2>4. chan' \in [Conn -> Seq(1 .. MaxPkt)] /\ hpkt' \in [Conn -> 0 .. MaxPkt]
        /\ hpc' \in [Conn -> {"none", "fd", "recv", "xmit", "gone"}]
    BY <1>3, <2>2 DEF HandlerRecv, Threads, TypeOK
  <2>5. TypeOK'
    BY <1>3, <2>2, <2>3, <2>4 DEF HandlerRecv, Threads, TypeOK
  <2>6. WorkerHolds' /\ Locks'
    BY <1>3 DEF HandlerRecv, Threads, WorkerHolds, Locks
  <2>7. Handlers'
    BY <1>3, <2>2, <2>3 DEF HandlerRecv, Threads, Handlers
  <2> QED
    BY <2>5, <2>6, <2>7 DEF Threads
<1>4. CASE HandlerXmit(c)
  <2>1. hpkt[c] \in 1 .. MaxPkt /\ sent[c] \in Seq(1 .. MaxPkt)
    BY <1>4 DEF HandlerXmit, Threads, TypeOK, Handlers
  <2>2. Append(sent[c], hpkt[c]) \in Seq(1 .. MaxPkt)
    BY <2>1
  <2>3. sent' \in [Conn -> Seq(1 .. MaxPkt)]
    BY <1>4, <2>2 DEF HandlerXmit, Threads, TypeOK
  <2> QED
    BY <1>4, <2>3, GoneKeepsThreads DEF HandlerXmit
<1> QED
  BY <1>1, <1>2, <1>3, <1>4 DEF Handler, Client

\* A worker gets the oldest packet of in_buf, and no other worker runs.
LEMMA MainKeepsThreads ==
  ASSUME Threads, Main \/ Packets
  PROVE  Threads'
<1>1. CASE ScopeReturns \/ Start \/ Check \/ BurstDone
  <2> DEFINE rest == <<keep_running, map, lockVars, chan, listenerVars,
                       handlerVars, in_buf, npkt, workerVars>>
  <2>1. UNCHANGED rest /\ mpc # "join" /\ mpc' \in {"start", "check", "recv", "panic", "done"}
    BY <1>1 DEF ScopeReturns, Start, Check, BurstDone
  <2>2. TypeOK'
    BY <2>1 DEF Threads, TypeOK
  <2>3. WorkerHolds' /\ Locks'
    BY <2>1 DEF Threads, WorkerHolds, Locks
  <2>4. Handlers'
    BY <1>1 DEF ScopeReturns, Start, Check, BurstDone, Threads, Handlers
  <2> QED
    BY <2>2, <2>3, <2>4 DEF Threads
<1>2. CASE StartWorker
  <2>1. in_buf \in Seq(1 .. MaxPkt) /\ in_buf # <<>> /\ Len(in_buf) <= BurstSz
    BY <1>2 DEF StartWorker, Threads, TypeOK
  <2>2. /\ wpkt' \in 1 .. MaxPkt /\ in_buf' \in Seq(1 .. MaxPkt)
        /\ Len(in_buf') = Len(in_buf) - 1 /\ Len(in_buf) \in Nat
    BY <1>2, <2>1, QueuePop DEF StartWorker
  <2>3. wpkt' \in 0 .. MaxPkt /\ wpkt' # 0 /\ Len(in_buf') <= BurstSz
    BY <2>1, <2>2, BoundsAssumption
  <2>4. /\ wpc' = "parse" /\ frame' \in Frame /\ mpc = "route" /\ mpc' = "join"
        /\ UNCHANGED <<keep_running, map, lockVars, chan, listenerVars,
                       handlerVars, npkt, target>>
    BY <1>2 DEF StartWorker
  <2>5. TypeOK'
    BY <2>2, <2>3, <2>4 DEF Threads, TypeOK
  <2>6. WorkerHolds' /\ Locks'
    BY <2>3, <2>4 DEF Threads, WorkerHolds, Locks
  <2>7. Handlers'
    BY <2>4 DEF Threads, Handlers
  <2> QED
    BY <2>5, <2>6, <2>7 DEF Threads
<1>3. ASSUME NEW n \in 0 .. BurstSz, RecvBurst(n)
      PROVE  Threads'
  <2>1. n \in Nat /\ n <= BurstSz /\ npkt \in Nat /\ npkt + n <= MaxPkt /\ MaxPkt \in Nat
    BY <1>3, BoundsAssumption DEF RecvBurst, Threads, TypeOK
  <2>2. in_buf' \in Seq((npkt + 1) .. (npkt + n)) /\ Len(in_buf') = n
    BY <1>3, <2>1, QueueBurst DEF RecvBurst
  <2>3. (npkt + 1) .. (npkt + n) \subseteq 1 .. MaxPkt
    BY <2>1
  <2>4. in_buf' \in Seq(1 .. MaxPkt)
    BY <2>2, <2>3, SeqMonotonic, Zenon
  <2>5. npkt' \in 0 .. MaxPkt
    BY <1>3, <2>1 DEF RecvBurst
  <2>6. TypeOK'
    BY <1>3, <2>1, <2>2, <2>4, <2>5 DEF RecvBurst, Threads, TypeOK
  <2>7. WorkerHolds' /\ Locks'
    BY <1>3 DEF RecvBurst, Threads, WorkerHolds, Locks
  <2>8. n = 0 => in_buf' = <<>>
    BY <2>2
  <2>9. Handlers'
    BY <1>3, <2>8 DEF RecvBurst, Threads, Handlers
  <2> QED
    BY <2>6, <2>7, <2>9 DEF Threads
<1> QED
  BY <1>1, <1>2, <1>3 DEF Main, Packets

\* The lock that the worker takes keeps its lookup valid until it has sent.
LEMMA WorkerKeepsThreads ==
  ASSUME Threads, Worker
  PROVE  Threads'
<1>1. CASE ParseFails
  <2>1. wpkt \in 1 .. MaxPkt
    BY <1>1 DEF ParseFails, Threads, TypeOK, WorkerHolds
  <2>2. TypeOK'
    BY <1>1, <2>1, BoundsAssumption DEF ParseFails, WorkerDone, Threads, TypeOK
  <2>3. WorkerHolds' /\ Locks'
    BY <1>1 DEF ParseFails, WorkerDone, Threads, WorkerHolds, Locks
  <2>4. Handlers'
    BY <1>1 DEF ParseFails, WorkerDone, Threads, Handlers
  <2> QED
    BY <2>2, <2>3, <2>4 DEF Threads
<1>2. CASE Parsed \/ ReadLock
  <2>1. TypeOK'
    BY <1>2 DEF Parsed, ReadLock, Threads, TypeOK
  <2>2. WorkerHolds' /\ Locks'
    BY <1>2 DEF Parsed, ReadLock, Threads, WorkerHolds, Locks
  <2>3. Handlers'
    BY <1>2 DEF Parsed, ReadLock, Threads, Handlers
  <2> QED
    BY <2>1, <2>2, <2>3 DEF Threads
<1>3. CASE Get
  <2>1. TypeOK'
    BY <1>3 DEF Get, Threads, TypeOK
  <2>2. WorkerHolds' /\ Locks'
    BY <1>3 DEF Get, Threads, TypeOK, WorkerHolds, Locks
  <2>3. Handlers'
    BY <1>3 DEF Get, Threads, Handlers
  <2> QED
    BY <2>1, <2>2, <2>3 DEF Threads
<1>4. CASE GetNone \/ SendFails
  <2>1. wpkt \in 1 .. MaxPkt
    BY <1>4 DEF GetNone, SendFails, Threads, TypeOK, WorkerHolds
  <2>2. TypeOK'
    <3>1. /\ wpc' = "idle" /\ wpkt' = 0 /\ frame' = NoFrame /\ target' = 0
          /\ mpc' = "panic" /\ reader' = FALSE
          /\ UNCHANGED <<keep_running, map, writer, chan, listenerVars,
                         handlerVars, in_buf, npkt>>
      BY <1>4 DEF GetNone, SendFails, WorkerPanics
    <3>2. 0 \in 0 .. MaxPkt
      BY BoundsAssumption
    <3> QED
      BY <2>1, <3>1, <3>2 DEF Threads, TypeOK
  <2>3. WorkerHolds' /\ Locks'
    BY <1>4 DEF GetNone, SendFails, WorkerPanics, Threads, WorkerHolds, Locks
  <2>4. Handlers'
    BY <1>4 DEF GetNone, SendFails, WorkerPanics, Threads, Handlers
  <2> QED
    BY <2>2, <2>3, <2>4 DEF Threads
<1>5. CASE Send
  <2>1. /\ wpkt \in 1 .. MaxPkt /\ target \in Conn
        /\ chan[target] \in Seq(1 .. MaxPkt) /\ Len(chan[target]) < BurstSz
    BY <1>5 DEF Send, Threads, TypeOK, WorkerHolds
  <2>2. /\ Append(chan[target], wpkt) \in Seq(1 .. MaxPkt)
        /\ Len(Append(chan[target], wpkt)) = Len(chan[target]) + 1
        /\ Len(chan[target]) \in Nat
    BY <2>1
  <2>3. \A c \in Conn : chan'[c] = IF c = target THEN Append(chan[c], wpkt) ELSE chan[c]
    BY <1>5 DEF Send, Threads, TypeOK
  <2>4. chan' \in [Conn -> Seq(1 .. MaxPkt)]
    BY <1>5, <2>2 DEF Send, Threads, TypeOK
  <2>5. \A c \in Conn : Len(chan'[c]) <= BurstSz
    <3> TAKE c \in Conn
    <3>1. CASE c = target
      <4>1. Len(chan'[c]) = Len(Append(chan[target], wpkt))
        BY <2>3, <3>1
      <4>2. Len(chan[target]) + 1 <= BurstSz
        BY <2>1, <2>2, BoundsAssumption
      <4> QED
        BY <2>2, <4>1, <4>2
    <3>2. CASE c # target
      BY <2>3, <3>2 DEF Threads, TypeOK
    <3> QED
      BY <3>1, <3>2
  <2>6. TypeOK'
    <3>1. /\ wpc' = "idle" /\ wpkt' = 0 /\ frame' = NoFrame /\ target' = 0
          /\ mpc' = "route" /\ reader' = FALSE
          /\ UNCHANGED <<keep_running, map, writer, listenerVars, handlerVars,
                         in_buf, npkt>>
      BY <1>5 DEF Send, WorkerDone
    <3>2. 0 \in 0 .. MaxPkt
      BY BoundsAssumption
    <3> QED
      BY <2>4, <2>5, <3>1, <3>2 DEF Threads, TypeOK
  <2>7. WorkerHolds' /\ Locks'
    BY <1>5 DEF Send, WorkerDone, Threads, WorkerHolds, Locks
  <2>8. Handlers'
    BY <1>5 DEF Send, WorkerDone, Threads, Handlers
  <2> QED
    BY <2>6, <2>7, <2>8 DEF Threads
<1> QED
  BY <1>1, <1>2, <1>3, <1>4, <1>5 DEF Worker

LEMMA ThreadsInitially == Init => Threads
<1> SUFFICES ASSUME Init PROVE Threads
  OBVIOUS
<1>1. <<>> \in Seq(1 .. MaxPkt) /\ Len(<<>>) = 0
  OBVIOUS
<1>2. TypeOK
  <2>1. 0 \in 0 .. MaxPkt /\ 0 <= BurstSz
    BY BoundsAssumption
  <2>2. /\ chan = [c \in Conn |-> <<>>] /\ sent = [c \in Conn |-> <<>>]
        /\ hpkt = [c \in Conn |-> 0] /\ hpc = [c \in Conn |-> "none"]
        /\ in_buf = <<>>
    BY DEF Init
  <2>3. /\ chan \in [Conn -> Seq(1 .. MaxPkt)] /\ sent \in [Conn -> Seq(1 .. MaxPkt)]
        /\ \A c \in Conn : Len(chan[c]) <= BurstSz
    BY <1>1, <2>1, <2>2
  <2>4. hpkt \in [Conn -> 0 .. MaxPkt]
        /\ hpc \in [Conn -> {"none", "fd", "recv", "xmit", "gone"}]
    BY <2>1, <2>2
  <2> QED
    BY <1>1, <2>1, <2>2, <2>3, <2>4 DEF Init, TypeOK
<1>3. WorkerHolds /\ Locks /\ Handlers
  BY DEF Init, WorkerHolds, Locks, Handlers
<1> QED
  BY <1>2, <1>3 DEF Threads

LEMMA ThreadsPreserved == Threads /\ [Next]_vars => Threads'
<1> SUFFICES ASSUME Threads, [Next]_vars PROVE Threads'
  OBVIOUS
<1>1. CASE Signal
  <2> DEFINE rest == <<map, lockVars, chan, listenerVars, handlerVars, mainVars,
                       workerVars>>
  <2>0. keep_running' \in BOOLEAN /\ UNCHANGED rest
    BY <1>1 DEF Signal
  <2>1. TypeOK'
    BY <2>0 DEF Threads, TypeOK
  <2>2. WorkerHolds' /\ Locks'
    BY <1>1 DEF Signal, Threads, WorkerHolds, Locks
  <2>3. Handlers'
    BY <1>1 DEF Signal, Threads, Handlers
  <2> QED
    BY <2>1, <2>2, <2>3 DEF Threads
<1>2. CASE UNCHANGED vars
  BY <1>2 DEF vars, Threads, TypeOK, WorkerHolds, Locks, Handlers
<1>3. CASE Ended
  BY <1>2, <1>3 DEF Ended
<1> QED
  BY <1>1, <1>2, <1>3, ListenerKeepsThreads, HandlerKeepsThreads,
     MainKeepsThreads, WorkerKeepsThreads DEF Next

LEMMA ThreadsInvariant == Spec => []Threads
  BY ThreadsInitially, ThreadsPreserved, PTL DEF Spec

\* The variables of the threads have their types, no client's channel ever
\* holds more than bounded(BURST_SZ) allows, and in_buf no more than a burst.
THEOREM RouterTypes == Spec => []TypeOK
<1>1. Threads => TypeOK
  BY DEF Threads
<1> QED
  BY <1>1, ThreadsInvariant, PTL

----------------------------------------------------------------------------
(* What a step does to the channels *)

\* Nothing but the worker's send queues a packet.
LEMMA OnlySendQueues ==
  ASSUME Threads, [Next]_vars, NEW c \in Conn, Len(chan'[c]) > Len(chan[c])
  PROVE  Send /\ c = target
<1>1. chan \in [Conn -> Seq(1 .. MaxPkt)] /\ Len(chan[c]) \in Nat
  BY DEF Threads, TypeOK
<1>2. chan'[c] # chan[c]
  BY <1>1
<1>3. CASE Listener \/ Main \/ Packets \/ Signal \/ Ended \/ UNCHANGED vars
  BY <1>2, <1>3 DEF Listener, Bind, Accept, WriteLock, Insert, Spawn, Main, ScopeReturns, Start,
     Check, StartWorker, BurstDone, Packets, RecvBurst, Signal, Ended, vars
<1>4. CASE Worker
  <2>1. CASE Send
    BY <1>1, <1>2, <2>1 DEF Send
  <2>2. CASE ~Send
    BY <1>2, <1>4, <2>2 DEF Worker, ParseFails, Parsed, ReadLock, Get, GetNone, SendFails
  <2> QED
    BY <2>1, <2>2
<1>5. ASSUME NEW d \in Conn, Handler(d) \/ Client(d)
      PROVE  FALSE
  <2>1. chan' = chan \/ chan' = [chan EXCEPT ![d] = <<>>]
        \/ (chan[d] # <<>> /\ chan' = [chan EXCEPT ![d] = Tail(@)])
    BY <1>5 DEF Handler, Client, HandlerRecv, HandlerXmit, HandlerClosed,
                FdReceived, FdFailed, Gone
  <2>2. Len(<<>>) = 0 /\ ~(0 > Len(chan[c]))
    BY <1>1
  <2>3. d = c
    BY <1>1, <1>2, <2>1
  <2>4. chan[c] # <<>> => Len(Tail(chan[c])) = Len(chan[c]) - 1
    BY <1>1, QueuePop
  <2> QED
    BY <1>1, <1>2, <2>1, <2>2, <2>3, <2>4
<1> QED
  BY <1>3, <1>4, <1>5 DEF Next

\* The worker's lookup cannot go stale: from map.get to the end of
\* sender.send the read lock keeps the listener from replacing the client.
THEOREM LookupStaysValid == Spec => NeverSentToReplacedClient
<1>1. Threads /\ [Next]_vars =>
        [\A c \in Conn : Len(chan'[c]) > Len(chan[c]) => map = c /\ map' = c]_vars
  <2> SUFFICES ASSUME Threads, [Next]_vars, NEW c \in Conn,
                      Len(chan'[c]) > Len(chan[c])
               PROVE  map = c /\ map' = c
    OBVIOUS
  <2>1. Send /\ c = target
    BY OnlySendQueues
  <2> QED
    BY <2>1 DEF Send, Threads, WorkerHolds
<1> QED
  BY <1>1, ThreadsInvariant, PTL DEF Spec, NeverSentToReplacedClient

\* A worker that ends and lets main go on has queued its packet exactly when
\* parse_pkt should accept it.
THEOREM WorkerRoutesExactlyOurs == Spec => RoutesExactlyOurs
<1> DEFINE Grows == \E c \in Conn : Len(chan'[c]) > Len(chan[c])
           A == wpc # "idle" /\ wpc' = "idle" /\ mpc' = "route" /\ frame.own =>
                  (ForUs(frame) <=> Grows)
<1>1. Threads /\ [Next]_vars => [A]_vars
  <2> SUFFICES ASSUME Threads, [Next]_vars, wpc # "idle", wpc' = "idle", mpc' = "route"
               PROVE  ForUs(frame) <=> Grows
    OBVIOUS
  <2>1. frame \in Frame
    BY DEF Threads, WorkerHolds
  <2>2. ParsePkt(frame) = "Ok" <=> ForUs(frame)
    BY <2>1, MuxAccepts
  <2>3. CASE ParseFails
    BY <2>2, <2>3, OnlySendQueues DEF ParseFails, Send
  <2>4. CASE Send
    <3>1. target \in Conn /\ chan \in [Conn -> Seq(1 .. MaxPkt)] /\ wpkt \in 1 .. MaxPkt
      BY <2>4 DEF Send, Threads, TypeOK, WorkerHolds
    <3>2. chan'[target] = Append(chan[target], wpkt)
      BY <2>4, <3>1 DEF Send
    <3>3. Len(chan'[target]) > Len(chan[target])
      BY <3>1, <3>2
    <3>4. ParsePkt(frame) = "Ok"
      BY <2>4 DEF Send, Threads, WorkerHolds
    <3> QED
      BY <2>2, <3>1, <3>3, <3>4
  <2>5. CASE Worker /\ ~ParseFails /\ ~Send
    BY <2>5 DEF Worker, Parsed, ReadLock, Get, GetNone, SendFails, WorkerPanics
  <2>6. CASE Listener \/ Main \/ Packets \/ Signal \/ Ended \/ UNCHANGED vars
             \/ \E c \in Conn : Handler(c) \/ Client(c)
    <3>1. wpc' = wpc \/ wpc' = "parse"
      BY <2>6 DEF Listener, Bind, Accept, WriteLock, Insert, Spawn, Main, ScopeReturns, Start,
         Check, StartWorker, BurstDone, Packets, RecvBurst, Signal, Ended, vars,
         Handler, Client, HandlerRecv, HandlerXmit, HandlerClosed, FdReceived, FdFailed
    <3> QED
      BY <3>1
  <2> QED
    BY <2>3, <2>4, <2>5, <2>6 DEF Next
<1> QED
  BY <1>1, ThreadsInvariant, PTL DEF Spec, RoutesExactlyOurs

----------------------------------------------------------------------------
(* The packets *)

Books == Order /\ Apart

\* Packets are numbered from 1.
LEMMA PacketNumbers ==
  ASSUME Threads
  PROVE  /\ 1 .. MaxPkt \in SUBSET Nat
         /\ in_buf \in Seq(1 .. MaxPkt) /\ Range(in_buf) \subseteq 1 .. MaxPkt
         /\ Pkt(wpkt) \subseteq 1 .. MaxPkt
         /\ \A c \in Conn :
              /\ sent[c] \in Seq(1 .. MaxPkt) /\ Range(sent[c]) \subseteq 1 .. MaxPkt
              /\ chan[c] \in Seq(1 .. MaxPkt) /\ Range(chan[c]) \subseteq 1 .. MaxPkt
              /\ Pkt(hpkt[c]) \subseteq 1 .. MaxPkt
<1>1. in_buf \in Seq(1 .. MaxPkt)
      /\ \A c \in Conn : sent[c] \in Seq(1 .. MaxPkt) /\ chan[c] \in Seq(1 .. MaxPkt)
  BY DEF Threads, TypeOK
<1>2. Range(in_buf) \subseteq 1 .. MaxPkt
      /\ \A c \in Conn : Range(sent[c]) \subseteq 1 .. MaxPkt
                         /\ Range(chan[c]) \subseteq 1 .. MaxPkt
  BY <1>1, QueueType
<1>3. Pkt(wpkt) \subseteq 1 .. MaxPkt /\ \A c \in Conn : Pkt(hpkt[c]) \subseteq 1 .. MaxPkt
  BY BoundsAssumption DEF Threads, TypeOK, Pkt
<1> QED
  BY <1>1, <1>2, <1>3

\* A packet below another one is not that one.
LEMMA BelowIsApart ==
  ASSUME NEW S \in SUBSET Nat, NEW T \in SUBSET Nat, Below(S, T)
  PROVE  S \cap T = {}
  BY DEF Below

\* A step that moves no packet.
LEMMA StillKeepsBooks ==
  ASSUME Books, UNCHANGED <<in_buf, wpkt, sent, hpkt, chan, npkt>>
  PROVE  Books'
  BY DEF Books, Order, Apart, Waiting, Place

\* A burst is received.
LEMMA BurstKeepsBooks ==
  ASSUME Threads, Books, NEW n \in 0 .. BurstSz, RecvBurst(n)
  PROVE  Books'
<1>1. n \in Nat /\ npkt \in Nat /\ npkt' = npkt + n
  BY BoundsAssumption DEF RecvBurst, Threads, TypeOK
<1>2. Range(in_buf') = (npkt + 1) .. (npkt + n) /\ Increasing(in_buf')
  BY <1>1, QueueBurst DEF RecvBurst
<1>3. in_buf = <<>> /\ wpkt = 0 /\ UNCHANGED <<wpkt, sent, hpkt, chan>>
  BY DEF RecvBurst, Threads, Handlers, WorkerHolds
<1>4. Waiting = {} /\ Waiting' = (npkt + 1) .. (npkt + n) /\ Pkt(wpkt)' = {}
  BY <1>2, <1>3, EmptyQueue DEF Waiting, Pkt
<1>5. \A c \in Conn : Place(c)' = Place(c)
  BY <1>3 DEF Place
<1>6. \A x : (\E c \in Conn : x \in Place(c)) => x \in 1 .. npkt
  BY DEF Books, Apart
<1>7. \A x \in 1 .. npkt : \A y \in (npkt + 1) .. (npkt + n) : x < y /\ x # y
  BY <1>1
<1>8. Order'
  <2>1. \A c \in Conn : /\ Range(sent[c]) \subseteq 1 .. npkt
                        /\ Pkt(hpkt[c]) \subseteq 1 .. npkt
                        /\ Range(chan[c]) \subseteq 1 .. npkt
    BY <1>6 DEF Place
  <2>2. \A c \in Conn : /\ Below(Range(sent[c]), Waiting') /\ Below(Pkt(hpkt[c]), Waiting')
                        /\ Below(Range(chan[c]), Waiting')
    BY <1>4, <1>7, <2>1 DEF Below
  <2>3. Below({}, Range(in_buf'))
    BY DEF Below
  <2> QED
    BY <1>2, <1>3, <1>4, <2>2, <2>3 DEF Books, Order, Below
<1>9. Apart'
  <2>1. \A x : x \in 1 .. npkt \/ x \in (npkt + 1) .. (npkt + n) => x \in 1 .. npkt'
    BY <1>1
  <2> QED
    BY <1>4, <1>5, <1>6, <1>7, <2>1 DEF Books, Apart
<1> QED
  BY <1>8, <1>9 DEF Books

\* A worker takes the oldest packet.
LEMMA StartKeepsBooks ==
  ASSUME Threads, Books, StartWorker
  PROVE  Books'
<1>1. /\ in_buf # <<>> /\ wpkt' = Head(in_buf) /\ in_buf' = Tail(in_buf) /\ wpkt = 0
      /\ UNCHANGED <<sent, hpkt, chan, npkt>>
  BY DEF StartWorker, Threads, WorkerHolds
<1>2. /\ Head(in_buf) \in 1 .. MaxPkt
      /\ Increasing(Tail(in_buf)) /\ Below({Head(in_buf)}, Range(Tail(in_buf)))
      /\ Range(in_buf) = {Head(in_buf)} \cup Range(Tail(in_buf))
  BY <1>1, PacketNumbers, QueueTail DEF Books, Order
<1>3. Pkt(wpkt)' = {Head(in_buf)} /\ Pkt(wpkt) = {}
  BY <1>1, <1>2, BoundsAssumption DEF Pkt
<1>4. Waiting' = Waiting
  BY <1>1, <1>2, <1>3 DEF Waiting
<1>5. \A c \in Conn : Place(c)' = Place(c)
  BY <1>1 DEF Place
<1>6. Order'
  BY <1>1, <1>2, <1>3, <1>4 DEF Books, Order
<1>7. Apart'
  BY <1>1, <1>4, <1>5 DEF Books, Apart
<1> QED
  BY <1>6, <1>7 DEF Books

\* The worker drops its packet.
LEMMA DropKeepsBooks ==
  ASSUME Threads, Books, ParseFails \/ GetNone \/ SendFails
  PROVE  Books'
<1>1. /\ wpkt' = 0 /\ wpkt # 0
      /\ UNCHANGED <<in_buf, sent, hpkt, chan, npkt>>
  BY DEF ParseFails, GetNone, SendFails, WorkerDone, WorkerPanics, Threads, WorkerHolds
<1>2. Pkt(wpkt) = {wpkt} /\ Pkt(wpkt)' = {}
  BY <1>1 DEF Pkt
<1>3. {wpkt} \cap Range(in_buf) = {}
  BY <1>2, PacketNumbers, BelowIsApart DEF Books, Order
<1>4. Waiting = {wpkt} \cup Range(in_buf) /\ Waiting' = Range(in_buf)
  BY <1>1, <1>2 DEF Waiting
<1>5. \A c \in Conn : Place(c)' = Place(c)
  BY <1>1 DEF Place
<1>6. Order'
  BY <1>1, <1>2, <1>4 DEF Books, Order, Below
<1>7. Apart'
  BY <1>1, <1>3, <1>4, <1>5 DEF Books, Apart
<1> QED
  BY <1>6, <1>7 DEF Books

\* The worker queues its packet for a client.
LEMMA SendKeepsBooks ==
  ASSUME Threads, Books, Send
  PROVE  Books'
<1> PICK t \in Conn : t = target
  BY DEF Send, Threads, WorkerHolds
<1>1. /\ wpkt' = 0 /\ wpkt # 0 /\ wpkt \in 1 .. MaxPkt
      /\ UNCHANGED <<in_buf, sent, hpkt, npkt>>
  BY DEF Send, WorkerDone, Threads, TypeOK, WorkerHolds
<1>2. /\ chan'[t] = Append(chan[t], wpkt)
      /\ \A c \in Conn : c # t => chan'[c] = chan[c]
  BY <1>1 DEF Send, Threads, TypeOK
<1>3. Pkt(wpkt) = {wpkt} /\ Pkt(wpkt)' = {}
  BY <1>1 DEF Pkt
<1>4. Waiting = {wpkt} \cup Range(in_buf) /\ Waiting' = Range(in_buf)
  BY <1>1, <1>3 DEF Waiting
<1>5. {wpkt} \cap Range(in_buf) = {}
  BY <1>3, PacketNumbers, BelowIsApart DEF Books, Order
<1>6. Below(Range(chan[t]), {wpkt})
  BY <1>1, <1>4 DEF Books, Order, Below
<1>7. /\ Increasing(chan'[t])
      /\ Range(chan'[t]) = Range(chan[t]) \cup {wpkt}
  <2>1. chan[t] \in Seq(1 .. MaxPkt) /\ Increasing(chan[t]) /\ 1 .. MaxPkt \in SUBSET Nat
    BY PacketNumbers DEF Books, Order
  <2>2. Increasing(Append(chan[t], wpkt))
        /\ Range(Append(chan[t], wpkt)) = Range(chan[t]) \cup {wpkt}
    BY <1>1, <1>6, <2>1, QueueAppend, Zenon
  <2> QED
    BY <1>2, <2>2
<1>8. Place(t)' = Place(t) \cup {wpkt}
      /\ \A c \in Conn : c # t => Place(c)' = Place(c)
  BY <1>1, <1>2, <1>7 DEF Place
<1>9. Order'
  <2> SUFFICES ASSUME NEW c \in Conn
               PROVE  /\ Increasing(sent[c]) /\ Increasing(chan'[c])
                      /\ Below(Range(sent[c]),
                               Pkt(hpkt[c]) \cup Range(chan'[c]) \cup Range(in_buf))
                      /\ Below(Pkt(hpkt[c]), Range(chan'[c]) \cup Range(in_buf))
                      /\ Below(Range(chan'[c]), Range(in_buf))
    <3>1. Below({}, Range(in_buf))
      BY DEF Below
    <3> QED
      BY <1>1, <1>3, <1>4, <3>1 DEF Books, Order
  <2>1. CASE c = t
    BY <1>3, <1>4, <1>7, <2>1 DEF Books, Order, Below
  <2>2. CASE c # t
    BY <1>2, <1>4, <2>2 DEF Books, Order, Below
  <2> QED
    BY <2>1, <2>2
<1>10. Apart'
  <2>1. \A x : (\E c \in Conn : x \in Place(c)') <=>
                 x = wpkt \/ \E c \in Conn : x \in Place(c)
    BY <1>1, <1>8
  <2>2. \A x : x \in Waiting' \/ (\E c \in Conn : x \in Place(c)') => x \in 1 .. npkt'
    BY <1>1, <1>4, <2>1 DEF Books, Apart
  <2>3. wpkt \notin Waiting' /\ \A c \in Conn : wpkt \notin Place(c)
    BY <1>4, <1>5 DEF Books, Apart
  <2>4. \A c \in Conn : Place(c)' \cap Waiting' = {}
    BY <1>1, <1>4, <1>8, <2>3 DEF Books, Apart
  <2>5. \A c, d \in Conn : c # d => Place(c)' \cap Place(d)' = {}
    BY <1>1, <1>8, <2>3 DEF Books, Apart
  <2> QED
    BY <2>2, <2>4, <2>5 DEF Apart
<1> QED
  BY <1>9, <1>10 DEF Books

\* A handler takes the oldest packet of its channel.
LEMMA HandlerRecvKeepsBooks ==
  ASSUME Threads, Books, NEW c \in Conn, HandlerRecv(c)
  PROVE  Books'
<1>1. /\ chan[c] # <<>> /\ hpkt[c] = 0
      /\ UNCHANGED <<in_buf, wpkt, sent, npkt>>
  BY DEF HandlerRecv, Threads, Handlers
<1>2. /\ hpkt'[c] = Head(chan[c]) /\ chan'[c] = Tail(chan[c])
      /\ \A d \in Conn : d # c => hpkt'[d] = hpkt[d] /\ chan'[d] = chan[d]
  BY DEF HandlerRecv, Threads, TypeOK
<1>3. /\ Head(chan[c]) \in 1 .. MaxPkt
      /\ Increasing(Tail(chan[c])) /\ Below({Head(chan[c])}, Range(Tail(chan[c])))
      /\ Range(chan[c]) = {Head(chan[c])} \cup Range(Tail(chan[c]))
  BY <1>1, PacketNumbers, QueueTail DEF Books, Order
<1>4. Pkt(hpkt[c]) = {} /\ Pkt(hpkt'[c]) = {Head(chan[c])}
  BY <1>1, <1>2, <1>3, BoundsAssumption DEF Pkt
<1>5. Waiting' = Waiting
  BY <1>1 DEF Waiting
<1>6. \A d \in Conn : Place(d)' = Place(d)
  <2>1. Place(c)' = Place(c)
    BY <1>1, <1>2, <1>3, <1>4 DEF Place
  <2> QED
    BY <1>1, <1>2, <2>1 DEF Place
<1>7. Order'
  <2> SUFFICES ASSUME NEW d \in Conn
               PROVE  /\ Increasing(sent[d]) /\ Increasing(chan'[d])
                      /\ Below(Range(sent[d]),
                               Pkt(hpkt'[d]) \cup Range(chan'[d]) \cup Waiting)
                      /\ Below(Pkt(hpkt'[d]), Range(chan'[d]) \cup Waiting)
                      /\ Below(Range(chan'[d]), Waiting)
    BY <1>1, <1>5 DEF Books, Order
  <2>1. CASE d = c
    BY <1>2, <1>3, <1>4, <2>1 DEF Books, Order, Below
  <2>2. CASE d # c
    BY <1>2, <2>2 DEF Books, Order
  <2> QED
    BY <2>1, <2>2
<1>8. Apart'
  BY <1>1, <1>5, <1>6 DEF Books, Apart
<1> QED
  BY <1>7, <1>8 DEF Books

\* A handler ends: its packet was sent, what is queued behind it is dropped.
LEMMA GoneKeepsBooks ==
  ASSUME Threads, Books, NEW c \in Conn, Gone(c),
         UNCHANGED <<in_buf, wpkt, npkt>>,
         \/ hpkt[c] = 0 /\ UNCHANGED <<hpkt, sent>>
         \/ /\ hpkt[c] \in 1 .. MaxPkt
            /\ hpkt' = [hpkt EXCEPT ![c] = 0]
            /\ sent' = [sent EXCEPT ![c] = Append(@, hpkt[c])]
  PROVE  Books'
<1> DEFINE S == Range(chan[c])
           kept == Range(sent[c]) \cup Pkt(hpkt[c])
<1>1. /\ chan'[c] = <<>>
      /\ \A d \in Conn : d # c => chan'[d] = chan[d]
  BY DEF Gone, Threads, TypeOK
<1>2. hpkt'[c] = 0 /\ Pkt(hpkt'[c]) = {}
      /\ \A d \in Conn : d # c => hpkt'[d] = hpkt[d] /\ sent'[d] = sent[d]
  BY DEF Threads, TypeOK, Pkt
<1>3. Increasing(sent'[c]) /\ Range(sent'[c]) = kept
  <2>1. CASE hpkt[c] = 0 /\ UNCHANGED <<hpkt, sent>>
    BY <2>1 DEF Books, Order, Pkt
  <2>2. CASE /\ hpkt[c] \in 1 .. MaxPkt
             /\ sent' = [sent EXCEPT ![c] = Append(@, hpkt[c])]
    <3>1. sent'[c] = Append(sent[c], hpkt[c])
      BY <2>2 DEF Threads, TypeOK
    <3>2. Pkt(hpkt[c]) = {hpkt[c]}
      BY <2>2, BoundsAssumption DEF Pkt
    <3>3. Below(Range(sent[c]), {hpkt[c]})
      BY <3>2 DEF Books, Order, Below
    <3> QED
      <4>1. sent[c] \in Seq(1 .. MaxPkt) /\ Increasing(sent[c]) /\ 1 .. MaxPkt \in SUBSET Nat
        BY PacketNumbers DEF Books, Order
      <4>2. Increasing(Append(sent[c], hpkt[c]))
            /\ Range(Append(sent[c], hpkt[c])) = Range(sent[c]) \cup {hpkt[c]}
        BY <2>2, <3>3, <4>1, QueueAppend, Zenon
      <4> QED
        BY <3>1, <3>2, <4>2
  <2> QED
    BY <2>1, <2>2
<1>4. Range(chan'[c]) = {} /\ Increasing(chan'[c])
  BY <1>1, EmptyQueue
<1>5. Waiting' = Waiting
  BY DEF Waiting
<1>7. Place(c) = kept \cup S /\ Place(c)' = kept
      /\ \A d \in Conn : d # c => Place(d)' = Place(d)
  BY <1>1, <1>2, <1>3, <1>4 DEF Place
<1>8. Order'
  <2> SUFFICES ASSUME NEW d \in Conn
               PROVE  /\ Increasing(sent'[d]) /\ Increasing(chan'[d])
                      /\ Below(Range(sent'[d]),
                               Pkt(hpkt'[d]) \cup Range(chan'[d]) \cup Waiting)
                      /\ Below(Pkt(hpkt'[d]), Range(chan'[d]) \cup Waiting)
                      /\ Below(Range(chan'[d]), Waiting)
    BY <1>5 DEF Books, Order
  <2>1. CASE d = c
    BY <1>2, <1>3, <1>4, <2>1 DEF Books, Order, Below
  <2>2. CASE d # c
    BY <1>1, <1>2, <2>2 DEF Books, Order
  <2> QED
    BY <2>1, <2>2
<1> HIDE DEF kept, S
<1>9. Apart'
  <2>1. \A d \in Conn : Place(d)' \subseteq Place(d)
    BY <1>7
  <2> QED
    BY <1>5, <2>1 DEF Books, Apart
<1> QED
  BY <1>8, <1>9 DEF Books

LEMMA BooksInitially == Init => Books
<1> SUFFICES ASSUME Init PROVE Books
  OBVIOUS
<1>1. /\ in_buf = <<>> /\ wpkt = 0 /\ npkt = 0
      /\ \A c \in Conn : sent[c] = <<>> /\ chan[c] = <<>> /\ hpkt[c] = 0
  BY DEF Init
<1>2. Waiting = {} /\ \A c \in Conn : Place(c) = {}
  BY <1>1, EmptyQueue DEF Waiting, Place, Pkt
<1>3. Order
  BY <1>1, <1>2, EmptyQueue DEF Order, Below, Pkt
<1>4. 1 .. npkt = {}
  BY <1>1
<1>5. Apart
  BY <1>1, <1>2, <1>4 DEF Apart
<1> QED
  BY <1>3, <1>5 DEF Books

LEMMA BooksPreserved == Threads /\ Books /\ [Next]_vars => Books'
<1> SUFFICES ASSUME Threads, Books, [Next]_vars PROVE Books'
  OBVIOUS
<1>1. CASE \/ Listener \/ ScopeReturns \/ Start \/ Check \/ BurstDone \/ Signal \/ Ended
           \/ Parsed \/ ReadLock \/ Get \/ UNCHANGED vars
  <2>1. UNCHANGED <<in_buf, wpkt, sent, hpkt, chan, npkt>>
    BY <1>1 DEF Listener, Bind, Accept, WriteLock, Insert, Spawn, ScopeReturns, Start, Check,
                BurstDone, Signal, Ended, Parsed, ReadLock, Get, vars
  <2> QED
    BY <2>1, StillKeepsBooks
<1>2. ASSUME NEW c \in Conn, Handler(c) \/ Client(c)
      PROVE  Books'
  <2>1. CASE FdReceived(c)
    BY <2>1, StillKeepsBooks DEF FdReceived
  <2>2. CASE FdFailed(c) \/ HandlerClosed(c)
    <3>1. hpkt[c] = 0
      BY <2>2 DEF FdFailed, HandlerClosed, Threads, Handlers
    <3> QED
      BY <2>2, <3>1, GoneKeepsBooks DEF FdFailed, HandlerClosed
  <2>3. CASE HandlerXmit(c)
    <3>1. hpkt[c] \in 1 .. MaxPkt
      BY <2>3 DEF HandlerXmit, Threads, TypeOK, Handlers
    <3> QED
      BY <2>3, <3>1, GoneKeepsBooks DEF HandlerXmit
  <2> QED
    BY <1>2, <2>1, <2>2, <2>3, HandlerRecvKeepsBooks DEF Handler, Client
<1>3. CASE Main
  BY <1>1, <1>3, StartKeepsBooks DEF Main
<1>4. CASE Packets
  BY <1>4, BurstKeepsBooks DEF Packets
<1>5. CASE Worker
  BY <1>1, <1>5, DropKeepsBooks, SendKeepsBooks DEF Worker
<1> QED
  BY <1>1, <1>2, <1>3, <1>4, <1>5 DEF Next

LEMMA BooksInvariant == Spec => []Books
  BY BooksInitially, BooksPreserved, ThreadsInvariant, PTL DEF Spec

LEMMA OrdinalQueue ==
  ASSUME NEW n \in Nat
  PROVE  Ordinal(n) \in Seq(Nat) /\ Increasing(Ordinal(n)) /\ Range(Ordinal(n)) = Pkt(n)
<1>1. CASE n = 0
  BY <1>1, EmptyQueue DEF Ordinal, Pkt
<1>2. CASE n # 0
  BY <1>2, OnePacket DEF Ordinal, Pkt
<1> QED
  BY <1>1, <1>2

\* What a client has seen, followed by what waits, is in order.
LEMMA OrderImplies ==
  ASSUME Threads, Order, NEW c \in Conn
  PROVE  /\ Increasing(Seen(c) \o Ordinal(wpkt) \o in_buf)
         /\ Range(Seen(c)) = Place(c)
<1> DEFINE h == Ordinal(hpkt[c])
           w == Ordinal(wpkt)
<1>1. sent[c] \in Seq(Nat) /\ chan[c] \in Seq(Nat) /\ in_buf \in Seq(Nat)
  BY PacketNumbers, SeqMonotonic, Zenon
<1>2. hpkt[c] \in Nat /\ wpkt \in Nat
  BY BoundsAssumption DEF Threads, TypeOK
<1>3. /\ h \in Seq(Nat) /\ Increasing(h) /\ Range(h) = Pkt(hpkt[c])
      /\ w \in Seq(Nat) /\ Increasing(w) /\ Range(w) = Pkt(wpkt)
  BY <1>2, OrdinalQueue
<1> HIDE DEF h, w
<1>4. /\ Increasing(sent[c]) /\ Increasing(chan[c]) /\ Increasing(in_buf)
      /\ Below(Range(w), Range(in_buf))
      /\ Below(Range(sent[c]), Range(h) \cup Range(chan[c]) \cup Range(w) \cup Range(in_buf))
      /\ Below(Range(h), Range(chan[c]) \cup Range(w) \cup Range(in_buf))
      /\ Below(Range(chan[c]), Range(w) \cup Range(in_buf))
  BY <1>3 DEF Order, Waiting, Below
<1> DEFINE s1 == sent[c] \o h
<1>5. s1 \in Seq(Nat) /\ Increasing(s1) /\ Range(s1) = Range(sent[c]) \cup Range(h)
  <2>1. Below(Range(sent[c]), Range(h))
    BY <1>4 DEF Below
  <2> QED
    BY <1>1, <1>3, <1>4, <2>1, QueueConcat
<1> DEFINE s2 == s1 \o chan[c]
<1> HIDE DEF s1
<1>6. s2 \in Seq(Nat) /\ Increasing(s2) /\ Range(s2) = Range(s1) \cup Range(chan[c])
  <2>1. Below(Range(s1), Range(chan[c]))
    BY <1>4, <1>5 DEF Below
  <2> QED
    BY <1>1, <1>4, <1>5, <2>1, QueueConcat
<1> DEFINE s3 == s2 \o w
<1> HIDE DEF s2
<1>7. s3 \in Seq(Nat) /\ Increasing(s3) /\ Range(s3) = Range(s2) \cup Range(w)
  <2>1. Below(Range(s2), Range(w))
    BY <1>4, <1>5, <1>6 DEF Below
  <2> QED
    BY <1>3, <1>6, <2>1, QueueConcat
<1> HIDE DEF s3
<1>8. Increasing(s3 \o in_buf)
  <2>1. Below(Range(s3), Range(in_buf))
    BY <1>4, <1>5, <1>6, <1>7 DEF Below
  <2> QED
    BY <1>1, <1>4, <1>7, <2>1, QueueConcat
<1>9. Range(s2) = Place(c)
  BY <1>3, <1>5, <1>6 DEF Place
<1> QED
  BY <1>8, <1>9 DEF Seen, s1, s2, s3, h, w

\* However handlers, worker and main interleave, each client is sent its
\* packets in the order in which they were received, what still waits came
\* later, and no packet goes to two clients.
THEOREM PacketsStayInOrder == Spec => []RoutedInOrder
<1>1. Threads /\ Books => RoutedInOrder
  <2> SUFFICES ASSUME Threads, Books PROVE RoutedInOrder
    OBVIOUS
  <2>1. \A c \in Conn : /\ Increasing(Seen(c) \o Ordinal(wpkt) \o in_buf)
                        /\ Range(Seen(c)) = Place(c)
    BY OrderImplies DEF Books
  <2>2. \A c \in Conn : \A d \in Conn \ {c} : Range(Seen(c)) \cap Range(Seen(d)) = {}
    BY <2>1 DEF Books, Apart
  <2> QED
    BY <2>1, <2>2 DEF RoutedInOrder, Increasing
<1> QED
  BY <1>1, ThreadsInvariant, BooksInvariant, PTL

=============================================================================
