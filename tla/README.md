# vdp: a TLA+ verification project

vdp moves packets between a NIC and client programs. Two DPDK processes and any
number of clients take part:

    NIC <-> engine (l3enginelib) <== two rte_rings ==> mux (l3enginemux) <== shared memory ==> clients
             primary process      E2C, C2E, mempool     secondary process   MemEnpsf + Unix socket

This directory models the parts of it that keep state or run concurrently,
checks them with TLC on small instances, and proves the central invariants with
TLAPS for every value of the parameters.

## 1. Inventory

| part | source | state it keeps | operations | what is hard |
|---|---|---|---|---|
| ring buffer | `ipc-queue/src/lib.rs` | slots in shared memory, `write` and `read` index | `push`, `pop`, `pointers` | two threads inside push and pop; index stored before the slot is used; wrap-around |
| channel, rings, buffers | `l3enginelib/src/apis/memring.rs`, `mbuf.rs` | two rings of pointers, the mempool, the handles (`Mbuf`) of each process | `enqueue`, `dequeue`, `enqueue_bulk`, `dequeue_burst`, `Mbuf::new`, `alloc_bulk`, `into_ptr`, `Drop` | who owns a buffer when two processes exchange raw pointers; full rings |
| life of shared objects | `memring.rs`, `mempool.rs`, both `main.rs` | the named objects `GLOBAL_MEMPOOL`, `E2C`, `C2E` | `Channel::new`, `Channel::lookup`, `Mempool::new`, `lookup`, `Drop` | creation and lookup in several steps; `Drop` in either process frees the shared object; restart |
| mux | `l3enginemux/src/mux/mod.rs` | `in_buf`, `out_buf`, handles in local vectors | `recv_from_engine_burst`, `xmit_to_engine_bulk`, `recv`, `xmit` | the pool or the ring changes between allocation, dequeue and truncate |
| mux process | `l3enginemux/src/main.rs` | `service_map` behind a lock, a bounded channel per client, `keep_running` | listener, `handle_client`, main loop, worker per packet, Ctrl+C | four kinds of threads; blocking send under a lock; panics |
| memory interface | `memenpsf/src/lib.rs` | slots in a mapped file, private indexes at each end, a stream | `new`, `xmit_to_client`, `recv_from_srv`, `xmit_to_srv`, `recv_from_client` | what one end knows of the other; what the peer passes for the file to map |
| mbuf data | `l3enginelib/src/apis/mbuf.rs` | the memory of a buffer, `data_len`, `pkt_len` | `extend`, `shrink`, `resize`, `truncate`, `read_data_slice`, `write_data_slice` | bounds, unsigned arithmetic |
| port, engine process | `l3enginelib/src/apis/port.rs`, `main.rs` | NIC queues, `in_pkts`, `out_pkts`, `keep_running` | `configure`, `receive`, `send`, the engine's loop, Ctrl+C | start-up order; ownership of a buffer across `receive` and `send`; a full `in_pkts` |
| parsing, ARP | `l3enginemux/src/mux/fivetuple.rs` | none | `parse_pkt`, `ethertype`, `handle_arp` | order of the checks; bytes behind a short packet |
| fd passing | `fdpass-rs/src` | messages and descriptors in flight | `send_fd`, `recv_fd` | form of the control message; descriptors lost on error paths |
| forwarding loop | `dpdk_loop/l3engine` | as the engine, without rings | start with two ports, loop | an earlier program over copies of the same wrappers, with differences |
| DPDK shim | `dpdk-sys/src/shim.c` | none | wrappers of inline functions; `_pkt_stop_and_close_ports` | it ends the process |

Interactions: the engine hands buffers to the mux through the ring E2C and takes
them from C2E; both allocate from the one mempool. Inside the mux process the
listener inserts a client's `Sender` in `service_map`, workers look it up and
send, a handler thread receives and calls `MemEnpsf::xmit_to_client`, which
pushes into an ipc-queue in memory shared with the client. The file of that
memory reaches `MemEnpsf::new` as a descriptor over the client's Unix stream.

## 2. Modules

**BoundedQueue** is the abstract specification of a bounded single-producer
single-consumer FIFO: push and pop take effect at one instant, a refusal is only
given when the queue is full, `None` only when it is empty.

**RingBuf** (ipc-queue). `write`, `read` and `slots` are the fields and the memory
behind `base`. `push` is PushReserve (load the indexes, test), PushPublish (store
`write`), PushStore (`ptr::write`), or PushFull; `pop` is PopReserve,
PopPublish, PopLoad, or PopEmpty: in the order of the source, which stores the
index first. An element is its ordinal. The variable `shared` says whether two
threads use the buffer or one thread calls push and pop in turn (as MemEnpsf
does). The accesses to a slot are not atomic: a load that races a store may see
old, new or mixed bytes (0). `npush` and `npop` are history variables.

**Channel** (memring.rs, mbuf.rs) follows the ownership of buffers. `pool`, `ring`,
`held` (handles of each process) and `lost` (pointers that nobody remembers, by
the place where that happened) partition the buffers. One action per operation
and outcome; the four operations of `Channel` per direction are the ring
operations with `Out(p)` and `In(p)`. Any process may call any operation at any
time, so the results hold for the callers in the repository and for others.
`dequeue` and `dequeue_burst` hand the C function copies of the handles'
pointers, so what they take out of the ring goes to `lost`; `enqueue_bulk`
passes a length of 0. The model says so because the code does.

**Mux** (mux/mod.rs) instantiates Channel and adds `in_buf`, `out_buf`, the local
vector, the handles that were popped and not yet given up (`routed`) and a program
counter. `recv_from_engine_burst` is six actions
(BurstBegin, one BurstAlloc per `Mbuf::new`, BurstAllocDone, BurstDequeue,
BurstTruncate, BurstPush) with the engine free to act in between: Engine is any
call of Channel, of which the engine's main uses the bulk ones. Route is
`in_buf.pop()`; Consume is the end of that packet, in the worker, in a client's
channel or in its handler. Nothing in the
repository fills `out_buf`; Queue stands for the code that will. MCMux is its
instance for TLC.

**Router** (l3enginemux/src/main.rs) is the process with its threads: the listener
(Bind, Accept, WriteLock, Insert, Spawn), a handler per connection (FdReceived,
FdFailed, HandlerRecv, HandlerXmit, HandlerClosed), main (ScopeReturns, Start,
Check, RecvBurst, StartWorker, BurstDone), the worker (ParseFails, Parsed, ReadLock,
Get, GetNone, Send, SendFails) and Ctrl+C (Signal). `service_map` has a single
key, so it is the connection whose Sender it holds. The lock is a pair of flags:
one worker exists at a time. A packet is an Mbuf that recv_from_engine_burst
pushes to in_buf, that is, one of the buffers it has allocated; the pointers that
came out of the ring are lost (Channel), so what a worker parses is whatever the
buffer held. `ScopeJoins = TRUE` is the program as it is: the
scope of crossbeam joins the listener and main never reaches its loop (run
router_scope). The run router takes `ScopeJoins = FALSE`: the loop next to the
listener, as the commented-out join at the end of main intends. What it shows of
the loop and the workers is therefore not yet reached by the program.

**FiveTuple** (fivetuple.rs) says what `parse_pkt` makes
of a frame: its early returns as a list of checks of which the first that fires
decides. A frame is what etherparse finds in the bytes it is given: IPv4, IPv6,
no or a malformed IP header, TCP, UDP, no or a malformed transport header, own or
foreign addresses, and whether these headers are the packet's own (the worker
parses MTU bytes whatever the packet's length). Router EXTENDS it: a worker
starts with any frame, ParseFails and Parsed are decided by ParsePkt.

**PacketData** is what the calls on an mbuf do to the bytes of a packet (a sequence
with a limited length, in which a gap is opened, a range cut out or overwritten)
and exactly when each of them answers Ok. Its SliceAnswer is the answer the code
gives; the documented one is OutOfBufferIsTrue, which the run mbuf_docs refutes.

**MbufData** (mbuf.rs) is one mbuf: its memory, `data_len` and `pkt_len`. One
action per function and outcome (Extend, Shrink, Resize, Truncate, ReadData,
ReadDataSlice, WriteDataSlice, FromBytes and their refusals); raw copies are
functions on the memory, the counts are cut to u16 and u32. `call` records the
last call and its result for the refinement, whose mapping reads the data out of
the memory. write_data_slice ends with read_data_slice, which counts the offset
twice: the model keeps both. A write behind the data is refused or, in a build
with overflow checks, panics (mbuf.rs:279). Sums of two arguments are cut to a
usize, and MaxArgAssumption says that those a caller passes do not wrap. MCMbufData is its instance for TLC.

**Port** (port.rs) is `new`, `configure` and `start`, one DPDK call per action, each
of which may fail. `configure` gives the device num_cores queues and sets up
num_cores rounded up to an even number of them; that of dpdk_loop rounds first
(ConfigureRounded). The variable `prog` says which of the two programs it is.

**Lifetime** EXTENDS Port. It follows the engine from eal_init through pool, port and
handshake to the rings and the handler of Ctrl+C (EngineHandler), and the three named objects through lookup, drop, kill
and restart of the mux, one DPDK call at a time. A panic of the engine drops what
it owns. The mux is taken to be attached to the EAL; main.rs calls `mux::start`
after `Mux::new`, which is listed as a hazard. Port is entered with any number of
cores up to `MaxCores`: the engine's main passes one, with which it does not come
up (section 5). With `prog = "dpdk_loop"` the primary process makes the pool under the
same name, brings up two ports (SecondPort) and enters its loop without rings, so
that a mux started next to it finds the pool only.

**Engine** EXTENDS Lifetime with the loop and the buffers it moves: `pool`, `ring`,
`held` and `lost` as in Channel, which it instantiates, `nic` and `tx` for the buffers
the NIC has filled and is sending. One action per call: LoopTest, RecvPkts
(port.receive), SendToPacketiser (send_to_packetiser_bulk), RecvFromPacketiser,
XmitPkts (port.send), ClearOutPkts, LoopExit; LoopRecvPkts is the body of
dpdk_loop's loop. Arrive is the NIC, MuxSends a mux that allocates and sends,
Signal is Ctrl+C. All of them interleave with the life of the mux. A mux that ends
frees the pool and the rings the loop goes on using: a call that reads them then
works as before or faults (ReadsFreed).

**FdPass** (fdpass-rs) is a Unix stream that carries ids with descriptors attached.
SendFd is send_fd; its control message is padded and therefore holds a second
descriptor, number 0. It may fail. OtherPeerSends is a peer that does not use the
library and attaches any number of descriptors, two included, which recv_fd takes.
RecvFd is recv_fd with its three refusals (control message missing or short,
other id), RecvFdEof a peer that hangs up. `leaked` holds the descriptors that no
FileDesc closes.

**MemEnpsf** EXTENDS FdPass. It has two endpoints over shared slots; each comes up
when `recv_fd` has given it a file (New). Each has its own indexes, because the
`RingBuf` structs are created by each end's `MemEnpsf::new` outside the shared
memory. Each call ends with an announcement of the pointers of `c2s_q`, which may
fail or be cut short without the call noticing. A push or pop of a slot outside
the mapping (all of it if the file cannot be mapped, for nobody looks at the
result of mmap) has stored the index when it ends the endpoint (Faults): nothing
is written, announced or returned. MCMemEnpsf is its
instance for TLC.

**RingBufProofs**, **ChannelProofs**, **MuxProofs**, **RouterProofs**, **LifetimeProofs**,
**EngineProofs**, **MemEnpsfProofs** and **MbufDataProofs** hold the theorems, each
about the module it is named after. MuxProofs and EngineProofs instantiate
ChannelProofs and use its lemmas.

## 3. Runs

| run | shows |
|---|---|
| ringbuf | indexes never cross, claimed slots are stable, refinement of BoundedQueue, every position pushed is popped |
| ringbuf_fifo | *violation*: with two threads, pop can return what push has not stored yet |
| channel | every buffer is in exactly one place |
| channel_handover | *violation*: a buffer given to enqueue_bulk is neither in the ring nor anybody's |
| mux | in_buf never overflows; every handle of the process is in one place, those that wait for a client included |
| router | exactly the TCP/IPv4 packets for this host are routed; no packet for a replaced client, none to two clients, all in order; clients get registered, one with packets queued is sent one, the burst after Ctrl+C is the last |
| router_scope | *violation*: main waits for the listener forever |
| lifetime | (module Engine) a started port has its queues in pairs; a mux that is up keeps the objects it found; a failed start leaves nothing; a buffer of the NIC is nobody else's; the engine takes every packet that arrives; both programs end after Ctrl+C |
| memenpsf | a file that is offered is taken; no accepted packet is overwritten; what the client has announced is written |
| memenpsf_arrive | *violation*: a packet transmitted is never received |
| mbuf | the data stays in its buffer, nothing outside it is written, MbufData implements PacketData |
| mbuf_docs | *violation*: read_data_slice says of bytes within the data that they exceed what remains |

Bounds. Capacity 3 with 7 pushes wraps the indexes twice and meets every
combination of full, empty and overlapping calls. Four buffers and rings of 2
fill a ring, exhaust the pool and leave buffers for the other side. In mux
BurstSz 2 gives a partly filled in_buf, and six buffers (one in in_buf, the one
its packet arrived in, two in the ring, two allocated) are the least with which
a burst could overfill it; the buffers are interchangeable and MCMux uses their
symmetry. Two clients suffice for a replacement and four
packets fill a channel, block a worker and leave one to follow.
Four runs of the mux reach every order of lookup, failure, drop, kill and
restart against the engine's steps; one and two cores are an odd and an even
number (the loop of l3enginelib is reached with the even one only, section 5).
Three buffers with a ring of 1 and vectors of 2 fill the ring and in_pkts,
empty the pool and leave a packet in the NIC. A buffer of 6 bytes with 1 of headroom and two values of a byte has
every combination of gap, overlap and room; arguments up to 6 exceed what fits.
8 and 64 stand for the 2^16 and 2^32 values of the counts: the buffer is
shorter than 8, as a real one is than 2^16, and a count that grew past it or
below 0 would wrap; 16, more than twice the largest argument, stands for the
values of a usize. MCMbufData's VIEW leaves out `call`, which no action reads;
the properties about a step see it in the step. In MemEnpsf 5 slots of one byte and a
page of 8 leave all of s2c and the first three slots of c2s inside the mapping, so
that the server's queue fills up and the client faults after two packets. With
the real sizes (20 slots of 1536 bytes, a page of 4096) only the first two slots
of s2c are mapped and all of c2s lies outside; the theorems cover every choice.
In memenpsf_arrive the page is 16, so that it is not a fault that keeps a packet
from arriving. A peer sends one message, since recv_fd looks at the first only:
any of four ids (none, the right one, another, the right one with more behind
it), with files that can be mapped or cannot, by send_fd or with up to three
descriptors, one more than there is room for. Every frame of FiveTuple is tried at every packet.

Fairness. In RingBuf the consumer polls and a producer does not stop inside
push. In Router every thread of the process is scheduled (weak fairness; the
listener's wait for the lock included, since between two packets the lock is
free and packets are finite); nothing is assumed of packets, of the user, and in
`FairSpec` of clients. `PromptSpec` adds that a client sends its descriptor or
hangs up. MemEnpsf: both ends take the message that has come, transmit and poll.
Engine: the loop is scheduled and none of its calls blocks; nothing is assumed of
the NIC, the mux or the user.

## 4. Proofs

RingBufProofs, for every capacity and number of pushes. The invariant `IInv`
relates the indexes to the history counters (`write = npush % Capacity`), says
which position an operation in progress has claimed (`Reservations`) and what
the queued slots hold (`Contents`). `Occupancy` alone is not inductive: that a
push finds room follows from the index it compared, which stands for a position
only through `Reservations`; and `LoadSeesOwnElement` needs `Contents`. The
arithmetic of the wrap-around is in the lemmas ModSucc, ModLap and ModDistinct.
Theorems: SlotProtocol (`[]IInv`), TypeCorrect, IndexesNeverCross,
ClaimedSlotIsStable, and InTurnIsFifo (one thread pops in order).
ImplementsBoundedFifo is the refinement of BoundedQueue. With two threads the
stores of `write` and `read` are the steps of the abstract queue (SharedStep), with
one thread the accesses to the slots are (TurnStep), where it takes `Turn`: an
element that is not stored yet has not been popped. TestsAreRight turns equal
indexes into numbers of queued elements, FunAppend and FunTail the mapped
functions into sequences.

ChannelProofs, for every finite set of buffers and every ring size. Each
operation is a `Transfer` of a set of buffers between two places; a transfer
keeps every buffer in exactly one place (TransferKeepsOwners). What a ring
operation does to the set of queued pointers is in RangeAppend and RangeSplit,
which need that a ring holds no pointer twice: so `Ownership` carries
NoDuplicates. Theorem: BuffersAreOwned.

MuxProofs, for every finite set of buffers, ring and burst size. StepIsACall: each
step of a function of Mux or of the engine is a call of Channel, or leaves the
channel alone, so that Mux inherits
`Ownership` by the lemmas of ChannelProofs (MuxKeepsOwnership). HandlesAreOwned
and NeverHitTheUnwrap are not inductive by themselves: that a buffer from
Mbuf::new is in none of the variables follows from ownership (the pool and the
process share nothing), and that in_buf has room at the push follows from what was
asked for at the start of the burst, which `Progress` carries through allocation,
dequeue and truncate. The invariant is `Handles /\ Progress` on top of Ownership.
Theorems: MuxKeepsOwnership, TheUnwrapIsNeverHit, EveryHandleIsOwned.

RouterProofs, for every burst size and number of clients and packets, with the
scope as it is and as it is meant. `Threads` says where each thread is and what it
holds: which locks (a reader or a writer, never both), that the worker's target is
the registered client while it sends, that a connection has no handler before
spawn. On it rest LookupStaysValid (only Insert replaces a client, and it needs
the write lock) and WorkerRoutesExactlyOurs, with MuxAccepts: the first check that
fires decides (VerdictOk), and none fires exactly for TCP over IPv4 to this host.
RoutedInOrder is a statement about concatenations; `Order` and `Apart` take it
apart, place by place (sent, in the handler, in the channel, at the worker, in
in_buf) and client by client, into facts that a step can keep: a packet moves from
the head of one place to the end of the next. Theorems: RouterTypes,
WorkerRoutesExactlyOurs, LookupStaysValid, PacketsStayInOrder.

EngineProofs, for every finite set of buffers, ring size and QUEUE_SZ, faults of
ReadsFreed included. Seen from
the channel, the buffers of the NIC are free: the lemmas of ChannelProofs are
instantiated with `pool \cup Range(nic) \cup tx` for the pool, an arrival changes
nothing, port.receive is an allocation (ReceiveStep), send_to_packetiser_bulk is
BulkStep, a mux that sends is SendNewStep. The invariant adds what separates the
NIC from the pool (`NicState`) and that out_pkts stays empty and in_pkts is empty
except between port.receive and send_to_packetiser_bulk (`LoopState`). That part
is needed: with packets in out_pkts, send and clear would free a buffer twice
(section 5), so the theorem holds because xmit_pkts asks for 0 packets.
LoopKeepsLifetime: Engine implements Lifetime, so the theorems of LifetimeProofs
hold next to the loop, the NIC and Ctrl+C.

MemEnpsfProofs, for every number and size of slots and every page size.
NothingOverwritten needs that an endpoint's copies of its peer's indexes never
move (OnlyOwnIndexMoves): a push is refused once the write index would come back
to 0. AnnouncedIsWritten needs that what was announced is not ahead of what is
written (AnnounceInv), also when a push has moved the index and faulted
(`Written`), that a byte is never ahead of the index it was cut from
(ByteOfIndex), and NothingOverwritten for what lies in the slots. Theorems:
AcceptedPacketsStay, AnnouncedPacketsAreThere.

MbufDataProofs, for every buffer, offset and set of byte values and every bound on
the arguments below half of a usize. `IInv` (the counts agree, the data ends within the buffer) is what
makes the tests of extend and shrink mean what they say: without it tailroom()
may wrap. From it follow CopiesStayInData (one step per function: the
destination of each copy lies within the data) and ImplementsPacketData: the
lemmas ExtendCells, ShrinkCells, WriteCells and FromBytesEffect say what a call
does to the cells, SliceGranted what the slice calls grant, Splice and Patch turn that into a statement about sequences,
and ExtendOpens, ShrinkCuts, TruncateCuts, WriteOverwrites and FromBytesStores
are the steps of PacketData.

LifetimeProofs, for both programs and any number of cores and of runs of the mux.
QueuesSoFar says which queues are set up at each step of configure; the engine's
port with an odd number of cores cannot get past the loop, and dpdk_loop's has an
even number of queues, so Paired follows by arithmetic. The second port of
dpdk_loop starts from nothing again (PortAgain).
UpMeansConnected is not inductive: a mux that has found C2E needs that C2E is
only alive with a running engine (MadeInOrder) and that E2C, found before, has
not gone since (FoundIsKept), which holds because an engine that fails leaves no
ring alive (FailedEngineLeavesNothing). Theorems: SharedObjects (`[]IInv`),
MuxIsConnected, NothingLeftBehind, StartedPortIsPaired.

Assumptions: `Capacity`, `RingSize` positive, `MaxPush` a natural number, the set
of buffers finite; a buffer shorter than 2^16 (`BufLen < Word`), headroom within
it, u16 no wider than u32, the sum of two arguments within a usize; `BurstSz`, `QueueSz`, `Cap`, `Mtu` and `Page` positive,
the other bounds natural numbers, an id a sequence of bytes, and two endpoints.
TLC evaluates them in the runs.

Only model-checked: the liveness properties (EveryPushPopped, RegistersClients,
QueuedReachesClient, StopsAfterBurst, EveryPacketTaken, StopsOnSignal, OfferIsTaken), which are out of
the prover's reach. Every other property of a passing run is a theorem.

## 5. Defects without a run of their own

Channel models that buffers are lost (`lost`). The run channel_handover shows the
first way, enqueue_bulk; besides, dequeue and dequeue_burst store what they take
in temporary copies (memring.rs:129, 182), and a full ring refuses a pointer whose
handle is gone (memring.rs:113-120).
mbuf.rs:113-114 asks the caller of into_ptr to free the pointer.

MbufData: the error path of write_data_slice underflows for an offset behind the
data (mbuf.rs:279); `offset + len` of shrink wraps near the top of usize, and the
test passes then (mbuf.rs:173).

Port: rte_eth_dev_configure is given num_cores and the loop runs to num_cores
rounded up, so configure fails for every odd number, and the engine's main passes
1 (port.rs:77-94, l3enginelib/src/main.rs:72, 91): its port is never started and its
loop never reached. What the run lifetime shows of the loop is about an engine
with an even number of cores, and about dpdk_loop. EALErrors::new reports ENOMEM
as NoRsrc (apis/mod.rs:181), although NoMem is there for it (apis/mod.rs:158).

Lifetime: a mux that fails half-way through its lookups, or stops, drops the Rings
and the Mempool it has found, and Drop frees the objects themselves
(memring.rs:213, mempool.rs:111; `?` at memring.rs:245), while an engine that has
made them goes on using them (Engine!ReadsFreed).

Engine: recv_pkts gives up every packet it received and hands none to the mux (the
length of enqueue_bulk above), so each one shrinks the pool until the NIC finds no
buffer; xmit_pkts asks for 0 packets (l3enginelib/src/main.rs:43-44), so nothing
the mux sends leaves the host. Were out_pkts ever filled, send would free packets
that the NIC has taken and out_pkts.clear would drop all of them once more
(port.rs:182-183, l3enginelib/src/main.rs:50): the variant
RecvFromPacketiserFills shows it. dpdk_loop asks for as many packets as in_pkts
holds, which is none (dpdk_loop/l3engine/src/main.rs:140); had it received some,
xmit_pkts would have emptied the vector before the loop that is to answer them
(lines 226-229).

FdPass: each descriptor that is passed brings the sender's descriptor 0 along, which
the receiver never closes, and a refused message leaves both open (`leaked`;
fdpass-rs/src/lib.rs:38-43, 56-59); one byte of the id is compared, an expected id
of another length never matches (ffi.rs:196); with an empty id send_fd returns Ok
and nothing arrives. No program of the repository sends a descriptor to the
client's MemEnpsf::new.

FiveTuple: the worker parses MTU bytes of the buffer whatever the length of the
packet (l3enginemux/src/main.rs:155), so a short packet may be routed by headers
of an earlier one (`own = FALSE`), and handle_client transmits the same bytes
(main.rs:51). fivetuple.rs:147 says "Detect ARP packets and send a reply":
parse_pkt refuses packets without IP and TCP, ethertype() swaps the bytes of a
number that is in host order already, and main drops the reply (main.rs:165-167).
ipaddr_to_u32 uses the second octet twice (fivetuple.rs:136).

Router models them, the violation runs above do not single them out: without
packets the process does not stop after Ctrl+C (main.rs:141, the inner loop does
not test `keep_running`); a packet with no client, or the second packet of a
client, ends the process (main.rs:174-175); packets queued
behind the first are dropped with the handler.
The worker waits for room in a channel with the read lock held (main.rs:170-175):
a client that stays silent without hanging up lets it wait for good, and the
listener with it, were the main loop to run next to the listener (`FairSpec`
instead of `PromptSpec`). MemEnpsf: xmit_to_client and
recv_from_srv announce the pointers of the other queue (memenpsf/src/lib.rs:75,
87); the mapping is of `cap` bytes instead of `2 * cap * MTU` (lib.rs:29-33).

## 6. Plan

Done: RingBuf, Channel, Mux, Router with FiveTuple, Lifetime with Port, Engine,
MemEnpsf with FdPass, MbufData; every safety property and every refinement that
a run checks is proved. Next, in this order:

1. The safety half of OfferIsTaken: a descriptor once taken stays mapped.
2. Facts about the wait for a lock or a channel that the liveness properties rest
   on, as invariants: who waits for whom in Router.

Not modelled, and why:

- `handle_arp`, `ipaddr_to_u32`, the ARP, ICMP and checksum helpers of `shim.c`: no
  program can reach them.
- What dpdk_loop does with a packet, its `parse_pkt` included: it receives none. Its `mbuf.rs`, `mempool.rs` and
  `mod.rs` are copies of those of l3enginelib, its `memring.rs` is not used.
- The conversions of errno in `apis/mod.rs`: every caller unwraps the result.
- What DPDK does when the mux looks rings up before it has called rte_eal_init
  (l3enginemux/src/main.rs:121-124): not in this repository.
- `dpdk-sys/build.rs`, `bindings.h`, `fdpass-rs/examples`, logging, names and formatting.
