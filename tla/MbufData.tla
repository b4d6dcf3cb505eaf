------------------------------ MODULE MbufData ------------------------------
(***************************************************************************)
(* The data of one mbuf (src/l3enginelib/src/apis/mbuf.rs): a block of     *)
(* memory, the offset where the data begins and two counts of its length,  *)
(* moved about by extend, shrink, resize and truncate and reached through  *)
(* read_data, read_data_slice and write_data_slice.                        *)
(*                                                                         *)
(* The counts in the mbuf are u16 and u32, offsets and lengths are usize,  *)
(* and what is stored or summed is cut to its width.  What callers pass is *)
(* assumed to be less than half of a usize (MaxArgAssumption): a sum of    *)
(* two that wraps would pass the tests of shrink and of the slice calls.   *)
(* A slice of T is counted in bytes.                                       *)
(***************************************************************************)
EXTENDS Integers, Sequences

CONSTANTS
  Byte,      \* the values of a byte
  BufLen,    \* buf_len
  DataOff,   \* data_off, which no function of the repository changes
  Word,      \* how many values a u16 has: 2^16
  Long,      \* how many values a u32 has: 2^32
  Size,      \* how many values a usize has: 2^64
  MaxArg     \* bound: the largest offset or length a caller passes

ASSUME ByteAssumption == Byte # {}
ASSUME WordAssumption == Word \in Nat /\ Long \in Nat /\ Word <= Long
ASSUME BufLenAssumption == BufLen \in 0 .. (Word - 1)
ASSUME DataOffAssumption == DataOff \in 0 .. BufLen
ASSUME MaxArgAssumption == MaxArg \in Nat /\ Size \in Nat /\ 2 * MaxArg < Size

VARIABLES
  mem,        \* the memory of the buffer
  data_len,   \* raw.data_len
  pkt_len,    \* raw.pkt_len
  call        \* the last call and its result

vars == <<mem, data_len, pkt_len, call>>

Cell == 0 .. (BufLen - 1)
Arg == 0 .. MaxArg
Bytes == UNION {[1 .. n -> Byte] : n \in Arg}

\* `len as u16`, `len as u32`, and the sums and differences kept in them.
U16(n) == n % Word
U32(n) == n % Long

\* The sum of two usize.
Sum(a, b) == (a + b) % Size

\* data_address(offset), relative to buf_addr.
Addr(offset) == DataOff + offset

\* tailroom()
Tailroom == U16(BufLen - DataOff - data_len)

\* ptr::copy: n bytes from src to dst, which may overlap.
Copy(src, dst, n) ==
  [a \in Cell |-> IF a \in dst .. (dst + n - 1) THEN mem[src + (a - dst)] ELSE mem[a]]

\* ptr::copy_nonoverlapping of the bytes s to dst.
Store(dst, s) ==
  [a \in Cell |-> IF a \in dst .. (dst + Len(s) - 1) THEN s[a - dst + 1] ELSE mem[a]]

Called(op, at, n, bytes, ok) ==
  call' = [op |-> op, at |-> at, n |-> n, bytes |-> bytes, ok |-> ok]

Refused(op, at, n, bytes) ==
  Called(op, at, n, bytes, FALSE) /\ UNCHANGED <<mem, data_len, pkt_len>>

\* Mbuf::new: rte_pktmbuf_alloc resets the counts, not the memory, which may
\* have any contents.
Init ==
  /\ mem \in [Cell -> Byte]
  /\ data_len = 0 /\ pkt_len = 0
  /\ call = [op |-> "new", at |-> 0, n |-> 0, bytes |-> <<>>, ok |-> TRUE]

----------------------------------------------------------------------------
(* Changing the size *)

CanExtend(offset, len) == ~(len <= 0 \/ offset > data_len \/ len > Tailroom)

\* Mutant: data after the offset is not moved out of the way.
ExtendInPlace(offset, len) ==
  /\ CanExtend(offset, len)
  /\ data_len' = U16(data_len + U16(len))
  /\ pkt_len' = U32(pkt_len + U32(len))
  /\ UNCHANGED mem
  /\ Called("extend", offset, len, <<>>, TRUE)

Extend(offset, len) ==
  /\ CanExtend(offset, len)
  /\ mem' = Copy(Addr(offset), Addr(offset + len), data_len - offset)
  /\ data_len' = U16(data_len + U16(len))
  /\ pkt_len' = U32(pkt_len + U32(len))
  /\ Called("extend", offset, len, <<>>, TRUE)

ExtendRefused(offset, len) ==
  ~CanExtend(offset, len) /\ Refused("extend", offset, len, <<>>)

CanShrink(offset, len) == ~(len <= 0 \/ Sum(offset, len) > data_len)

Shrink(offset, len) ==
  /\ CanShrink(offset, len)
  /\ mem' = Copy(Addr(offset + len), Addr(offset), data_len - offset - len)
  /\ data_len' = U16(data_len - U16(len))
  /\ pkt_len' = U32(pkt_len - U32(len))
  /\ Called("shrink", offset, len, <<>>, TRUE)

ShrinkRefused(offset, len) ==
  ~CanShrink(offset, len) /\ Refused("shrink", offset, len, <<>>)

\* resize(offset, len): shrink for a negative len, extend otherwise.
Resize(offset, len) ==
  IF len < 0 THEN Shrink(offset, -len) \/ ShrinkRefused(offset, -len)
  ELSE Extend(offset, len) \/ ExtendRefused(offset, len)

\* Mutant: pkt_len is forgotten.
TruncateDataOnly(to_len) ==
  /\ to_len < data_len
  /\ data_len' = U16(to_len)
  /\ UNCHANGED <<mem, pkt_len>>
  /\ Called("truncate", 0, to_len, <<>>, TRUE)

Truncate(to_len) ==
  /\ to_len < data_len
  /\ data_len' = U16(to_len) /\ pkt_len' = U32(to_len)
  /\ UNCHANGED mem
  /\ Called("truncate", 0, to_len, <<>>, TRUE)

TruncateRefused(to_len) ==
  to_len >= data_len /\ Refused("truncate", 0, to_len, <<>>)

----------------------------------------------------------------------------
(* Access *)

\* read_data of a T of n bytes.
ReadData(offset, n) ==
  /\ Called("read", offset, n, <<>>, offset < data_len /\ Sum(offset, n) <= data_len)
  /\ UNCHANGED <<mem, data_len, pkt_len>>

\* Whether read_data_slice of n bytes succeeds.  The offset counts twice.
CanReadSlice(offset, n) ==
  offset < data_len /\ Sum(offset, n) <= data_len - offset

ReadDataSlice(offset, n) ==
  /\ Called("read_slice", offset, n, <<>>, CanReadSlice(offset, n))
  /\ UNCHANGED <<mem, data_len, pkt_len>>

\* Mutant: the bytes are checked against the room and not the data.
WriteDataSliceIntoRoom(offset, slice) ==
  /\ offset + Len(slice) <= data_len + Tailroom
  /\ mem' = Store(Addr(offset), slice)
  /\ UNCHANGED <<data_len, pkt_len>>
  /\ Called("write", offset, 0, slice, TRUE)

\* write_data_slice: the bytes are written, then read_data_slice decides what
\* the caller is told.
WriteDataSlice(offset, slice) ==
  /\ Sum(offset, Len(slice)) <= data_len
  /\ mem' = Store(Addr(offset), slice)
  /\ UNCHANGED <<data_len, pkt_len>>
  /\ Called("write", offset, 0, slice, CanReadSlice(offset, Len(slice)))

\* OutOfBuffer; computing the remaining length for it underflows when the
\* offset lies behind the data, which ends the caller in a debug build.
WriteRefused(offset, slice) ==
  /\ Sum(offset, Len(slice)) > data_len
  /\ \/ Refused("write", offset, 0, slice)
     \/ offset > data_len /\ Refused("panic", offset, 0, slice)

\* from_bytes: a new mbuf, extend(0, data.len()), write_data_slice(0, data).
\* The memory is that of whichever buffer the pool gives.
FromBytes(data) ==
  \E m \in [Cell -> Byte] :
    IF Len(data) > 0 /\ Len(data) <= BufLen - DataOff
    THEN /\ mem' = [a \in Cell |-> IF a \in DataOff .. (DataOff + Len(data) - 1)
                                   THEN data[a - DataOff + 1] ELSE m[a]]
         /\ data_len' = U16(Len(data)) /\ pkt_len' = U32(Len(data))
         /\ Called("from_bytes", 0, 0, data, TRUE)
    ELSE /\ mem' = m /\ data_len' = 0 /\ pkt_len' = 0
         /\ Called("from_bytes", 0, 0, data, FALSE)

Next ==
  \/ \E s \in Bytes : FromBytes(s)
  \/ \E offset \in Arg, len \in -MaxArg .. MaxArg : Resize(offset, len)
  \/ \E n \in Arg : Truncate(n) \/ TruncateRefused(n)
  \/ \E offset, n \in Arg : ReadData(offset, n) \/ ReadDataSlice(offset, n)
  \/ \E offset \in Arg, s \in Bytes :
       WriteDataSlice(offset, s) \/ WriteRefused(offset, s)

Spec == Init /\ [][Next]_vars

----------------------------------------------------------------------------
(* Properties *)

TypeOK ==
  /\ mem \in [Cell -> Byte]
  /\ data_len \in Nat /\ pkt_len \in Nat

\* The data never leaves the buffer and the two counts agree, so that
\* tailroom() does not wrap and no count is cut to its width.
DataInBuffer == pkt_len = data_len /\ Addr(data_len) <= BufLen

\* The inductive invariant.
IInv == TypeOK /\ DataInBuffer

\* No call touches memory that is not data before or after it: the headroom
\* and what lies behind the data keep their bytes.
OnlyDataIsWritten ==
  [][call'.op = "from_bytes" \/
     \A a \in Cell : mem'[a] # mem[a] =>
       a \in Addr(0) .. (Addr(data_len) - 1) \/ a \in Addr(0) .. (Addr(data_len') - 1)]_vars

\* The bytes between data_off and the end of the data.
Data == [i \in 1 .. data_len |-> mem[Addr(i - 1)]]

Packet == INSTANCE PacketData WITH data <- Data, Room <- BufLen - DataOff

\* However the calls follow each other, each does to the data what its name
\* says (PacketData): extend opens a gap, shrink closes one, bytes before and
\* after keep their values and order; write_data_slice changes exactly its
\* range, also when the caller is told that it failed; no read reaches past
\* the data; and each answer is the one PacketData states.
KeepsItsData == Packet!Spec

\* apis/mod.rs:119 "Struct size {} exceeds the remaining buffer length {}":
\* when read_data_slice or write_data_slice, at an offset inside the data,
\* answers with this error, the bytes do not fit behind the offset.
OutOfBufferIsTrue ==
  [][\A n \in Arg :
       /\ \/ call'.op = "read_slice" /\ n = call'.n
          \/ call'.op = "write" /\ n = Len(call'.bytes)
       /\ call'.at < data_len
       /\ ~call'.ok
       => n > data_len - call'.at]_vars
=============================================================================
