--------------------------- MODULE MbufDataProofs ---------------------------
(***************************************************************************)
(* For every buffer length, every offset of the data and every width of    *)
(* the counts that can hold the length: the data of an mbuf stays in its   *)
(* buffer, nothing else is written, and each call does to the data what    *)
(* PacketData says.                                                        *)
(***************************************************************************)
EXTENDS MbufData, SequenceTheorems, TLAPS

----------------------------------------------------------------------------
(* Nothing is cut *)

\* A count below the number of values of its type is stored as it is.
LEMMA Fits ==
  ASSUME NEW n \in Int, n \in 0 .. (Word - 1)
  PROVE  U16(n) = n /\ U32(n) = n
<1>1. ASSUME NEW c \in Nat, n < c
      PROVE  n % c = n
  BY <1>1, SMT
<1> QED
  BY <1>1, WordAssumption DEF U16, U32

\* What callers pass is small enough for its sums.
LEMMA SumOfArgs ==
  ASSUME NEW a \in Arg, NEW b \in Arg
  PROVE  Sum(a, b) = a + b
<1>1. ASSUME NEW n \in Nat, NEW c \in Nat, n < c
      PROVE  n % c = n
  BY <1>1, SMT
<1>2. a + b \in Nat /\ Size \in Nat /\ a + b < Size
  BY MaxArgAssumption DEF Arg
<1> QED
  BY <1>1, <1>2 DEF Sum

\* What the counts of an mbuf amount to when its data lies in its buffer:
\* tailroom() is the room that is left.
LEMMA RoomLeft ==
  ASSUME IInv
  PROVE  /\ data_len \in 0 .. (BufLen - DataOff)
         /\ BufLen - DataOff \in 0 .. (Word - 1)
         /\ Tailroom = BufLen - DataOff - data_len
<1>1. data_len \in Nat /\ data_len <= BufLen - DataOff
  BY BufLenAssumption, DataOffAssumption, WordAssumption
     DEF IInv, TypeOK, DataInBuffer, Addr
<1>2. BufLen - DataOff - data_len \in 0 .. (Word - 1)
  BY <1>1, BufLenAssumption, DataOffAssumption, WordAssumption
<1> QED
  BY <1>1, <1>2, Fits, BufLenAssumption, DataOffAssumption, WordAssumption
     DEF Tailroom

\* The counts after an extend that is not refused.
LEMMA ExtendCounts ==
  ASSUME IInv, NEW offset \in Arg, NEW len \in Int, Extend(offset, len)
  PROVE  /\ len > 0 /\ offset <= data_len
         /\ data_len + len <= BufLen - DataOff
         /\ data_len' = data_len + len /\ pkt_len' = data_len + len
<1>1. len > 0 /\ offset <= data_len /\ len <= Tailroom
  BY RoomLeft, MaxArgAssumption DEF Extend, CanExtend, Arg
<1>2. data_len + len \in 0 .. (Word - 1) /\ len \in 0 .. (Word - 1)
  BY <1>1, RoomLeft, BufLenAssumption, DataOffAssumption, WordAssumption
<1>3. U16(len) = len /\ U32(len) = len
  BY <1>2, Fits
<1>4. U16(data_len + len) = data_len + len /\ U32(data_len + len) = data_len + len
  BY <1>2, Fits
<1>5. pkt_len = data_len
  BY DEF IInv, DataInBuffer
<1>6. data_len + len <= BufLen - DataOff
  BY <1>1, RoomLeft, BufLenAssumption, DataOffAssumption, WordAssumption
<1> QED
  BY <1>1, <1>3, <1>4, <1>5, <1>6 DEF Extend

\* The counts after a shrink that is not refused.
LEMMA ShrinkCounts ==
  ASSUME IInv, NEW offset \in Arg, NEW len \in -MaxArg .. MaxArg, Shrink(offset, len)
  PROVE  /\ len > 0 /\ offset + len <= data_len
         /\ data_len' = data_len - len /\ pkt_len' = data_len - len
<1>0. len \in Arg /\ len > 0 /\ ~(Sum(offset, len) > data_len)
  BY MaxArgAssumption DEF Shrink, CanShrink, Arg
<1>1. len > 0 /\ offset + len <= data_len
  <2>1. Sum(offset, len) = offset + len
    BY <1>0, SumOfArgs
  <2> QED
    BY <1>0, <2>1, RoomLeft, BufLenAssumption, DataOffAssumption, WordAssumption,
       MaxArgAssumption DEF Arg
<1>2. data_len - len \in 0 .. (Word - 1) /\ len \in 0 .. (Word - 1)
  BY <1>1, RoomLeft, MaxArgAssumption, BufLenAssumption, DataOffAssumption,
     WordAssumption DEF Arg
<1>3. U16(len) = len /\ U32(len) = len
  BY <1>2, Fits
<1>4. U16(data_len - len) = data_len - len /\ U32(data_len - len) = data_len - len
  BY <1>2, Fits
<1>5. pkt_len = data_len
  BY DEF IInv, DataInBuffer
<1> QED
  BY <1>1, <1>3, <1>4, <1>5 DEF Shrink

\* The counts after a truncate that is not refused.
LEMMA TruncateCounts ==
  ASSUME IInv, NEW n \in Arg, Truncate(n)
  PROVE  n < data_len /\ data_len' = n /\ pkt_len' = n
<1>1. n \in 0 .. (Word - 1) /\ n < data_len
  BY RoomLeft, MaxArgAssumption, BufLenAssumption, DataOffAssumption,
     WordAssumption DEF Truncate, Arg
<1> QED
  BY <1>1, Fits DEF Truncate

----------------------------------------------------------------------------
(* The memory *)

\* The bytes a caller passes are a sequence of bytes.
LEMMA BytesAreSeq ==
  ASSUME NEW s \in Bytes
  PROVE  s \in Seq(Byte) /\ Len(s) \in Arg /\ Len(s) \in Nat
<1>1. PICK n \in Arg : s \in [1 .. n -> Byte]
  BY DEF Bytes
<1> QED
  BY <1>1, MaxArgAssumption DEF Arg

\* write_data_slice writes exactly the slices that end inside the data.
LEMMA WriteFits ==
  ASSUME NEW offset \in Arg, NEW s \in Bytes
  PROVE  /\ WriteDataSlice(offset, s) => offset + Len(s) <= data_len
         /\ WriteRefused(offset, s) => offset + Len(s) > data_len
<1>1. Sum(offset, Len(s)) = offset + Len(s)
  BY BytesAreSeq, SumOfArgs
<1> QED
  BY <1>1 DEF WriteDataSlice, WriteRefused

\* What the slice calls grant.
LEMMA SliceGranted ==
  ASSUME IInv, NEW offset \in Arg, NEW n \in Arg
  PROVE  CanReadSlice(offset, n) <=> offset < data_len /\ 2 * offset + n <= data_len
<1>1. Sum(offset, n) = offset + n
  BY SumOfArgs
<1>2. offset \in Nat /\ n \in Nat /\ data_len \in Nat
  BY MaxArgAssumption DEF Arg, IInv, TypeOK
<1> QED
  BY <1>1, <1>2 DEF CanReadSlice

\* A copy between two ranges of the buffer yields a memory of bytes; outside
\* its destination it changes nothing.
LEMMA CopyCells ==
  ASSUME mem \in [Cell -> Byte],
         NEW src \in Nat, NEW dst \in Nat, NEW n \in Nat, src + n <= BufLen
  PROVE  /\ Copy(src, dst, n) \in [Cell -> Byte]
         /\ \A a \in Cell : a \notin dst .. (dst + n - 1) => Copy(src, dst, n)[a] = mem[a]
         /\ \A a \in Cell : a \in dst .. (dst + n - 1) =>
                              Copy(src, dst, n)[a] = mem[src + (a - dst)]
<1>1. ASSUME NEW a \in Cell, a \in dst .. (dst + n - 1)
      PROVE  src + (a - dst) \in Cell
  BY <1>1, BufLenAssumption, WordAssumption DEF Cell
<1> QED
  BY <1>1 DEF Copy

\* Likewise for bytes that are stored.
LEMMA StoreCells ==
  ASSUME NEW s \in Bytes, NEW dst \in Nat
  PROVE  \A a \in Cell : a \in dst .. (dst + Len(s) - 1) => s[a - dst + 1] \in Byte
<1> SUFFICES ASSUME NEW a \in Cell, a \in dst .. (dst + Len(s) - 1)
             PROVE  s[a - dst + 1] \in Byte
  OBVIOUS
<1>1. s \in Seq(Byte) /\ Len(s) \in Nat
  BY BytesAreSeq
<1>2. a - dst + 1 \in 1 .. Len(s)
  BY <1>1, BufLenAssumption, WordAssumption DEF Cell
<1> QED
  BY <1>1, <1>2

\* from_bytes leaves its bytes at data_off, or an empty mbuf.
LEMMA FromBytesEffect ==
  ASSUME NEW s \in Bytes, FromBytes(s)
  PROVE  /\ mem' \in [Cell -> Byte]
         /\ pkt_len' = data_len'
         /\ call'.op = "from_bytes" /\ call'.bytes = s
         /\ \/ /\ Len(s) \in 1 .. (BufLen - DataOff) /\ call'.ok = TRUE
               /\ data_len' = Len(s)
               /\ \A a \in Cell : a \in DataOff .. (DataOff + Len(s) - 1) =>
                                    mem'[a] = s[a - DataOff + 1]
            \/ /\ Len(s) \notin 1 .. (BufLen - DataOff) /\ call'.ok = FALSE
               /\ data_len' = 0
<1>1. PICK m \in [Cell -> Byte] :
        IF Len(s) > 0 /\ Len(s) <= BufLen - DataOff
        THEN /\ mem' = [a \in Cell |-> IF a \in DataOff .. (DataOff + Len(s) - 1)
                                       THEN s[a - DataOff + 1] ELSE m[a]]
             /\ data_len' = U16(Len(s)) /\ pkt_len' = U32(Len(s))
             /\ Called("from_bytes", 0, 0, s, TRUE)
        ELSE /\ mem' = m /\ data_len' = 0 /\ pkt_len' = 0
             /\ Called("from_bytes", 0, 0, s, FALSE)
  BY DEF FromBytes
<1>2. Len(s) \in Nat
  BY BytesAreSeq
<1>3. CASE Len(s) > 0 /\ Len(s) <= BufLen - DataOff
  <2>1. Len(s) \in 0 .. (Word - 1)
    BY <1>2, <1>3, BufLenAssumption, DataOffAssumption, WordAssumption
  <2>2. data_len' = Len(s) /\ pkt_len' = Len(s)
    BY <1>1, <1>3, <2>1, Fits
  <2>3. \A a \in Cell : a \in DataOff .. (DataOff + Len(s) - 1) => s[a - DataOff + 1] \in Byte
    BY StoreCells, DataOffAssumption
  <2>4. mem' = [a \in Cell |-> IF a \in DataOff .. (DataOff + Len(s) - 1)
                               THEN s[a - DataOff + 1] ELSE m[a]]
    BY <1>1, <1>3
  <2>5. mem' \in [Cell -> Byte]
    BY <2>3, <2>4
  <2>6. \A a \in Cell : a \in DataOff .. (DataOff + Len(s) - 1) => mem'[a] = s[a - DataOff + 1]
    BY <2>4
  <2>7. Called("from_bytes", 0, 0, s, TRUE)
    BY <1>1, <1>3
  <2>8. call'.op = "from_bytes" /\ call'.bytes = s /\ call'.ok = TRUE
    BY <2>7 DEF Called
  <2>9. Len(s) \in 1 .. (BufLen - DataOff)
    BY <1>2, <1>3, BufLenAssumption, DataOffAssumption, WordAssumption
  <2> QED
    BY <2>2, <2>5, <2>6, <2>8, <2>9
<1>4. CASE ~(Len(s) > 0 /\ Len(s) <= BufLen - DataOff)
  <2>1. mem' = m /\ data_len' = 0 /\ pkt_len' = 0 /\ Called("from_bytes", 0, 0, s, FALSE)
    BY <1>1, <1>4
  <2>2. call'.op = "from_bytes" /\ call'.bytes = s /\ call'.ok = FALSE
    BY <2>1 DEF Called
  <2>3. Len(s) \notin 1 .. (BufLen - DataOff)
    BY <1>2, <1>4, BufLenAssumption, DataOffAssumption, WordAssumption
  <2> QED
    BY <2>1, <2>2, <2>3
<1> QED
  BY <1>3, <1>4

\* extend moves the bytes from the offset on up by len.
LEMMA ExtendCells ==
  ASSUME IInv, NEW offset \in Arg, NEW len \in Int, Extend(offset, len)
  PROVE  /\ mem' \in [Cell -> Byte]
         /\ \A a \in Cell : a \notin Addr(offset + len) .. (Addr(data_len + len) - 1)
                              => mem'[a] = mem[a]
         /\ \A a \in Cell : a \in Addr(offset + len) .. (Addr(data_len + len) - 1)
                              => mem'[a] = mem[a - len]
<1> DEFINE src == Addr(offset)
           dst == Addr(offset + len)
           n == data_len - offset
<1>1. offset \in Nat /\ data_len \in Nat /\ DataOff \in Nat /\ BufLen \in Nat
  BY RoomLeft, MaxArgAssumption, BufLenAssumption, DataOffAssumption, WordAssumption DEF Arg
<1>2. len > 0 /\ offset <= data_len /\ data_len + len <= BufLen - DataOff
  BY ExtendCounts
<1>3. src \in Nat /\ dst \in Nat /\ n \in Nat /\ src + n <= BufLen
  BY <1>1, <1>2 DEF Addr
<1>4. mem \in [Cell -> Byte] /\ mem' = Copy(src, dst, n)
  BY DEF IInv, TypeOK, Extend
<1>5. dst + n - 1 = Addr(data_len + len) - 1
  BY <1>1, <1>2 DEF Addr
<1>6. \A a \in Cell : src + (a - dst) = a - len
  BY <1>1, <1>2, BufLenAssumption, WordAssumption DEF Addr, Cell
<1> HIDE DEF src, dst, n
<1>7. /\ Copy(src, dst, n) \in [Cell -> Byte]
      /\ \A a \in Cell : a \notin dst .. (dst + n - 1) => Copy(src, dst, n)[a] = mem[a]
      /\ \A a \in Cell : a \in dst .. (dst + n - 1) =>
                           Copy(src, dst, n)[a] = mem[src + (a - dst)]
  BY <1>3, <1>4, CopyCells
<1> QED
  BY <1>4, <1>5, <1>6, <1>7 DEF dst

\* shrink moves the bytes behind the gap down by len.
LEMMA ShrinkCells ==
  ASSUME IInv, NEW offset \in Arg, NEW len \in -MaxArg .. MaxArg, Shrink(offset, len)
  PROVE  /\ mem' \in [Cell -> Byte]
         /\ \A a \in Cell : a \notin Addr(offset) .. (Addr(data_len - len) - 1)
                              => mem'[a] = mem[a]
         /\ \A a \in Cell : a \in Addr(offset) .. (Addr(data_len - len) - 1)
                              => mem'[a] = mem[a + len]
<1> DEFINE src == Addr(offset + len)
           dst == Addr(offset)
           n == data_len - offset - len
<1>1. offset \in Nat /\ data_len \in Nat /\ DataOff \in Nat /\ BufLen \in Nat
      /\ data_len <= BufLen - DataOff
  BY RoomLeft, MaxArgAssumption, BufLenAssumption, DataOffAssumption, WordAssumption DEF Arg
<1>2. len > 0 /\ len \in Int /\ offset + len <= data_len
  BY ShrinkCounts, MaxArgAssumption
<1>3. src \in Nat /\ dst \in Nat /\ n \in Nat /\ src + n <= BufLen
  BY <1>1, <1>2 DEF Addr
<1>4. mem \in [Cell -> Byte] /\ mem' = Copy(src, dst, n)
  BY DEF IInv, TypeOK, Shrink
<1>5. dst + n - 1 = Addr(data_len - len) - 1
  BY <1>1, <1>2 DEF Addr
<1>6. \A a \in Cell : src + (a - dst) = a + len
  BY <1>1, <1>2, BufLenAssumption, WordAssumption DEF Addr, Cell
<1> HIDE DEF src, dst, n
<1>7. /\ Copy(src, dst, n) \in [Cell -> Byte]
      /\ \A a \in Cell : a \notin dst .. (dst + n - 1) => Copy(src, dst, n)[a] = mem[a]
      /\ \A a \in Cell : a \in dst .. (dst + n - 1) =>
                           Copy(src, dst, n)[a] = mem[src + (a - dst)]
  BY <1>3, <1>4, CopyCells
<1> QED
  BY <1>4, <1>5, <1>6, <1>7 DEF dst

\* write_data_slice changes the bytes of its range, to those of the slice.
LEMMA WriteCells ==
  ASSUME IInv, NEW offset \in Arg, NEW s \in Bytes, WriteDataSlice(offset, s)
  PROVE  /\ mem' \in [Cell -> Byte]
         /\ \A a \in Cell : a \notin Addr(offset) .. (Addr(offset + Len(s)) - 1)
                              => mem'[a] = mem[a]
         /\ \A a \in Cell : a \in Addr(offset) .. (Addr(offset + Len(s)) - 1)
                              => mem'[a] = s[a - Addr(offset) + 1]
<1>1. Addr(offset) \in Nat /\ Len(s) \in Nat
      /\ Addr(offset) + Len(s) - 1 = Addr(offset + Len(s)) - 1
  BY BytesAreSeq, MaxArgAssumption, DataOffAssumption DEF Arg, Addr
<1>2. \A a \in Cell : a \in Addr(offset) .. (Addr(offset) + Len(s) - 1)
                        => s[a - Addr(offset) + 1] \in Byte
  BY <1>1, StoreCells
<1>3. mem \in [Cell -> Byte] /\ mem' = Store(Addr(offset), s)
  BY DEF IInv, TypeOK, WriteDataSlice
<1> QED
  BY <1>1, <1>2, <1>3 DEF Store

----------------------------------------------------------------------------
(* The invariant *)

\* A new mbuf has no data.
LEMMA Initially == Init => IInv
  BY BufLenAssumption, DataOffAssumption, WordAssumption
     DEF Init, IInv, TypeOK, DataInBuffer, Addr

\* Every call keeps the data in the buffer and the counts equal.
LEMMA Preserved == IInv /\ [Next]_vars => IInv'
<1> SUFFICES ASSUME IInv, [Next]_vars
             PROVE  IInv'
  OBVIOUS
<1>0. /\ data_len \in 0 .. (BufLen - DataOff) /\ pkt_len = data_len
      /\ mem \in [Cell -> Byte] /\ BufLen \in Nat /\ DataOff \in Nat
  BY RoomLeft, BufLenAssumption, DataOffAssumption, WordAssumption
     DEF IInv, TypeOK, DataInBuffer
<1>keep. ASSUME UNCHANGED <<mem, data_len, pkt_len>>
         PROVE  IInv'
  BY <1>keep DEF IInv, TypeOK, DataInBuffer, Addr, Cell
<1>new. ASSUME mem' \in [Cell -> Byte], pkt_len' = data_len',
               data_len' \in 0 .. (BufLen - DataOff)
        PROVE  IInv'
  <2>0. \A x \in 0 .. (BufLen - DataOff) : x \in Nat /\ DataOff + x <= BufLen
    BY BufLenAssumption, DataOffAssumption, WordAssumption
  <2>1. data_len' \in Nat /\ pkt_len' \in Nat /\ DataOff + data_len' <= BufLen
    BY <1>new, <2>0, Zenon
  <2> QED
    BY <1>new, <2>1 DEF IInv, TypeOK, DataInBuffer, Addr, Cell
<1>1. ASSUME NEW s \in Bytes, FromBytes(s)
      PROVE  IInv'
  <2>1. /\ mem' \in [Cell -> Byte] /\ pkt_len' = data_len'
        /\ data_len' \in 1 .. (BufLen - DataOff) \/ data_len' = 0
    BY <1>1, FromBytesEffect
  <2> QED
    BY <1>0, <2>1, <1>new
<1>2. ASSUME NEW offset \in Arg, NEW len \in -MaxArg .. MaxArg, Resize(offset, len)
      PROVE  IInv'
  <2>0. len \in Int /\ -len \in Int /\ -len \in -MaxArg .. MaxArg
    BY MaxArgAssumption
  <2>1. CASE Extend(offset, len)
    <3>1. mem' \in [Cell -> Byte]
      BY <2>0, <2>1, ExtendCells
    <3>2. /\ len > 0 /\ data_len + len <= BufLen - DataOff
          /\ data_len' = data_len + len /\ pkt_len' = data_len + len
      BY <2>0, <2>1, ExtendCounts
    <3> QED
      BY <1>0, <2>0, <3>1, <3>2, <1>new
  <2>2. CASE Shrink(offset, -len)
    <3>1. mem' \in [Cell -> Byte]
      BY <2>0, <2>2, ShrinkCells
    <3>2. /\ -len > 0 /\ offset + (-len) <= data_len
          /\ data_len' = data_len - (-len) /\ pkt_len' = data_len - (-len)
      BY <2>0, <2>2, ShrinkCounts
    <3>3. offset \in Nat
      BY MaxArgAssumption DEF Arg
    <3> QED
      BY <1>0, <2>0, <3>1, <3>2, <3>3, <1>new
  <2>3. CASE ExtendRefused(offset, len) \/ ShrinkRefused(offset, -len)
    BY <2>3, <1>keep DEF ExtendRefused, ShrinkRefused, Refused
  <2> QED
    BY <1>2, <2>1, <2>2, <2>3 DEF Resize
<1>3. ASSUME NEW n \in Arg, Truncate(n) \/ TruncateRefused(n)
      PROVE  IInv'
  <2>1. CASE Truncate(n)
    <3>1. n < data_len /\ data_len' = n /\ pkt_len' = n
      BY <2>1, TruncateCounts
    <3>2. mem' = mem /\ n \in Nat
      BY <2>1, MaxArgAssumption DEF Truncate, Arg
    <3> QED
      BY <1>0, <3>1, <3>2, <1>new
  <2>2. CASE TruncateRefused(n)
    BY <2>2, <1>keep DEF TruncateRefused, Refused
  <2> QED
    BY <1>3, <2>1, <2>2
<1>4. ASSUME NEW offset \in Arg, NEW n \in Arg,
             ReadData(offset, n) \/ ReadDataSlice(offset, n)
      PROVE  IInv'
  BY <1>4, <1>keep DEF ReadData, ReadDataSlice
<1>5. ASSUME NEW offset \in Arg, NEW s \in Bytes,
             WriteDataSlice(offset, s) \/ WriteRefused(offset, s)
      PROVE  IInv'
  <2>1. CASE WriteDataSlice(offset, s)
    <3>1. mem' \in [Cell -> Byte]
      BY <2>1, WriteCells
    <3>2. data_len' = data_len /\ pkt_len' = pkt_len
      BY <2>1 DEF WriteDataSlice
    <3> QED
      BY <1>0, <3>1, <3>2, <1>new
  <2>2. CASE WriteRefused(offset, s)
    BY <2>2, <1>keep DEF WriteRefused, Refused
  <2> QED
    BY <1>5, <2>1, <2>2
<1>6. CASE UNCHANGED vars
  BY <1>6, <1>keep DEF vars
<1> QED
  BY <1>1, <1>2, <1>3, <1>4, <1>5, <1>6 DEF Next

\* Whatever sequence of calls is made on an mbuf of any size, its data lies
\* between data_off and buf_len and data_len and pkt_len agree: the u16
\* subtraction of tailroom() (mbuf.rs:139) never wraps and `len as u16`
\* (mbuf.rs:162, 188, 211) never cuts anything off.
THEOREM DataStaysInBuffer == Spec => []IInv
<1> QED
  BY Initially, Preserved, PTL DEF Spec

----------------------------------------------------------------------------
(* What is written *)

\* No step from a state of the invariant changes a byte outside the data.
LEMMA StepWritesData ==
  ASSUME IInv, [Next]_vars
  PROVE  \/ call'.op = "from_bytes"
         \/ \A a \in Cell : mem'[a] # mem[a] =>
              \/ a \in Addr(0) .. (Addr(data_len) - 1)
              \/ a \in Addr(0) .. (Addr(data_len') - 1)
<1>0. /\ data_len \in Nat /\ BufLen \in Nat /\ DataOff \in Nat
      /\ data_len <= BufLen - DataOff
  BY RoomLeft, BufLenAssumption, DataOffAssumption, WordAssumption
<1>1. ASSUME NEW s \in Bytes, FromBytes(s)
      PROVE  call'.op = "from_bytes"
  BY <1>1, FromBytesEffect
<1> DEFINE Kept == \A a \in Cell : mem'[a] # mem[a] =>
                      \/ a \in Addr(0) .. (Addr(data_len) - 1)
                      \/ a \in Addr(0) .. (Addr(data_len') - 1)
<1>2. ASSUME NEW offset \in Arg, NEW len \in Int, Extend(offset, len)
      PROVE  Kept
  <2>1. \A a \in Cell : a \notin Addr(offset + len) .. (Addr(data_len + len) - 1)
                          => mem'[a] = mem[a]
    BY <1>2, ExtendCells
  <2>2. len > 0 /\ data_len' = data_len + len /\ offset \in Nat
    BY <1>2, ExtendCounts, MaxArgAssumption DEF Arg
  <2>3. \A a \in Cell : a \in Addr(offset + len) .. (Addr(data_len + len) - 1)
                          => a \in Addr(0) .. (Addr(data_len + len) - 1)
    BY <1>0, <2>2 DEF Addr, Cell
  <2> QED
    BY <2>1, <2>2, <2>3
<1>3. ASSUME NEW offset \in Arg, NEW len \in -MaxArg .. MaxArg, Shrink(offset, len)
      PROVE  Kept
  <2>1. \A a \in Cell : a \notin Addr(offset) .. (Addr(data_len - len) - 1)
                          => mem'[a] = mem[a]
    BY <1>3, ShrinkCells
  <2>2. len > 0 /\ len \in Int /\ offset \in Nat
    BY <1>3, ShrinkCounts, MaxArgAssumption DEF Arg
  <2>3. \A a \in Cell : a \in Addr(offset) .. (Addr(data_len - len) - 1)
                          => a \in Addr(0) .. (Addr(data_len) - 1)
    BY <1>0, <2>2 DEF Addr, Cell
  <2> QED
    BY <2>1, <2>3
<1>4. ASSUME NEW offset \in Arg, NEW s \in Bytes, WriteDataSlice(offset, s)
      PROVE  Kept
  <2>1. \A a \in Cell : a \notin Addr(offset) .. (Addr(offset + Len(s)) - 1)
                          => mem'[a] = mem[a]
    BY <1>4, WriteCells
  <2>2. offset \in Nat /\ Len(s) \in Nat /\ offset + Len(s) <= data_len
    BY <1>4, BytesAreSeq, WriteFits, MaxArgAssumption DEF Arg
  <2>3. \A a \in Cell : a \in Addr(offset) .. (Addr(offset + Len(s)) - 1)
                          => a \in Addr(0) .. (Addr(data_len) - 1)
    BY <1>0, <2>2 DEF Addr, Cell
  <2> QED
    BY <2>1, <2>3
<1>5. ASSUME mem' = mem
      PROVE  Kept
  BY <1>5
<1> HIDE DEF Kept
<1>6. ASSUME NEW offset \in Arg, NEW len \in -MaxArg .. MaxArg, Resize(offset, len)
      PROVE  Kept
  <2>1. len \in Int /\ -len \in -MaxArg .. MaxArg
    BY MaxArgAssumption
  <2>2. ExtendRefused(offset, len) \/ ShrinkRefused(offset, -len) => mem' = mem
    BY DEF ExtendRefused, ShrinkRefused, Refused
  <2>3. \/ Extend(offset, len) \/ Shrink(offset, -len)
        \/ ExtendRefused(offset, len) \/ ShrinkRefused(offset, -len)
    BY <1>6 DEF Resize
  <2> QED
    BY <2>1, <2>2, <2>3, <1>2, <1>3, <1>5
<1>7. ASSUME NEW n \in Arg, Truncate(n) \/ TruncateRefused(n)
      PROVE  Kept
  BY <1>5, <1>7 DEF Truncate, TruncateRefused, Refused
<1>8. ASSUME NEW offset \in Arg, NEW n \in Arg,
             ReadData(offset, n) \/ ReadDataSlice(offset, n)
      PROVE  Kept
  BY <1>5, <1>8 DEF ReadData, ReadDataSlice
<1>9. ASSUME NEW offset \in Arg, NEW s \in Bytes, WriteRefused(offset, s)
      PROVE  Kept
  BY <1>5, <1>9 DEF WriteRefused, Refused
<1>10. ASSUME UNCHANGED vars
       PROVE  Kept
  BY <1>5, <1>10 DEF vars
<1>11. call'.op = "from_bytes" \/ Kept
  <2>1. CASE \E s \in Bytes : FromBytes(s)
    BY <1>1, <2>1
  <2>2. CASE \E offset \in Arg, len \in -MaxArg .. MaxArg : Resize(offset, len)
    BY <1>6, <2>2
  <2>3. CASE \E n \in Arg : Truncate(n) \/ TruncateRefused(n)
    BY <1>7, <2>3
  <2>4. CASE \E offset, n \in Arg : ReadData(offset, n) \/ ReadDataSlice(offset, n)
    BY <1>8, <2>4
  <2>5. CASE \E offset \in Arg, s \in Bytes :
               WriteDataSlice(offset, s) \/ WriteRefused(offset, s)
    BY <1>4, <1>9, <2>5
  <2> QED
    BY <1>10, <2>1, <2>2, <2>3, <2>4, <2>5 DEF Next
<1> QED
  BY <1>11 DEF Kept

\* No call writes outside the data of the mbuf as it was or as it becomes,
\* for any buffer and any arguments whose sum does not wrap: the bounds
\* tested by extend, shrink and write_data_slice (mbuf.rs:148, 173, 276) are
\* enough for their raw copies.
THEOREM CopiesStayInData == Spec => OnlyDataIsWritten
<1>1. IInv /\ [Next]_vars =>
        [call'.op = "from_bytes" \/
         \A a \in Cell : mem'[a] # mem[a] =>
           a \in Addr(0) .. (Addr(data_len) - 1) \/ a \in Addr(0) .. (Addr(data_len') - 1)]_vars
  BY StepWritesData
<1> QED
  BY <1>1, DataStaysInBuffer, PTL DEF Spec, OnlyDataIsWritten

----------------------------------------------------------------------------
(* The data as a sequence *)

\* The first k bytes from data_off on in the memory m.
Contents(m, k) == [i \in 1 .. k |-> m[Addr(i - 1)]]

\* The first k bytes of the data are a sequence of bytes of length k.
LEMMA ContentsSeq ==
  ASSUME NEW m \in [Cell -> Byte], NEW k \in 0 .. (BufLen - DataOff)
  PROVE  /\ Contents(m, k) \in Seq(Byte) /\ Len(Contents(m, k)) = k
         /\ \A i \in 1 .. k : Contents(m, k)[i] = m[Addr(i - 1)]
         /\ \A i \in 1 .. k : Addr(i - 1) \in Cell
<1>1. \A i \in 1 .. k : Addr(i - 1) \in Cell
  BY BufLenAssumption, DataOffAssumption, WordAssumption DEF Addr, Cell
<1>2. Contents(m, k) \in [1 .. k -> Byte]
  BY <1>1 DEF Contents
<1>3. k \in Nat
  BY BufLenAssumption, DataOffAssumption, WordAssumption
<1> QED
  BY <1>1, <1>2, <1>3 DEF Contents

\* A sequence that agrees with another up to o, and from there on with what
\* the other has k places later, is the other with k elements cut out.
LEMMA Splice ==
  ASSUME NEW S, NEW d \in Seq(S), NEW e \in Seq(S), NEW o \in Nat, NEW k \in Nat,
         Len(e) = Len(d) + k, o <= Len(d),
         \A i \in 1 .. o : d[i] = e[i],
         \A i \in (o + 1) .. Len(d) : d[i] = e[i + k]
  PROVE  d = SubSeq(e, 1, o) \o SubSeq(e, o + k + 1, Len(e))
<1> DEFINE p == SubSeq(e, 1, o)
           q == SubSeq(e, o + k + 1, Len(e))
<1>1. p \in Seq(S) /\ Len(p) = o /\ \A i \in 1 .. o : p[i] = e[i]
  OBVIOUS
<1>2. /\ q \in Seq(S) /\ Len(q) = Len(d) - o
      /\ \A i \in 1 .. (Len(d) - o) : q[i] = e[i + o + k]
  OBVIOUS
<1> HIDE DEF p, q
<1>3. /\ p \o q \in Seq(S) /\ Len(p \o q) = Len(p) + Len(q)
      /\ \A i \in 1 .. Len(p) + Len(q) : (p \o q)[i] =
           IF i <= Len(p) THEN p[i] ELSE q[i - Len(p)]
  BY <1>1, <1>2, ConcatProperties
<1>4. Len(d) \in Nat /\ Len(p) + Len(q) = Len(d)
  BY <1>1, <1>2
<1>5. ASSUME NEW i \in 1 .. Len(d)
      PROVE  d[i] = (p \o q)[i]
  <2>1. CASE i <= o
    BY <1>1, <1>3, <1>4, <2>1
  <2>2. CASE i > o
    <3>1. i - o \in 1 .. (Len(d) - o) /\ (p \o q)[i] = q[i - o]
      BY <1>1, <1>3, <1>4, <2>2
    <3>2. q[i - o] = e[(i - o) + o + k] /\ (i - o) + o + k = i + k
      BY <1>2, <1>4, <3>1
    <3>3. i \in (o + 1) .. Len(d)
      BY <1>4, <2>2
    <3> QED
      BY <3>1, <3>2, <3>3
  <2> QED
    BY <1>4, <2>1, <2>2
<1>6. d = p \o q
  BY <1>3, <1>4, <1>5, SeqEqual
<1> QED
  BY <1>6 DEF p, q

\* The sequence e with the elements after its first o replaced by those of s.
Patched(e, o, s) == SubSeq(e, 1, o) \o s \o SubSeq(e, o + Len(s) + 1, Len(e))

\* A sequence that agrees with s in the range of s, and elsewhere with e.
LEMMA Patch ==
  ASSUME NEW S, NEW d \in Seq(S), NEW e \in Seq(S), NEW s \in Seq(S), NEW o \in Nat,
         Len(d) = Len(e), o + Len(s) <= Len(e),
         \A i \in 1 .. Len(d) : d[i] = IF i \in (o + 1) .. (o + Len(s))
                                       THEN s[i - o] ELSE e[i]
  PROVE  d = Patched(e, o, s)
<1> DEFINE p == SubSeq(e, 1, o)
           q == SubSeq(e, o + Len(s) + 1, Len(e))
           n == Len(s)
<1>0. n \in Nat /\ Len(d) \in Nat
  OBVIOUS
<1>1. p \in Seq(S) /\ Len(p) = o /\ \A i \in 1 .. o : p[i] = e[i]
  OBVIOUS
<1>2. /\ q \in Seq(S) /\ Len(q) = Len(d) - o - n
      /\ \A i \in 1 .. (Len(d) - o - n) : q[i] = e[i + o + n]
  OBVIOUS
<1> HIDE DEF p, q
<1> DEFINE ps == p \o s
<1>3. /\ ps \in Seq(S) /\ Len(ps) = Len(p) + Len(s)
      /\ \A i \in 1 .. Len(p) + Len(s) : ps[i] =
           IF i <= Len(p) THEN p[i] ELSE s[i - Len(p)]
  <2>1. p \in Seq(S) /\ s \in Seq(S)
    BY <1>1
  <2> QED
    BY <2>1, ConcatProperties
<1> HIDE DEF ps
<1>4. /\ ps \o q \in Seq(S) /\ Len(ps \o q) = Len(ps) + Len(q)
      /\ \A i \in 1 .. Len(ps) + Len(q) : (ps \o q)[i] =
           IF i <= Len(ps) THEN ps[i] ELSE q[i - Len(ps)]
  <2>1. ps \in Seq(S) /\ q \in Seq(S)
    BY <1>2, <1>3
  <2> QED
    BY <2>1, ConcatProperties
<1>5. Len(ps) = o + n /\ Len(ps) + Len(q) = Len(d)
  BY <1>0, <1>1, <1>2, <1>3
<1>6. ASSUME NEW i \in 1 .. Len(d)
      PROVE  d[i] = (ps \o q)[i]
  <2>0. (ps \o q)[i] = IF i <= o + n THEN ps[i] ELSE q[i - (o + n)]
    BY <1>4, <1>5
  <2>1. CASE i <= o
    <3>1. ps[i] = p[i] /\ p[i] = e[i]
      BY <1>0, <1>1, <1>3, <2>1
    <3> QED
      BY <1>0, <2>0, <2>1, <3>1
  <2>2. CASE i > o /\ i <= o + n
    <3>1. ps[i] = s[i - o]
      BY <1>0, <1>1, <1>3, <2>2
    <3> QED
      BY <1>0, <2>0, <2>2, <3>1
  <2>3. CASE i > o + n
    <3>1. i - o - n \in 1 .. (Len(d) - o - n) /\ (ps \o q)[i] = q[i - o - n]
      BY <1>0, <2>0, <2>3
    <3>2. q[i - o - n] = e[(i - o - n) + o + n] /\ (i - o - n) + o + n = i
      BY <1>0, <1>2, <3>1
    <3> QED
      BY <1>0, <2>3, <3>1, <3>2
  <2>4. i <= o \/ (i > o /\ i <= o + n) \/ i > o + n
    BY <1>0
  <2> QED
    BY <2>1, <2>2, <2>3, <2>4, Zenon
<1>7. d = ps \o q
  BY <1>4, <1>5, <1>6, SeqEqual
<1> QED
  BY <1>7 DEF p, q, ps, Patched

----------------------------------------------------------------------------
(* Each call does what PacketData says *)

\* The data before and after a step, as sequences.
LEMMA DataSeq ==
  ASSUME IInv
  PROVE  /\ Data = Contents(mem, data_len)
         /\ mem \in [Cell -> Byte] /\ data_len \in 0 .. (BufLen - DataOff)
         /\ Data \in Seq(Byte) /\ Len(Data) = data_len
         /\ \A i \in 1 .. data_len : Data[i] = mem[Addr(i - 1)]
         /\ \A i \in 1 .. data_len : Addr(i - 1) \in Cell
<1>1. Data = Contents(mem, data_len)
  BY DEF Data, Contents
<1>2. mem \in [Cell -> Byte] /\ data_len \in 0 .. (BufLen - DataOff)
  BY RoomLeft DEF IInv, TypeOK
<1> QED
  BY <1>1, <1>2, ContentsSeq

\* Likewise for the data after a step.
LEMMA DataSeqNext ==
  ASSUME IInv'
  PROVE  /\ Data' = Contents(mem', data_len')
         /\ mem' \in [Cell -> Byte] /\ data_len' \in 0 .. (BufLen - DataOff)
         /\ Data' \in Seq(Byte) /\ Len(Data') = data_len'
         /\ \A i \in 1 .. data_len' : Data'[i] = mem'[Addr(i - 1)]
         /\ \A i \in 1 .. data_len' : Addr(i - 1) \in Cell
<1>1. Data' = Contents(mem', data_len')
  BY DEF Data, Contents, Addr
<1>2. mem' \in [Cell -> Byte] /\ data_len' \in Nat /\ DataOff + data_len' <= BufLen
  BY DEF IInv, TypeOK, DataInBuffer, Addr, Cell
<1>3. data_len' \in 0 .. (BufLen - DataOff)
  <2>1. \A x \in Nat : DataOff + x <= BufLen => x \in 0 .. (BufLen - DataOff)
    BY BufLenAssumption, DataOffAssumption, WordAssumption
  <2> QED
    BY <1>2, <2>1, Zenon
<1> QED
  BY <1>1, <1>2, <1>3, ContentsSeq

\* extend opens a gap of len bytes in the data.
LEMMA ExtendOpens ==
  ASSUME IInv, IInv', NEW offset \in Arg, NEW len \in Int, Extend(offset, len)
  PROVE  Packet!Extend
<1>1. /\ len > 0 /\ offset <= data_len /\ offset \in Nat
      /\ data_len + len <= BufLen - DataOff
      /\ data_len' = data_len + len
  BY ExtendCounts, MaxArgAssumption DEF Arg
<1>2. /\ call'.op = "extend" /\ call'.at = offset /\ call'.n = len /\ call'.ok = TRUE
  BY DEF Extend, Called
<1>3. Len(Data) = data_len /\ Len(Data') = data_len' /\ data_len \in Nat
      /\ Data \in Seq(Byte) /\ Data' \in Seq(Byte)
  BY DataSeq, DataSeqNext, BufLenAssumption, DataOffAssumption, WordAssumption
<1>4. ASSUME NEW i \in 1 .. offset
      PROVE  Data[i] = Data'[i]
  <2>1. i \in 1 .. data_len /\ i \in 1 .. data_len'
    BY <1>1, <1>3
  <2>2. Data[i] = mem[Addr(i - 1)] /\ Data'[i] = mem'[Addr(i - 1)] /\ Addr(i - 1) \in Cell
    BY <2>1, DataSeq, DataSeqNext
  <2>3. Addr(i - 1) \notin Addr(offset + len) .. (Addr(data_len + len) - 1)
    BY <1>1, <1>3, DataOffAssumption, BufLenAssumption, WordAssumption DEF Addr
  <2> QED
    BY <2>2, <2>3, ExtendCells
<1>5. ASSUME NEW i \in (offset + 1) .. Len(Data)
      PROVE  Data[i] = Data'[i + len]
  <2>1. i \in 1 .. data_len /\ i + len \in 1 .. data_len'
    BY <1>1, <1>3
  <2>2. Data[i] = mem[Addr(i - 1)]
    BY <2>1, DataSeq
  <2>3. Data'[i + len] = mem'[Addr(i + len - 1)] /\ Addr(i + len - 1) \in Cell
    BY <2>1, DataSeqNext
  <2>4. /\ Addr(i + len - 1) \in Addr(offset + len) .. (Addr(data_len + len) - 1)
        /\ Addr(i + len - 1) - len = Addr(i - 1)
    BY <1>1, <1>3, DataOffAssumption, BufLenAssumption, WordAssumption DEF Addr
  <2>5. mem'[Addr(i + len - 1)] = mem[Addr(i + len - 1) - len]
    BY <2>3, <2>4, ExtendCells
  <2> QED
    BY <2>2, <2>3, <2>4, <2>5
<1>6. len \in Nat /\ Len(Data') = Len(Data) + len /\ offset <= Len(Data)
  BY <1>1, <1>3
<1>7. Data = SubSeq(Data', 1, offset) \o SubSeq(Data', offset + len + 1, Len(Data'))
  BY <1>1, <1>3, <1>4, <1>5, <1>6, Splice
<1>8. len \in 1 .. ((BufLen - DataOff) - Len(Data))
  BY <1>1, <1>3, BufLenAssumption, DataOffAssumption, WordAssumption
<1> QED
  BY <1>2, <1>6, <1>7, <1>8 DEF Packet!Extend, Packet!OpenUp

\* shrink cuts len bytes out of the data.
LEMMA ShrinkCuts ==
  ASSUME IInv, IInv', NEW offset \in Arg, NEW len \in -MaxArg .. MaxArg, Shrink(offset, len)
  PROVE  Packet!Shrink
<1>1. /\ len > 0 /\ offset + len <= data_len /\ offset \in Nat /\ len \in Int
      /\ data_len' = data_len - len
  BY ShrinkCounts, MaxArgAssumption DEF Arg
<1>2. /\ call'.op = "shrink" /\ call'.at = offset /\ call'.n = len /\ call'.ok = TRUE
  BY DEF Shrink, Called
<1>3. Len(Data) = data_len /\ Len(Data') = data_len' /\ data_len \in Nat
      /\ Data \in Seq(Byte) /\ Data' \in Seq(Byte)
  BY DataSeq, DataSeqNext, BufLenAssumption, DataOffAssumption, WordAssumption
<1>4. ASSUME NEW i \in 1 .. offset
      PROVE  Data'[i] = Data[i]
  <2>1. i \in 1 .. data_len /\ i \in 1 .. data_len'
    BY <1>1, <1>3
  <2>2. Data[i] = mem[Addr(i - 1)] /\ Data'[i] = mem'[Addr(i - 1)] /\ Addr(i - 1) \in Cell
    BY <2>1, DataSeq, DataSeqNext
  <2>3. Addr(i - 1) \notin Addr(offset) .. (Addr(data_len - len) - 1)
    BY <1>1, <1>3, DataOffAssumption, BufLenAssumption, WordAssumption DEF Addr
  <2> QED
    BY <2>2, <2>3, ShrinkCells
<1>5. ASSUME NEW i \in (offset + 1) .. Len(Data')
      PROVE  Data'[i] = Data[i + len]
  <2>1. i \in 1 .. data_len' /\ i + len \in 1 .. data_len
    BY <1>1, <1>3
  <2>2. Data[i + len] = mem[Addr(i + len - 1)]
    BY <2>1, DataSeq
  <2>3. Data'[i] = mem'[Addr(i - 1)] /\ Addr(i - 1) \in Cell
    BY <2>1, DataSeqNext
  <2>4. /\ Addr(i - 1) \in Addr(offset) .. (Addr(data_len - len) - 1)
        /\ Addr(i - 1) + len = Addr(i + len - 1)
    BY <1>1, <1>3, DataOffAssumption, BufLenAssumption, WordAssumption DEF Addr
  <2>5. mem'[Addr(i - 1)] = mem[Addr(i - 1) + len]
    BY <2>3, <2>4, ShrinkCells
  <2> QED
    BY <2>2, <2>3, <2>4, <2>5
<1>6. len \in Nat /\ Len(Data) = Len(Data') + len /\ offset <= Len(Data')
  BY <1>1, <1>3
<1>7. Data' = SubSeq(Data, 1, offset) \o SubSeq(Data, offset + len + 1, Len(Data))
  BY <1>1, <1>3, <1>4, <1>5, <1>6, Splice
<1> QED
  BY <1>1, <1>2, <1>3, <1>7 DEF Packet!Shrink, Packet!CutOut

\* truncate cuts off what lies behind to_len.
LEMMA TruncateCuts ==
  ASSUME IInv, IInv', NEW n \in Arg, Truncate(n)
  PROVE  Packet!Truncate
<1>0. n < data_len /\ data_len' = n
  BY TruncateCounts
<1>1. n < data_len /\ data_len' = n /\ n \in Nat /\ mem' = mem
  BY <1>0, MaxArgAssumption DEF Arg, Truncate
<1>2. call'.op = "truncate" /\ call'.n = n /\ call'.ok = TRUE
  BY DEF Truncate, Called
<1>3. Len(Data) = data_len /\ Len(Data') = n /\ data_len \in Nat
      /\ Data \in Seq(Byte) /\ Data' \in Seq(Byte)
  BY <1>1, DataSeq, DataSeqNext, BufLenAssumption, DataOffAssumption, WordAssumption
<1>4. ASSUME NEW i \in 1 .. n
      PROVE  Data'[i] = Data[i]
  <2>1. i \in 1 .. data_len /\ i \in 1 .. data_len'
    BY <1>1, <1>3
  <2> QED
    BY <1>1, <2>1, DataSeq, DataSeqNext
<1> DEFINE k == Len(Data) - n
<1>5. k \in Nat /\ Len(Data) = Len(Data') + k /\ n <= Len(Data')
  BY <1>1, <1>3
<1>6. \A i \in (n + 1) .. Len(Data') : Data'[i] = Data[i + k]
  BY <1>1, <1>3
<1> HIDE DEF k
<1>7. Data' = SubSeq(Data, 1, n) \o SubSeq(Data, n + k + 1, Len(Data))
  BY <1>1, <1>3, <1>4, <1>5, <1>6, Splice
<1> QED
  BY <1>1, <1>2, <1>3, <1>7 DEF Packet!Truncate, Packet!CutOut, k

\* write_data_slice puts the slice in the place of what was there.
LEMMA WriteOverwrites ==
  ASSUME IInv, IInv', NEW offset \in Arg, NEW s \in Bytes, WriteDataSlice(offset, s)
  PROVE  Packet!Write
<1>1. /\ offset + Len(s) <= data_len /\ data_len' = data_len /\ offset \in Nat
      /\ s \in Seq(Byte) /\ Len(s) \in Nat
  BY BytesAreSeq, WriteFits, MaxArgAssumption DEF Arg, WriteDataSlice
<1>2. /\ call'.op = "write" /\ call'.at = offset /\ call'.bytes = s
      /\ call'.ok = CanReadSlice(offset, Len(s))
  BY DEF WriteDataSlice, Called
<1>3. Len(Data) = data_len /\ Len(Data') = data_len /\ data_len \in Nat
      /\ Data \in Seq(Byte) /\ Data' \in Seq(Byte)
  BY <1>1, DataSeq, DataSeqNext, BufLenAssumption, DataOffAssumption, WordAssumption
<1>4. ASSUME NEW i \in 1 .. Len(Data')
      PROVE  Data'[i] = IF i \in (offset + 1) .. (offset + Len(s))
                        THEN s[i - offset] ELSE Data[i]
  <2>1. i \in 1 .. data_len /\ i \in 1 .. data_len'
    BY <1>1, <1>3
  <2>2. Data[i] = mem[Addr(i - 1)] /\ Data'[i] = mem'[Addr(i - 1)] /\ Addr(i - 1) \in Cell
    BY <2>1, DataSeq, DataSeqNext
  <2>3. CASE i \in (offset + 1) .. (offset + Len(s))
    <3>1. /\ Addr(i - 1) \in Addr(offset) .. (Addr(offset + Len(s)) - 1)
          /\ Addr(i - 1) - Addr(offset) + 1 = i - offset
      BY <1>1, <2>3, DataOffAssumption, BufLenAssumption, WordAssumption DEF Addr
    <3>2. mem'[Addr(i - 1)] = s[Addr(i - 1) - Addr(offset) + 1]
      BY <2>2, <3>1, WriteCells
    <3> QED
      BY <2>2, <2>3, <3>1, <3>2
  <2>4. CASE i \notin (offset + 1) .. (offset + Len(s))
    <3>1. Addr(i - 1) \notin Addr(offset) .. (Addr(offset + Len(s)) - 1)
      BY <1>1, <1>3, <2>4, DataOffAssumption, BufLenAssumption, WordAssumption DEF Addr
    <3>2. mem'[Addr(i - 1)] = mem[Addr(i - 1)]
      BY <2>2, <3>1, WriteCells
    <3> QED
      BY <2>2, <2>4, <3>2
  <2> QED
    BY <2>3, <2>4
<1>5. Len(Data') = Len(Data) /\ offset + Len(s) <= Len(Data)
  BY <1>1, <1>3
<1>6. Data' = SubSeq(Data, 1, offset) \o s \o SubSeq(Data, offset + Len(s) + 1, Len(Data))
  <2>1. Data \in Seq(Byte) /\ Data' \in Seq(Byte) /\ s \in Seq(Byte) /\ offset \in Nat
    BY <1>1, <1>3
  <2>2. \A i \in 1 .. Len(Data') :
          Data'[i] = IF i \in (offset + 1) .. (offset + Len(s)) THEN s[i - offset] ELSE Data[i]
    BY <1>4
  <2>3. Data' = Patched(Data, offset, s)
    BY <1>5, <2>1, <2>2, Patch
  <2> QED
    BY <2>3 DEF Patched
<1>7. Packet!SliceAnswer(Len(s))
  <2>1. call'.ok <=> offset < Len(Data) /\ 2 * offset + Len(s) <= Len(Data)
    BY <1>2, <1>3, SliceGranted, BytesAreSeq
  <2> QED
    BY <1>2, <2>1 DEF Packet!SliceAnswer
<1> QED
  BY <1>2, <1>5, <1>6, <1>7 DEF Packet!Write

\* from_bytes leaves the bytes it was given, or nothing.
LEMMA FromBytesStores ==
  ASSUME IInv', NEW s \in Bytes, FromBytes(s)
  PROVE  Packet!FromBytes
<1>1. s \in Seq(Byte) /\ Len(s) \in Nat
  BY BytesAreSeq
<1>2. Len(Data') = data_len' /\ Data' \in Seq(Byte)
  BY DataSeqNext
<1>3. CASE call'.ok = TRUE
  <2>1. /\ Len(s) \in 1 .. (BufLen - DataOff) /\ data_len' = Len(s)
        /\ \A a \in Cell : a \in DataOff .. (DataOff + Len(s) - 1) =>
                             mem'[a] = s[a - DataOff + 1]
        /\ call'.op = "from_bytes" /\ call'.bytes = s
    BY <1>3, FromBytesEffect
  <2>2. ASSUME NEW i \in 1 .. Len(Data')
        PROVE  Data'[i] = s[i]
    <3>1. Data'[i] = mem'[Addr(i - 1)] /\ Addr(i - 1) \in Cell
      BY <1>2, DataSeqNext
    <3>2. /\ Addr(i - 1) \in DataOff .. (DataOff + Len(s) - 1)
          /\ Addr(i - 1) - DataOff + 1 = i
      BY <1>1, <1>2, <2>1, DataOffAssumption, BufLenAssumption, WordAssumption DEF Addr
    <3>3. mem'[Addr(i - 1)] = s[Addr(i - 1) - DataOff + 1]
      BY <2>1, <3>1, <3>2
    <3> QED
      BY <3>1, <3>2, <3>3
  <2>3. Data' = s
    BY <1>1, <1>2, <2>1, <2>2, SeqEqual
  <2> QED
    BY <1>3, <2>1, <2>3 DEF Packet!FromBytes
<1>4. CASE call'.ok = FALSE
  <2>1. /\ Len(s) \notin 1 .. (BufLen - DataOff) /\ data_len' = 0
        /\ call'.op = "from_bytes" /\ call'.bytes = s
    BY <1>4, FromBytesEffect
  <2>2. Data' = <<>>
    BY <1>2, <2>1
  <2> QED
    BY <1>4, <2>1, <2>2 DEF Packet!FromBytes
<1> QED
  BY <1>3, <1>4, FromBytesEffect

\* A call that only tells the caller something.
LEMMA OthersKeepData ==
  ASSUME IInv, UNCHANGED <<mem, data_len, pkt_len>>
  PROVE  Data' = Data
  BY DEF Data, Addr

\* Every step is a call of PacketData.
LEMMA StepRefines ==
  ASSUME IInv, IInv', [Next]_vars
  PROVE  [Packet!Next]_(Packet!vars)
<1>0. /\ Len(Data) = data_len /\ data_len \in 0 .. (BufLen - DataOff)
      /\ Tailroom = BufLen - DataOff - data_len
      /\ BufLen \in Nat /\ DataOff \in Nat
  BY DataSeq, RoomLeft, BufLenAssumption, DataOffAssumption, WordAssumption
<1>1. ASSUME NEW s \in Bytes, FromBytes(s)
      PROVE  Packet!Next
  BY <1>1, FromBytesStores DEF Packet!Next
<1>2. ASSUME NEW offset \in Arg, NEW len \in -MaxArg .. MaxArg, Resize(offset, len)
      PROVE  Packet!Next
  <2>0. len \in Int /\ -len \in Int /\ offset \in Nat /\ -len \in -MaxArg .. MaxArg
    BY MaxArgAssumption DEF Arg
  <2>1. CASE Extend(offset, len)
    BY <2>0, <2>1, ExtendOpens DEF Packet!Next
  <2>2. CASE Shrink(offset, -len)
    BY <2>0, <2>2, ShrinkCuts DEF Packet!Next
  <2>3. CASE ExtendRefused(offset, len)
    <3>1. /\ call'.op = "extend" /\ call'.at = offset /\ call'.n = len /\ call'.ok = FALSE
          /\ Data' = Data
      BY <2>3, OthersKeepData DEF ExtendRefused, Refused, Called
    <3>2. ~(len \in 1 .. ((BufLen - DataOff) - Len(Data)) /\ offset <= Len(Data))
      BY <1>0, <2>0, <2>3 DEF ExtendRefused, CanExtend
    <3> QED
      BY <3>1, <3>2 DEF Packet!Next, Packet!Extend
  <2>4. CASE ShrinkRefused(offset, -len)
    <3>1. /\ call'.op = "shrink" /\ call'.at = offset /\ call'.n = -len /\ call'.ok = FALSE
          /\ Data' = Data
      BY <2>4, OthersKeepData DEF ShrinkRefused, Refused, Called
    <3>2. ~(-len > 0 /\ offset + (-len) <= Len(Data))
      <4>1. CASE -len > 0
        <5>1. Sum(offset, -len) = offset + (-len)
          <6>1. -len \in Arg
            BY <2>0, <4>1, MaxArgAssumption DEF Arg
          <6> QED
            BY <6>1, SumOfArgs
        <5> QED
          BY <1>0, <2>0, <2>4, <4>1, <5>1 DEF ShrinkRefused, CanShrink
      <4> QED
        BY <4>1
    <3> QED
      BY <3>1, <3>2 DEF Packet!Next, Packet!Shrink
  <2> QED
    BY <1>2, <2>1, <2>2, <2>3, <2>4 DEF Resize
<1>3. ASSUME NEW n \in Arg, Truncate(n) \/ TruncateRefused(n)
      PROVE  Packet!Next
  <2>1. CASE Truncate(n)
    BY <2>1, TruncateCuts DEF Packet!Next
  <2>2. CASE TruncateRefused(n)
    <3>1. call'.op = "truncate" /\ call'.n = n /\ call'.ok = FALSE /\ Data' = Data
      BY <2>2, OthersKeepData DEF TruncateRefused, Refused, Called
    <3>2. ~(n < Len(Data))
      BY <1>0, <2>2, MaxArgAssumption DEF TruncateRefused, Arg
    <3> QED
      BY <3>1, <3>2 DEF Packet!Next, Packet!Truncate
  <2> QED
    BY <1>3, <2>1, <2>2
<1>4. ASSUME NEW offset \in Arg, NEW n \in Arg,
             ReadData(offset, n) \/ ReadDataSlice(offset, n)
      PROVE  Packet!Next
  <2>1. CASE ReadData(offset, n)
    <3>1. /\ call'.op = "read" /\ call'.at = offset /\ call'.n = n /\ Data' = Data
          /\ call'.ok <=> offset < data_len /\ Sum(offset, n) <= data_len
      BY <2>1, OthersKeepData DEF ReadData, Called
    <3>2. Sum(offset, n) = offset + n
      BY SumOfArgs
    <3> QED
      BY <1>0, <3>1, <3>2 DEF Packet!Next, Packet!Read
  <2>2. CASE ReadDataSlice(offset, n)
    <3>1. /\ call'.op = "read_slice" /\ call'.at = offset /\ call'.n = n /\ Data' = Data
          /\ call'.ok = CanReadSlice(offset, n)
      BY <2>2, OthersKeepData DEF ReadDataSlice, Called
    <3>2. call'.ok <=> offset < Len(Data) /\ 2 * offset + n <= Len(Data)
      BY <1>0, <3>1, SliceGranted
    <3> QED
      BY <3>1, <3>2 DEF Packet!Next, Packet!ReadSlice, Packet!SliceAnswer
  <2> QED
    BY <1>4, <2>1, <2>2
<1>5. ASSUME NEW offset \in Arg, NEW s \in Bytes,
             WriteDataSlice(offset, s) \/ WriteRefused(offset, s)
      PROVE  Packet!Next
  <2>1. CASE WriteDataSlice(offset, s)
    BY <2>1, WriteOverwrites DEF Packet!Next
  <2>2. CASE WriteRefused(offset, s)
    <3>1. Data' = Data
      BY <2>2, OthersKeepData DEF WriteRefused, Refused
    <3>2. offset \in Nat /\ Len(s) \in Nat /\ offset + Len(s) > Len(Data)
      BY <1>0, <2>2, BytesAreSeq, WriteFits, MaxArgAssumption DEF Arg
    <3>3. CASE Refused("write", offset, 0, s)
      <4>1. call'.op = "write" /\ call'.at = offset /\ call'.bytes = s /\ call'.ok = FALSE
        BY <3>3 DEF Refused, Called
      <4>2. ~(offset + Len(s) <= Len(Data)) /\ ~(2 * offset + Len(s) <= Len(Data))
        BY <1>0, <3>2
      <4> QED
        BY <3>1, <4>1, <4>2 DEF Packet!Next, Packet!Write, Packet!SliceAnswer
    <3>4. CASE offset > data_len /\ Refused("panic", offset, 0, s)
      <4>1. call'.op = "panic" /\ call'.at = offset
        BY <3>4 DEF Refused, Called
      <4> QED
        BY <1>0, <3>1, <3>4, <4>1 DEF Packet!Next, Packet!WritePanics
    <3> QED
      BY <2>2, <3>3, <3>4 DEF WriteRefused
  <2> QED
    BY <1>5, <2>1, <2>2
<1>6. ASSUME UNCHANGED vars
      PROVE  UNCHANGED Packet!vars
  BY <1>6, OthersKeepData DEF vars, Packet!vars
<1>7. CASE Next
  <2>1. CASE \E s \in Bytes : FromBytes(s)
    BY <1>1, <2>1
  <2>2. CASE \E offset \in Arg, len \in -MaxArg .. MaxArg : Resize(offset, len)
    BY <1>2, <2>2
  <2>3. CASE \E n \in Arg : Truncate(n) \/ TruncateRefused(n)
    BY <1>3, <2>3
  <2>4. CASE \E offset, n \in Arg : ReadData(offset, n) \/ ReadDataSlice(offset, n)
    BY <1>4, <2>4
  <2>5. CASE \E offset \in Arg, s \in Bytes :
               WriteDataSlice(offset, s) \/ WriteRefused(offset, s)
    BY <1>5, <2>5
  <2> QED
    BY <1>7, <2>1, <2>2, <2>3, <2>4, <2>5 DEF Next
<1> QED
  BY <1>6, <1>7

\* The code of mbuf.rs implements PacketData, for every buffer: seen as a
\* sequence of bytes, the data changes as each call promises and in no other
\* way, through every sequence of extend, shrink, resize, truncate,
\* write_data_slice and from_bytes.
THEOREM ImplementsPacketData == Spec => KeepsItsData
<1>1. Init => Packet!Init
  <2>1. Init => Data = <<>>
    BY DEF Init, Data
  <2> QED
    BY <2>1 DEF Init, Packet!Init
<1>2. IInv /\ IInv' /\ [Next]_vars => [Packet!Next]_(Packet!vars)
  BY StepRefines
<1> QED
  BY <1>1, <1>2, DataStaysInBuffer, PTL DEF Spec, KeepsItsData, Packet!Spec
=============================================================================
