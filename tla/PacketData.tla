----------------------------- MODULE PacketData -----------------------------
(***************************************************************************)
(* What the data of an mbuf is to its user: a sequence of bytes of bounded *)
(* length, and what each call promises to do to it.  call is the last call *)
(* made: op, the offset at, the length n, the bytes given, and whether the *)
(* caller saw Ok.                                                          *)
(***************************************************************************)
EXTENDS Naturals, Sequences

CONSTANTS Byte, Room   \* Room: the most bytes the data can have

VARIABLES data, call

vars == <<data, call>>

\* data' is data with bytes i+1 .. i+k cut out.
CutOut(i, k) ==
  data' = SubSeq(data, 1, i) \o SubSeq(data, i + k + 1, Len(data))

\* data' is data with k new bytes, of any value, after its first i.
OpenUp(i, k) ==
  /\ Len(data') = Len(data) + k
  /\ data = SubSeq(data', 1, i) \o SubSeq(data', i + k + 1, Len(data'))

Init == data = <<>> /\ call.op = "new"

FromBytes ==
  /\ call'.op = "from_bytes"
  /\ call'.ok <=> Len(call'.bytes) \in 1 .. Room
  /\ data' = IF call'.ok THEN call'.bytes ELSE <<>>

Extend ==
  /\ call'.op = "extend"
  /\ call'.ok <=> /\ call'.n \in 1 .. (Room - Len(data))
                  /\ call'.at <= Len(data)
  /\ IF call'.ok THEN OpenUp(call'.at, call'.n) ELSE UNCHANGED data

Shrink ==
  /\ call'.op = "shrink"
  /\ call'.ok <=> call'.n > 0 /\ call'.at + call'.n <= Len(data)
  /\ IF call'.ok THEN CutOut(call'.at, call'.n) ELSE UNCHANGED data

Truncate ==
  /\ call'.op = "truncate"
  /\ call'.ok <=> call'.n < Len(data)
  /\ IF call'.ok THEN CutOut(call'.n, Len(data) - call'.n) ELSE UNCHANGED data

Read ==
  /\ call'.op = "read"
  /\ call'.ok <=> call'.at < Len(data) /\ call'.at + call'.n <= Len(data)
  /\ UNCHANGED data

\* What the slice calls tell their caller about n bytes at the offset, which
\* is counted twice.  (MbufData's OutOfBufferIsTrue is the documented answer.)
SliceAnswer(n) ==
  call'.ok <=> call'.at < Len(data) /\ 2 * call'.at + n <= Len(data)

ReadSlice ==
  /\ call'.op = "read_slice"
  /\ SliceAnswer(call'.n)
  /\ UNCHANGED data

\* Bytes that fit are written over what was there, whatever the caller is
\* told then; bytes that do not fit are refused.
Write ==
  LET i == call'.at   s == call'.bytes   fits == i + Len(s) <= Len(data) IN
  /\ call'.op = "write"
  /\ SliceAnswer(Len(s))
  /\ data' = IF fits
             THEN SubSeq(data, 1, i) \o s \o SubSeq(data, i + Len(s) + 1, Len(data))
             ELSE data

\* A write that begins behind the data may end the caller instead.
WritePanics ==
  /\ call'.op = "panic"
  /\ call'.at > Len(data)
  /\ UNCHANGED data

Next ==
  \/ FromBytes \/ Extend \/ Shrink \/ Truncate
  \/ Read \/ ReadSlice \/ Write \/ WritePanics

Spec == Init /\ [][Next]_vars
=============================================================================
