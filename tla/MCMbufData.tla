----------------------------- MODULE MCMbufData -----------------------------
(***************************************************************************)
(* MbufData for TLC.  call is only written, so two states that differ in   *)
(* it have the same successors; the properties speak of call', which TLC   *)
(* checks on every step it generates.                                      *)
(***************************************************************************)
EXTENDS MbufData

View == <<mem, data_len, pkt_len>>
=============================================================================
