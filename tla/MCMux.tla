------------------------------- MODULE MCMux -------------------------------
(***************************************************************************)
(* Mux for TLC.  The buffers are interchangeable: Init, Next and every     *)
(* property treat them alike.                                              *)
(***************************************************************************)
EXTENDS Mux, TLC

Symmetry == Permutations(Mbuf)
=============================================================================
