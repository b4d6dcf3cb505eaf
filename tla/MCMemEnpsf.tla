----------------------------- MODULE MCMemEnpsf -----------------------------
(* The instance of MemEnpsf for TLC: the ids a peer sends. *)
EXTENDS MemEnpsf

MCId == {<<>>, <<0>>, <<1>>, <<0, 1>>}
=============================================================================
