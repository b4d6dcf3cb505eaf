---------------------------- MODULE BoundedQueue ----------------------------
(***************************************************************************)
(* What a bounded single-producer single-consumer FIFO promises to its two *)
(* users: each call takes effect at one instant, a push is refused only    *)
(* when Size elements are queued, a pop reports emptiness only when none   *)
(* is, and a pop returns the oldest element.  The ring buffer of           *)
(* ipc-queue is measured against it.                                       *)
(***************************************************************************)
EXTENDS Naturals, Sequences

CONSTANTS
  Elem,   \* the elements that can be queued
  Size    \* how many of them fit

VARIABLES
  q,      \* the queued elements, oldest first
  pout,   \* the producer's last answer: "none" yet, "ok" or "full"
  cout    \* the consumer's last answer: "none" yet, "empty", or an element

vars == <<q, pout, cout>>

Init ==
  /\ q = <<>>
  /\ pout = "none"
  /\ cout = <<"none">>

Push(e) ==
  /\ Len(q) < Size
  /\ q' = Append(q, e)
  /\ pout' = "ok"
  /\ UNCHANGED cout

PushFull ==
  /\ Len(q) = Size
  /\ pout' = "full"
  /\ UNCHANGED <<q, cout>>

Pop ==
  /\ q # <<>>
  /\ cout' = <<"some", Head(q)>>
  /\ q' = Tail(q)
  /\ UNCHANGED pout

PopEmpty ==
  /\ q = <<>>
  /\ cout' = <<"none">>
  /\ UNCHANGED <<q, pout>>

Next ==
  \/ \E e \in Elem : Push(e)
  \/ PushFull
  \/ Pop
  \/ PopEmpty

Spec == Init /\ [][Next]_vars
=============================================================================
