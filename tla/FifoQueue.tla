----------------------------- MODULE FifoQueue -----------------------------
(***************************************************************************)
(* What the "multiple producer single consumer FIFO list" of event.cpp     *)
(* promises: what is put in comes out once, unchanged and in order.        *)
(***************************************************************************)
EXTENDS Sequences

CONSTANT Items  \* what can be put in the queue

VARIABLES
  queue,        \* what was put in and not taken out
  taken         \* what was taken out, in order

vars == <<queue, taken>>

Init == queue = <<>> /\ taken = <<>>

Put(x) == queue' = Append(queue, x) /\ UNCHANGED taken

Take ==
  /\ queue # <<>>
  /\ taken' = Append(taken, Head(queue))
  /\ queue' = Tail(queue)

Next == (\E x \in Items : Put(x)) \/ Take

Spec == Init /\ [][Next]_vars
=============================================================================
