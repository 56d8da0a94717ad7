----------------------------- MODULE EventQueue -----------------------------
(***************************************************************************)
(* What the event ring of a host controller promises: a bounded first in   *)
(* first out channel.  What the controller reports the driver takes, once  *)
(* and in order, and nothing else.                                         *)
(***************************************************************************)
EXTENDS Naturals, Sequences

CONSTANTS Event,     \* what can be reported
          None,      \* no event
          Capacity   \* how many events may wait

VARIABLES queue,     \* reported and not yet taken
          taken      \* the event taken last

Init == queue = <<>> /\ taken = None

Report(e) ==
    /\ Len(queue) < Capacity
    /\ queue' = Append(queue, e)
    /\ UNCHANGED taken

Take ==
    /\ queue # <<>>
    /\ taken' = Head(queue)
    /\ queue' = Tail(queue)

Next == (\E e \in Event : Report(e)) \/ Take

Spec == Init /\ [][Next]_<<queue, taken>>
=============================================================================
