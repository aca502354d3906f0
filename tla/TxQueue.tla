------------------------------- MODULE TxQueue -------------------------------
(***************************************************************************)
(* What the transmit path promises about order, to the frames of one kind: *)
(* what is handed to it leaves towards the chip in the order it came.      *)
(* Between kinds nothing is promised.                                      *)
(***************************************************************************)
EXTENDS Naturals, Sequences

CONSTANT Frames

VARIABLE queue

Init == queue = <<>>

Accept ==
    /\ Len(queue') = Len(queue) + 1
    /\ \E f \in Frames : queue' = Append(queue, f)

\* One buffer leaves: a management frame, or some aggregated data frames.
Leave == \E n \in 1..Len(queue) : queue' = SubSeq(queue, n + 1, Len(queue))

Spec == Init /\ [][Accept \/ Leave]_queue
=============================================================================
