--------------------------- MODULE ReorderBuffer ---------------------------
(***************************************************************************)
(* What the A-MPDU receive reordering of rtw_recv.c promises for one       *)
(* (station, TID) with an established Block Ack session, without sequence  *)
(* number arithmetic, locks, timers or threads: a frame is buffered at     *)
(* most once, is only buffered if nothing after it has been indicated, and *)
(* the buffer is indicated to the network stack smallest frame first.      *)
(* Frames are named by their position in the originator's stream.          *)
(***************************************************************************)
EXTENDS Naturals, Sequences

CONSTANT Frames       \* natural numbers

VARIABLES buf,    \* frames taken from the air and not yet indicated
          out     \* frames indicated, in the order they were

vars == <<buf, out>>

TypeOK == buf \subseteq Frames /\ out \in Seq(Frames)

\* n is later in the stream than everything indicated so far.
After(n) == \A i \in DOMAIN out : out[i] < n

Init == buf = {} /\ out = <<>>

Buffer(n) ==
    /\ n \notin buf
    /\ After(n)
    /\ buf' = buf \cup {n}
    /\ UNCHANGED out

Indicate(n) ==
    /\ n \in buf
    /\ \A m \in buf : n <= m
    /\ buf' = buf \ {n}
    /\ out' = Append(out, n)

Next == \E n \in Frames : Buffer(n) \/ Indicate(n)

Spec == Init /\ [][Next]_vars

\* Once a frame is buffered it, or a smaller one in front of it, keeps moving
\* up: the buffer does not hold frames for ever.
Fairness == WF_vars(\E n \in Frames : Indicate(n))

FairSpec == Spec /\ Fairness

\* Frames leave in stream order, each at most once, and nothing that is
\* still buffered has been overtaken.
InOrder ==
    /\ \A i, j \in DOMAIN out : i < j => out[i] < out[j]
    /\ \A n \in buf : After(n)
=============================================================================
