---------------------------- MODULE CommandQueue ----------------------------
(***************************************************************************)
(* What the command queue of core/rtw_cmd.c promises its callers: accepted *)
(* commands are finished one at a time, in the order they were accepted,   *)
(* each exactly once, and every accepted command is finished.              *)
(***************************************************************************)
EXTENDS Naturals, Sequences

CONSTANT Cmds         \* the commands that can be outstanding

VARIABLE work         \* accepted and not finished, in order

Init == work = <<>>

Accept(c) == (\A i \in 1..Len(work) : work[i] # c) /\ work' = Append(work, c)

\* The oldest command was executed or dropped and its object freed.
Finish == work # <<>> /\ work' = Tail(work)

Next == Finish \/ \E c \in Cmds : Accept(c)
Spec == Init /\ [][Next]_work
FairSpec == Spec /\ WF_work(Finish)
=============================================================================
