-------------------------- MODULE CmdThreadProofs --------------------------
(***************************************************************************)
(* Theorems about the command thread, for every set of commands and every  *)
(* number of submissions, restarts and timeouts.                           *)
(***************************************************************************)
EXTENDS CmdThread, SequenceTheorems, TLAPS

CoreVars == <<cmd_queue, live, attached, status, mutex, caller, th, cur, res>>

Types ==
    /\ cmd_queue \in Seq(Cmds)
    /\ live \subseteq Cmds /\ attached \subseteq Cmds
    /\ status \in [Cmds -> Results \cup {"SUBMITTED"}]
    /\ mutex \in Holders
    /\ caller \in [Cmds -> CallerPlaces]
    /\ th \in ThreadPlaces /\ res \in Results
    /\ th \in Holding => cur \in Cmds

\* The mutex is held exactly where the code is between lock and unlock.
MutexHeld ==
    /\ mutex = "thread" <=> th \in {"complete", "detach"}
    /\ \A c \in Cmds : caller[c] = "clear" <=> mutex = c

\* A submit_ctx and the object that points to it agree until one side lets go.
SctxAgree ==
    \A c \in Cmds :
      /\ c \in live /\ c \in attached =>
           /\ c \in Waits /\ caller[c] # "idle"
           /\ status[c] = "SUBMITTED" \/ (th = "detach" /\ cur = c)
      /\ c \in Waits /\ caller[c] # "idle" /\ status[c] = "SUBMITTED" =>
           c \in live /\ c \in attached
      /\ caller[c] \in {"wait", "lock", "clear"} => c \in Waits

ThreadLetsGo ==
    /\ th = "free" => cur \notin attached
    /\ th = "detach" => status[cur] # "SUBMITTED"

IInv == Types /\ OneOwner /\ MutexHeld /\ SctxAgree /\ ThreadLetsGo

-----------------------------------------------------------------------------
LEMMA InitInv == Init => IInv
BY CmdsAssumption, NamesAssumption
   DEF Init, IInv, Types, OneOwner, MutexHeld, SctxAgree, ThreadLetsGo, Results, Holders,
       CallerPlaces, ThreadPlaces, Holding, Preparing, Queued, InThread

\* Steps that touch none of the variables the invariant speaks of.
LEMMA StillInv == ASSUME IInv, UNCHANGED CoreVars PROVE IInv'
BY DEF CoreVars, IInv, Types, OneOwner, MutexHeld, SctxAgree, ThreadLetsGo,
       Preparing, Queued, InThread

\* The thread moves on without taking, giving back or completing a command.
LEMMA MoveInv ==
    ASSUME IInv,
           UNCHANGED <<cmd_queue, live, attached, status, mutex, caller, cur>>,
           th \notin {"complete", "detach"},
           th' \in ThreadPlaces \ {"complete", "detach", "free"},
           th \in Holding <=> th' \in Holding,
           res' \in Results
    PROVE  IInv'
<1>1. Types'
  BY DEF IInv, Types
<1>2. OneOwner'
  BY DEF IInv, OneOwner, Preparing, Queued, InThread
<1>3. MutexHeld' /\ SctxAgree' /\ ThreadLetsGo'
  BY DEF IInv, MutexHeld, SctxAgree, ThreadLetsGo
<1> QED BY <1>1, <1>2, <1>3 DEF IInv

LEMMA SubmitInv == ASSUME IInv, NEW c \in Cmds, Submit(c) PROVE IInv'
<1> USE DEF Submit, Step, queueVars, threadVars
<1>1. Types'
  BY DEF IInv, Types, CallerPlaces
<1>2. OneOwner'
  BY DEF IInv, Types, OneOwner, Preparing, Queued, InThread
<1>3. MutexHeld'
  BY DEF IInv, Types, MutexHeld
<1>4. SctxAgree'
  BY DEF IInv, Types, SctxAgree
<1>5. ThreadLetsGo'
  BY DEF IInv, Types, ThreadLetsGo, OneOwner, InThread, Holding
<1> QED BY <1>1, <1>2, <1>3, <1>4, <1>5 DEF IInv

LEMMA FilterInv == ASSUME IInv, NEW c \in Cmds, Filter(c) PROVE IInv'
<1> USE DEF Filter, Step, queueVars, threadVars
<1>1. Types'
  BY DEF IInv, Types, CallerPlaces
<1>2. OneOwner'
  BY DEF IInv, Types, OneOwner, Preparing, Queued, InThread
<1>3. MutexHeld'
  BY NamesAssumption DEF IInv, Types, MutexHeld
<1>4. SctxAgree'
  BY DEF IInv, Types, SctxAgree
<1>5. ThreadLetsGo'
  BY DEF IInv, Types, ThreadLetsGo
<1> QED BY <1>1, <1>2, <1>3, <1>4, <1>5 DEF IInv

LEMMA InsertInv == ASSUME IInv, NEW c \in Cmds, Insert(c) PROVE IInv'
<1> USE DEF Insert, Step, objVars, threadVars
<1>1. Types'
  BY DEF IInv, Types, CallerPlaces
<1>2. /\ Len(cmd_queue') = Len(cmd_queue) + 1
      /\ \A i \in 1..Len(cmd_queue) : cmd_queue'[i] = cmd_queue[i]
      /\ cmd_queue'[Len(cmd_queue) + 1] = c
      /\ Len(cmd_queue) \in Nat
  BY DEF IInv, Types
<1>3. Queued(c)' /\ \A d \in Cmds : d # c => (Queued(d)' <=> Queued(d))
  <2>1. Queued(c)'
    BY <1>2 DEF Queued
  <2>2. ASSUME NEW d \in Cmds, d # c PROVE Queued(d)' <=> Queued(d)
    BY <1>2, <2>2 DEF Queued
  <2> QED BY <2>1, <2>2
<1>4. \A i, j \in 1..Len(cmd_queue') : cmd_queue'[i] = cmd_queue'[j] => i = j
  BY <1>2 DEF IInv, Types, OneOwner, Preparing, Queued
<1>5. OneOwner'
  BY <1>3, <1>4 DEF IInv, Types, OneOwner, Preparing, InThread
<1>6. MutexHeld' /\ SctxAgree' /\ ThreadLetsGo'
  BY DEF IInv, Types, MutexHeld, SctxAgree, ThreadLetsGo
<1> QED BY <1>1, <1>5, <1>6 DEF IInv

\* The caller's steps after the insertion leave the objects where they are.
LEMMA UpInv == ASSUME IInv, NEW c \in Cmds, Up(c) \/ WaitOver(c) PROVE IInv'
<1> USE DEF Up, WaitOver, Step, objVars, queueVars, threadVars
<1>1. Types'
  BY DEF IInv, Types, CallerPlaces
<1>2. OneOwner'
  BY DEF IInv, Types, OneOwner, Preparing, Queued, InThread
<1>3. MutexHeld'
  BY DEF IInv, Types, MutexHeld
<1>4. SctxAgree'
  BY DEF IInv, Types, SctxAgree
<1>5. ThreadLetsGo'
  BY DEF IInv, Types, ThreadLetsGo
<1> QED BY <1>1, <1>2, <1>3, <1>4, <1>5 DEF IInv

LEMMA LockInv == ASSUME IInv, NEW c \in Cmds, LockSctx(c) PROVE IInv'
<1> USE DEF LockSctx, Step, queueVars, threadVars
<1>1. Types'
  BY DEF IInv, Types, CallerPlaces, Holders
<1>2. OneOwner'
  BY DEF IInv, Types, OneOwner, Preparing, Queued, InThread
<1>3. MutexHeld'
  BY NamesAssumption DEF IInv, Types, MutexHeld
<1>4. SctxAgree' /\ ThreadLetsGo'
  BY DEF IInv, Types, SctxAgree, ThreadLetsGo
<1> QED BY <1>1, <1>2, <1>3, <1>4 DEF IInv

LEMMA ClearInv == ASSUME IInv, NEW c \in Cmds, ClearSctx(c) PROVE IInv'
<1> USE DEF ClearSctx, Step, queueVars, threadVars
<1>1. Types'
  BY DEF IInv, Types, CallerPlaces, Holders
<1>2. OneOwner'
  BY DEF IInv, Types, OneOwner, Preparing, Queued, InThread
<1>3. th # "detach"
  BY NamesAssumption DEF IInv, MutexHeld
<1>4. MutexHeld'
  BY NamesAssumption DEF IInv, Types, MutexHeld
<1>5. SctxAgree' /\ ThreadLetsGo'
  BY <1>3 DEF IInv, Types, SctxAgree, ThreadLetsGo
<1> QED BY <1>1, <1>2, <1>4, <1>5 DEF IInv

\* What taking the head of the queue does to the queue.
LEMMA DequeueFacts ==
    ASSUME Types, Dequeue
    PROVE  /\ cur' \in Cmds /\ cur' = cmd_queue[1]
           /\ cmd_queue' \in Seq(Cmds) /\ Len(cmd_queue) \in Nat \ {0}
           /\ Len(cmd_queue') = Len(cmd_queue) - 1
           /\ \A i \in 1..Len(cmd_queue) - 1 : cmd_queue'[i] = cmd_queue[i + 1]
           /\ cmd_queue = <<cur'>> \o cmd_queue'
BY DEF Types, Dequeue

LEMMA TakeInv ==
    ASSUME IInv, Dequeue, UNCHANGED <<live, attached, status, mutex, caller>>,
           th \in {"next", "drain"}, th' \in {"filter", "post"}, res' \in Results
    PROVE  IInv'
<1>1. /\ cur' \in Cmds /\ cur' = cmd_queue[1]
      /\ cmd_queue' \in Seq(Cmds) /\ Len(cmd_queue) \in Nat \ {0}
      /\ Len(cmd_queue') = Len(cmd_queue) - 1
      /\ \A i \in 1..Len(cmd_queue) - 1 : cmd_queue'[i] = cmd_queue[i + 1]
  BY DequeueFacts DEF IInv
<1>2. th \notin Holding /\ th' \in Holding /\ th' \in ThreadPlaces
  BY DEF Holding, ThreadPlaces
<1>3. Types'
  BY <1>1, <1>2 DEF IInv, Types
<1>4. \A i, j \in 1..Len(cmd_queue') : cmd_queue'[i] = cmd_queue'[j] => i = j
  <2> SUFFICES ASSUME NEW i \in 1..Len(cmd_queue'), NEW j \in 1..Len(cmd_queue'),
                      cmd_queue'[i] = cmd_queue'[j]
               PROVE  i = j
    OBVIOUS
  <2>1. cmd_queue[i + 1] = cmd_queue[j + 1]
    BY <1>1
  <2>2. i + 1 \in 1..Len(cmd_queue) /\ j + 1 \in 1..Len(cmd_queue)
    BY <1>1
  <2> QED BY <2>1, <2>2 DEF IInv, OneOwner
<1>first. PICK x \in Cmds : x = cur' /\ x = cmd_queue[1]
  BY <1>1
<1>5. ~Queued(x)' /\ Queued(x)
  <2>1. Queued(x)
    BY <1>1, <1>first DEF Queued
  <2>2. ASSUME NEW i \in 1..Len(cmd_queue'), cmd_queue'[i] = x PROVE FALSE
    <3>1. cmd_queue[i + 1] = cmd_queue[1] /\ i + 1 \in 1..Len(cmd_queue)
          /\ 1 \in 1..Len(cmd_queue)
      BY <1>1, <1>first, <2>2
    <3> QED BY <3>1 DEF IInv, OneOwner
  <2> QED BY <2>1, <2>2 DEF Queued
<1>6. ASSUME NEW c \in Cmds, c # x PROVE Queued(c)' <=> Queued(c)
  <2>1. ASSUME Queued(c)' PROVE Queued(c)
    <3>1. PICK i \in 1..Len(cmd_queue') : cmd_queue'[i] = c
      BY <2>1 DEF Queued
    <3>2. cmd_queue[i + 1] = c /\ i + 1 \in 1..Len(cmd_queue)
      BY <1>1, <3>1
    <3> QED BY <3>2 DEF Queued
  <2>2. ASSUME Queued(c) PROVE Queued(c)'
    <3>1. PICK i \in 1..Len(cmd_queue) : cmd_queue[i] = c
      BY <2>2 DEF Queued
    <3>2. i # 1
      BY <1>1, <1>first, <1>6, <3>1
    <3>3. i - 1 \in 1..Len(cmd_queue') /\ cmd_queue'[i - 1] = c
      BY <1>1, <3>1, <3>2
    <3> QED BY <3>3 DEF Queued
  <2> QED BY <2>1, <2>2
<1>7. OneOwner'
  BY <1>1, <1>first, <1>2, <1>4, <1>5, <1>6 DEF IInv, OneOwner, Preparing, InThread
<1>8. MutexHeld' /\ SctxAgree' /\ ThreadLetsGo'
  BY DEF IInv, MutexHeld, SctxAgree, ThreadLetsGo
<1> QED BY <1>3, <1>7, <1>8 DEF IInv

LEMMA RequeueInv == ASSUME IInv, Requeue PROVE IInv'
<1> USE DEF Requeue, ThGoto, objVars
<1>1. /\ cur \in Cmds /\ th \in Holding /\ th' \notin Holding /\ th' \in ThreadPlaces
      /\ Len(cmd_queue) \in Nat
  BY DEF IInv, Types, Holding, ThreadPlaces
<1>2. /\ cmd_queue' \in Seq(Cmds) /\ Len(cmd_queue') = Len(cmd_queue) + 1
      /\ cmd_queue'[1] = cur
      /\ \A i \in 1..Len(cmd_queue) : cmd_queue'[i + 1] = cmd_queue[i]
      /\ \A i \in 2..Len(cmd_queue) + 1 : cmd_queue'[i] = cmd_queue[i - 1]
  BY <1>1 DEF IInv, Types
<1>3. Types'
  BY <1>1, <1>2 DEF IInv, Types
<1>5. PICK x \in Cmds : x = cur
  BY <1>1
<1>6. Queued(x)' /\ ~Queued(x)
  BY <1>1, <1>2, <1>5 DEF IInv, OneOwner, InThread, Queued
<1>7. ASSUME NEW c \in Cmds, c # x PROVE Queued(c)' <=> Queued(c)
  <2>1. ASSUME Queued(c)' PROVE Queued(c)
    <3>1. PICK i \in 1..Len(cmd_queue') : cmd_queue'[i] = c
      BY <2>1 DEF Queued
    <3>2. i \in 2..Len(cmd_queue) + 1
      BY <1>1, <1>2, <1>5, <1>7, <3>1
    <3>3. cmd_queue[i - 1] = c /\ i - 1 \in 1..Len(cmd_queue)
      BY <1>1, <1>2, <3>1, <3>2
    <3> QED BY <3>3 DEF Queued
  <2>2. ASSUME Queued(c) PROVE Queued(c)'
    <3>1. PICK i \in 1..Len(cmd_queue) : cmd_queue[i] = c
      BY <2>2 DEF Queued
    <3>2. cmd_queue'[i + 1] = c /\ i + 1 \in 1..Len(cmd_queue')
      BY <1>1, <1>2, <3>1
    <3> QED BY <3>2 DEF Queued
  <2> QED BY <2>1, <2>2
<1>8. \A i, j \in 1..Len(cmd_queue') : cmd_queue'[i] = cmd_queue'[j] => i = j
  <2> SUFFICES ASSUME NEW i \in 1..Len(cmd_queue'), NEW j \in 1..Len(cmd_queue'),
                      cmd_queue'[i] = cmd_queue'[j]
               PROVE  i = j
    OBVIOUS
  <2>1. \A k \in 1..Len(cmd_queue) : cmd_queue[k] # x
    BY <1>6 DEF Queued
  <2>2. \A k \in 2..Len(cmd_queue) + 1 : cmd_queue'[k] # cmd_queue'[1]
    BY <1>1, <1>2, <1>5, <2>1
  <2>3. CASE i = 1 \/ j = 1
    BY <1>1, <1>2, <2>2, <2>3
  <2>4. CASE i # 1 /\ j # 1
    <3>1. /\ i - 1 \in 1..Len(cmd_queue) /\ j - 1 \in 1..Len(cmd_queue)
          /\ cmd_queue[i - 1] = cmd_queue[j - 1]
      BY <1>1, <1>2, <2>4
    <3> QED BY <3>1 DEF IInv, OneOwner
  <2> QED BY <2>3, <2>4
<1>9. OneOwner'
  BY <1>1, <1>5, <1>6, <1>7, <1>8 DEF IInv, OneOwner, Preparing, InThread
<1>10. MutexHeld' /\ SctxAgree' /\ ThreadLetsGo'
  BY DEF IInv, MutexHeld, SctxAgree, ThreadLetsGo
<1> QED BY <1>3, <1>9, <1>10 DEF IInv

LEMMA PostInv == ASSUME IInv, Post PROVE IInv'
<1> USE DEF Post, ThGoto, queueVars
<1>1. Types'
  BY DEF IInv, Types, Holders, ThreadPlaces, Holding
<1>2. OneOwner'
  BY DEF IInv, OneOwner, Preparing, Queued, InThread, Holding
<1>3. MutexHeld' /\ SctxAgree' /\ ThreadLetsGo'
  BY NamesAssumption DEF IInv, MutexHeld, SctxAgree, ThreadLetsGo
<1> QED BY <1>1, <1>2, <1>3 DEF IInv

LEMMA CompleteInv == ASSUME IInv, Complete PROVE IInv'
<1> USE DEF Complete, ThGoto, queueVars
<1>1. cur \in Cmds /\ cur \in live /\ mutex = "thread"
  BY DEF IInv, Types, Holding, MutexHeld, OneOwner, InThread
<1>2. Types'
  BY <1>1 DEF IInv, Types, Holders, ThreadPlaces, Holding
<1>3. OneOwner'
  BY DEF IInv, OneOwner, Preparing, Queued, InThread, Holding
<1>4. MutexHeld'
  BY <1>1, NamesAssumption DEF IInv, MutexHeld
<1>5. SctxAgree'
  BY <1>1 DEF IInv, Types, SctxAgree, Results
<1>6. ThreadLetsGo'
  BY <1>1 DEF IInv, Types, ThreadLetsGo, Results
<1> QED BY <1>2, <1>3, <1>4, <1>5, <1>6 DEF IInv

LEMMA DetachInv == ASSUME IInv, Detach PROVE IInv'
<1> USE DEF Detach, ThGoto, queueVars
<1>1. cur \in Cmds /\ mutex = "thread"
  BY DEF IInv, Types, Holding, MutexHeld
<1>2. Types'
  BY <1>1 DEF IInv, Types, Holders, ThreadPlaces, Holding
<1>3. OneOwner'
  BY DEF IInv, OneOwner, Preparing, Queued, InThread, Holding
<1>4. MutexHeld'
  BY <1>1, NamesAssumption DEF IInv, MutexHeld
<1>5. SctxAgree'
  BY <1>1 DEF IInv, Types, SctxAgree, ThreadLetsGo
<1>6. ThreadLetsGo'
  BY <1>1 DEF IInv, ThreadLetsGo
<1> QED BY <1>2, <1>3, <1>4, <1>5, <1>6 DEF IInv

LEMMA FreeInv == ASSUME IInv, Free PROVE IInv'
<1> USE DEF Free, ThGoto, queueVars
<1>1. cur \in Cmds /\ th \in Holding /\ th' \notin Holding /\ th' \in ThreadPlaces
  BY DEF IInv, Types, Holding, ThreadPlaces
<1>2. Types'
  BY <1>1 DEF IInv, Types
<1>3. OneOwner'
  BY <1>1 DEF IInv, Types, OneOwner, Preparing, Queued, InThread
<1>4. MutexHeld' /\ ThreadLetsGo'
  BY <1>1 DEF IInv, MutexHeld, ThreadLetsGo
<1>5. SctxAgree'
  BY <1>1 DEF IInv, Types, SctxAgree, ThreadLetsGo
<1> QED BY <1>2, <1>3, <1>4, <1>5 DEF IInv

-----------------------------------------------------------------------------
LEMMA ThreadInv == ASSUME IInv, Thread PROVE IInv'
<1> USE DEF ThGoto, queueVars, objVars, threadVars, ctlVars
<1>1. CASE ThreadStart \/ Down \/ Look \/ Rest \/ RecheckAlive \/ LeaveLoop \/ Close
  BY <1>1, MoveInv DEF ThreadStart, Down, Look, Rest, RecheckAlive, LeaveLoop, Close,
                       IInv, Types, Holding, ThreadPlaces
<1>2. CASE FilterCur \/ RegisterAlive \/ Run
  <2>1. res' \in Results
    BY <1>2 DEF FilterCur, RegisterAlive, Run, Results, IInv, Types
  <2> QED BY <1>2, <2>1, MoveInv DEF FilterCur, RegisterAlive, Run, Holding, ThreadPlaces
<1>3. CASE TakeNext
  <2>1. CASE Dequeue /\ th' = "filter"
    BY <1>3, <2>1, TakeInv DEF TakeNext, IInv, Types
  <2>2. CASE UNCHANGED <<cmd_queue, cur>>
    <3>1. th = "next" /\ th' \in {"leave", "rest"}
      BY <1>3, <2>2 DEF TakeNext, Dequeue, IInv, Types
    <3> QED BY <1>3, <2>2, <3>1, MoveInv DEF TakeNext, IInv, Types, Holding, ThreadPlaces
  <2> QED BY <1>3, <2>1, <2>2 DEF TakeNext
<1>4. CASE Drain
  <2>1. CASE Dequeue /\ th' = "post"
    BY <1>4, <2>1, TakeInv DEF Drain, Results
  <2>2. CASE UNCHANGED <<cmd_queue, cur, res>>
    <3>1. th = "drain" /\ th' = "parked"
      BY <1>4, <2>2 DEF Drain, Dequeue, IInv, Types
    <3> QED BY <1>4, <2>2, <3>1, MoveInv DEF Drain, IInv, Types, Holding, ThreadPlaces
  <2> QED BY <1>4, <2>1, <2>2 DEF Drain
<1> QED BY <1>1, <1>2, <1>3, <1>4, RequeueInv, PostInv, CompleteInv, DetachInv, FreeInv
        DEF Thread

LEMMA NextInv == ASSUME IInv, [Next]_vars PROVE IInv'
<1>1. CASE Thread
  BY <1>1, ThreadInv
<1>2. CASE Join \/ Restart
  BY <1>2, MoveInv DEF Join, Restart, CtlGoto, ThGoto, queueVars, objVars, IInv, Types,
                       Holding, ThreadPlaces
<1>3. CASE Power \/ StopUp \/ StopDriver \/ HwDeinit \/ HwInit
           \/ HwChange \/ UNCHANGED vars
  BY <1>3, StillInv DEF Power, RpwmTimeout, WorkCheck, WorkProbe, WorkInt, WorkRetry,
     StopUp, StopDriver, HwDeinit, HwInit, HwChange, CoreVars, vars, queueVars, objVars, threadVars
<1>4. ASSUME NEW c \in Cmds, Submit(c) \/ Caller(c) PROVE IInv'
  BY <1>4, SubmitInv, FilterInv, InsertInv, UpInv, LockInv, ClearInv DEF Caller
<1> QED BY <1>1, <1>2, <1>3, <1>4 DEF Next, Stopper

LEMMA Inductive == Spec => []IInv
<1>1. Init => IInv
  BY InitInv
<1>2. IInv /\ [Next]_vars => IInv'
  BY NextInv
<1> QED BY <1>1, <1>2, PTL DEF Spec

\* Every allocated cmd_obj has exactly one owner, whatever the interleaving of
\* callers, the command thread, stops, restarts and refused commands.
THEOREM CommandOwnership == Spec => []OneOwner
BY Inductive, PTL DEF IInv

\* rtw_sctx_done never completes into a submit_ctx whose stack frame is gone,
\* although the caller may give up at any time.
THEOREM SctxSafety == Spec => []SctxIsLive
<1>1. IInv => SctxIsLive
  BY DEF IInv, Types, SctxAgree, SctxIsLive
<1> QED BY <1>1, Inductive, PTL

\* A caller that gives up never writes to a cmd_obj that was already freed.
THEOREM GiveUpSafety == Spec => []GivesUpSafely
<1>1. IInv => GivesUpSafely
  BY DEF IInv, Types, SctxAgree, GivesUpSafely
<1> QED BY <1>1, Inductive, PTL

-----------------------------------------------------------------------------
(* Types, buffers of waiting callers, wake-ups.                            *)

\* The rest of TypeOK: counters and places, then flags and the timer.
Counters ==
    /\ cmd_queue_sema \in Nat /\ left \in [Cmds -> Nat] /\ cur \in Cmds \cup {NoCmd}
    /\ ctl \in {"up", "sema", "join", "deinit", "down", "starting", "hwinit"}
    /\ starts \in Nat

Flags ==
    /\ cmdthd_running \in BOOLEAN /\ stopped \in BOOLEAN /\ hw_init_completed \in BOOLEAN
    /\ alive \in BOOLEAN /\ cpwm \in BOOLEAN /\ rpwm \in BOOLEAN
    /\ rtimer \in {"off", "armed", "check", "probe", "int", "retry"}

LEMMA CountersStep == ASSUME IInv, Counters, [Next]_vars PROVE Counters'
<1> USE DEF Counters, queueVars, objVars, threadVars, ctlVars, powerVars, ThGoto, CtlGoto,
            Step
<1>1. CASE UNCHANGED vars
  BY <1>1 DEF vars
<1>2. ASSUME NEW c \in Cmds, Submit(c) \/ Caller(c) PROVE Counters'
  BY <1>2 DEF Submit, Caller, Filter, Insert, Up, WaitOver, LockSctx, ClearSctx
<1>3. CASE Power
  BY <1>3 DEF Power, RpwmTimeout, WorkCheck, WorkProbe, WorkInt, WorkRetry
<1>4. CASE ThreadStart \/ Down \/ Look \/ Rest \/ LeaveLoop \/ Close
  BY <1>4 DEF ThreadStart, Down, Look, Rest, LeaveLoop, Close
<1>5. CASE FilterCur \/ RegisterAlive \/ RecheckAlive
  BY <1>5 DEF FilterCur, RegisterAlive, RecheckAlive
<1>6. CASE Requeue \/ Run \/ Post \/ Complete \/ Detach \/ Free
  BY <1>6 DEF Requeue, Run, Post, Complete, Detach, Free
<1>7. CASE TakeNext \/ Drain
  BY <1>7, HeadTailProperties DEF TakeNext, Drain, Dequeue, IInv, Types
<1>8. CASE StopDriver \/ Restart \/ HwInit \/ HwChange \/ Stopper
  BY <1>8 DEF StopDriver, Restart, HwInit, HwChange, Stopper, StopUp, Join, HwDeinit
<1> QED
  BY <1>1, <1>2, <1>3, <1>4, <1>5, <1>6, <1>7, <1>8 DEF Next, Thread

\* The flags are Boolean values: these leaves are Zenon's.
LEMMA FlagsStep == ASSUME Flags, [Next]_vars PROVE Flags'
<1> USE DEF Flags, ctlVars, powerVars
<1>1. CASE UNCHANGED vars
  BY <1>1, Zenon DEF vars
<1>2. ASSUME NEW c \in Cmds, Submit(c) \/ Caller(c) PROVE Flags'
  <2>1. CASE Submit(c) \/ Filter(c) \/ Insert(c)
    BY <2>1, Zenon DEF Submit, Filter, Insert
  <2>2. CASE Up(c) \/ WaitOver(c) \/ LockSctx(c) \/ ClearSctx(c)
    BY <2>2, Zenon DEF Up, WaitOver, LockSctx, ClearSctx
  <2> QED
    BY <1>2, <2>1, <2>2 DEF Caller
<1>3. CASE RpwmTimeout \/ WorkCheck
  BY <1>3, Zenon DEF RpwmTimeout, WorkCheck
<1>4. CASE WorkProbe
  BY <1>4, Zenon DEF WorkProbe
<1>5. CASE WorkInt
  BY <1>5, Zenon DEF WorkInt
<1>6. CASE WorkRetry
  BY <1>6, Zenon DEF WorkRetry, Poll
<1>7. CASE ThreadStart
  BY <1>7, Zenon DEF ThreadStart
<1>8. CASE Down \/ Look \/ TakeNext
  BY <1>8, Zenon DEF Down, Look, TakeNext
<1>16. CASE RecheckAlive \/ Requeue \/ Run \/ Post
  BY <1>16, Zenon DEF RecheckAlive, Requeue, Run, Post
<1>17. CASE Complete \/ Detach \/ Free \/ Drain
  BY <1>17, Zenon DEF Complete, Detach, Free, Drain
<1>9. CASE Rest \/ LeaveLoop
  BY <1>9, Zenon DEF Rest, LeaveLoop, UnregisterAlive, LowerRpwm
<1>10. CASE FilterCur
  BY <1>10, Zenon DEF FilterCur, UnregisterAlive, LowerRpwm
<1>11. CASE RegisterAlive
  BY <1>11, Zenon DEF RegisterAlive, RaiseRpwm, Poll
<1>12. CASE Close
  BY <1>12, Zenon DEF Close
<1>13. CASE StopDriver \/ Restart
  BY <1>13, Zenon DEF StopDriver, Restart
<1>14. CASE HwInit \/ HwChange
  BY <1>14, Zenon DEF HwInit, HwChange
<1>15. CASE Stopper
  BY <1>15, Zenon DEF Stopper, StopUp, Join, HwDeinit
<1> QED
  BY <1>1, <1>2, <1>3, <1>4, <1>5, <1>6, <1>7, <1>8, <1>9, <1>10, <1>11, <1>12, <1>13,
     <1>14, <1>15, <1>16, <1>17 DEF Next, Thread, Power

\* Every variable of the command thread, its callers and the power state keeps its
\* type, the semaphore's count included.
THEOREM CmdTypes == Spec => []TypeOK
<1>1. Init => Counters
  BY LimitAssumption DEF Init, Counters
<1>2. Init => Flags
  BY Zenon DEF Init, Flags
<1>3. IInv /\ Counters /\ Flags => TypeOK
  BY DEF IInv, Types, Counters, Flags, TypeOK
<1> QED
  BY <1>1, <1>2, <1>3, CountersStep, FlagsStep, Inductive, PTL DEF Spec

\* A waiting caller's command is not completed before the thread does it, and
\* without timeouts the caller stays where it waits until then.
Patient ==
    \A c \in Waits :
        /\ c \in live => status[c] = "SUBMITTED" \/ (th \in {"detach", "free"} /\ cur = c)
        /\ c \in live /\ status[c] = "SUBMITTED" =>
               caller[c] \in {"filter", "insert", "up", "wait"}

LEMMA PatientStep == ASSUME ~CanTimeout, IInv, Patient, [Next]_vars PROVE Patient'
<1> USE CmdsAssumption
    DEF Patient, queueVars, objVars, threadVars, ctlVars, powerVars, ThGoto, CtlGoto, Step
<1>1. CASE UNCHANGED vars
  BY <1>1 DEF vars
<1>2. ASSUME NEW c \in Cmds, Submit(c) PROVE Patient'
  BY <1>2 DEF Submit, IInv, Types
<1>3. ASSUME NEW c \in Cmds, Caller(c) PROVE Patient'
  BY <1>3 DEF Caller, Filter, Insert, Up, WaitOver, LockSctx, ClearSctx, IInv, Types
<1>4. CASE Power
  BY <1>4 DEF Power, RpwmTimeout, WorkCheck, WorkProbe, WorkInt, WorkRetry
<1>5. CASE ThreadStart \/ Down \/ Look \/ Rest \/ LeaveLoop \/ Close
  BY <1>5 DEF ThreadStart, Down, Look, Rest, LeaveLoop, Close
<1>6. CASE FilterCur \/ RegisterAlive \/ RecheckAlive \/ TakeNext \/ Drain
  BY <1>6 DEF FilterCur, RegisterAlive, RecheckAlive, TakeNext, Drain
<1>7. CASE Requeue \/ Run \/ Post
  BY <1>7 DEF Requeue, Run, Post
<1>8. CASE Complete
  BY <1>8 DEF Complete, IInv, Types, SctxAgree, OneOwner, InThread, Holding
<1>9. CASE Detach \/ Free
  BY <1>9 DEF Detach, Free, IInv, Types
<1>10. CASE StopDriver \/ Restart \/ HwInit \/ HwChange \/ Stopper
  BY <1>10 DEF StopDriver, Restart, HwInit, HwChange, Stopper, StopUp, Join, HwDeinit
<1> QED
  BY <1>1, <1>2, <1>3, <1>4, <1>5, <1>6, <1>7, <1>8, <1>9, <1>10 DEF Next, Thread

\* Where nobody gives up, the buffers of a synchronous caller (mgnt_parm->buf)
\* outlive the execution of its command.
THEOREM CallersBuffers == ASSUME ~CanTimeout PROVE Spec => []CallerStillWaits
<1>1. Init => Patient
  BY DEF Init, Patient
<1>2. IInv /\ Patient => CallerStillWaits
  BY CmdsAssumption
     DEF IInv, Types, OneOwner, Patient, CallerStillWaits, InThread, Holding, Preparing
<1> QED
  BY <1>1, <1>2, PatientStep, Inductive, PTL DEF Spec

\* Where the thread is about to sleep, sleeps or is not there, and a command is
\* queued, the semaphore is up or its caller has still to raise it.
Asleep == {"rest", "down", "parked", "off", "start"}
Woken ==
    /\ th \notin {"recheck", "requeue"}
    /\ th \in Asleep /\ cmd_queue # <<>> =>
           cmd_queue_sema > 0 \/ \E c \in Cmds : caller[c] = "up"

LEMMA WokenStep == ASSUME ~CanSleep, IInv, Counters, Woken, [Next]_vars PROVE Woken'
<1> USE DEF Woken, Asleep, queueVars, objVars, threadVars, ctlVars, powerVars, ThGoto,
            CtlGoto, Step
<1>1. CASE UNCHANGED vars
  BY <1>1 DEF vars
<1>2. ASSUME NEW c \in Cmds, Submit(c) PROVE Woken'
  BY <1>2 DEF Submit, IInv, Types
<1>3. ASSUME NEW c \in Cmds, Caller(c) PROVE Woken'
  BY <1>3 DEF Caller, Filter, Insert, Up, WaitOver, LockSctx, ClearSctx, IInv, Types,
              Counters
<1>4. CASE Power
  BY <1>4 DEF Power, RpwmTimeout, WorkCheck, WorkProbe, WorkInt, WorkRetry, Counters
<1>5. CASE ThreadStart \/ Down \/ Look \/ Rest \/ LeaveLoop \/ Close
  BY <1>5 DEF ThreadStart, Down, Look, Rest, LeaveLoop, Close
<1>6. CASE FilterCur \/ RegisterAlive
  BY <1>6 DEF FilterCur, RegisterAlive
<1>7. CASE TakeNext \/ Drain \/ RecheckAlive
  BY <1>7 DEF RecheckAlive, TakeNext, Drain
<1>8. CASE Requeue \/ Run \/ Post \/ Complete \/ Detach \/ Free
  BY <1>8 DEF Requeue, Run, Post, Complete, Detach, Free
<1>9. CASE StopDriver \/ Restart \/ HwInit \/ HwChange \/ Stopper
  BY <1>9 DEF StopDriver, Restart, HwInit, HwChange, Stopper, StopUp, Join, HwDeinit,
              Counters
<1> QED
  BY <1>1, <1>2, <1>3, <1>4, <1>5, <1>6, <1>7, <1>8, <1>9 DEF Next, Thread

\* While the firmware does not sleep, the command thread never sleeps over a queued
\* command, through stops, the last drain and restarts as well.
THEOREM CommandWakeup == ASSUME ~CanSleep PROVE Spec => []NoLostWakeup
<1>1. Init => Woken /\ Counters
  BY LimitAssumption DEF Init, Woken, Counters
<1>2. Woken => NoLostWakeup
  BY DEF Woken, Asleep, NoLostWakeup
<1> QED
  BY <1>1, <1>2, WokenStep, CountersStep, Inductive, PTL DEF Spec

-----------------------------------------------------------------------------
(* The command thread implements CommandQueue.                             *)

\* A step that neither appends to the queue nor frees leaves the work alone.
LEMMA WorkStill ==
    ASSUME UNCHANGED <<cmd_queue, cur>>, th \in Holding <=> th' \in Holding
    PROVE  UNCHANGED Work
BY DEF Work

LEMMA WorkTaken ==
    ASSUME Types, Dequeue, th \notin Holding, th' \in Holding
    PROVE  UNCHANGED Work
<1>1. cmd_queue = <<cur'>> \o cmd_queue'
  BY DequeueFacts
<1> QED BY <1>1 DEF Work

LEMMA InsertAccepts == ASSUME IInv, NEW c \in Cmds, Insert(c) PROVE Promise!Accept(c)
<1> USE DEF Insert, Step, threadVars
<1>1. cmd_queue \in Seq(Cmds) /\ cmd_queue' = Append(cmd_queue, c)
      /\ UNCHANGED <<th, cur>> /\ (th \in Holding => cur \in Cmds)
  BY DEF IInv, Types
<1>2. Work \in Seq(Cmds) /\ Work' = Append(Work, c)
  <2>1. CASE th \in Holding
    <3>1. <<cur>> \in Seq(Cmds)
      BY <1>1, <2>1
    <3>2. <<cur>> \o Append(cmd_queue, c) = Append(<<cur>> \o cmd_queue, c)
      BY <1>1, <3>1
    <3> QED BY <1>1, <2>1, <3>1, <3>2 DEF Work
  <2>2. CASE th \notin Holding
    BY <1>1, <2>2 DEF Work
  <2> QED BY <2>1, <2>2
<1>3. Preparing(c)
  BY DEF Preparing
<1>4. \A i \in 1..Len(Work) : Work[i] # c
  <2> SUFFICES ASSUME NEW i \in 1..Len(Work), Work[i] = c PROVE FALSE
    OBVIOUS
  <2>1. ~Queued(c) /\ ~InThread(c)
    BY <1>3 DEF IInv, OneOwner
  <2>2. CASE th \in Holding
    <3>1. /\ Len(<<cur>> \o cmd_queue) = Len(cmd_queue) + 1
          /\ (<<cur>> \o cmd_queue)[i] = IF i = 1 THEN cur ELSE cmd_queue[i - 1]
      BY <1>1, <2>2 DEF Work
    <3>2. CASE i = 1
      BY <2>1, <2>2, <3>1, <3>2 DEF Work, InThread
    <3>3. CASE i # 1
      <4>1. i - 1 \in 1..Len(cmd_queue) /\ cmd_queue[i - 1] = c
        BY <1>1, <2>2, <3>1, <3>3 DEF Work
      <4> QED BY <2>1, <4>1 DEF Queued
    <3> QED BY <3>2, <3>3
  <2>3. CASE th \notin Holding
    BY <2>1, <2>3 DEF Work, Queued
  <2> QED BY <2>2, <2>3
<1> QED BY <1>2, <1>4 DEF Promise!Accept

LEMMA FreeFinishes == ASSUME IInv, Free PROVE Promise!Finish
<1>1. cur \in Cmds /\ th \in Holding /\ th' \notin Holding
      /\ cmd_queue \in Seq(Cmds) /\ cmd_queue' = cmd_queue
  BY DEF Free, ThGoto, IInv, Types, Holding, queueVars
<1>2. Work = <<cur>> \o cmd_queue /\ Work' = cmd_queue
  BY <1>1 DEF Work
<1>3. <<cur>> \o cmd_queue # <<>> /\ Tail(<<cur>> \o cmd_queue) = cmd_queue
  BY <1>1
<1> QED BY <1>2, <1>3 DEF Promise!Finish

LEMMA ThreadWork == ASSUME IInv, Thread PROVE [Promise!Next]_Work
<1> USE DEF ThGoto, queueVars, Holding
<1>1. CASE Free
  BY <1>1, FreeFinishes DEF Promise!Next
<1>2. CASE Requeue
  BY <1>2 DEF Requeue, Work
<1>3. CASE TakeNext
  BY <1>3, WorkStill, WorkTaken DEF TakeNext, IInv
<1>4. CASE Drain
  BY <1>4, WorkStill, WorkTaken DEF Drain, IInv
<1>5. CASE \/ ThreadStart \/ Down \/ Look \/ Rest \/ FilterCur \/ RegisterAlive
           \/ RecheckAlive \/ Run \/ Post \/ Complete \/ Detach \/ LeaveLoop \/ Close
  BY <1>5, WorkStill DEF ThreadStart, Down, Look, Rest, FilterCur, RegisterAlive,
     RecheckAlive, Run, Post, Complete, Detach, LeaveLoop, Close
<1> QED BY <1>1, <1>2, <1>3, <1>4, <1>5 DEF Thread

LEMMA NextWork == ASSUME IInv, [Next]_vars PROVE [Promise!Next]_Work
<1>1. CASE Thread
  BY <1>1, ThreadWork
<1>2. CASE Join \/ Restart
  BY <1>2, WorkStill DEF Join, Restart, ThGoto, queueVars, Holding
<1>3. CASE Power \/ StopUp \/ StopDriver \/ HwDeinit \/ HwInit
           \/ HwChange \/ UNCHANGED vars
  BY <1>3, WorkStill DEF Power, RpwmTimeout, WorkCheck, WorkProbe, WorkInt, WorkRetry,
     StopUp, StopDriver, HwDeinit, HwInit, HwChange, vars, queueVars, threadVars
<1>4. ASSUME NEW c \in Cmds, Insert(c) PROVE [Promise!Next]_Work
  BY <1>4, InsertAccepts DEF Promise!Next
<1>5. ASSUME NEW c \in Cmds, Submit(c) \/ Filter(c) \/ Up(c) \/ WaitOver(c)
                               \/ LockSctx(c) \/ ClearSctx(c)
      PROVE  [Promise!Next]_Work
  BY <1>5, WorkStill DEF Submit, Filter, Up, WaitOver, LockSctx, ClearSctx, queueVars,
     threadVars
<1> QED BY <1>1, <1>2, <1>3, <1>4, <1>5 DEF Next, Stopper, Caller

\* Commands are executed or dropped one at a time in the order they were
\* accepted, each once, also when the thread puts one back at the head of the
\* queue because the firmware sleeps, and across stops and restarts.
THEOREM CommandOrder == Spec => KeepsCommandOrder
<1>1. Init => Promise!Init
  BY DEF Init, Promise!Init, Work, Holding
<1>2. IInv /\ [Next]_vars => [Promise!Next]_Work
  BY NextWork
<1> QED BY <1>1, <1>2, Inductive, PTL DEF Spec, KeepsCommandOrder, Promise!Spec
=============================================================================
