----------------------------- MODULE CmdThread -----------------------------
(***************************************************************************)
(* The command thread and its queue: rtw_enqueue_cmd, rtw_cmd_thread and   *)
(* rtw_stop_cmd_thread of core/rtw_cmd.c, with the submit_ctx a caller     *)
(* waits on, and the part of leisure power save (core/rtw_pwrctrl.c) that  *)
(* decides whether the thread may issue a command.                         *)
(*                                                                         *)
(* A command is named by its cmd_obj.  A command in Waits is submitted     *)
(* with RTW_CMDF_WAIT_ACK: its submit_ctx lies on the caller's stack.  A   *)
(* command in NoIo carries the flag no_io.  RTW_CANNOT_RUN is "stopped".   *)
(* The firmware's power states are reduced to whether cpwm and rpwm are    *)
(* at least PS_STATE_S2, the only test the command path makes.             *)
(***************************************************************************)
EXTENDS Integers, Sequences, SequencesExt

CONSTANTS
    Cmds, Waits, NoIo,
    NoCmd,            \* pcmd = NULL
    MaxSubmit,        \* submissions of each command
    MaxStarts,        \* restarts of the driver after a stop
    CanTimeout,       \* a caller's rtw_sctx_wait may run out of time
    CanStop,          \* the driver may be stopped
    CanLoseHw,        \* hw_init_completed may be cleared (IPS, reset)
    CanSleep          \* bFwCurrentInPSMode: the firmware is in LPS_LCLK

ASSUME CmdsAssumption  == Waits \subseteq Cmds /\ NoIo \subseteq Cmds /\ NoCmd \notin Cmds
ASSUME NamesAssumption == "none" \notin Cmds /\ "thread" \notin Cmds
ASSUME LimitAssumption == MaxSubmit \in Nat /\ MaxStarts \in Nat

VARIABLES
    cmd_queue, cmd_queue_sema, cmdthd_running, mutex,      \* struct cmd_priv
    live,             \* the command objects that are allocated
    attached,         \* the commands whose obj->sctx is not NULL
    status,           \* status[c]: the submit_ctx of c's caller
    caller,           \* caller[c]: where the thread submitting c is
    left,             \* left[c]: submissions that remain
    th, cur, res,     \* command thread: place, pcmd, pcmd->res
    ctl, starts,      \* who opens and closes the interface
    stopped, hw_init_completed,
    alive,            \* CMD_ALIVE is set in alives
    cpwm, rpwm,       \* at least PS_STATE_S2
    rtimer            \* pwr_rpwm_timer and its work item

queueVars  == <<cmd_queue, cmd_queue_sema>>
objVars    == <<live, attached, status, mutex>>
threadVars == <<th, cur, res>>
ctlVars    == <<ctl, starts, stopped, cmdthd_running>>
powerVars  == <<alive, cpwm, rpwm, rtimer>>
vars == <<queueVars, objVars, caller, left, threadVars, ctlVars, hw_init_completed,
          powerVars>>

CallerPlaces == {"idle", "filter", "insert", "up", "wait", "lock", "clear"}
ThreadPlaces == {"off", "start", "down", "look", "next", "rest", "filter", "alive",
                 "requeue", "recheck", "run", "post", "complete", "detach", "free",
                 "leave", "close", "drain", "parked"}
Results      == {"SUCCESS", "CMD_ERROR", "CMD_DROP"}
Holders      == {"none", "thread"} \cup Cmds

\* "rtw_cmd_thread" holds pcmd from the dequeue until it is freed or reinserted.
Holding == {"filter", "alive", "requeue", "recheck", "run", "post", "complete",
            "detach", "free"}

TypeOK ==
    /\ cmd_queue \in Seq(Cmds) /\ cmd_queue_sema \in Nat
    /\ live \subseteq Cmds /\ attached \subseteq Cmds
    /\ status \in [Cmds -> Results \cup {"SUBMITTED"}]
    /\ mutex \in Holders
    /\ caller \in [Cmds -> CallerPlaces] /\ left \in [Cmds -> Nat]
    /\ th \in ThreadPlaces /\ cur \in Cmds \cup {NoCmd} /\ res \in Results
    /\ ctl \in {"up", "sema", "join", "deinit", "down", "starting", "hwinit"} /\ starts \in Nat
    /\ cmdthd_running \in BOOLEAN /\ stopped \in BOOLEAN /\ hw_init_completed \in BOOLEAN
    /\ alive \in BOOLEAN /\ cpwm \in BOOLEAN /\ rpwm \in BOOLEAN
    /\ rtimer \in {"off", "armed", "check", "probe", "int", "retry"}

Init ==
    /\ cmd_queue = <<>> /\ cmd_queue_sema = 0 /\ cmdthd_running = TRUE
    /\ live = {} /\ attached = {} /\ mutex = "none"
    /\ status = [c \in Cmds |-> "SUBMITTED"]
    /\ caller = [c \in Cmds |-> "idle"] /\ left = [c \in Cmds |-> MaxSubmit]
    /\ th = "down" /\ cur = NoCmd /\ res = "SUCCESS"
    /\ ctl = "up" /\ starts = 0 /\ stopped = FALSE /\ hw_init_completed = TRUE
    /\ alive = FALSE /\ cpwm = ~CanSleep /\ rpwm = ~CanSleep /\ rtimer = "off"

\* rtw_cmd_filter.
Allowed(c) == cmdthd_running /\ (hw_init_completed \/ c \in NoIo)

-----------------------------------------------------------------------------
(* Callers: rtw_createbss_cmd and the other functions of its shape.        *)

Step(c, from, to) == caller[c] = from /\ caller' = [caller EXCEPT ![c] = to]

\* The object is allocated and, if the caller will wait, its sctx attached.
Submit(c) ==
    /\ Step(c, "idle", "filter")
    /\ c \notin live /\ left[c] > 0
    /\ left' = [left EXCEPT ![c] = @ - 1]
    /\ live' = live \cup {c}
    /\ attached' = IF c \in Waits THEN attached \cup {c} ELSE attached \ {c}
    /\ status' = [status EXCEPT ![c] = "SUBMITTED"]
    /\ UNCHANGED <<queueVars, mutex, threadVars, ctlVars, hw_init_completed, powerVars>>

FilterLeaks(c) ==     \* forgets rtw_free_cmd_obj
    /\ \/ Allowed(c) /\ Step(c, "filter", "insert")
       \/ ~Allowed(c) /\ Step(c, "filter", "idle")
    /\ UNCHANGED <<queueVars, objVars, left, threadVars, ctlVars,
                   hw_init_completed, powerVars>>

\* rtw_enqueue_cmd frees what the filter refuses.
Filter(c) ==
    /\ \/ Allowed(c) /\ Step(c, "filter", "insert") /\ UNCHANGED <<live, attached>>
       \/ ~Allowed(c) /\ Step(c, "filter", "idle")
          /\ live' = live \ {c} /\ attached' = attached \ {c}
    /\ UNCHANGED <<queueVars, status, mutex, left, threadVars, ctlVars,
                   hw_init_completed, powerVars>>

Insert(c) ==
    /\ Step(c, "insert", "up")
    /\ cmd_queue' = Append(cmd_queue, c)
    /\ UNCHANGED <<cmd_queue_sema, objVars, left, threadVars, ctlVars,
                   hw_init_completed, powerVars>>

UpIfFirst(c) ==       \* signals only when the queue looks new
    /\ Step(c, "up", IF c \in Waits THEN "wait" ELSE "idle")
    /\ cmd_queue_sema' = IF Len(cmd_queue) = 1 THEN cmd_queue_sema + 1 ELSE cmd_queue_sema
    /\ UNCHANGED <<cmd_queue, objVars, left, threadVars, ctlVars, hw_init_completed,
                   powerVars>>

Up(c) ==
    /\ Step(c, "up", IF c \in Waits THEN "wait" ELSE "idle")
    /\ cmd_queue_sema' = cmd_queue_sema + 1
    /\ UNCHANGED <<cmd_queue, objVars, left, threadVars, ctlVars, hw_init_completed,
                   powerVars>>

WaitNotAtAll(c) ==    \* rtw_sctx_wait comes back at once
    /\ Step(c, "wait", "lock")
    /\ UNCHANGED <<queueVars, objVars, left, threadVars, ctlVars, hw_init_completed,
                   powerVars>>

\* rtw_sctx_wait: completed, or out of time.
WaitOver(c) ==
    /\ status[c] # "SUBMITTED" \/ CanTimeout
    /\ Step(c, "wait", "lock")
    /\ UNCHANGED <<queueVars, objVars, left, threadVars, ctlVars, hw_init_completed,
                   powerVars>>

LockSctx(c) ==
    /\ mutex = "none" /\ Step(c, "lock", "clear")
    /\ mutex' = c
    /\ UNCHANGED <<queueVars, live, attached, status, left, threadVars, ctlVars,
                   hw_init_completed, powerVars>>

\* A caller that gave up detaches its sctx before the stack frame goes.
ClearSctx(c) ==
    /\ Step(c, "clear", "idle") /\ mutex' = "none"
    /\ attached' = IF status[c] = "SUBMITTED" THEN attached \ {c} ELSE attached
    /\ UNCHANGED <<queueVars, live, status, left, threadVars, ctlVars,
                   hw_init_completed, powerVars>>

Caller(c) == \/ Filter(c) \/ Insert(c) \/ Up(c)
             \/ WaitOver(c) \/ LockSctx(c) \/ ClearSctx(c)

-----------------------------------------------------------------------------
(* LPS_LCLK as the command thread meets it.                                *)

\* rtw_set_rpwm(PS_STATE_S0), asked for when the last task is done.
LowerRpwm ==
    /\ rpwm' = (rpwm /\ (~hw_init_completed \/ stopped))
    /\ cpwm' = (~rpwm \/ ~hw_init_completed \/ stopped)

\* rtw_unregister_cmd_alive.  cpwm > pslv and alives = 0.
UnregisterAlive ==
    /\ alive' = FALSE
    /\ IF CanSleep /\ cpwm THEN LowerRpwm ELSE UNCHANGED <<cpwm, rpwm>>
    /\ UNCHANGED rtimer

\* rtw_cpwm_polling either sees the firmware answer or arms pwr_rpwm_timer.
Poll ==
    \/ cpwm' = TRUE /\ rtimer' = "off"
    \/ cpwm' = FALSE /\ rtimer' = "armed"

\* rtw_set_rpwm(PS_STATE_S2) while rpwm is below it.
RaiseRpwm ==
    IF hw_init_completed THEN rpwm' = TRUE /\ Poll
                         ELSE cpwm' = TRUE /\ UNCHANGED <<rpwm, rtimer>>

RpwmTimeout ==        \* pwr_rpwm_timeout_handler
    /\ rtimer = "armed"
    /\ rtimer' = IF stopped \/ cpwm \/ rpwm = cpwm THEN "off" ELSE "check"
    /\ UNCHANGED <<queueVars, objVars, caller, left, threadVars, ctlVars,
                   hw_init_completed, alive, cpwm, rpwm>>

\* rpwmtimeout_workitem_callback: first look at the states, then at the chip.
WorkCheck ==
    /\ rtimer = "check"
    /\ rtimer' = IF stopped \/ cpwm \/ rpwm = cpwm THEN "off" ELSE "probe"
    /\ UNCHANGED <<queueVars, objVars, caller, left, threadVars, ctlVars,
                   hw_init_completed, alive, cpwm, rpwm>>

WorkProbe ==          \* register 0x100: has the firmware left 32K already?
    /\ rtimer = "probe" /\ rtimer' \in {"int", "retry"}
    /\ UNCHANGED <<queueVars, objVars, caller, left, threadVars, ctlVars,
                   hw_init_completed, alive, cpwm, rpwm>>

WorkInt ==            \* cpwm_int_hdl
    /\ rtimer = "int" /\ rtimer' = "off"
    /\ LET redundant == stopped \/ ~rpwm
       IN  /\ cpwm' = (redundant => cpwm)
           /\ cmd_queue_sema' = cmd_queue_sema + (IF alive /\ ~redundant THEN 1 ELSE 0)
    /\ UNCHANGED <<cmd_queue, objVars, caller, left, threadVars, ctlVars,
                   hw_init_completed, alive, rpwm>>

WorkRetry ==          \* brpwmtimeout: rtw_set_rpwm(rpwm) once more
    /\ rtimer = "retry"
    /\ IF cpwm \/ rpwm = cpwm THEN rtimer' = "off" /\ UNCHANGED cpwm
       ELSE IF hw_init_completed THEN Poll
       ELSE cpwm' = TRUE /\ rtimer' = "off"
    /\ UNCHANGED <<queueVars, objVars, caller, left, threadVars, ctlVars,
                   hw_init_completed, alive, rpwm>>

Power == RpwmTimeout \/ WorkCheck \/ WorkProbe \/ WorkInt \/ WorkRetry

-----------------------------------------------------------------------------
(* rtw_cmd_thread.                                                         *)

ThGoto(from, to) == th = from /\ th' = to

ThreadStart ==        \* announces itself to rtw_start_drv_threads
    /\ ThGoto("start", "down") /\ ctl' = "hwinit" /\ cmdthd_running' = TRUE
    /\ UNCHANGED <<queueVars, objVars, caller, left, cur, res, starts, stopped,
                   hw_init_completed, powerVars>>

DownAlways ==         \* does not wait for the semaphore
    /\ ThGoto("down", "look")
    /\ cmd_queue_sema' = cmd_queue_sema - 1
    /\ UNCHANGED <<cmd_queue, objVars, caller, left, cur, res, ctlVars,
                   hw_init_completed, powerVars>>

Down ==
    /\ ThGoto("down", "look") /\ cmd_queue_sema > 0
    /\ cmd_queue_sema' = cmd_queue_sema - 1
    /\ UNCHANGED <<cmd_queue, objVars, caller, left, cur, res, ctlVars,
                   hw_init_completed, powerVars>>

Look ==
    /\ ThGoto("look", IF stopped THEN "leave"
                      ELSE IF cmd_queue = <<>> THEN "down" ELSE "next")
    /\ UNCHANGED <<queueVars, objVars, caller, left, cur, res, ctlVars,
                   hw_init_completed, powerVars>>

DequeueLast ==        \* takes the newest command
    /\ cmd_queue # <<>> /\ cur' = Last(cmd_queue) /\ cmd_queue' = Front(cmd_queue)

Dequeue == cmd_queue # <<>> /\ cur' = Head(cmd_queue) /\ cmd_queue' = Tail(cmd_queue)

\* The label _next: go on as long as there are commands.
TakeNext ==
    /\ \/ stopped /\ ThGoto("next", "leave") /\ UNCHANGED <<cmd_queue, cur>>
       \/ ~stopped /\ cmd_queue = <<>> /\ ThGoto("next", "rest")
          /\ UNCHANGED <<cmd_queue, cur>>
       \/ ~stopped /\ Dequeue /\ ThGoto("next", "filter")
    /\ UNCHANGED <<cmd_queue_sema, objVars, caller, left, res, ctlVars,
                   hw_init_completed, powerVars>>

Rest ==
    /\ ThGoto("rest", "down") /\ UnregisterAlive
    /\ UNCHANGED <<queueVars, objVars, caller, left, cur, res, ctlVars,
                   hw_init_completed>>

FilterCurFrees ==     \* a refused command is freed without post_process
    /\ \/ ~Allowed(cur) /\ ThGoto("filter", "free") /\ UNCHANGED powerVars
       \/ Allowed(cur) /\ cur \in NoIo /\ ThGoto("filter", "run") /\ UnregisterAlive
       \/ Allowed(cur) /\ cur \notin NoIo /\ ThGoto("filter", "alive")
          /\ UNCHANGED powerVars
    /\ UNCHANGED <<queueVars, objVars, caller, left, cur, res, ctlVars, hw_init_completed>>

\* The filter again, at the time of execution.
FilterCur ==
    /\ \/ ~Allowed(cur) /\ ThGoto("filter", "post") /\ res' = "CMD_ERROR"
          /\ UNCHANGED powerVars
       \/ Allowed(cur) /\ cur \in NoIo /\ ThGoto("filter", "run") /\ UnregisterAlive
          /\ UNCHANGED res
       \/ Allowed(cur) /\ cur \notin NoIo /\ ThGoto("filter", "alive")
          /\ UNCHANGED <<res, powerVars>>
    /\ UNCHANGED <<queueVars, objVars, caller, left, cur, ctlVars, hw_init_completed>>

\* rtw_register_cmd_alive, the part under the power lock.
RegisterAlive ==
    /\ ThGoto("alive", IF CanSleep /\ ~cpwm THEN "recheck" ELSE "run")
    /\ alive' = TRUE
    /\ IF CanSleep /\ ~cpwm /\ ~rpwm THEN RaiseRpwm ELSE UNCHANGED <<cpwm, rpwm, rtimer>>
    /\ UNCHANGED <<queueVars, objVars, caller, left, cur, res, ctlVars,
                   hw_init_completed>>

\* ... and its second look at cpwm, after the lock.
RecheckAlive ==
    /\ ThGoto("recheck", IF cpwm THEN "run" ELSE "requeue")
    /\ UNCHANGED <<queueVars, objVars, caller, left, cur, res, ctlVars,
                   hw_init_completed, powerVars>>

RequeueTail ==        \* puts the command behind the others
    /\ ThGoto("requeue", "down")
    /\ cmd_queue' = Append(cmd_queue, cur) /\ cur' = NoCmd
    /\ UNCHANGED <<cmd_queue_sema, objVars, caller, left, res, ctlVars,
                   hw_init_completed, powerVars>>

Requeue ==            \* H2C_ENQ_HEAD
    /\ ThGoto("requeue", "down")
    /\ cmd_queue' = <<cur>> \o cmd_queue /\ cur' = NoCmd
    /\ UNCHANGED <<cmd_queue_sema, objVars, caller, left, res, ctlVars,
                   hw_init_completed, powerVars>>

Run ==                \* cmd_hdl
    /\ ThGoto("run", "post") /\ res' \in {"SUCCESS", "CMD_ERROR"}
    /\ UNCHANGED <<queueVars, objVars, caller, left, cur, ctlVars,
                   hw_init_completed, powerVars>>

Post ==
    /\ ThGoto("post", "complete") /\ mutex = "none" /\ mutex' = "thread"
    /\ UNCHANGED <<queueVars, live, attached, status, caller, left, cur, res, ctlVars,
                   hw_init_completed, powerVars>>

CompleteUnlocked ==   \* lets go of sctx_mutex before the pointer is reset
    /\ \/ cur \in attached /\ ThGoto("complete", "detach")
          /\ status' = [status EXCEPT ![cur] = res] /\ mutex' = "none"
       \/ cur \notin attached /\ ThGoto("complete", "free")
          /\ mutex' = "none" /\ UNCHANGED status
    /\ UNCHANGED <<queueVars, live, attached, caller, left, cur, res, ctlVars,
                   hw_init_completed, powerVars>>

\* rtw_sctx_done_err: status and completion first, then the pointer.
Complete ==
    /\ \/ cur \in attached /\ ThGoto("complete", "detach")
          /\ status' = [status EXCEPT ![cur] = res] /\ UNCHANGED mutex
       \/ cur \notin attached /\ ThGoto("complete", "free")
          /\ mutex' = "none" /\ UNCHANGED status
    /\ UNCHANGED <<queueVars, live, attached, caller, left, cur, res, ctlVars,
                   hw_init_completed, powerVars>>

Detach ==
    /\ ThGoto("detach", "free") /\ attached' = attached \ {cur} /\ mutex' = "none"
    /\ UNCHANGED <<queueVars, live, status, caller, left, cur, res, ctlVars,
                   hw_init_completed, powerVars>>

\* The callback of the command code, which frees the object; back to _next,
\* or to the draining loop.
Free ==
    /\ ThGoto("free", IF res = "CMD_DROP" THEN "drain" ELSE "next")
    /\ live' = live \ {cur} /\ cur' = NoCmd
    /\ UNCHANGED <<queueVars, attached, status, mutex, caller, left, res, ctlVars,
                   hw_init_completed, powerVars>>

LeaveLoop ==
    /\ ThGoto("leave", "close") /\ UnregisterAlive
    /\ UNCHANGED <<queueVars, objVars, caller, left, cur, res, ctlVars,
                   hw_init_completed>>

Close ==
    /\ ThGoto("close", "drain") /\ cmdthd_running' = FALSE
    /\ UNCHANGED <<queueVars, objVars, caller, left, cur, res, ctl, starts, stopped,
                   hw_init_completed, powerVars>>

\* Commands that were never executed complete with RTW_SCTX_DONE_CMD_DROP.
Drain ==
    /\ \/ cmd_queue = <<>> /\ ThGoto("drain", "parked")
          /\ UNCHANGED <<cmd_queue, cur, res>>
       \/ Dequeue /\ ThGoto("drain", "post") /\ res' = "CMD_DROP"
    /\ UNCHANGED <<cmd_queue_sema, objVars, caller, left, ctlVars, hw_init_completed,
                   powerVars>>

Thread ==
    \/ ThreadStart \/ Down \/ Look \/ TakeNext \/ Rest \/ FilterCur \/ RegisterAlive
    \/ RecheckAlive \/ Requeue \/ Run \/ Post \/ Complete \/ Detach \/ Free
    \/ LeaveLoop \/ Close \/ Drain

-----------------------------------------------------------------------------
(* The interface is brought down and up; the hardware comes and goes.      *)

CtlGoto(from, to) == ctl = from /\ ctl' = to

StopDriver ==         \* rtw_set_drv_stopped
    /\ CanStop /\ CtlGoto("up", "sema") /\ stopped' = TRUE
    /\ UNCHANGED <<queueVars, objVars, caller, left, threadVars, starts, cmdthd_running,
                   hw_init_completed, powerVars>>

StopWithoutUp ==      \* waits for a thread nobody woke
    /\ CtlGoto("sema", "join")
    /\ UNCHANGED <<queueVars, objVars, caller, left, threadVars, starts, stopped,
                   cmdthd_running, hw_init_completed, powerVars>>

StopUp ==             \* rtw_stop_cmd_thread wakes the thread
    /\ CtlGoto("sema", "join")
    /\ cmd_queue_sema' = cmd_queue_sema + 1
    /\ UNCHANGED <<cmd_queue, objVars, caller, left, threadVars, starts, stopped,
                   cmdthd_running, hw_init_completed, powerVars>>

Join ==               \* ... and kthread_stop waits for its end
    /\ CtlGoto("join", "deinit") /\ ThGoto("parked", "off")
    /\ UNCHANGED <<queueVars, objVars, caller, left, cur, res, starts, stopped,
                   cmdthd_running, hw_init_completed, powerVars>>

HwDeinit ==           \* rtw_dev_unload goes on to rtw_hal_deinit
    /\ CtlGoto("deinit", "down") /\ hw_init_completed' = FALSE
    /\ UNCHANGED <<queueVars, objVars, caller, left, threadVars, starts, stopped,
                   cmdthd_running, powerVars>>

Restart ==            \* rtw_clr_drv_stopped; rtw_hal_init starts the thread ...
    /\ CtlGoto("down", "starting") /\ ThGoto("off", "start") /\ starts < MaxStarts
    /\ starts' = starts + 1 /\ stopped' = FALSE
    /\ UNCHANGED <<queueVars, objVars, caller, left, cur, res, cmdthd_running,
                   hw_init_completed, powerVars>>

HwInit ==             \* ... before it declares the hardware ready
    /\ CtlGoto("hwinit", "up") /\ hw_init_completed' = TRUE
    /\ UNCHANGED <<queueVars, objVars, caller, left, threadVars, starts, stopped,
                   cmdthd_running, powerVars>>

HwChange ==
    /\ CanLoseHw /\ hw_init_completed' = ~hw_init_completed
    /\ UNCHANGED <<queueVars, objVars, caller, left, threadVars, ctlVars, powerVars>>

Stopper == StopUp \/ Join \/ HwDeinit

Next == \/ Thread \/ Power \/ Stopper \/ StopDriver \/ Restart \/ HwInit
        \/ HwChange
        \/ \E c \in Cmds : Submit(c) \/ Caller(c)

Spec == Init /\ [][Next]_vars

\* The thread, the callers and the work item are scheduled; handlers return.
Fairness == /\ WF_vars(Thread) /\ WF_vars(Stopper) /\ WF_vars(Power)
            /\ \A c \in Cmds : WF_vars(Caller(c))
FairSpec == Spec /\ Fairness

-----------------------------------------------------------------------------
(* Properties.                                                             *)

\* A command that can still be completed into a submit_ctx has a caller that
\* has not returned: the sctx on its stack is there.
SctxIsLive == \A c \in live \cap attached : caller[c] # "idle"

\* A caller that gave up and is about to write cmdobj->sctx finds the object
\* still allocated.
GivesUpSafely == \A c \in Cmds :
    caller[c] = "clear" /\ status[c] = "SUBMITTED" => c \in live

Work == IF th \in Holding THEN <<cur>> \o cmd_queue ELSE cmd_queue

Preparing(c) == caller[c] \in {"filter", "insert"}
Queued(c)    == \E i \in 1..Len(cmd_queue) : cmd_queue[i] = c
InThread(c)  == th \in Holding /\ cur = c

\* Every allocated command has exactly one owner: the caller that prepares it,
\* the queue, or the thread; nothing leaks, is queued twice or freed early.
OneOwner ==
    /\ \A i, j \in 1..Len(cmd_queue) : cmd_queue[i] = cmd_queue[j] => i = j
    /\ \A c \in Cmds :
         /\ c \in live <=> Preparing(c) \/ Queued(c) \/ InThread(c)
         /\ ~(Preparing(c) /\ Queued(c))
         /\ ~(InThread(c) /\ (Preparing(c) \/ Queued(c)))

\* The thread never sleeps on cmd_queue_sema over a command nobody will wake
\* it for.
NoLostWakeup ==
    th = "down" /\ cmd_queue # <<>> =>
        \/ cmd_queue_sema > 0
        \/ \E c \in Cmds : caller[c] = "up"
        \/ rtimer # "off"

\* A synchronous caller's buffers (mgnt_parm->buf) are there while its command
\* is executed, as long as nobody gives up waiting.
CallerStillWaits == th = "run" /\ cur \in Waits => caller[cur] \in {"up", "wait"}

\* "to avoid enqueue cmd after free all cmd_obj": after the thread has emptied
\* the queue for the last time, nothing is in it.
NothingAfterDrain == th \in {"parked", "off"} => cmd_queue = <<>>

\* Every waiting caller comes back.
EveryWaiterReturns == \A c \in Waits : caller[c] = "wait" ~> caller[c] = "idle"

\* rtw_stop_cmd_thread comes back: the thread is woken, empties the queue, ends.
StopCompletes == ctl = "sema" ~> ctl = "down"

\* The queue and the thread together keep the promise of CommandQueue.
Promise == INSTANCE CommandQueue WITH work <- Work
ImplementsCommandQueue == Promise!FairSpec
KeepsCommandOrder == Promise!Spec
=============================================================================
