----------------------------- MODULE SiteSurvey -----------------------------
(***************************************************************************)
(* A site survey and the scan requests it answers: cfg80211_rtw_scan,      *)
(* rtw_sitesurvey_cmd, the handler of _SiteSurvey in the command thread,   *)
(* the survey timer, the surveydone event, the scan timeout, the waiters   *)
(* of _rtw_wait_scan_done, inactive power save and system suspend.         *)
(*                                                                         *)
(* Requests are numbered in the order the kernel makes them; kernel_req is *)
(* its rdev->scan_req, 0 when none is open.  cfg80211 calls (scan,         *)
(* connect, disconnect, close) are serialised by rtnl_lock: they are the   *)
(* one actor "user".  "proc" is a second thread that aborts scans outside  *)
(* that lock.  The command queue holds only the commands of this component.*)
(***************************************************************************)
EXTENDS Integers, Sequences

CONSTANTS
    ChNum,            \* ss->ch_num of every survey
    ScanCntMax,       \* ss->scan_cnt_max: channels between two visits home
    MaxCalls,         \* bound: scans of the kernel and of the driver itself, calls
                      \* of _rtw_wait_scan_done and rtw_scan_abort_no_wait, suspends
    CanTimeout,       \* scan_to_timer and the waiters may run out of time
    Waiters           \* the threads that wait for a scan to end

ASSUME SurveyAssumption == ChNum \in Nat \ {0} /\ ScanCntMax \in Nat \ {0}
ASSUME LimitsAssumption == MaxCalls \in Nat /\ CanTimeout \in BOOLEAN
ASSUME WaitersAssumption == "user" \in Waiters

VARIABLES
    calls,                            \* the calls counted by MaxCalls
    kernel_req,                       \* cfg80211: rdev->scan_req
    scan_request,                     \* rtw_wdev_priv.scan_request
    under_survey,                     \* _FW_UNDER_SURVEY in fw_state
    scan_state, channel_idx, scan_cnt,  \* struct ss_res
    scan_abort,
    scan_to, to,                      \* scan_to_timer is pending; its handler
    survey_timer, sh,                 \* the same for survey_timer
    cmd_queue, cmd,                   \* "survey" and "done" commands; the thread
    user,                             \* cfg80211_rtw_scan
    ab, ab_req,                       \* _rtw_wait_scan_done; the request it is to end
    nw,                               \* rtw_scan_abort_no_wait
    role, hw,                         \* what is connected; the chip is not in IPS
    pm                                \* system suspend and resume

kernelVars == <<kernel_req, scan_request, user>>
surveyVars == <<scan_state, channel_idx, scan_cnt>>
timerVars  == <<scan_to, to>>
stimerVars == <<survey_timer, sh>>
abortVars  == <<ab, ab_req, nw>>
vars == <<calls, kernelVars, under_survey, surveyVars, scan_abort, timerVars,
          stimerVars, cmd_queue, cmd, abortVars, role, hw, pm>>

UserPlaces == {"idle", "wake", "check", "lock", "enqueue", "request"}
\* cfg80211_rtw_scan holds scan_req_lock and mlme_priv.lock here.
Locked     == {"enqueue", "request"}
CmdPlaces  == {"idle", "self", "clear", "cancel", "join", "indicate", "gone"}
States     == {"DISABLE", "PS_ANNC_WAIT", "PROCESS", "BACK_OP"}
PmPlaces   == {"up", "flag", "clear", "stop", "join", "timers", "down"}

TypeOK ==
    /\ calls \in 0..MaxCalls
    /\ kernel_req \in 0..MaxCalls /\ scan_request \in 0..MaxCalls
    /\ under_survey \in BOOLEAN /\ scan_abort \in BOOLEAN
    /\ scan_state \in States /\ channel_idx \in 0..ChNum /\ scan_cnt \in 0..ScanCntMax
    /\ scan_to \in BOOLEAN /\ to \in {"idle", "clear", "indicate"}
    /\ survey_timer \in BOOLEAN /\ sh \in {"idle", "enqueue"}
    /\ cmd_queue \in Seq({"survey", "done"}) /\ cmd \in CmdPlaces
    /\ user \in UserPlaces
    /\ ab \in [Waiters -> {"idle", "abort", "await", "test", "indicate", "clear"}]
    /\ ab_req \in [Waiters -> 0..MaxCalls] /\ nw \in {"idle", "set"}
    /\ role \in {"none", "sta", "ap"} /\ hw \in BOOLEAN
    /\ pm \in PmPlaces

Init ==
    /\ calls = 0 /\ kernel_req = 0 /\ scan_request = 0 /\ user = "idle"
    /\ under_survey = FALSE /\ scan_state = "DISABLE" /\ channel_idx = 0
    /\ scan_cnt = 0
    /\ scan_abort = FALSE /\ scan_to = FALSE /\ to = "idle"
    /\ survey_timer = FALSE /\ sh = "idle"
    /\ cmd_queue = <<>> /\ cmd = "idle"
    /\ ab = [w \in Waiters |-> "idle"] /\ ab_req = [w \in Waiters |-> 0]
    /\ nw = "idle"
    /\ role \in {"none", "sta", "ap"} /\ hw = TRUE /\ pm = "up"

\* The two spinlocks, as the other threads find them.
ScanReqLockFree == user \notin Locked
MlmeLockFree    == user \notin Locked

\* rtw_cmd_filter for a command that needs I/O.
Accepts == cmd # "gone" /\ hw

IndicateKeepsRequest ==   \* forgets scan_request = NULL
    /\ ScanReqLockFree
    /\ kernel_req' = IF scan_request # 0 THEN 0 ELSE kernel_req
    /\ UNCHANGED <<scan_request, user>>

\* rtw_cfg80211_indicate_scan_done, under scan_req_lock.
IndicateScanDone ==
    /\ ScanReqLockFree
    /\ IF scan_request # 0 THEN kernel_req' = 0 /\ scan_request' = 0
                           ELSE UNCHANGED <<kernel_req, scan_request>>
    /\ UNCHANGED user

\* One more call from outside.
Called == calls < MaxCalls /\ calls' = calls + 1

\* rtw_reset_drv_sw, as far as a survey is concerned.
ResetDrvSw ==
    /\ under_survey' = FALSE
    /\ scan_state' = "DISABLE" /\ UNCHANGED <<channel_idx, scan_cnt>>

-----------------------------------------------------------------------------
(* cfg80211_rtw_scan and rtw_sitesurvey_cmd.                               *)

UserStep(from, to_) == user = from /\ user' = to_

\* The kernel calls ops->scan only while no request of its own is open.
Ask ==
    /\ Called /\ kernel_req = 0 /\ pm = "up" /\ ab["user"] = "idle"
    /\ UserStep("idle", "wake")
    /\ kernel_req' = calls'
    /\ UNCHANGED <<scan_request, under_survey, surveyVars, scan_abort, timerVars,
                   stimerVars, cmd_queue, cmd, abortVars, role, hw, pm>>

\* rtw_ps_deny(PS_DENY_SCAN) and rtw_pwr_wakeup: ips_leave resets the software state.
Wake ==
    /\ UserStep("wake", "check")
    /\ hw' = TRUE
    /\ IF hw THEN UNCHANGED <<under_survey, surveyVars>> ELSE ResetDrvSw
    /\ UNCHANGED <<calls, kernel_req, scan_request, scan_abort, timerVars, stimerVars,
                   cmd_queue, cmd, abortVars, role, pm>>

\* The chip does not wake up, a survey is under way, the scan is denied, traffic
\* is busy, a join is under way; or rtw_sitesurvey_cmd finds no memory.
TurnAway ==
    /\ user \in {"wake", "check", "lock"} /\ user' = "idle" /\ kernel_req' = 0
    /\ UNCHANGED <<calls, scan_request, under_survey, surveyVars, scan_abort,
                   timerVars, stimerVars, cmd_queue, cmd, abortVars, role, hw, pm>>

CheckPasses ==
    /\ ~under_survey /\ UserStep("check", "lock")
    /\ UNCHANGED <<calls, kernel_req, scan_request, under_survey, surveyVars,
                   scan_abort, timerVars, stimerVars, cmd_queue, cmd, abortVars, role,
                   hw, pm>>

\* The two locks are taken; then the flag is set.
SetFlag ==
    /\ UserStep("lock", "enqueue") /\ under_survey' = TRUE
    /\ UNCHANGED <<calls, kernel_req, scan_request, surveyVars, scan_abort, timerVars,
                   stimerVars, cmd_queue, cmd, abortVars, role, hw, pm>>

\* rtw_enqueue_cmd: the thread runs and the chip is awake.
EnqueueSurvey ==
    /\ Accepts /\ UserStep("enqueue", "request")
    /\ cmd_queue' = Append(cmd_queue, "survey")
    /\ UNCHANGED <<calls, kernel_req, scan_request, under_survey, surveyVars,
                   scan_abort, timerVars, stimerVars, cmd, abortVars, role, hw, pm>>

\* The scan timer is armed and the request kept; the locks are given back.
SetRequest ==
    /\ UserStep("request", "idle") /\ scan_request' = kernel_req /\ scan_to' = TRUE
    /\ UNCHANGED <<calls, kernel_req, under_survey, surveyVars, scan_abort, to,
                   stimerVars, cmd_queue, cmd, abortVars, role, hw, pm>>

ScanCall == \/ Wake \/ CheckPasses \/ TurnAway \/ SetFlag
            \/ EnqueueSurvey \/ SetRequest

-----------------------------------------------------------------------------
(* The command thread: sitesurvey_cmd_hdl.                                 *)

\* The handler ends by asking for another _SiteSurvey command.
Await(state) ==
    /\ scan_state' = state /\ survey_timer' = TRUE
    /\ cmd_queue' = Tail(cmd_queue)

\* The rest of the handler from SCAN_PROCESS on, where channel i with count c
\* is due: scan_abort_hdl, sitesurvey_pick_ch_behavior and what its result means.
Process(i, c) ==
    LET idx == IF scan_abort THEN ChNum ELSE i IN
    /\ scan_abort' = FALSE /\ channel_idx' = idx
    /\ scan_cnt' = IF idx < ChNum /\ role = "ap" /\ c < ScanCntMax THEN c + 1 ELSE 0
    /\ \/ idx < ChNum /\ ~(role = "ap" /\ c = ScanCntMax) /\ Await("PROCESS")
       \/ idx < ChNum /\ role = "ap" /\ c = ScanCntMax /\ Await("BACK_OP")
       \/ /\ idx = ChNum                 \* report_surveydone_event
          /\ scan_state' = "DISABLE" /\ UNCHANGED survey_timer
          /\ cmd_queue' = Append(Tail(cmd_queue), "done")

\* SCAN_START: a null frame with the power bit is on its way to our AP.
Announce == /\ scan_state = "DISABLE" /\ role = "sta"
            /\ channel_idx' = 0 /\ scan_cnt' = 0 /\ Await("PS_ANNC_WAIT")
            /\ UNCHANGED scan_abort

Start == scan_state = "DISABLE" /\ role # "sta" /\ Process(0, 0)

Enter == scan_state = "PS_ANNC_WAIT" /\ Process(channel_idx, scan_cnt)

NextChannel == scan_state = "PROCESS" /\ Process(channel_idx + 1, scan_cnt)

StayHomeCounts ==     \* counts the visits in scan_cnt
    /\ scan_state = "BACK_OP" /\ ~scan_abort
    /\ Await("BACK_OP") /\ scan_cnt' = scan_cnt + 1 /\ UNCHANGED <<channel_idx, scan_abort>>

StayHomeForGood ==    \* forgets set_survey_timer
    /\ scan_state = "BACK_OP" /\ ~scan_abort
    /\ cmd_queue' = Tail(cmd_queue)
    /\ UNCHANGED <<surveyVars, survey_timer, scan_abort>>

StayHome ==
    /\ scan_state = "BACK_OP" /\ ~scan_abort
    /\ Await("BACK_OP") /\ UNCHANGED <<channel_idx, scan_cnt, scan_abort>>

LeaveHome == scan_state = "BACK_OP" /\ Process(channel_idx, scan_cnt)

Stopped == pm \in {"join", "timers", "down"}

Takes(c) == cmd = "idle" /\ ~Stopped /\ cmd_queue # <<>> /\ Head(cmd_queue) = c

SurveyCmd ==
    /\ Takes("survey") /\ hw
    /\ Announce \/ Start \/ Enter \/ NextChannel \/ StayHome \/ LeaveHome
    /\ UNCHANGED <<calls, kernelVars, under_survey, timerVars, sh, cmd, abortVars,
                   role, hw, pm>>

\* rtw_cmd_filter refuses it; rtw_survey_cmd_callback arms the timer with 1 ms.
DropSurvey ==
    /\ Takes("survey") /\ ~hw
    /\ cmd_queue' = Tail(cmd_queue) /\ scan_to' = TRUE
    /\ UNCHANGED <<calls, kernelVars, under_survey, surveyVars, scan_abort, to,
                   stimerVars, cmd, abortVars, role, hw, pm>>

-----------------------------------------------------------------------------
(* The command thread: rtw_surveydone_event_callback, the driver's own     *)
(* scans, inactive power save.                                             *)

CmdStep(from, to_) == cmd = from /\ cmd' = to_

TakeDone ==
    /\ Takes("done") /\ cmd_queue' = Tail(cmd_queue)
    /\ cmd' = IF hw THEN "clear" ELSE "idle"
    /\ UNCHANGED <<calls, kernelVars, under_survey, surveyVars, scan_abort, timerVars,
                   stimerVars, abortVars, role, hw, pm>>

DoneKeepsFlag ==      \* forgets _clr_fwstate_
    /\ MlmeLockFree /\ CmdStep("clear", "cancel")
    /\ UNCHANGED <<calls, kernelVars, under_survey, surveyVars, scan_abort, timerVars,
                   stimerVars, cmd_queue, abortVars, role, hw, pm>>

DoneClearsFlag ==
    /\ MlmeLockFree /\ CmdStep("clear", "cancel") /\ under_survey' = FALSE
    /\ UNCHANGED <<calls, kernelVars, surveyVars, scan_abort, timerVars, stimerVars,
                   cmd_queue, abortVars, role, hw, pm>>

\* _cancel_timer_ex waits for a handler that runs.
DoneCancelsTimer ==
    /\ to = "idle" /\ CmdStep("cancel", "join") /\ scan_to' = FALSE
    /\ UNCHANGED <<calls, kernelVars, under_survey, surveyVars, scan_abort, to,
                   stimerVars, cmd_queue, abortVars, role, hw, pm>>

\* rtw_sitesurvey_cmd where the caller is the command thread itself.
SurveyMyself ==
    /\ MlmeLockFree /\ Called
    /\ under_survey' = TRUE /\ scan_to' = TRUE
    /\ cmd_queue' = Append(cmd_queue, "survey")

JoinSkipsAnswer ==    \* returns once a candidate is joined
    /\ \/ MlmeLockFree /\ CmdStep("join", "idle")
          /\ UNCHANGED <<calls, under_survey, scan_to, cmd_queue>>
       \/ SurveyMyself /\ CmdStep("join", "indicate")
    /\ UNCHANGED <<kernelVars, surveyVars, scan_abort, to, stimerVars, abortVars,
                   role, hw, pm>>

\* to_join: a candidate is joined, or roaming scans once more.
DoneJoins ==
    /\ CmdStep("join", "indicate")
    /\ \/ MlmeLockFree /\ UNCHANGED <<calls, under_survey, scan_to, cmd_queue>>
       \/ SurveyMyself
    /\ UNCHANGED <<kernelVars, surveyVars, scan_abort, to, stimerVars, abortVars,
                   role, hw, pm>>

DoneIndicates ==
    /\ CmdStep("indicate", "idle") /\ IndicateScanDone
    /\ UNCHANGED <<calls, under_survey, surveyVars, scan_abort, timerVars, stimerVars,
                   cmd_queue, abortVars, role, hw, pm>>

\* rtw_drv_scan_by_self looks at the flag, takes the lock later.
SelfCheck ==
    /\ CmdStep("idle", "self") /\ ~under_survey /\ ~Stopped /\ hw
    /\ UNCHANGED <<calls, kernelVars, under_survey, surveyVars, scan_abort, timerVars,
                   stimerVars, cmd_queue, abortVars, role, hw, pm>>

SelfScan ==
    /\ CmdStep("self", "idle") /\ SurveyMyself
    /\ UNCHANGED <<kernelVars, surveyVars, scan_abort, to, stimerVars, abortVars,
                   role, hw, pm>>

\* rtw_ps_processor: nothing connected, no survey; ips_deny_time and
\* ps_processing keep it apart from rtw_pwr_wakeup.
IpsEnter ==
    /\ cmd = "idle" /\ pm = "up" /\ hw /\ role = "none"
    /\ ~under_survey /\ user \in {"idle", "wake"} /\ hw' = FALSE
    /\ UNCHANGED <<calls, kernelVars, under_survey, surveyVars, scan_abort, timerVars,
                   stimerVars, cmd_queue, cmd, abortVars, role, pm>>

\* The loop ends on RTW_CANNOT_RUN; what is left in the queue is freed.
CmdLeaves ==
    /\ Stopped /\ CmdStep("idle", "gone") /\ cmd_queue' = <<>>
    /\ UNCHANGED <<calls, kernelVars, under_survey, surveyVars, scan_abort, timerVars,
                   stimerVars, abortVars, role, hw, pm>>

Cmd == \/ SurveyCmd \/ DropSurvey \/ TakeDone \/ DoneClearsFlag \/ DoneCancelsTimer
       \/ DoneJoins \/ DoneIndicates \/ SelfScan \/ CmdLeaves

-----------------------------------------------------------------------------
(* The two timers.                                                         *)

ScanTimerFires ==
    /\ scan_to /\ to = "idle" /\ CanTimeout
    /\ scan_to' = FALSE /\ to' = "clear"
    /\ UNCHANGED <<calls, kernelVars, under_survey, surveyVars, scan_abort,
                   stimerVars, cmd_queue, cmd, abortVars, role, hw, pm>>

TimeoutKeepsQuiet ==  \* forgets rtw_indicate_scan_done
    /\ MlmeLockFree /\ to = "clear" /\ to' = "idle" /\ under_survey' = FALSE
    /\ UNCHANGED <<calls, kernelVars, surveyVars, scan_abort, scan_to, stimerVars,
                   cmd_queue, cmd, abortVars, role, hw, pm>>

\* rtw_scan_timeout_handler: the survey itself goes on.
TimeoutClearsFlag ==
    /\ MlmeLockFree /\ to = "clear" /\ to' = "indicate" /\ under_survey' = FALSE
    /\ UNCHANGED <<calls, kernelVars, surveyVars, scan_abort, scan_to, stimerVars,
                   cmd_queue, cmd, abortVars, role, hw, pm>>

TimeoutIndicates ==
    /\ to = "indicate" /\ to' = "idle" /\ IndicateScanDone
    /\ UNCHANGED <<calls, under_survey, surveyVars, scan_abort, scan_to, stimerVars,
                   cmd_queue, cmd, abortVars, role, hw, pm>>

\* survey_timer_hdl
SurveyTimerFires ==
    /\ survey_timer /\ sh = "idle"
    /\ survey_timer' = FALSE
    /\ sh' = IF scan_state = "DISABLE" THEN "idle" ELSE "enqueue"
    /\ UNCHANGED <<calls, kernelVars, under_survey, surveyVars, scan_abort, timerVars,
                   cmd_queue, cmd, abortVars, role, hw, pm>>

SurveyTimerEnqueues ==
    /\ sh = "enqueue" /\ sh' = "idle"
    /\ cmd_queue' = IF Accepts THEN Append(cmd_queue, "survey") ELSE cmd_queue
    /\ UNCHANGED <<calls, kernelVars, under_survey, surveyVars, scan_abort, timerVars,
                   survey_timer, cmd, abortVars, role, hw, pm>>

Timer == ScanTimerFires \/ TimeoutClearsFlag \/ TimeoutIndicates
         \/ SurveyTimerFires \/ SurveyTimerEnqueues

-----------------------------------------------------------------------------
(* _rtw_wait_scan_done and rtw_scan_abort_no_wait.                         *)

AbStep(w, from, to_) == ab[w] = from /\ ab' = [ab EXCEPT ![w] = to_]

abortRest == <<under_survey, surveyVars, timerVars, stimerVars, cmd_queue, cmd, nw,
               role, hw, pm>>

\* rtw_scan_abort_timeout ("abort") or rtw_scan_wait_completed ("await").
WaitBegins(w, mode) ==
    /\ AbStep(w, "idle", mode) /\ Called /\ pm = "up"
    /\ w = "user" => user = "idle"
    /\ ab_req' = [ab_req EXCEPT ![w] = IF mode = "abort" THEN scan_request ELSE 0]
    /\ scan_abort' = (mode = "abort")
    /\ UNCHANGED <<kernelVars, abortRest>>

WaitOver(w) ==
    /\ ~under_survey \/ CanTimeout \/ Stopped
    /\ AbStep(w, "abort", "test") \/ AbStep(w, "await", "clear")
    /\ UNCHANGED <<calls, kernelVars, scan_abort, ab_req, abortRest>>

WaitTestAlways(w) ==  \* takes it that the survey has ended
    /\ AbStep(w, "test", "clear")
    /\ UNCHANGED <<calls, kernelVars, scan_abort, ab_req, abortRest>>

WaitTest(w) ==
    /\ AbStep(w, "test", IF under_survey THEN "indicate" ELSE "clear")
    /\ UNCHANGED <<calls, kernelVars, scan_abort, ab_req, abortRest>>

WaitIndicates(w) ==
    /\ AbStep(w, "indicate", "clear") /\ IndicateScanDone
    /\ UNCHANGED <<calls, scan_abort, ab_req, abortRest>>

WaitEnds(w) ==
    /\ AbStep(w, "clear", "idle") /\ scan_abort' = FALSE
    /\ UNCHANGED <<calls, kernelVars, ab_req, abortRest>>

Waiter(w) == WaitOver(w) \/ WaitTest(w) \/ WaitIndicates(w) \/ WaitEnds(w)

NoWaitTest ==
    /\ nw = "idle" /\ under_survey /\ Called
    /\ nw' = "set"
    /\ UNCHANGED <<kernelVars, under_survey, surveyVars, scan_abort, timerVars,
                   stimerVars, cmd_queue, cmd, ab, ab_req, role, hw, pm>>

NoWaitSet ==
    /\ nw = "set" /\ nw' = "idle" /\ scan_abort' = TRUE
    /\ UNCHANGED <<calls, kernelVars, under_survey, surveyVars, timerVars, stimerVars,
                   cmd_queue, cmd, ab, ab_req, role, hw, pm>>

-----------------------------------------------------------------------------
(* System suspend: rtw_suspend_common, rtw_suspend_normal, rtw_dev_unload. *)
(* Threads that serve system calls are frozen before it begins.            *)

PmStep(from, to_) == pm = from /\ pm' = to_

suspendRest == <<surveyVars, scan_abort, stimerVars, cmd_queue, abortVars, role>>

\* rtw_mi_cancel_all_timer; the chip stays in IPS if it is there.
Suspend ==
    /\ Called /\ PmStep("up", "flag")
    /\ user = "idle" /\ \A w \in Waiters : ab[w] = "idle"
    /\ to = "idle" /\ scan_to' = FALSE
    /\ UNCHANGED <<kernelVars, under_survey, to, cmd, hw, suspendRest>>

SuspendForgetsScan == \* goes on without a look at the flag
    /\ PmStep("flag", "stop")
    /\ UNCHANGED <<calls, kernelVars, under_survey, timerVars, cmd, hw, suspendRest>>

\* rtw_suspend_free_assoc_resource: the scan is reported before the flag goes.
SuspendIndicates ==
    /\ IF under_survey THEN PmStep("flag", "clear") /\ IndicateScanDone
                       ELSE PmStep("flag", "stop") /\ UNCHANGED kernelVars
    /\ UNCHANGED <<calls, under_survey, timerVars, cmd, hw, suspendRest>>

SuspendClearsFlag ==
    /\ PmStep("clear", "stop") /\ under_survey' = FALSE
    /\ UNCHANGED <<calls, kernelVars, timerVars, cmd, hw, suspendRest>>

\* rtw_set_drv_stopped
StopDriver ==
    /\ PmStep("stop", "join")
    /\ UNCHANGED <<calls, kernelVars, under_survey, timerVars, cmd, hw, suspendRest>>

\* rtw_stop_drv_threads waits for the thread; rtw_hal_deinit.
JoinThread ==
    /\ cmd = "gone" /\ PmStep("join", "timers") /\ hw' = FALSE
    /\ UNCHANGED <<calls, kernelVars, under_survey, timerVars, cmd, suspendRest>>

\* rtw_cancel_all_timer
CancelTimers ==
    /\ to = "idle" /\ PmStep("timers", "down") /\ scan_to' = FALSE
    /\ UNCHANGED <<calls, kernelVars, under_survey, to, cmd, hw, suspendRest>>

\* rtw_resume_process_normal: rtw_reset_drv_sw, then the chip and the threads.
Resume ==
    /\ PmStep("down", "up") /\ ResetDrvSw
    /\ hw' = TRUE /\ cmd' = "idle"
    /\ UNCHANGED <<calls, kernelVars, scan_abort, timerVars, stimerVars, cmd_queue,
                   abortVars, role>>

Suspending == \/ SuspendIndicates \/ SuspendClearsFlag \/ StopDriver
              \/ JoinThread \/ CancelTimers

-----------------------------------------------------------------------------
Next == \/ Ask \/ ScanCall \/ Cmd \/ SelfCheck \/ IpsEnter \/ Timer
        \/ \E w \in Waiters : Waiter(w) \/ WaitBegins(w, "abort") \/ WaitBegins(w, "await")
        \/ NoWaitTest \/ NoWaitSet
        \/ Suspend \/ Suspending \/ Resume

Spec == Init /\ [][Next]_vars

\* The threads and softirqs run, an armed timer expires, and the time on the
\* operating channel passes.
Fairness ==
    /\ WF_vars(ScanCall) /\ WF_vars(Cmd) /\ SF_vars(SurveyCmd /\ LeaveHome)
    /\ WF_vars(ScanTimerFires) /\ WF_vars(TimeoutClearsFlag) /\ WF_vars(TimeoutIndicates)
    /\ WF_vars(SurveyTimerFires) /\ WF_vars(SurveyTimerEnqueues)
    /\ WF_vars(Suspending) /\ \A w \in Waiters : WF_vars(Waiter(w))

FairSpec == Spec /\ Fairness

-----------------------------------------------------------------------------
\* Outside cfg80211_rtw_scan the driver holds exactly the request the kernel
\* waits for: none is forgotten, answered twice or answered for another one.
KernelAgrees == user = "idle" => scan_request = kernel_req

\* The flag is clear while a request is open only if somebody who cleared it
\* is about to report: rtw_sitesurvey_cmd, the done event, the timeout, an
\* abort and a suspend may all be half way through.
RequestHasReporter ==
    scan_request # 0 =>
        \/ under_survey
        \/ to = "indicate"
        \/ cmd \in {"cancel", "join", "indicate"}

\* A survey on its way always has something that calls its handler again.
SurveyDriven ==
    hw /\ ~Stopped /\ scan_state # "DISABLE" =>
        \/ survey_timer \/ sh = "enqueue"
        \/ \E i \in DOMAIN cmd_queue : cmd_queue[i] = "survey"

\* When rtw_scan_abort returns, the request it found is answered, or the
\* thread that ended the survey is about to answer it.
AbortAnswers == \A w \in Waiters :
    ab[w] = "clear" /\ ab_req[w] # 0 /\ ab_req[w] = scan_request
        => to = "indicate" \/ cmd \in {"cancel", "join", "indicate"}

\* rtw_suspend_free_assoc_resource and the stop leave no open request behind,
\* whatever the command thread and the timers were doing when it began.
DownIsQuiet == pm = "down" => kernel_req = 0

\* Every request of the kernel is answered.
EveryRequestAnswered == kernel_req # 0 ~> kernel_req = 0

\* _FW_UNDER_SURVEY never stays while the driver is up: it would turn away every
\* later scan.  What a suspend catches is cleared by rtw_reset_drv_sw on resume.
SurveyEnds == under_survey ~> ~under_survey \/ pm = "down"
=============================================================================
