-------------------------- MODULE SiteSurveyProofs --------------------------
(***************************************************************************)
(* Theorems about scan requests, for every number of channels, waiters and *)
(* calls.                                                                  *)
(***************************************************************************)
EXTENDS SiteSurvey, TLAPS

AbPlaces == {"idle", "abort", "await", "test", "indicate", "clear"}

\* Requests are numbered by the call that made them; rtw_scan_wait_completed
\* promises nothing about one.
Numbers ==
    /\ calls \in Nat /\ kernel_req \in 0..calls
    /\ ab \in [Waiters -> AbPlaces] /\ ab_req \in [Waiters -> Nat]
    /\ \A w \in Waiters : ab_req[w] \leq calls /\ (ab[w] = "await" => ab_req[w] = 0)

\* The driver holds no request while the kernel is handing over a new one.
Agreement ==
    /\ user = "idle" => scan_request = kernel_req
    /\ user # "idle" => scan_request = 0 /\ kernel_req # 0

\* The locks keep the flag; a suspend finds cfg80211 quiet.
Locking ==
    /\ user \in Locked => under_survey
    /\ pm # "up" => user = "idle"

Stopping ==
    /\ cmd = "gone" => Stopped
    /\ pm \in {"timers", "down"} => cmd = "gone"
    /\ pm = "down" => to = "idle" /\ ~scan_to

Reporter == to = "indicate" \/ cmd \in {"cancel", "join", "indicate"}

\* From the moment a suspend has dealt with the survey the flag does not count.
Reporting ==
    /\ scan_request # 0 => under_survey \/ Reporter
    /\ pm \in {"stop", "join", "timers", "down"} /\ scan_request # 0 => Reporter
    /\ pm = "clear" => scan_request = 0

\* Nobody waits yet for the request that is being handed over.
Fresh == user # "idle" => \A w \in Waiters : ab_req[w] # kernel_req

IInv == /\ Numbers /\ Agreement /\ Locking /\ Stopping /\ Reporting /\ Fresh
        /\ AbortAnswers

-----------------------------------------------------------------------------
LEMMA InitInv == Init => IInv
BY DEF Init, IInv, Numbers, AbPlaces, Agreement, Locking, Locked, Stopping, Stopped,
       Reporting, Reporter, Fresh, AbortAnswers

\* The helpers of the actions are expanded everywhere below.
USE DEF kernelVars, timerVars, abortVars, abortRest, suspendRest, UserStep, CmdStep,
        AbStep, PmStep, Takes, Called, IndicateScanDone, ScanReqLockFree, MlmeLockFree,
        Locked, Stopped, Reporter

\* Requests stay numbered by their calls.
LEMMA NumbersStep == ASSUME IInv, [Next]_vars PROVE Numbers'
<1>1. CASE UNCHANGED vars
  BY <1>1 DEF IInv, Numbers, AbPlaces, Agreement, vars
<1>2. CASE Ask
  BY <1>2 DEF IInv, Numbers, AbPlaces, Agreement, Ask
<1>3. CASE ScanCall
  BY <1>3 DEF IInv, Numbers, AbPlaces, Agreement, ScanCall, Wake, CheckPasses,
         TurnAway, SetFlag, EnqueueSurvey, SetRequest, ResetDrvSw
<1>4. CASE SurveyCmd \/ DropSurvey
  BY <1>4 DEF IInv, Numbers, AbPlaces, Agreement, SurveyCmd, DropSurvey
<1>5. CASE TakeDone \/ DoneClearsFlag \/ DoneCancelsTimer
  BY <1>5 DEF IInv, Numbers, AbPlaces, Agreement, TakeDone, DoneClearsFlag,
         DoneCancelsTimer
<1>6. CASE DoneJoins \/ SelfScan
  BY <1>6 DEF IInv, Numbers, AbPlaces, Agreement, DoneJoins, SelfScan, SurveyMyself
<1>7. CASE DoneIndicates
  BY <1>7 DEF IInv, Numbers, AbPlaces, Agreement, DoneIndicates
<1>8. CASE CmdLeaves \/ SelfCheck \/ IpsEnter
  BY <1>8 DEF IInv, Numbers, AbPlaces, Agreement, CmdLeaves, SelfCheck, IpsEnter
<1>9. CASE Timer
  BY <1>9 DEF IInv, Numbers, AbPlaces, Agreement, Timer, ScanTimerFires,
         TimeoutClearsFlag, TimeoutIndicates, SurveyTimerFires, SurveyTimerEnqueues
<1>10. CASE \E w \in Waiters : Waiter(w)
  BY <1>10 DEF IInv, Numbers, AbPlaces, Agreement, Waiter, WaitOver, WaitTest,
         WaitIndicates, WaitEnds
<1>11. CASE \E w \in Waiters : WaitBegins(w, "abort") \/ WaitBegins(w, "await")
  BY <1>11 DEF IInv, Numbers, AbPlaces, Agreement, WaitBegins
<1>12. CASE NoWaitTest \/ NoWaitSet
  BY <1>12 DEF IInv, Numbers, AbPlaces, Agreement, NoWaitTest, NoWaitSet
<1>13. CASE Suspend
  BY <1>13 DEF IInv, Numbers, AbPlaces, Agreement, Suspend
<1>14. CASE Suspending
  BY <1>14 DEF IInv, Numbers, AbPlaces, Agreement, Suspending, SuspendIndicates,
         SuspendClearsFlag, StopDriver, JoinThread, CancelTimers
<1>15. CASE Resume
  BY <1>15 DEF IInv, Numbers, AbPlaces, Agreement, Resume, ResetDrvSw
<1> QED
  BY <1>1, <1>2, <1>3, <1>4, <1>5, <1>6, <1>7, <1>8, <1>9, <1>10, <1>11, <1>12,
     <1>13, <1>14, <1>15 DEF Next, Cmd

\* Kernel and driver agree about the open request.
LEMMA AgreementStep == ASSUME IInv, [Next]_vars PROVE Agreement'
<1>1. CASE UNCHANGED vars
  BY <1>1 DEF IInv, Agreement, Numbers, Locking, vars
<1>2. CASE Ask
  BY <1>2 DEF IInv, Agreement, Numbers, Locking, Ask
<1>3. CASE ScanCall
  BY <1>3 DEF IInv, Agreement, Numbers, Locking, ScanCall, Wake, CheckPasses,
         TurnAway, SetFlag, EnqueueSurvey, SetRequest, ResetDrvSw
<1>4. CASE SurveyCmd \/ DropSurvey
  BY <1>4 DEF IInv, Agreement, Numbers, Locking, SurveyCmd, DropSurvey
<1>5. CASE TakeDone \/ DoneClearsFlag \/ DoneCancelsTimer
  BY <1>5 DEF IInv, Agreement, Numbers, Locking, TakeDone, DoneClearsFlag,
         DoneCancelsTimer
<1>6. CASE DoneJoins \/ SelfScan
  BY <1>6 DEF IInv, Agreement, Numbers, Locking, DoneJoins, SelfScan, SurveyMyself
<1>7. CASE DoneIndicates
  BY <1>7 DEF IInv, Agreement, Numbers, Locking, DoneIndicates
<1>8. CASE CmdLeaves \/ SelfCheck \/ IpsEnter
  BY <1>8 DEF IInv, Agreement, Numbers, Locking, CmdLeaves, SelfCheck, IpsEnter
<1>9. CASE Timer
  BY <1>9 DEF IInv, Agreement, Numbers, Locking, Timer, ScanTimerFires,
         TimeoutClearsFlag, TimeoutIndicates, SurveyTimerFires, SurveyTimerEnqueues
<1>10. CASE \E w \in Waiters : Waiter(w)
  BY <1>10 DEF IInv, Agreement, Numbers, Locking, Waiter, WaitOver, WaitTest,
         WaitIndicates, WaitEnds
<1>11. CASE \E w \in Waiters : WaitBegins(w, "abort") \/ WaitBegins(w, "await")
  BY <1>11 DEF IInv, Agreement, Numbers, Locking, WaitBegins
<1>12. CASE NoWaitTest \/ NoWaitSet
  BY <1>12 DEF IInv, Agreement, Numbers, Locking, NoWaitTest, NoWaitSet
<1>13. CASE Suspend
  BY <1>13 DEF IInv, Agreement, Numbers, Locking, Suspend
<1>14. CASE Suspending
  BY <1>14 DEF IInv, Agreement, Numbers, Locking, Suspending, SuspendIndicates,
         SuspendClearsFlag, StopDriver, JoinThread, CancelTimers
<1>15. CASE Resume
  BY <1>15 DEF IInv, Agreement, Numbers, Locking, Resume, ResetDrvSw
<1> QED
  BY <1>1, <1>2, <1>3, <1>4, <1>5, <1>6, <1>7, <1>8, <1>9, <1>10, <1>11, <1>12,
     <1>13, <1>14, <1>15 DEF Next, Cmd

\* The locks of cfg80211_rtw_scan keep what they protect.
LEMMA LockingStep == ASSUME IInv, [Next]_vars PROVE Locking'
<1>1. CASE UNCHANGED vars
  BY <1>1 DEF IInv, Locking, Agreement, vars
<1>2. CASE Ask
  BY <1>2 DEF IInv, Locking, Agreement, Ask
<1>3. CASE ScanCall
  BY <1>3 DEF IInv, Locking, Agreement, ScanCall, Wake, CheckPasses, TurnAway,
         SetFlag, EnqueueSurvey, SetRequest, ResetDrvSw
<1>4. CASE SurveyCmd \/ DropSurvey
  BY <1>4 DEF IInv, Locking, Agreement, SurveyCmd, DropSurvey
<1>5. CASE TakeDone \/ DoneClearsFlag \/ DoneCancelsTimer
  BY <1>5 DEF IInv, Locking, Agreement, TakeDone, DoneClearsFlag, DoneCancelsTimer
<1>6. CASE DoneJoins \/ SelfScan
  BY <1>6 DEF IInv, Locking, Agreement, DoneJoins, SelfScan, SurveyMyself
<1>7. CASE DoneIndicates
  BY <1>7 DEF IInv, Locking, Agreement, DoneIndicates
<1>8. CASE CmdLeaves \/ SelfCheck \/ IpsEnter
  BY <1>8 DEF IInv, Locking, Agreement, CmdLeaves, SelfCheck, IpsEnter
<1>9. CASE Timer
  BY <1>9 DEF IInv, Locking, Agreement, Timer, ScanTimerFires, TimeoutClearsFlag,
         TimeoutIndicates, SurveyTimerFires, SurveyTimerEnqueues
<1>10. CASE \E w \in Waiters : Waiter(w)
  BY <1>10 DEF IInv, Locking, Agreement, Waiter, WaitOver, WaitTest, WaitIndicates,
         WaitEnds
<1>11. CASE \E w \in Waiters : WaitBegins(w, "abort") \/ WaitBegins(w, "await")
  BY <1>11 DEF IInv, Locking, Agreement, WaitBegins
<1>12. CASE NoWaitTest \/ NoWaitSet
  BY <1>12 DEF IInv, Locking, Agreement, NoWaitTest, NoWaitSet
<1>13. CASE Suspend
  BY <1>13 DEF IInv, Locking, Agreement, Suspend
<1>14. CASE Suspending
  BY <1>14 DEF IInv, Locking, Agreement, Suspending, SuspendIndicates,
         SuspendClearsFlag, StopDriver, JoinThread, CancelTimers
<1>15. CASE Resume
  BY <1>15 DEF IInv, Locking, Agreement, Resume, ResetDrvSw
<1> QED
  BY <1>1, <1>2, <1>3, <1>4, <1>5, <1>6, <1>7, <1>8, <1>9, <1>10, <1>11, <1>12,
     <1>13, <1>14, <1>15 DEF Next, Cmd

\* A stop goes through its stages in order.
LEMMA StoppingStep == ASSUME IInv, [Next]_vars PROVE Stopping'
<1>1. CASE UNCHANGED vars
  BY <1>1 DEF IInv, Stopping, Locking, vars
<1>2. CASE Ask
  BY <1>2 DEF IInv, Stopping, Locking, Ask
<1>3. CASE ScanCall
  BY <1>3 DEF IInv, Stopping, Locking, ScanCall, Wake, CheckPasses, TurnAway,
         SetFlag, EnqueueSurvey, SetRequest, ResetDrvSw
<1>4. CASE SurveyCmd \/ DropSurvey
  BY <1>4 DEF IInv, Stopping, Locking, SurveyCmd, DropSurvey
<1>5. CASE TakeDone \/ DoneClearsFlag \/ DoneCancelsTimer
  BY <1>5 DEF IInv, Stopping, Locking, TakeDone, DoneClearsFlag, DoneCancelsTimer
<1>6. CASE DoneJoins \/ SelfScan
  BY <1>6 DEF IInv, Stopping, Locking, DoneJoins, SelfScan, SurveyMyself
<1>7. CASE DoneIndicates
  BY <1>7 DEF IInv, Stopping, Locking, DoneIndicates
<1>8. CASE CmdLeaves \/ SelfCheck \/ IpsEnter
  BY <1>8 DEF IInv, Stopping, Locking, CmdLeaves, SelfCheck, IpsEnter
<1>9. CASE Timer
  BY <1>9 DEF IInv, Stopping, Locking, Timer, ScanTimerFires, TimeoutClearsFlag,
         TimeoutIndicates, SurveyTimerFires, SurveyTimerEnqueues
<1>10. CASE \E w \in Waiters : Waiter(w)
  BY <1>10 DEF IInv, Stopping, Locking, Waiter, WaitOver, WaitTest, WaitIndicates,
         WaitEnds
<1>11. CASE \E w \in Waiters : WaitBegins(w, "abort") \/ WaitBegins(w, "await")
  BY <1>11 DEF IInv, Stopping, Locking, WaitBegins
<1>12. CASE NoWaitTest \/ NoWaitSet
  BY <1>12 DEF IInv, Stopping, Locking, NoWaitTest, NoWaitSet
<1>13. CASE Suspend
  BY <1>13 DEF IInv, Stopping, Locking, Suspend
<1>14. CASE Suspending
  BY <1>14 DEF IInv, Stopping, Locking, Suspending, SuspendIndicates,
         SuspendClearsFlag, StopDriver, JoinThread, CancelTimers
<1>15. CASE Resume
  BY <1>15 DEF IInv, Stopping, Locking, Resume, ResetDrvSw
<1> QED
  BY <1>1, <1>2, <1>3, <1>4, <1>5, <1>6, <1>7, <1>8, <1>9, <1>10, <1>11, <1>12,
     <1>13, <1>14, <1>15 DEF Next, Cmd

\* An open request keeps somebody who will report it.
LEMMA ReportingStep == ASSUME IInv, [Next]_vars PROVE Reporting'
<1>1. CASE UNCHANGED vars
  BY <1>1 DEF IInv, Reporting, Agreement, Locking, Stopping, vars
<1>2. CASE Ask
  BY <1>2 DEF IInv, Reporting, Agreement, Locking, Stopping, Ask
<1>3. CASE ScanCall
  BY <1>3 DEF IInv, Reporting, Agreement, Locking, Stopping, ScanCall, Wake,
         CheckPasses, TurnAway, SetFlag, EnqueueSurvey, SetRequest, ResetDrvSw
<1>4. CASE SurveyCmd \/ DropSurvey
  BY <1>4 DEF IInv, Reporting, Agreement, Locking, Stopping, SurveyCmd, DropSurvey
<1>5. CASE TakeDone \/ DoneClearsFlag \/ DoneCancelsTimer
  BY <1>5 DEF IInv, Reporting, Agreement, Locking, Stopping, TakeDone,
         DoneClearsFlag, DoneCancelsTimer
<1>6. CASE DoneJoins \/ SelfScan
  BY <1>6 DEF IInv, Reporting, Agreement, Locking, Stopping, DoneJoins, SelfScan,
         SurveyMyself
<1>7. CASE DoneIndicates
  BY <1>7 DEF IInv, Reporting, Agreement, Locking, Stopping, DoneIndicates
<1>8. CASE CmdLeaves \/ SelfCheck \/ IpsEnter
  BY <1>8 DEF IInv, Reporting, Agreement, Locking, Stopping, CmdLeaves, SelfCheck,
         IpsEnter
<1>9. CASE Timer
  BY <1>9 DEF IInv, Reporting, Agreement, Locking, Stopping, Timer, ScanTimerFires,
         TimeoutClearsFlag, TimeoutIndicates, SurveyTimerFires, SurveyTimerEnqueues
<1>10. CASE \E w \in Waiters : Waiter(w)
  BY <1>10 DEF IInv, Reporting, Agreement, Locking, Stopping, Waiter, WaitOver,
         WaitTest, WaitIndicates, WaitEnds
<1>11. CASE \E w \in Waiters : WaitBegins(w, "abort") \/ WaitBegins(w, "await")
  BY <1>11 DEF IInv, Reporting, Agreement, Locking, Stopping, WaitBegins
<1>12. CASE NoWaitTest \/ NoWaitSet
  BY <1>12 DEF IInv, Reporting, Agreement, Locking, Stopping, NoWaitTest, NoWaitSet
<1>13. CASE Suspend
  BY <1>13 DEF IInv, Reporting, Agreement, Locking, Stopping, Suspend
<1>14. CASE Suspending
  BY <1>14 DEF IInv, Reporting, Agreement, Locking, Stopping, Suspending,
         SuspendIndicates, SuspendClearsFlag, StopDriver, JoinThread, CancelTimers
<1>15. CASE Resume
  BY <1>15 DEF IInv, Reporting, Agreement, Locking, Stopping, Resume, ResetDrvSw
<1> QED
  BY <1>1, <1>2, <1>3, <1>4, <1>5, <1>6, <1>7, <1>8, <1>9, <1>10, <1>11, <1>12,
     <1>13, <1>14, <1>15 DEF Next, Cmd

\* A waiter never waits for a request still being made.
LEMMA FreshStep == ASSUME IInv, [Next]_vars PROVE Fresh'
<1>1. CASE UNCHANGED vars
  BY <1>1 DEF IInv, Fresh, Numbers, Agreement, vars
<1>2. CASE Ask
  BY <1>2 DEF IInv, Fresh, Numbers, Agreement, Ask
<1>3. CASE ScanCall
  BY <1>3 DEF IInv, Fresh, Numbers, Agreement, ScanCall, Wake, CheckPasses,
         TurnAway, SetFlag, EnqueueSurvey, SetRequest, ResetDrvSw
<1>4. CASE SurveyCmd \/ DropSurvey
  BY <1>4 DEF IInv, Fresh, Numbers, Agreement, SurveyCmd, DropSurvey
<1>5. CASE TakeDone \/ DoneClearsFlag \/ DoneCancelsTimer
  BY <1>5 DEF IInv, Fresh, Numbers, Agreement, TakeDone, DoneClearsFlag,
         DoneCancelsTimer
<1>6. CASE DoneJoins \/ SelfScan
  BY <1>6 DEF IInv, Fresh, Numbers, Agreement, DoneJoins, SelfScan, SurveyMyself
<1>7. CASE DoneIndicates
  BY <1>7 DEF IInv, Fresh, Numbers, Agreement, DoneIndicates
<1>8. CASE CmdLeaves \/ SelfCheck \/ IpsEnter
  BY <1>8 DEF IInv, Fresh, Numbers, Agreement, CmdLeaves, SelfCheck, IpsEnter
<1>9. CASE Timer
  BY <1>9 DEF IInv, Fresh, Numbers, Agreement, Timer, ScanTimerFires,
         TimeoutClearsFlag, TimeoutIndicates, SurveyTimerFires, SurveyTimerEnqueues
<1>10. CASE \E w \in Waiters : Waiter(w)
  BY <1>10 DEF IInv, Fresh, Numbers, Agreement, Waiter, WaitOver, WaitTest,
         WaitIndicates, WaitEnds
<1>11. CASE \E w \in Waiters : WaitBegins(w, "abort") \/ WaitBegins(w, "await")
  BY <1>11 DEF IInv, Fresh, Numbers, Agreement, WaitBegins
<1>12. CASE NoWaitTest \/ NoWaitSet
  BY <1>12 DEF IInv, Fresh, Numbers, Agreement, NoWaitTest, NoWaitSet
<1>13. CASE Suspend
  BY <1>13 DEF IInv, Fresh, Numbers, Agreement, Suspend
<1>14. CASE Suspending
  BY <1>14 DEF IInv, Fresh, Numbers, Agreement, Suspending, SuspendIndicates,
         SuspendClearsFlag, StopDriver, JoinThread, CancelTimers
<1>15. CASE Resume
  BY <1>15 DEF IInv, Fresh, Numbers, Agreement, Resume, ResetDrvSw
<1> QED
  BY <1>1, <1>2, <1>3, <1>4, <1>5, <1>6, <1>7, <1>8, <1>9, <1>10, <1>11, <1>12,
     <1>13, <1>14, <1>15 DEF Next, Cmd

\* A waiter leaves only when its request is answered or about to be.
LEMMA AbortAnswersStep == ASSUME IInv, [Next]_vars PROVE AbortAnswers'
<1>1. CASE UNCHANGED vars
  BY <1>1 DEF IInv, AbortAnswers, Numbers, AbPlaces, Reporting, Agreement, Fresh,
         Stopping, vars
<1>2. CASE Ask
  BY <1>2 DEF IInv, AbortAnswers, Numbers, AbPlaces, Reporting, Agreement, Fresh,
         Stopping, Ask
<1>3. CASE ScanCall
  BY <1>3 DEF IInv, AbortAnswers, Numbers, AbPlaces, Reporting, Agreement, Fresh,
         Stopping, ScanCall, Wake, CheckPasses, TurnAway, SetFlag, EnqueueSurvey,
         SetRequest, ResetDrvSw
<1>4. CASE SurveyCmd \/ DropSurvey
  BY <1>4 DEF IInv, AbortAnswers, Numbers, AbPlaces, Reporting, Agreement, Fresh,
         Stopping, SurveyCmd, DropSurvey
<1>5. CASE TakeDone \/ DoneClearsFlag \/ DoneCancelsTimer
  BY <1>5 DEF IInv, AbortAnswers, Numbers, AbPlaces, Reporting, Agreement, Fresh,
         Stopping, TakeDone, DoneClearsFlag, DoneCancelsTimer
<1>6. CASE DoneJoins \/ SelfScan
  BY <1>6 DEF IInv, AbortAnswers, Numbers, AbPlaces, Reporting, Agreement, Fresh,
         Stopping, DoneJoins, SelfScan, SurveyMyself
<1>7. CASE DoneIndicates
  BY <1>7 DEF IInv, AbortAnswers, Numbers, AbPlaces, Reporting, Agreement, Fresh,
         Stopping, DoneIndicates
<1>8. CASE CmdLeaves \/ SelfCheck \/ IpsEnter
  BY <1>8 DEF IInv, AbortAnswers, Numbers, AbPlaces, Reporting, Agreement, Fresh,
         Stopping, CmdLeaves, SelfCheck, IpsEnter
<1>9. CASE Timer
  BY <1>9 DEF IInv, AbortAnswers, Numbers, AbPlaces, Reporting, Agreement, Fresh,
         Stopping, Timer, ScanTimerFires, TimeoutClearsFlag, TimeoutIndicates,
         SurveyTimerFires, SurveyTimerEnqueues
<1>10. CASE \E w \in Waiters : Waiter(w)
  <2>1. PICK w \in Waiters : Waiter(w)
    BY <1>10
  <2> SUFFICES ASSUME NEW v \in Waiters, ab'[v] = "clear", ab_req'[v] # 0,
                      ab_req'[v] = scan_request'
               PROVE  Reporter'
    BY DEF AbortAnswers
  <2>2. CASE WaitOver(w)
    BY <2>2 DEF IInv, AbortAnswers, Numbers, Reporting, WaitOver
  <2>3. CASE WaitTest(w)
    BY <2>3 DEF IInv, AbortAnswers, Numbers, Reporting, WaitTest
  <2>4. CASE WaitIndicates(w)
    BY <2>4 DEF IInv, AbortAnswers, Numbers, WaitIndicates
  <2>5. CASE WaitEnds(w)
    BY <2>5 DEF IInv, AbortAnswers, Numbers, WaitEnds
  <2> QED
    BY <2>1, <2>2, <2>3, <2>4, <2>5 DEF Waiter
<1>11. CASE \E w \in Waiters : WaitBegins(w, "abort") \/ WaitBegins(w, "await")
  BY <1>11 DEF IInv, AbortAnswers, Numbers, AbPlaces, Reporting, Agreement, Fresh,
         Stopping, WaitBegins
<1>12. CASE NoWaitTest \/ NoWaitSet
  BY <1>12 DEF IInv, AbortAnswers, Numbers, AbPlaces, Reporting, Agreement, Fresh,
         Stopping, NoWaitTest, NoWaitSet
<1>13. CASE Suspend
  BY <1>13 DEF IInv, AbortAnswers, Numbers, AbPlaces, Reporting, Agreement, Fresh,
         Stopping, Suspend
<1>14. CASE Suspending
  BY <1>14 DEF IInv, AbortAnswers, Numbers, AbPlaces, Reporting, Agreement, Fresh,
         Stopping, Suspending, SuspendIndicates, SuspendClearsFlag, StopDriver,
         JoinThread, CancelTimers
<1>15. CASE Resume
  BY <1>15 DEF IInv, AbortAnswers, Numbers, AbPlaces, Reporting, Agreement, Fresh,
         Stopping, Resume, ResetDrvSw
<1> QED
  BY <1>1, <1>2, <1>3, <1>4, <1>5, <1>6, <1>7, <1>8, <1>9, <1>10, <1>11, <1>12,
     <1>13, <1>14, <1>15 DEF Next, Cmd

LEMMA InvStep == ASSUME IInv, [Next]_vars PROVE IInv'
BY NumbersStep, AgreementStep, LockingStep, StoppingStep, ReportingStep, FreshStep,
   AbortAnswersStep DEF IInv

LEMMA Invariance == Spec => []IInv
BY InitInv, InvStep, PTL DEF Spec

-----------------------------------------------------------------------------
(* The survey itself: types, and what calls its handler again.              *)

USE DEF surveyVars, stimerVars

QueueType == cmd_queue \in Seq({"survey", "done"})

LEMMA AppendQueued ==
    ASSUME NEW q \in Seq({"survey", "done"}), NEW c \in {"survey", "done"}
    PROVE  /\ Append(q, c) \in Seq({"survey", "done"})
           /\ c = "survey" \/ (\E i \in DOMAIN q : q[i] = "survey")
                => \E i \in DOMAIN Append(q, c) : Append(q, c)[i] = "survey"
<1> DEFINE r == Append(q, c)
<1>1. /\ r \in Seq({"survey", "done"}) /\ DOMAIN r = 1..(Len(q) + 1)
      /\ DOMAIN q = 1..Len(q) /\ Len(q) \in Nat
      /\ \A i \in 1..Len(q) : r[i] = q[i]
      /\ r[Len(q) + 1] = c
  OBVIOUS
<1> HIDE DEF r
<1>2. \A i \in DOMAIN q : i \in DOMAIN r /\ r[i] = q[i]
  BY <1>1
<1>3. Len(q) + 1 \in DOMAIN r
  BY <1>1
<1> QED
  BY <1>1, <1>2, <1>3 DEF r

LEMMA TailQueued ==
    ASSUME NEW q \in Seq({"survey", "done"}), q # <<>>
    PROVE  /\ Tail(q) \in Seq({"survey", "done"})
           /\ Head(q) = "done" /\ (\E i \in DOMAIN q : q[i] = "survey")
                => \E i \in DOMAIN Tail(q) : Tail(q)[i] = "survey"
<1>1. Tail(q) \in Seq({"survey", "done"}) /\ Len(Tail(q)) = Len(q) - 1
  OBVIOUS
<1>2. ASSUME Head(q) = "done", NEW i \in DOMAIN q, q[i] = "survey"
      PROVE  \E j \in DOMAIN Tail(q) : Tail(q)[j] = "survey"
  <2>1. i \in 2..Len(q)
    BY <1>2
  <2>2. i - 1 \in DOMAIN Tail(q) /\ Tail(q)[i - 1] = "survey"
    BY <1>1, <1>2, <2>1
  <2> QED
    BY <2>2
<1> QED
  BY <1>1, <1>2

\* A waiter's step leaves the survey alone.
LEMMA WaitersStandBy ==
    ASSUME NEW w \in Waiters, Waiter(w) \/ WaitBegins(w, "abort") \/ WaitBegins(w, "await")
    PROVE  UNCHANGED <<hw, pm, scan_state, survey_timer, sh, cmd_queue>>
BY DEF Waiter, WaitOver, WaitTest, WaitIndicates, WaitEnds, WaitBegins

LEMMA SurveyInit == Init => QueueType /\ SurveyDriven
BY DEF Init, QueueType, SurveyDriven

\* Only surveys and done events are queued.
LEMMA QueueStep == ASSUME QueueType, SurveyDriven, Stopping, [Next]_vars PROVE QueueType'
<1>1. CASE UNCHANGED vars
  BY <1>1 DEF QueueType, vars, surveyVars, stimerVars
<1>2. CASE Ask
  BY <1>2 DEF QueueType, Ask
<1>3. CASE ScanCall
  BY <1>3, AppendQueued DEF QueueType, ScanCall, Wake, CheckPasses, TurnAway,
         SetFlag, EnqueueSurvey, SetRequest, ResetDrvSw, Accepts
<1>4. CASE SurveyCmd \/ DropSurvey
  BY <1>4, AppendQueued, TailQueued DEF QueueType, SurveyCmd, DropSurvey, Announce,
         Start, Enter, NextChannel, StayHome, LeaveHome, Process, Await
<1>5. CASE TakeDone \/ DoneClearsFlag \/ DoneCancelsTimer
  BY <1>5, TailQueued DEF QueueType, TakeDone, DoneClearsFlag, DoneCancelsTimer
<1>6. CASE DoneJoins \/ SelfScan
  BY <1>6, AppendQueued DEF QueueType, DoneJoins, SelfScan, SurveyMyself
<1>7. CASE DoneIndicates
  BY <1>7 DEF QueueType, DoneIndicates
<1>8. CASE CmdLeaves \/ SelfCheck \/ IpsEnter
  <2>1. <<>> \in Seq({"survey", "done"})
    OBVIOUS
  <2> QED
    BY <1>8, <2>1 DEF QueueType, CmdLeaves, SelfCheck, IpsEnter
<1>9. CASE Timer
  BY <1>9, AppendQueued DEF QueueType, Timer, ScanTimerFires, TimeoutClearsFlag,
         TimeoutIndicates, SurveyTimerFires, SurveyTimerEnqueues, Accepts
<1>10. CASE \E w \in Waiters : Waiter(w)
  BY <1>10, WaitersStandBy DEF QueueType
<1>11. CASE \E w \in Waiters : WaitBegins(w, "abort") \/ WaitBegins(w, "await")
  BY <1>11, WaitersStandBy DEF QueueType
<1>12. CASE NoWaitTest \/ NoWaitSet
  BY <1>12 DEF QueueType, NoWaitTest, NoWaitSet
<1>13. CASE Suspend
  BY <1>13 DEF QueueType, Suspend
<1>14. CASE Suspending
  BY <1>14 DEF QueueType, Suspending, SuspendIndicates, SuspendClearsFlag,
         StopDriver, JoinThread, CancelTimers
<1>15. CASE Resume
  BY <1>15 DEF QueueType, Resume, ResetDrvSw
<1> QED
  BY <1>1, <1>2, <1>3, <1>4, <1>5, <1>6, <1>7, <1>8, <1>9, <1>10, <1>11, <1>12,
     <1>13, <1>14, <1>15 DEF Next, Cmd

\* A step that takes away what drives the survey puts another in its place.
LEMMA DrivenStep == ASSUME QueueType, SurveyDriven, Stopping, [Next]_vars PROVE SurveyDriven'
<1>1. CASE UNCHANGED vars
  BY <1>1 DEF QueueType, SurveyDriven, Stopping, vars, surveyVars, stimerVars
<1>2. CASE Ask
  BY <1>2 DEF QueueType, SurveyDriven, Stopping, Ask
<1>3. CASE ScanCall
  BY <1>3, AppendQueued DEF QueueType, SurveyDriven, Stopping, ScanCall, Wake,
         CheckPasses, TurnAway, SetFlag, EnqueueSurvey, SetRequest, ResetDrvSw,
         Accepts
<1>4. CASE SurveyCmd \/ DropSurvey
  BY <1>4, AppendQueued, TailQueued DEF QueueType, SurveyDriven, Stopping,
         SurveyCmd, DropSurvey, Announce, Start, Enter, NextChannel, StayHome,
         LeaveHome, Process, Await
<1>5. CASE TakeDone \/ DoneClearsFlag \/ DoneCancelsTimer
  BY <1>5, TailQueued DEF QueueType, SurveyDriven, Stopping, TakeDone,
         DoneClearsFlag, DoneCancelsTimer
<1>6. CASE DoneJoins \/ SelfScan
  BY <1>6, AppendQueued DEF QueueType, SurveyDriven, Stopping, DoneJoins, SelfScan,
         SurveyMyself
<1>7. CASE DoneIndicates
  BY <1>7 DEF QueueType, SurveyDriven, Stopping, DoneIndicates
<1>8. CASE CmdLeaves \/ SelfCheck \/ IpsEnter
  BY <1>8 DEF QueueType, SurveyDriven, Stopping, CmdLeaves, SelfCheck, IpsEnter
<1>9. CASE Timer
  BY <1>9, AppendQueued DEF QueueType, SurveyDriven, Stopping, Timer,
         ScanTimerFires, TimeoutClearsFlag, TimeoutIndicates, SurveyTimerFires,
         SurveyTimerEnqueues, Accepts
<1>10. CASE \E w \in Waiters : Waiter(w)
  BY <1>10, WaitersStandBy DEF QueueType, SurveyDriven, Stopping
<1>11. CASE \E w \in Waiters : WaitBegins(w, "abort") \/ WaitBegins(w, "await")
  BY <1>11, WaitersStandBy DEF QueueType, SurveyDriven, Stopping
<1>12. CASE NoWaitTest \/ NoWaitSet
  BY <1>12 DEF QueueType, SurveyDriven, Stopping, NoWaitTest, NoWaitSet
<1>13. CASE Suspend
  BY <1>13 DEF QueueType, SurveyDriven, Stopping, Suspend
<1>14. CASE Suspending
  BY <1>14 DEF QueueType, SurveyDriven, Stopping, Suspending, SuspendIndicates,
         SuspendClearsFlag, StopDriver, JoinThread, CancelTimers
<1>15. CASE Resume
  BY <1>15 DEF QueueType, SurveyDriven, Stopping, Resume, ResetDrvSw
<1> QED
  BY <1>1, <1>2, <1>3, <1>4, <1>5, <1>6, <1>7, <1>8, <1>9, <1>10, <1>11, <1>12,
     <1>13, <1>14, <1>15 DEF Next, Cmd

LEMMA SurveyInvariance == Spec => [](QueueType /\ SurveyDriven)
<1>1. IInv => Stopping
  BY DEF IInv
<1> QED
  BY <1>1, SurveyInit, QueueStep, DrivenStep, Invariance, PTL DEF Spec

-----------------------------------------------------------------------------
(* Types: the channel list is never read past its end, the visits home are *)
(* counted up to scan_cnt_max.                                             *)

USE DEF abortVars
USE SurveyAssumption, LimitsAssumption

\* SCAN_PROCESS stands for a channel of the list, and goes to the next one.
Counters ==
    /\ calls \in 0..MaxCalls
    /\ scan_state \in States /\ channel_idx \in 0..ChNum /\ scan_cnt \in 0..ScanCntMax
    /\ scan_state = "PROCESS" => channel_idx < ChNum

PlacesOK ==
    /\ to \in {"idle", "clear", "indicate"} /\ sh \in {"idle", "enqueue"}
    /\ cmd \in CmdPlaces /\ user \in UserPlaces /\ nw \in {"idle", "set"}
    /\ role \in {"none", "sta", "ap"} /\ pm \in PmPlaces

FlagsOK ==
    /\ under_survey \in BOOLEAN /\ scan_abort \in BOOLEAN /\ scan_to \in BOOLEAN
    /\ survey_timer \in BOOLEAN /\ hw \in BOOLEAN

LEMMA TypesInit == Init => Counters /\ PlacesOK /\ FlagsOK
<1>1. Init => Counters
  BY DEF Init, Counters, States
<1>2. Init => PlacesOK
  BY DEF Init, PlacesOK, CmdPlaces, UserPlaces, PmPlaces
<1>3. Init => FlagsOK
  BY DEF Init, FlagsOK
<1> QED
  BY <1>1, <1>2, <1>3

\* A handler of the survey moves to a channel of the list or reports the end.
LEMMA CountersStep == ASSUME Counters, [Next]_vars PROVE Counters'
<1>1. CASE UNCHANGED vars
  BY <1>1 DEF Counters, States, vars
<1>2. CASE Ask
  BY <1>2 DEF Counters, States, Ask
<1>3. CASE ScanCall
  BY <1>3 DEF Counters, States, ScanCall, Wake, CheckPasses, TurnAway, SetFlag,
         EnqueueSurvey, SetRequest, ResetDrvSw
<1>4. CASE SurveyCmd
  BY <1>4 DEF Counters, States, SurveyCmd, Announce, Start, Enter, NextChannel,
         StayHome, LeaveHome, Process, Await
<1>5. CASE DropSurvey \/ TakeDone \/ DoneClearsFlag
  BY <1>5 DEF Counters, States, DropSurvey, TakeDone, DoneClearsFlag
<1>6. CASE DoneCancelsTimer \/ DoneJoins \/ SelfScan
  BY <1>6 DEF Counters, States, DoneCancelsTimer, DoneJoins, SelfScan,
         SurveyMyself
<1>7. CASE DoneIndicates \/ CmdLeaves
  BY <1>7 DEF Counters, States, DoneIndicates, CmdLeaves
<1>8. CASE SelfCheck \/ IpsEnter
  BY <1>8 DEF Counters, States, SelfCheck, IpsEnter
<1>9. CASE Timer
  BY <1>9 DEF Counters, States, Timer, ScanTimerFires, TimeoutClearsFlag,
         TimeoutIndicates, SurveyTimerFires, SurveyTimerEnqueues
<1>10. CASE \E w \in Waiters : Waiter(w)
  BY <1>10 DEF Counters, States, Waiter, WaitOver, WaitTest, WaitIndicates,
         WaitEnds
<1>11. CASE \E w \in Waiters : WaitBegins(w, "abort") \/ WaitBegins(w, "await")
  BY <1>11 DEF Counters, States, WaitBegins
<1>12. CASE NoWaitTest \/ NoWaitSet
  BY <1>12 DEF Counters, States, NoWaitTest, NoWaitSet
<1>13. CASE Suspend
  BY <1>13 DEF Counters, States, Suspend
<1>14. CASE Suspending
  BY <1>14 DEF Counters, States, Suspending, SuspendIndicates,
         SuspendClearsFlag, StopDriver, JoinThread, CancelTimers
<1>15. CASE Resume
  BY <1>15 DEF Counters, States, Resume, ResetDrvSw
<1> QED
  BY <1>1, <1>2, <1>3, <1>4, <1>5, <1>6, <1>7, <1>8, <1>9, <1>10, <1>11, <1>12,
     <1>13, <1>14, <1>15 DEF Next, Cmd

\* Every thread goes from a place of its code to another.
LEMMA PlacesStep == ASSUME PlacesOK, [Next]_vars PROVE PlacesOK'
<1>1. CASE UNCHANGED vars
  BY <1>1 DEF PlacesOK, CmdPlaces, UserPlaces, PmPlaces, vars
<1>2. CASE Ask
  BY <1>2 DEF PlacesOK, CmdPlaces, UserPlaces, PmPlaces, Ask
<1>3. CASE ScanCall
  BY <1>3 DEF PlacesOK, CmdPlaces, UserPlaces, PmPlaces, ScanCall, Wake,
         CheckPasses, TurnAway, SetFlag, EnqueueSurvey, SetRequest, ResetDrvSw
<1>4. CASE SurveyCmd
  BY <1>4 DEF PlacesOK, CmdPlaces, UserPlaces, PmPlaces, SurveyCmd, Announce,
         Start, Enter, NextChannel, StayHome, LeaveHome, Process, Await
<1>5. CASE DropSurvey \/ TakeDone \/ DoneClearsFlag
  BY <1>5 DEF PlacesOK, CmdPlaces, UserPlaces, PmPlaces, DropSurvey, TakeDone,
         DoneClearsFlag
<1>6. CASE DoneCancelsTimer \/ DoneJoins \/ SelfScan
  BY <1>6 DEF PlacesOK, CmdPlaces, UserPlaces, PmPlaces, DoneCancelsTimer,
         DoneJoins, SelfScan, SurveyMyself
<1>7. CASE DoneIndicates \/ CmdLeaves
  BY <1>7 DEF PlacesOK, CmdPlaces, UserPlaces, PmPlaces, DoneIndicates,
         CmdLeaves
<1>8. CASE SelfCheck \/ IpsEnter
  BY <1>8 DEF PlacesOK, CmdPlaces, UserPlaces, PmPlaces, SelfCheck, IpsEnter
<1>9. CASE Timer
  BY <1>9 DEF PlacesOK, CmdPlaces, UserPlaces, PmPlaces, Timer, ScanTimerFires,
         TimeoutClearsFlag, TimeoutIndicates, SurveyTimerFires,
         SurveyTimerEnqueues
<1>10. CASE \E w \in Waiters : Waiter(w)
  BY <1>10 DEF PlacesOK, CmdPlaces, UserPlaces, PmPlaces, Waiter, WaitOver,
         WaitTest, WaitIndicates, WaitEnds
<1>11. CASE \E w \in Waiters : WaitBegins(w, "abort") \/ WaitBegins(w, "await")
  BY <1>11 DEF PlacesOK, CmdPlaces, UserPlaces, PmPlaces, WaitBegins
<1>12. CASE NoWaitTest \/ NoWaitSet
  BY <1>12 DEF PlacesOK, CmdPlaces, UserPlaces, PmPlaces, NoWaitTest, NoWaitSet
<1>13. CASE Suspend
  BY <1>13 DEF PlacesOK, CmdPlaces, UserPlaces, PmPlaces, Suspend
<1>14. CASE Suspending
  BY <1>14 DEF PlacesOK, CmdPlaces, UserPlaces, PmPlaces, Suspending,
         SuspendIndicates, SuspendClearsFlag, StopDriver, JoinThread,
         CancelTimers
<1>15. CASE Resume
  BY <1>15 DEF PlacesOK, CmdPlaces, UserPlaces, PmPlaces, Resume, ResetDrvSw
<1> QED
  BY <1>1, <1>2, <1>3, <1>4, <1>5, <1>6, <1>7, <1>8, <1>9, <1>10, <1>11, <1>12,
     <1>13, <1>14, <1>15 DEF Next, Cmd

LEMMA FlagsStep == ASSUME FlagsOK, [Next]_vars PROVE FlagsOK'
<1>1. CASE UNCHANGED vars
  BY <1>1, Zenon DEF FlagsOK, vars
<1>2. CASE Ask
  BY <1>2, Zenon DEF FlagsOK, Ask
<1>3. CASE ScanCall
  BY <1>3, Zenon DEF FlagsOK, ScanCall, Wake, CheckPasses, TurnAway, SetFlag,
         EnqueueSurvey, SetRequest, ResetDrvSw
<1>4. CASE SurveyCmd
  BY <1>4, Zenon DEF FlagsOK, SurveyCmd, Announce, Start, Enter, NextChannel,
         StayHome, LeaveHome, Process, Await
<1>5. CASE DropSurvey \/ TakeDone \/ DoneClearsFlag
  BY <1>5, Zenon DEF FlagsOK, DropSurvey, TakeDone, DoneClearsFlag
<1>6. CASE DoneCancelsTimer \/ DoneJoins \/ SelfScan
  BY <1>6, Zenon DEF FlagsOK, DoneCancelsTimer, DoneJoins, SelfScan,
         SurveyMyself
<1>7. CASE DoneIndicates \/ CmdLeaves
  BY <1>7, Zenon DEF FlagsOK, DoneIndicates, CmdLeaves
<1>8. CASE SelfCheck \/ IpsEnter
  BY <1>8, Zenon DEF FlagsOK, SelfCheck, IpsEnter
<1>9. CASE Timer
  BY <1>9, Zenon DEF FlagsOK, Timer, ScanTimerFires, TimeoutClearsFlag,
         TimeoutIndicates, SurveyTimerFires, SurveyTimerEnqueues
<1>10. CASE \E w \in Waiters : Waiter(w)
  BY <1>10, Zenon DEF FlagsOK, Waiter, WaitOver, WaitTest, WaitIndicates,
         WaitEnds
<1>11. CASE \E w \in Waiters : WaitBegins(w, "abort") \/ WaitBegins(w, "await")
  BY <1>11, Zenon DEF FlagsOK, WaitBegins
<1>12. CASE NoWaitTest \/ NoWaitSet
  BY <1>12, Zenon DEF FlagsOK, NoWaitTest, NoWaitSet
<1>13. CASE Suspend
  BY <1>13, Zenon DEF FlagsOK, Suspend
<1>14. CASE Suspending
  BY <1>14, Zenon DEF FlagsOK, Suspending, SuspendIndicates, SuspendClearsFlag,
         StopDriver, JoinThread, CancelTimers
<1>15. CASE Resume
  BY <1>15, Zenon DEF FlagsOK, Resume, ResetDrvSw
<1> QED
  BY <1>1, <1>2, <1>3, <1>4, <1>5, <1>6, <1>7, <1>8, <1>9, <1>10, <1>11, <1>12,
     <1>13, <1>14, <1>15 DEF Next, Cmd

LEMMA TypesInvariance == Spec => [](Counters /\ PlacesOK /\ FlagsOK)
BY TypesInit, CountersStep, PlacesStep, FlagsStep, PTL DEF Spec

-----------------------------------------------------------------------------
\* Outside cfg80211_rtw_scan, scan_request is the kernel's open request: no
\* answer is lost, repeated or given for another request, whoever gives it.
THEOREM RequestAgreement == Spec => []KernelAgrees
<1>1. IInv => KernelAgrees
  BY DEF IInv, Agreement, KernelAgrees
<1> QED
  BY <1>1, Invariance, PTL

\* While a request is open, _FW_UNDER_SURVEY is set or a thread that cleared it
\* is on its way to rtw_cfg80211_indicate_scan_done.
THEOREM RequestReporting == Spec => []RequestHasReporter
<1>1. IInv => RequestHasReporter
  BY DEF IInv, Reporting, RequestHasReporter
<1> QED
  BY <1>1, Invariance, PTL

\* _rtw_wait_scan_done returns from an abort with its request answered, or about
\* to be by the thread that ended the survey.
THEOREM AbortSafety == Spec => []AbortAnswers
<1>1. IInv => AbortAnswers
  BY DEF IInv
<1> QED
  BY <1>1, Invariance, PTL

\* No request is open once rtw_dev_unload has returned.
THEOREM SuspendSafety == Spec => []DownIsQuiet
<1>1. IInv => DownIsQuiet
  BY DEF IInv, Agreement, Locking, Stopping, Reporting, DownIsQuiet
<1> QED
  BY <1>1, Invariance, PTL

\* Whatever state sitesurvey_cmd_hdl has left, survey_timer, its handler or a
\* queued _SiteSurvey command will call it again while the chip is awake.
THEOREM SurveyNeverStalls == Spec => []SurveyDriven
BY SurveyInvariance, PTL

\* Every variable has its type: in particular channel_idx, which indexes the
\* ch_num channels of struct ss_res, and the counter of visits home.
THEOREM SurveyTypes == Spec => []TypeOK
<1>1. IInv /\ QueueType /\ Counters /\ PlacesOK /\ FlagsOK => TypeOK
  <2> SUFFICES ASSUME IInv, QueueType, Counters, PlacesOK, FlagsOK PROVE TypeOK
    OBVIOUS
  <2>1. kernel_req \in 0..MaxCalls /\ scan_request \in 0..MaxCalls
    BY DEF IInv, Numbers, Agreement, Counters
  <2>2. /\ ab \in [Waiters -> {"idle", "abort", "await", "test", "indicate", "clear"}]
        /\ ab_req \in [Waiters -> 0..MaxCalls]
    BY DEF IInv, Numbers, AbPlaces, Counters
  <2> QED
    BY <2>1, <2>2, Zenon DEF TypeOK, QueueType, Counters, PlacesOK, FlagsOK
<1> QED
  BY <1>1, Invariance, SurveyInvariance, TypesInvariance, PTL
=============================================================================
