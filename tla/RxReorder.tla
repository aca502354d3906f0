----------------------------- MODULE RxReorder -----------------------------
(***************************************************************************)
(* The A-MPDU receive reordering window of one (station, TID):             *)
(* struct recv_reorder_ctrl, core/rtw_recv.c and the code that writes to   *)
(* it from elsewhere.                                                      *)
(*                                                                         *)
(* Four threads touch it.  "rx" is rtw_recv_thread, which takes a data     *)
(* frame through recv_decache, recv_indicatepkt_reorder and, when no       *)
(* session is enabled, the direct path of recv_func_posthandle.  "timer"   *)
(* is rtw_reordering_ctrl_timeout_handler.  "cmd" is add_ba_rsp_hdl in the *)
(* command thread.  "free" is rtw_free_stainfo.  rx, timer and free hold   *)
(* the pending queue's spinlock; cmd, the DELBA and BAR handlers and the   *)
(* direct path write indicate_seq and enable without it.                   *)
(*                                                                         *)
(* A frame is its position n in the originator's stream; what the driver   *)
(* sees of it is the 12-bit number Sn(n).                                  *)
(***************************************************************************)
EXTENDS Integers, Sequences, FiniteSets, SequencesExt

CONSTANTS
    WSize,            \* wsize_b, 64 in the driver
    FirstFrame,       \* the originator's stream is FirstFrame..LastFrame
    LastFrame,
    Established,      \* TRUE: the run starts with the session enabled
    MaxAddba,         \* ADDBA exchanges after the start
    MaxDelba,         \* teardowns, from either side
    MaxBar,           \* block ack requests
    MaxOut,           \* no frame arrives once MaxOut were indicated
    CanStop,          \* the driver may be stopped
    CanFree           \* the station may be freed

ASSUME WSizeAssumption  == WSize \in Nat /\ 1 <= WSize /\ WSize <= 2048
ASSUME StreamAssumption == FirstFrame \in Nat /\ LastFrame \in Nat
ASSUME BoundsAssumption ==
    /\ MaxAddba \in Nat /\ MaxDelba \in Nat /\ MaxBar \in Nat /\ MaxOut \in Nat
    /\ Established \in BOOLEAN /\ CanStop \in BOOLEAN /\ CanFree \in BOOLEAN

Frames  == FirstFrame..LastFrame
NoFrame == -1
Unset   == 65535                        \* indicate_seq = 0xFFFF
LastSeqNum == 4095
SeqNums == 0..LastSeqNum                \* 12-bit sequence numbers

Sn(n)         == n % 4096
PlainLess(a, b) == a < b
SN_LESS(a, b) == (a - b) % 4096 >= 2048

VARIABLES
    enable, indicate_seq, bReorderWaiting,   \* struct recv_reorder_ctrl
    pending,          \* pending_recvframe_queue, head first
    timer,            \* reordering_ctrl_timer is pending
    lock,             \* who holds the queue's lock, or "none"
    pc,               \* pc[t]: where thread t is
    frame,            \* frame[t]: the recv_frame in thread t's hands
    wend,             \* rx's local wend of check_indicate_seq
    rxseq,            \* rxcache.tid_rxseq: the last frame decached
    stopped,          \* RTW_CANNOT_RUN
    out,              \* frames handed to recv_process_mpdu, in order
    winO,             \* originator: first frame it still tries to deliver
    agreed,           \* originator: believes the session is open
    left              \* remaining ADDBA, DELBA and BAR exchanges

ctrl  == <<enable, indicate_seq, bReorderWaiting>>
peer  == <<winO, agreed, left>>
vars  == <<ctrl, pending, timer, lock, pc, frame, wend, rxseq, stopped, out, peer>>

Threads    == {"rx", "timer", "cmd", "free"}
Indicators == {"rx", "timer"}
Exchanges  == {"addba", "delba", "bar"}

Places == {"idle", "enable", "lock", "init", "drop", "slide", "insert", "loop", "up", "done",
           "cancel", "direct", "process", "advance", "entry", "force", "ack", "store",
           "reject", "drain"}

PcOK    == pc \in [Threads -> Places] /\ lock \in Threads \cup {"none"}
FlagsOK == /\ enable \in BOOLEAN /\ bReorderWaiting \in BOOLEAN /\ timer \in BOOLEAN
           /\ stopped \in BOOLEAN /\ agreed \in BOOLEAN
SeqOK   == indicate_seq \in SeqNums \cup {Unset}
QueueOK == pending \in Seq(Frames) /\ out \in Seq(Frames)
LocalOK == /\ frame \in [Indicators -> Frames \cup {NoFrame}]
           /\ wend \in SeqNums
           /\ rxseq \in SeqNums \cup {Unset}
PeerOK  == winO \in Nat /\ left \in [Exchanges -> Nat]

\* A thread has a frame in its hands exactly where the code holds a pointer.
FrameHeld ==
    /\ pc["rx"] \in {"enable", "lock", "init", "drop", "slide", "insert", "up",
                     "direct", "process"} => frame["rx"] # NoFrame
    /\ pc["timer"] = "up" => frame["timer"] # NoFrame

TypeOK == PcOK /\ FlagsOK /\ SeqOK /\ QueueOK /\ LocalOK /\ PeerOK /\ FrameHeld

Init ==
    /\ enable = Established
    /\ indicate_seq = Unset /\ bReorderWaiting = FALSE
    /\ pending = <<>> /\ timer = FALSE /\ lock = "none"
    /\ pc = [t \in Threads |-> "idle"]
    /\ frame = [t \in Indicators |-> NoFrame]
    /\ wend = 0 /\ rxseq = Unset /\ stopped = FALSE /\ out = <<>>
    /\ winO = FirstFrame /\ agreed = Established
    /\ left = [k \in Exchanges |-> CASE k = "addba" -> MaxAddba
                                     [] k = "delba" -> MaxDelba
                                     [] k = "bar"   -> MaxBar]

At(t, from)      == pc[t] = from
Goto(t, from, to) == At(t, from) /\ pc' = [pc EXCEPT ![t] = to]
Drops(t)   == frame' = [frame EXCEPT ![t] = NoFrame]   \* t's local goes out of scope
Acquire(t) == lock = "none" /\ lock' = t
Release    == lock' = "none"

-----------------------------------------------------------------------------
(* Receive thread: rtw_recv_thread -> recv_func.                           *)

\* The originator transmits n, for the first time or again, and the receive
\* thread looks up the station and drops an immediate duplicate.  Without an
\* open session the originator sends one frame at a time.
Arrive(n) ==
    /\ At("rx", "idle") /\ At("free", "idle") /\ ~stopped
    /\ Len(out) < MaxOut
    /\ n \in winO .. winO + (IF agreed THEN WSize ELSE 1) - 1
    /\ rxseq # Sn(n)
    /\ rxseq' = Sn(n)
    /\ frame' = [frame EXCEPT !["rx"] = n]
    /\ pc' = [pc EXCEPT !["rx"] = "enable"]
    /\ UNCHANGED <<ctrl, pending, timer, lock, wend, stopped, out, peer>>

TestEnable ==
    /\ Goto("rx", "enable", IF enable THEN "lock" ELSE "direct")
    /\ UNCHANGED <<ctrl, pending, timer, lock, frame, wend, rxseq, stopped, out, peer>>

RxLock ==
    /\ Goto("rx", "lock", "init") /\ Acquire("rx")
    /\ UNCHANGED <<ctrl, pending, timer, frame, wend, rxseq, stopped, out, peer>>

rxSn == Sn(frame["rx"])

\* check_indicate_seq, first part: wend is computed before a fresh window is
\* given its start.
InitWindow ==
    /\ Goto("rx", "init", "drop")
    /\ wend' = (indicate_seq + WSize - 1) % 4096
    /\ indicate_seq' = IF indicate_seq = Unset THEN rxSn ELSE indicate_seq
    /\ UNCHANGED <<enable, bReorderWaiting, pending, timer, lock, frame, rxseq,
                   stopped, out, peer>>

DropOld ==
    /\ IF SN_LESS(rxSn, indicate_seq)
       THEN Goto("rx", "drop", "idle") /\ Release /\ Drops("rx")
       ELSE Goto("rx", "drop", "slide") /\ UNCHANGED <<lock, frame>>
    /\ UNCHANGED <<ctrl, pending, timer, wend, rxseq, stopped, out, peer>>

SlideNoWrap ==      \* the branch for a window that spans 4095 is missing
    /\ Goto("rx", "slide", "insert")
    /\ indicate_seq' =
         IF rxSn = indicate_seq THEN (indicate_seq + 1) % 4096
         ELSE IF SN_LESS(wend, rxSn) THEN rxSn + 1 - WSize
         ELSE indicate_seq
    /\ wend' = 0
    /\ UNCHANGED <<enable, bReorderWaiting, pending, timer, lock, frame, rxseq,
                   stopped, out, peer>>

SlideWindow ==
    /\ Goto("rx", "slide", "insert")
    /\ indicate_seq' =
         IF rxSn = indicate_seq THEN (indicate_seq + 1) % 4096
         ELSE IF SN_LESS(wend, rxSn)
              THEN IF rxSn >= WSize - 1 THEN rxSn + 1 - WSize
                                        ELSE 4095 - (WSize - (rxSn + 1)) + 1
         ELSE indicate_seq
    /\ wend' = 0
    /\ UNCHANGED <<enable, bReorderWaiting, pending, timer, lock, frame, rxseq,
                   stopped, out, peer>>

\* Position of the first queued frame that is not SN_LESS than sn.
InsertionPoint(i, sn) ==
    /\ i \in 1 .. Len(pending) + 1
    /\ \A j \in 1 .. i - 1 : SN_LESS(Sn(pending[j]), sn)
    /\ i <= Len(pending) => ~SN_LESS(Sn(pending[i]), sn)

NeverDuplicate(i, sn) == FALSE
IsDuplicate(i, sn) == i <= Len(pending) /\ Sn(pending[i]) = sn

\* enqueue_reorder_recvframe
InsertSorted ==
    /\ \E i \in 1 .. Len(pending) + 1 :
         /\ InsertionPoint(i, rxSn)
         /\ IF IsDuplicate(i, rxSn)
            THEN Goto("rx", "insert", "idle") /\ Release /\ UNCHANGED pending
            ELSE /\ Goto("rx", "insert", "loop") /\ UNCHANGED lock
                 /\ pending' = InsertAt(pending, i, frame["rx"])
    /\ Drops("rx")
    /\ UNCHANGED <<ctrl, timer, wend, rxseq, stopped, out, peer>>

-----------------------------------------------------------------------------
(* recv_indicatepkts_in_order, run by rx and by the timer handler.         *)

Blocked == pending # <<>> /\ SN_LESS(indicate_seq, Sn(Head(pending)))

TakeHead(t) ==
    /\ pending # <<>> /\ ~Blocked
    /\ Goto(t, "loop", "up")
    /\ frame' = [frame EXCEPT ![t] = Head(pending)]
    /\ pending' = Tail(pending)
    /\ UNCHANGED <<ctrl, timer, lock, wend, rxseq, stopped, out, peer>>

IndicateHead(t) ==
    /\ Goto(t, "up", "loop")
    /\ indicate_seq' = IF indicate_seq = Sn(frame[t])
                       THEN (indicate_seq + 1) % 4096 ELSE indicate_seq
    /\ out' = Append(out, frame[t])
    /\ Drops(t)
    /\ UNCHANGED <<enable, bReorderWaiting, pending, timer, lock, wend, rxseq,
                   stopped, peer>>

EndLoop(t) ==
    /\ pending = <<>> \/ Blocked
    /\ Goto(t, "loop", "done")
    /\ UNCHANGED <<ctrl, pending, timer, lock, frame, wend, rxseq, stopped, out, peer>>

FinishKeepsFlag ==  \* bReorderWaiting survives the cancelled timer
    /\ IF pending # <<>>
       THEN /\ Goto("rx", "done", "idle")
            /\ bReorderWaiting' = TRUE
            /\ IF bReorderWaiting THEN UNCHANGED timer ELSE timer' = TRUE
       ELSE /\ Goto("rx", "done", "cancel")
            /\ UNCHANGED <<bReorderWaiting, timer>>
    /\ Release
    /\ UNCHANGED <<enable, indicate_seq, pending, frame, wend, rxseq, stopped, out, peer>>

\* End of recv_indicatepkt_reorder.  bPktInBuf is "pending is not empty":
\* the loop ends blocked or drained, and the lock is still held.
RxFinish ==
    /\ IF pending # <<>>
       THEN /\ Goto("rx", "done", "idle")
            /\ bReorderWaiting' = TRUE
            /\ IF bReorderWaiting THEN UNCHANGED timer ELSE timer' = TRUE
       ELSE /\ Goto("rx", "done", "cancel")
            /\ bReorderWaiting' = FALSE
            /\ UNCHANGED timer
    /\ Release
    /\ UNCHANGED <<enable, indicate_seq, pending, frame, wend, rxseq, stopped, out, peer>>

\* _cancel_timer_ex is del_timer_sync: it waits for a running handler.
RxCancelTimer ==
    /\ Goto("rx", "cancel", "idle")
    /\ At("timer", "idle")
    /\ timer' = FALSE
    /\ UNCHANGED <<ctrl, pending, lock, frame, wend, rxseq, stopped, out, peer>>

\* No session: recv_set_iseq_before_mpdu_process, recv_process_mpdu,
\* recv_set_iseq_after_mpdu_process, without the lock.
DirectSet ==
    /\ Goto("rx", "direct", "process")
    /\ indicate_seq' = rxSn
    /\ UNCHANGED <<enable, bReorderWaiting, pending, timer, lock, frame, wend, rxseq,
                   stopped, out, peer>>

DirectProcess ==
    /\ Goto("rx", "process", "advance")
    /\ out' = Append(out, frame["rx"])
    /\ Drops("rx")
    /\ UNCHANGED <<ctrl, pending, timer, lock, wend, rxseq, stopped, peer>>

DirectAdvance ==
    /\ Goto("rx", "advance", "idle")
    /\ indicate_seq' = (indicate_seq + 1) % 4096
    /\ UNCHANGED <<enable, bReorderWaiting, pending, timer, lock, frame, wend, rxseq,
                   stopped, out, peer>>

-----------------------------------------------------------------------------
(* rtw_reordering_ctrl_timeout_handler.                                    *)

TimerFires ==
    /\ timer /\ Goto("timer", "idle", "entry")
    /\ timer' = FALSE
    /\ UNCHANGED <<ctrl, pending, lock, frame, wend, rxseq, stopped, out, peer>>

TimerEntry ==
    /\ Goto("timer", "entry", IF stopped THEN "idle" ELSE "lock")
    /\ UNCHANGED <<ctrl, pending, timer, lock, frame, wend, rxseq, stopped, out, peer>>

TimerLock ==
    /\ Goto("timer", "lock", "force") /\ Acquire("timer")
    /\ bReorderWaiting' = FALSE
    /\ UNCHANGED <<enable, indicate_seq, pending, timer, frame, wend, rxseq, stopped,
                   out, peer>>

\* The forced part of recv_indicatepkts_in_order.  With nothing queued it
\* answers TRUE, and the handler rearms the timer.
TimerForce ==
    /\ IF pending = <<>>
       THEN Goto("timer", "force", "idle") /\ timer' = TRUE /\ Release
            /\ UNCHANGED indicate_seq
       ELSE Goto("timer", "force", "loop") /\ indicate_seq' = Sn(Head(pending))
            /\ UNCHANGED <<timer, lock>>
    /\ UNCHANGED <<enable, bReorderWaiting, pending, frame, wend, rxseq, stopped, out, peer>>

FinishWithoutRearm ==
    /\ Goto("timer", "done", "idle") /\ Release
    /\ UNCHANGED <<ctrl, pending, timer, frame, wend, rxseq, stopped, out, peer>>

TimerFinish ==
    /\ Goto("timer", "done", "idle") /\ Release
    /\ IF pending # <<>> THEN timer' = TRUE ELSE UNCHANGED timer
    /\ UNCHANGED <<ctrl, pending, frame, wend, rxseq, stopped, out, peer>>

-----------------------------------------------------------------------------
(* Block Ack session management.                                           *)

Spend(k) == left[k] > 0 /\ left' = [left EXCEPT ![k] = @ - 1]

\* Some thread is between the load of indicate_seq and the store of its successor.
Increments ==
    \/ \E t \in Indicators : At(t, "up") /\ indicate_seq = Sn(frame[t])
    \/ At("rx", "slide") /\ (rxSn = indicate_seq \/ SN_LESS(wend, rxSn))
    \/ At("rx", "advance")

\* A store to indicate_seq without the queue's lock is lost when it falls
\* between the two.
RacingStore(v) == indicate_seq' = v \/ (Increments /\ UNCHANGED indicate_seq)

\* add_ba_rsp_hdl: the answer is on the air, and acknowledged, before the
\* window is reset and the session enabled.
AddbaIssueRsp(accept) ==
    /\ Spend("addba") /\ ~stopped /\ At("free", "idle")
    /\ Goto("cmd", "idle", IF accept THEN "ack" ELSE "reject")
    /\ UNCHANGED <<ctrl, pending, timer, lock, frame, wend, rxseq, stopped, out, winO, agreed>>

AddbaAck ==
    /\ Goto("cmd", "ack", "store")
    /\ agreed' = TRUE
    /\ UNCHANGED <<ctrl, pending, timer, lock, frame, wend, rxseq, stopped, out, winO, left>>

AddbaReset ==
    /\ Goto("cmd", "store", "enable")
    /\ RacingStore(Unset)
    /\ UNCHANGED <<enable, bReorderWaiting, pending, timer, lock, frame, wend, rxseq,
                   stopped, out, peer>>

AddbaEnable ==
    /\ Goto("cmd", "enable", "idle")
    /\ enable' = TRUE
    /\ UNCHANGED <<indicate_seq, bReorderWaiting, pending, timer, lock, frame, wend, rxseq,
                   stopped, out, peer>>

AddbaReject ==
    /\ Goto("cmd", "reject", "idle")
    /\ RacingStore(Unset) /\ enable' = FALSE
    /\ UNCHANGED <<bReorderWaiting, pending, timer, lock, frame, wend, rxseq,
                   stopped, out, peer>>

\* OnAction_back with the originator's DELBA: the queue is left as it is.
DelbaReceived ==
    /\ Spend("delba") /\ At("rx", "idle") /\ ~stopped /\ At("free", "idle")
    /\ agreed /\ agreed' = FALSE /\ enable' = FALSE
    /\ UNCHANGED <<indicate_seq, bReorderWaiting, pending, timer, lock, pc, frame, wend,
                   rxseq, stopped, out, winO>>

\* send_delba as recipient, from the command thread's housekeeping.
DelbaSent ==
    /\ Spend("delba") /\ At("cmd", "idle") /\ ~stopped /\ At("free", "idle")
    /\ enable /\ enable' = FALSE
    /\ UNCHANGED <<indicate_seq, bReorderWaiting, pending, timer, lock, pc, frame, wend,
                   rxseq, stopped, out, winO, agreed>>

PeerHearsDelba ==
    /\ agreed /\ ~enable /\ At("cmd", "idle")
    /\ agreed' = FALSE
    /\ UNCHANGED <<ctrl, pending, timer, lock, pc, frame, wend, rxseq, stopped, out,
                   winO, left>>

\* rtw_process_bar_frame, in the receive thread.  The originator names the
\* first frame it still tries to deliver.
BarReceived ==
    /\ Spend("bar") /\ At("rx", "idle") /\ ~stopped /\ At("free", "idle") /\ agreed
    /\ RacingStore(Sn(winO))
    /\ UNCHANGED <<enable, bReorderWaiting, pending, timer, lock, pc, frame, wend, rxseq,
                   stopped, out, winO, agreed>>

\* The originator is done with winO: acknowledged, or out of retries.
PeerAdvances ==
    /\ winO <= LastFrame
    /\ winO' = winO + 1
    /\ UNCHANGED <<ctrl, pending, timer, lock, pc, frame, wend, rxseq, stopped, out,
                   agreed, left>>

-----------------------------------------------------------------------------
(* rtw_free_stainfo and driver stop.                                       *)

\* Also while add_ba_rsp_hdl, past its look-up, waits for its answer's report.
FreeUnhash ==
    /\ CanFree /\ Goto("free", "idle", "cancel")
    /\ UNCHANGED <<ctrl, pending, timer, lock, frame, wend, rxseq, stopped, out, peer>>

FreeCancelTimer ==
    /\ Goto("free", "cancel", "lock")
    /\ At("timer", "idle")
    /\ timer' = FALSE
    /\ UNCHANGED <<ctrl, pending, lock, frame, wend, rxseq, stopped, out, peer>>

FreeLock ==
    /\ Goto("free", "lock", "drain") /\ Acquire("free")
    /\ UNCHANGED <<ctrl, pending, timer, frame, wend, rxseq, stopped, out, peer>>

FreeDrain ==
    /\ Goto("free", "drain", "done") /\ Release
    /\ pending' = <<>>
    /\ UNCHANGED <<ctrl, timer, frame, wend, rxseq, stopped, out, peer>>

Stop ==
    /\ CanStop /\ ~stopped /\ stopped' = TRUE
    /\ UNCHANGED <<ctrl, pending, timer, lock, pc, frame, wend, rxseq, out, peer>>

-----------------------------------------------------------------------------
InOrderStep(t) == TakeHead(t) \/ IndicateHead(t) \/ EndLoop(t)

RxLocked == InitWindow \/ DropOld \/ SlideWindow \/ InsertSorted \/ InOrderStep("rx")
              \/ RxFinish
RxStep == TestEnable \/ RxLock \/ RxLocked \/ RxCancelTimer
            \/ DirectSet \/ DirectProcess \/ DirectAdvance
TimerStep == TimerEntry \/ TimerLock \/ TimerForce \/ InOrderStep("timer") \/ TimerFinish
CmdStep == AddbaAck \/ AddbaReset \/ AddbaEnable \/ AddbaReject
FreeStep == FreeCancelTimer \/ FreeLock \/ FreeDrain

Next ==
    \/ \E n \in Frames : Arrive(n)
    \/ RxStep \/ TimerFires \/ TimerStep \/ CmdStep
    \/ \E accept \in BOOLEAN : AddbaIssueRsp(accept)
    \/ DelbaReceived \/ DelbaSent \/ PeerHearsDelba \/ BarReceived \/ PeerAdvances
    \/ FreeUnhash \/ FreeStep \/ Stop

Spec == Init /\ [][Next]_vars

\* Kernel threads and softirqs that can run do run; a timer that is armed
\* expires; spin_lock_bh is a queued lock, so a waiter is not overtaken for
\* ever.  Nothing is assumed of the air, of the peer or of the administrator.
Fairness ==
    /\ WF_vars(RxStep) /\ SF_vars(RxLock) /\ SF_vars(RxCancelTimer)
    /\ WF_vars(TimerFires) /\ WF_vars(TimerStep) /\ SF_vars(TimerLock)
    /\ WF_vars(CmdStep) /\ WF_vars(FreeStep) /\ SF_vars(FreeLock)

FairSpec == Spec /\ Fairness

-----------------------------------------------------------------------------
(* Properties.                                                             *)

\* The sorted insertion keeps its order under every interleaving of the
\* unlocked stores to indicate_seq: each queued frame is strictly before its
\* successor in 12-bit serial order, so no frame is queued twice in a row.
QueueSorted ==
    \A i \in 1 .. Len(pending) - 1 : SN_LESS(Sn(pending[i]), Sn(pending[i + 1]))

HandlerRuns == ~At("timer", "idle")

\* No frame is stranded: whenever frames are queued and nobody holds the lock,
\* the reordering timer is armed or its handler is on its way to the lock.
\* bReorderWaiting, which suppresses arming, must never outlive the timer.
PendingHasTimer ==
    pending # <<>> /\ ~stopped /\ At("free", "idle")
       => timer \/ HandlerRuns \/ lock # "none"

\* rtw_recv.c:3235 "Insert all packet into Reorder Queue to maintain its
\* ordering": a frame that leaves the queue is later in the stream than every
\* frame the network stack already has.
LeavesInOrder ==
    [][\A t \in Indicators : IndicateHead(t) => \A i \in DOMAIN out : out[i] < frame[t]]_vars

\* rtw_sta_mgt.c:688 cancels the timer and empties the queue of a station that
\* goes away: once that is over and the receive thread has finished its frame,
\* neither holds anything of the station.
FreedIsQuiet ==
    At("free", "done") /\ At("rx", "idle") => pending = <<>> /\ ~timer

\* Every queued frame leaves the queue, however the session is torn down,
\* renegotiated or moved by a BAR meanwhile, until its station is gone: neither
\* the receive thread nor rtw_free_stainfo waits for ever for a timer handler that
\* waits for the queue's lock.  What is queued after that, FreedIsQuiet is about.
EveryFrameLeaves ==
    \A n \in Frames :
        (n \in Range(pending)) ~> (n \notin Range(pending) \/ At("free", "done"))

\* With the session up, the window over 12-bit numbers implements the buffer
\* over the originator's unbounded stream.
InHand == {frame[t] : t \in {u \in Indicators : At(u, "up")}}
RB == INSTANCE ReorderBuffer WITH buf <- Range(pending) \cup InHand
ImplementsReorderBuffer == RB!FairSpec

\* What that means to the network stack: frames leave in stream order, each at
\* most once, and none that is still queued or in a thread's hands was overtaken.
DeliversInOrder == RB!InOrder
=============================================================================
