------------------------------- MODULE TxPath -------------------------------
(***************************************************************************)
(* Transmission over SDIO: threads that issue management frames (some of   *)
(* them waiting for the chip's report), the network stack, the thread      *)
(* RTWHALXT that packs data frames into buffers, the thread                *)
(* RTW_XMIT_THREAD that writes buffers to the chip, a survey that holds    *)
(* most frames back, the chip's transmit reports and the driver's stop.    *)
(*                                                                         *)
(* A frame is a pair: a sender and its try, or Net and a number.  The      *)
(* firmware is awake: rtw_register_tx_alive always succeeds here.          *)
(***************************************************************************)
EXTENDS Integers, Sequences, FiniteSets, SequencesExt

CONSTANTS
    Senders,          \* threads in one call of issue_xxx
    Waits,            \* those with wait_ms > 0
    Probes,           \* those whose frame may be sent during a survey
    OnCmd,            \* those that are the command thread
    Net,              \* the network stack, as the sender of data frames
    ExtBufs, DataBufs,  \* struct xmit_buf with buf_tag XMITBUF_MGNT, XMITBUF_DATA
    Nothing,          \* NULL
    TryCnt,           \* try_cnt of the waiting senders
    MaxAgg,           \* frames in one data buffer
    FifoSize,         \* frames the chip has room for
    MaxCalls,         \* bound: data frames, calls of issue_xxx, surveys, stops
    SemaMax           \* bound: the semaphores saturate here

ASSUME SendersAssumption ==
    /\ Waits \subseteq Senders /\ Probes \subseteq Senders /\ OnCmd \subseteq Senders
    /\ Net \notin Senders /\ Nothing \notin Senders
ASSUME BuffersAssumption ==
    /\ ExtBufs \cap DataBufs = {} /\ Nothing \notin ExtBufs \cup DataBufs
ASSUME LimitsAssumption ==
    /\ TryCnt \in Nat \ {0} /\ MaxAgg \in Nat \ {0} /\ FifoSize \in Nat \ {0}
    /\ MaxCalls \in Nat /\ SemaMax \in Nat \ {0}

VARIABLES
    calls,            \* the calls counted by MaxCalls
    free,             \* free_xmit_extbuf_queue and free_xmitbuf_queue
    load,             \* the frames in a buffer
    pending, sema,    \* pending_xmitbuf_queue, xmit_sema
    xpc, xbuf,        \* RTW_XMIT_THREAD and its pxmitbuf
    acq, sdio_sema,   \* the frames of one station and AC, SdioXmitSema
    dpc, dbuf,        \* RTWHALXT and its pxmitbuf
    spc, sbuf, try, told,   \* the senders: place, pxmitbuf, i, what they were told
    mutex,            \* holder of ack_tx_mutex
    ack_tx, done, status,   \* ack_tx, ack_tx_ops.done, ack_tx_ops.status
    credit,           \* the frame whose report completed a sender's wait
    chip, reports, acked,   \* frames in the chip; its C2H reports; frames acknowledged
    survey, kick,     \* frames are held back; the schedule to follow
    stopped, stp      \* bDriverStopped; rtw_dev_unload

bufVars    == <<free, load, pending, sema>>
xmitVars   == <<xpc, xbuf>>
fillVars   == <<acq, sdio_sema, dpc, dbuf>>
sendVars   == <<spc, sbuf, try, told>>
ackVars    == <<mutex, ack_tx, done, status, credit>>
chipVars   == <<chip, reports, acked>>
surveyVars == <<survey, kick>>
stopVars   == <<stopped, stp>>
vars == <<calls, bufVars, xmitVars, fillVars, sendVars, ackVars, chipVars, surveyVars,
          stopVars>>

Bufs   == ExtBufs \cup DataBufs
Frames == (Senders \X (1..TryCnt)) \cup ({Net} \X (1..MaxCalls))
Kinds  == {"probe", "other", "data"}
KindOf(f) == IF f[1] = Net THEN "data" ELSE IF f[1] \in Probes THEN "probe" ELSE "other"

SenderPlaces == {"idle", "alloc", "dump", "lock", "init", "put", "up", "wait"}
XmitPlaces   == {"down", "check", "select", "probe", "any", "poll",
                 "free", "exit"}
FillPlaces   == {"down", "next", "fill", "full", "fullup", "put", "up", "exit"}
StopPlaces   == {"up", "ack", "cmd", "xmit", "sdio", "down"}

TypeOK ==
    /\ calls \in 0..MaxCalls
    /\ free \subseteq Bufs /\ load \in [Bufs -> Seq(Frames)]
    /\ pending \in Seq(Bufs) /\ sema \in 0..SemaMax
    /\ xpc \in XmitPlaces /\ xbuf \in Bufs \cup {Nothing}
    /\ acq \in Seq(Frames) /\ sdio_sema \in 0..SemaMax
    /\ dpc \in FillPlaces /\ dbuf \in DataBufs \cup {Nothing}
    /\ spc \in [Senders -> SenderPlaces] /\ sbuf \in [Senders -> ExtBufs \cup {Nothing}]
    /\ try \in [Senders -> 0..TryCnt] /\ told \in [Senders -> {"none", "success", "fail"}]
    /\ mutex \in Senders \cup {Nothing} /\ ack_tx \in BOOLEAN /\ done \in BOOLEAN
    /\ status \in {"submitted", "success", "pkt_fail", "drv_stop"}
    /\ credit \in [Senders -> Frames \cup {Nothing}]
    /\ chip \subseteq Frames /\ reports \subseteq Frames /\ acked \subseteq Frames
    /\ survey \in BOOLEAN /\ kick \in BOOLEAN
    /\ stopped \in BOOLEAN /\ stp \in StopPlaces

Init ==
    /\ calls = 0
    /\ free = Bufs /\ load = [b \in Bufs |-> <<>>] /\ pending = <<>> /\ sema = 0
    /\ xpc = "down" /\ xbuf = Nothing
    /\ acq = <<>> /\ sdio_sema = 0 /\ dpc = "down" /\ dbuf = Nothing
    /\ spc = [s \in Senders |-> "idle"] /\ sbuf = [s \in Senders |-> Nothing]
    /\ try = [s \in Senders |-> 0] /\ told = [s \in Senders |-> "none"]
    /\ mutex = Nothing /\ ack_tx = FALSE /\ done = FALSE /\ status = "submitted"
    /\ credit = [s \in Senders |-> Nothing]
    /\ chip = {} /\ reports = {} /\ acked = {}
    /\ survey = FALSE /\ kick = FALSE
    /\ stopped = FALSE /\ stp = "up"

(***************************************************************************)
(* Buffers, semaphores and the pending queue.                              *)
(***************************************************************************)
\* One more call from outside.
Called == calls < MaxCalls /\ calls' = calls + 1

Up(n) == IF n < SemaMax THEN n + 1 ELSE n

\* rtw_alloc_xmitbuf_ext, rtw_alloc_xmitbuf: any buffer stands for the first.
Alloc(pool) == CHOOSE b \in free \cap pool : TRUE

\* rtw_free_xmitbuf; the next allocation sets len to 0.
FreeBuf(b) == free' = free \cup {b} /\ load' = [load EXCEPT ![b] = <<>>]

\* The insertion of enqueue_pending_xmitbuf; up_sema follows outside the lock.
Enqueue(b) == pending' = Append(pending, b)

EnqueueToTail(b) == pending' = Append(pending, b)    \* not at the head

\* enqueue_pending_xmitbuf_to_head
EnqueueToHead(b) == pending' = <<b>> \o pending

MayPass(b) == KindOf(load[b][1]) = "probe"

\* What may be taken from the pending queue: dequeue_pending_xmitbuf_under_survey,
\* or dequeue_pending_xmitbuf_ext before dequeue_pending_xmitbuf.
Passing == {i \in DOMAIN pending : KindOf(load[pending[i]][1]) = "probe"}
Management == {i \in DOMAIN pending : pending[i] \in ExtBufs}
Sendable == IF Management # {} THEN Management ELSE DOMAIN pending
FirstOf(I) == CHOOSE i \in I : \A j \in I : i <= j

(***************************************************************************)
(* A call that issues a management frame, up to TryCnt times.              *)
(***************************************************************************)
Goto(s, place) == spc' = [spc EXCEPT ![s] = place]

\* The end of one try of issue_xxx_ex.  ret is "-1" when the driver cannot run.
Return(s, ret) ==
    IF ret = "fail" /\ s \in Waits /\ try[s] < TryCnt /\ ~stopped
    THEN Goto(s, "alloc") /\ try' = [try EXCEPT ![s] = @ + 1] /\ UNCHANGED told
    ELSE /\ Goto(s, "idle") /\ UNCHANGED try
         /\ told' = [told EXCEPT ![s] = IF ret = "fail" THEN "fail" ELSE "success"]

Issue(s) ==
    /\ spc[s] = "idle" /\ told[s] = "none" /\ Called
    /\ s \in OnCmd => stp \in {"up", "ack", "cmd"}
    /\ Goto(s, "alloc") /\ try' = [try EXCEPT ![s] = 1]
    /\ UNCHANGED <<bufVars, xmitVars, fillVars, sbuf, told, ackVars, chipVars,
                   surveyVars, stopVars>>

AllocMgt(s) ==        \* alloc_mgtxmitframe
    /\ spc[s] = "alloc"
    /\ IF free \cap ExtBufs = {}
       THEN Return(s, "fail") /\ UNCHANGED <<free, load, sbuf>>
       ELSE LET b == Alloc(ExtBufs)
            IN  /\ free' = free \ {b} /\ load' = [load EXCEPT ![b] = <<<<s, try[s]>>>>]
                /\ sbuf' = [sbuf EXCEPT ![s] = b]
                /\ Goto(s, "dump") /\ UNCHANGED <<try, told>>
    /\ UNCHANGED <<calls, pending, sema, xmitVars, fillVars, ackVars, chipVars,
                   surveyVars, stopVars>>

DumpForgets(s) ==      \* does not free the buffer
    /\ spc[s] = "dump"
    /\ IF stopped
       THEN sbuf' = [sbuf EXCEPT ![s] = Nothing] /\ Return(s, "-1")
       ELSE /\ Goto(s, IF s \in Waits THEN "lock" ELSE "put")
            /\ UNCHANGED <<sbuf, try, told>>
    /\ UNCHANGED <<calls, bufVars, xmitVars, fillVars, ackVars, chipVars, surveyVars,
                   stopVars>>

\* The test of RTW_CANNOT_RUN in dump_mgntframe and dump_mgntframe_and_wait_ack.
Dump(s) ==
    /\ spc[s] = "dump"
    /\ IF stopped
       THEN /\ FreeBuf(sbuf[s]) /\ sbuf' = [sbuf EXCEPT ![s] = Nothing]
            /\ Return(s, "-1")
       ELSE /\ Goto(s, IF s \in Waits THEN "lock" ELSE "put")
            /\ UNCHANGED <<free, load, sbuf, try, told>>
    /\ UNCHANGED <<calls, pending, sema, xmitVars, fillVars, ackVars, chipVars,
                   surveyVars, stopVars>>

LockAckAnyway(s) ==    \* without ack_tx_mutex
    /\ spc[s] = "lock"
    /\ mutex' = s /\ ack_tx' = TRUE /\ Goto(s, "init")
    /\ UNCHANGED <<calls, bufVars, xmitVars, fillVars, sbuf, try, told, done, status,
                   credit, chipVars, surveyVars, stopVars>>

LockAck(s) ==
    /\ spc[s] = "lock" /\ mutex = Nothing
    /\ mutex' = s /\ ack_tx' = TRUE /\ Goto(s, "init")
    /\ UNCHANGED <<calls, bufVars, xmitVars, fillVars, sbuf, try, told, done, status,
                   credit, chipVars, surveyVars, stopVars>>

InitSctx(s) ==        \* rtw_sctx_init
    /\ spc[s] = "init"
    /\ done' = FALSE /\ status' = "submitted" /\ Goto(s, "put")
    /\ UNCHANGED <<calls, bufVars, xmitVars, fillVars, sbuf, try, told, mutex, ack_tx,
                   credit, chipVars, surveyVars, stopVars>>

PutMgnt(s) ==         \* rtl8822bs_mgnt_xmit
    /\ spc[s] = "put"
    /\ Enqueue(sbuf[s]) /\ sbuf' = [sbuf EXCEPT ![s] = Nothing] /\ Goto(s, "up")
    /\ UNCHANGED <<calls, free, load, sema, xmitVars, fillVars, try, told, ackVars,
                   chipVars, surveyVars, stopVars>>

UpMgnt(s) ==
    /\ spc[s] = "up"
    /\ sema' = Up(sema)
    /\ IF s \in Waits THEN Goto(s, "wait") /\ UNCHANGED <<try, told>>
                      ELSE Return(s, "success")
    /\ UNCHANGED <<calls, free, load, pending, xmitVars, fillVars, sbuf, ackVars,
                   chipVars, surveyVars, stopVars>>

\* The end of dump_mgntframe_and_wait_ack_timeout.
Release(s, ret) == mutex' = Nothing /\ ack_tx' = FALSE /\ Return(s, ret)

WaitOver(s) ==        \* rtw_sctx_wait
    /\ spc[s] = "wait" /\ done
    /\ Release(s, IF status = "success" THEN "success" ELSE "fail")
    /\ UNCHANGED <<calls, bufVars, xmitVars, fillVars, sbuf, done, status, credit,
                   chipVars, surveyVars, stopVars>>

WaitTimeout(s) ==
    /\ spc[s] = "wait" /\ ~done
    /\ Release(s, "fail")
    /\ UNCHANGED <<calls, bufVars, xmitVars, fillVars, sbuf, done, status, credit,
                   chipVars, surveyVars, stopVars>>

Call(s) == \/ AllocMgt(s) \/ Dump(s) \/ LockAck(s) \/ InitSctx(s) \/ PutMgnt(s)
           \/ UpMgnt(s) \/ WaitOver(s) \/ WaitTimeout(s)

\* rtw_ack_tx_done
AckTxDone(how) ==
    IF ack_tx THEN done' = TRUE /\ status' = how ELSE UNCHANGED <<done, status>>

(***************************************************************************)
(* The network stack and RTWHALXT, rtl8822bs_xmit_thread.  xmit_xmitframes *)
(* holds pxmitpriv->lock while it packs, and rtl8822bs_hal_xmit needs it.  *)
(***************************************************************************)
Packing == dpc \in {"fill", "full", "fullup"}

NetXmit ==            \* rtl8822bs_hal_xmit
    /\ ~stopped /\ ~Packing /\ Called
    /\ acq' = Append(acq, <<Net, calls'>>)
    /\ sdio_sema' = Up(sdio_sema)
    /\ UNCHANGED <<bufVars, xmitVars, dpc, dbuf, sendVars, ackVars, chipVars,
                   surveyVars, stopVars>>

FillDown ==
    /\ dpc = "down" /\ sdio_sema > 0
    /\ sdio_sema' = sdio_sema - 1 /\ dpc' = "next"
    /\ UNCHANGED <<calls, bufVars, xmitVars, acq, dbuf, sendVars, ackVars, chipVars,
                   surveyVars, stopVars>>

FillNext ==           \* RTW_CANNOT_RUN, rtw_txframes_pending
    /\ dpc = "next"
    /\ dpc' = IF stopped THEN "exit" ELSE IF acq = <<>> THEN "down" ELSE "fill"
    /\ UNCHANGED <<calls, bufVars, xmitVars, acq, sdio_sema, dbuf, sendVars, ackVars,
                   chipVars, surveyVars, stopVars>>

\* xmit_handler after -2: again, without waiting.
Retry == dpc' = "next" /\ sdio_sema' = Up(sdio_sema)

\* bHigherBusyTxTraffic: leave a few frames for later while buffers are pending.
FillBusy ==
    /\ dpc = "next" /\ ~stopped /\ pending # <<>> /\ Len(acq) \in 1..4
    /\ Retry
    /\ UNCHANGED <<calls, bufVars, xmitVars, acq, dbuf, sendVars, ackVars, chipVars,
                   surveyVars, stopVars>>

\* Pack the frames at the head of the queue into a buffer, until it is full.
Pack(b) ==
    LET n == IF Len(acq) < MaxAgg THEN Len(acq) ELSE MaxAgg
    IN  /\ free' = free \ {b} /\ load' = [load EXCEPT ![b] = SubSeq(acq, 1, n)]
        /\ acq' = SubSeq(acq, n + 1, Len(acq)) /\ dbuf' = b
        /\ dpc' = IF n < Len(acq) THEN "full" ELSE "put"

FillUnchecked ==      \* no test of the buffer for NULL
    /\ dpc = "fill"
    /\ \/ free \cap DataBufs # {} /\ Pack(Alloc(DataBufs)) /\ UNCHANGED sdio_sema
       \/ /\ free \cap DataBufs = {} /\ dpc' = "put"
          /\ UNCHANGED <<free, load, acq, dbuf, sdio_sema>>
    /\ UNCHANGED <<calls, pending, sema, xmitVars, sendVars, ackVars, chipVars,
                   surveyVars, stopVars>>

Fill ==               \* xmit_xmitframes
    /\ dpc = "fill"
    /\ \/ free \cap DataBufs # {} /\ Pack(Alloc(DataBufs)) /\ UNCHANGED sdio_sema
       \/ free \cap DataBufs = {} /\ Retry /\ UNCHANGED <<free, load, acq, dbuf>>
    /\ UNCHANGED <<calls, pending, sema, xmitVars, sendVars, ackVars, chipVars,
                   surveyVars, stopVars>>

FillPut ==            \* a full buffer under the lock, or the last one after it
    /\ dpc \in {"full", "put"}
    /\ Enqueue(dbuf) /\ dbuf' = Nothing
    /\ dpc' = IF dpc = "full" THEN "fullup" ELSE "up"
    /\ UNCHANGED <<calls, free, load, sema, xmitVars, acq, sdio_sema, sendVars, ackVars,
                   chipVars, surveyVars, stopVars>>

FillUp ==
    /\ dpc \in {"fullup", "up"}
    /\ sema' = Up(sema)
    /\ dpc' = IF dpc = "fullup" THEN "fill" ELSE "down"
    /\ UNCHANGED <<calls, free, load, pending, xmitVars, acq, sdio_sema, dbuf, sendVars,
                   ackVars, chipVars, surveyVars, stopVars>>

FillThread == FillDown \/ FillNext \/ FillBusy \/ Fill \/ FillPut \/ FillUp

(***************************************************************************)
(* RTW_XMIT_THREAD: rtl8822bs_xmit_buf_handler and dequeue_writeport.      *)
(***************************************************************************)
XmitDown ==
    /\ xpc = "down" /\ sema > 0
    /\ sema' = sema - 1 /\ xpc' = "check"
    /\ UNCHANGED <<calls, free, load, pending, xbuf, fillVars, sendVars, ackVars,
                   chipVars, surveyVars, stopVars>>

XmitCheck ==          \* RTW_CANNOT_RUN, rtw_mi_check_pending_xmitbuf
    /\ xpc = "check"
    /\ xpc' = IF stopped THEN "exit" ELSE IF pending = <<>> THEN "down" ELSE "select"
    /\ UNCHANGED <<calls, bufVars, xbuf, fillVars, sendVars, ackVars, chipVars,
                   surveyVars, stopVars>>

\* select_and_dequeue_pending_xmitbuf asks rtw_xmit_ac_blocked first ...
XmitSelect ==
    /\ xpc = "select" /\ xpc' = IF survey THEN "probe" ELSE "any"
    /\ UNCHANGED <<calls, bufVars, xbuf, fillVars, sendVars, ackVars, chipVars,
                   surveyVars, stopVars>>

\* ... and locks the queue later.
Take(I) ==
    IF I = {} THEN xpc' = "down" /\ UNCHANGED <<pending, xbuf>>
    ELSE LET i == FirstOf(I)
         IN  xbuf' = pending[i] /\ pending' = RemoveAt(pending, i) /\ xpc' = "poll"

XmitTake ==
    /\ \/ xpc = "probe" /\ Take(Passing)
       \/ xpc = "any" /\ Take(Sendable)
    /\ UNCHANGED <<calls, free, load, sema, fillVars, sendVars, ackVars, chipVars,
                   surveyVars, stopVars>>

TxAllowed == Cardinality(chip) < FifoSize    \* rtw_halmac_sdio_tx_allowed

XmitWrite ==          \* rtw_write_port
    /\ xpc = "poll" /\ TxAllowed
    /\ chip' = chip \cup ToSet(load[xbuf]) /\ xpc' = "free"
    /\ UNCHANGED <<calls, bufVars, xbuf, fillVars, sendVars, ackVars, reports, acked,
                   surveyVars, stopVars>>

XmitDrop ==           \* no room, and RTW_CANNOT_RUN
    /\ xpc = "poll" /\ ~TxAllowed /\ stopped
    /\ xpc' = "free"
    /\ UNCHANGED <<calls, bufVars, xbuf, fillVars, sendVars, ackVars, chipVars,
                   surveyVars, stopVars>>

XmitPutBackEnds ==    \* and leaves the loop
    /\ xpc = "poll" /\ ~TxAllowed /\ ~stopped
    /\ EnqueueToHead(xbuf) /\ xbuf' = Nothing /\ xpc' = "down"
    /\ UNCHANGED <<calls, free, load, sema, fillVars, sendVars, ackVars, chipVars,
                   surveyVars, stopVars>>

XmitPutBack ==        \* no room after 12 polls
    /\ xpc = "poll" /\ ~TxAllowed /\ ~stopped
    /\ EnqueueToHead(xbuf) /\ xbuf' = Nothing /\ xpc' = "select"
    /\ UNCHANGED <<calls, free, load, sema, fillVars, sendVars, ackVars, chipVars,
                   surveyVars, stopVars>>

XmitFree ==
    /\ xpc = "free"
    /\ FreeBuf(xbuf) /\ xbuf' = Nothing /\ xpc' = "select"
    /\ UNCHANGED <<calls, pending, sema, fillVars, sendVars, ackVars, chipVars,
                   surveyVars, stopVars>>

XmitThread == \/ XmitDown \/ XmitCheck \/ XmitSelect \/ XmitTake \/ XmitWrite \/ XmitDrop
              \/ XmitPutBack \/ XmitFree

(***************************************************************************)
(* The chip and its reports.                                               *)
(***************************************************************************)
\* The chip is done with a frame; it reports the frames that ask for it.
ChipSends(f) ==
    /\ f \in chip /\ chip' = chip \ {f}
    /\ IF f[1] \in Waits
       THEN reports' = reports \cup {f} /\ (acked' = acked \cup {f} \/ UNCHANGED acked)
       ELSE UNCHANGED <<reports, acked>>
    /\ UNCHANGED <<calls, bufVars, xmitVars, fillVars, sendVars, ackVars, surveyVars,
                   stopVars>>

Report(f) ==          \* c2h_ccx_rpt
    /\ f \in reports /\ stp \in {"up", "ack"}
    /\ reports' = reports \ {f}
    /\ AckTxDone(IF f \in acked THEN "success" ELSE "pkt_fail")
    /\ credit' = IF ack_tx THEN [credit EXCEPT ![mutex] = f] ELSE credit
    /\ UNCHANGED <<calls, bufVars, xmitVars, fillVars, sendVars, mutex, ack_tx, chip,
                   acked, surveyVars, stopVars>>

(***************************************************************************)
(* A survey, run by the command thread.                                    *)
(***************************************************************************)
CmdThreadFree ==
    stp \in {"up", "ack", "cmd"} /\ \A s \in OnCmd : spc[s] = "idle"

\* scan_state leaves SCAN_DISABLE, or SCAN_BACK_OP for the next channels.  The done
\* event of the survey before may still be behind this one in the command queue.
SurveyHolds ==
    /\ ~survey /\ CmdThreadFree /\ ~stopped /\ Called
    /\ survey' = TRUE
    /\ UNCHANGED <<bufVars, xmitVars, fillVars, sendVars, ackVars, chipVars, kick,
                   stopVars>>

\* SCAN_BACK_OP with SS_BACKOP_TX_RESUME, which schedules at once, or SCAN_DISABLE:
\* then the done event does, rtw_mlme.c:1402, when the command thread gets to it.
SurveyLetsGo ==
    /\ survey /\ CmdThreadFree
    /\ survey' = FALSE /\ kick' = TRUE
    /\ UNCHANGED <<calls, bufVars, xmitVars, fillVars, sendVars, ackVars, chipVars,
                   stopVars>>

Schedule ==           \* rtw_os_xmit_schedule
    /\ kick /\ CmdThreadFree /\ kick' = FALSE
    /\ sema' = IF pending # <<>> THEN Up(sema) ELSE sema
    /\ UNCHANGED <<calls, free, load, pending, xmitVars, fillVars, sendVars, ackVars,
                   chipVars, survey, stopVars>>

(***************************************************************************)
(* rtw_dev_unload, step by step.                                           *)
(***************************************************************************)
SetStopped ==         \* rtw_set_drv_stopped
    /\ stp = "up" /\ Called /\ stopped' = TRUE /\ stp' = "ack"
    /\ UNCHANGED <<bufVars, xmitVars, fillVars, sendVars, ackVars, chipVars,
                   surveyVars>>

\* rtw_ack_tx_done, then rtw_intf_stop: no more interrupts, no more reports.
StopAck ==
    /\ stp = "ack" /\ AckTxDone("drv_stop") /\ stp' = "cmd"
    /\ UNCHANGED <<calls, bufVars, xmitVars, fillVars, sendVars, mutex, ack_tx, credit,
                   chipVars, surveyVars, stopped>>

JoinCmdQuiet ==       \* RTW_XMIT_THREAD is not woken
    /\ stp = "cmd" /\ CmdThreadFree /\ stp' = "xmit"
    /\ UNCHANGED <<calls, bufVars, xmitVars, fillVars, sendVars, ackVars, chipVars,
                   surveyVars, stopped>>

JoinCmd ==            \* rtw_stop_cmd_thread, then the wake-up of RTW_XMIT_THREAD
    /\ stp = "cmd" /\ CmdThreadFree
    /\ sema' = Up(sema) /\ stp' = "xmit"
    /\ UNCHANGED <<calls, free, load, pending, xmitVars, fillVars, sendVars, ackVars,
                   chipVars, surveyVars, stopped>>

JoinXmit ==           \* rtw_thread_stop(xmitThread), then the wake-up of RTWHALXT
    /\ stp = "xmit" /\ xpc = "exit"
    /\ sdio_sema' = Up(sdio_sema) /\ stp' = "sdio"
    /\ UNCHANGED <<calls, bufVars, xmitVars, acq, dpc, dbuf, sendVars, ackVars,
                   chipVars, surveyVars, stopped>>

JoinFill ==           \* rtw_thread_stop(SdioXmitThread), rtw_hal_deinit
    /\ stp = "sdio" /\ dpc = "exit" /\ stp' = "down"
    /\ chip' = {} /\ reports' = {}
    /\ UNCHANGED <<calls, bufVars, xmitVars, fillVars, sendVars, ackVars, acked,
                   surveyVars, stopped>>

Stop == StopAck \/ JoinCmd \/ JoinXmit \/ JoinFill

Begin == (\E s \in Senders : Issue(s)) \/ NetXmit \/ SurveyHolds \/ SetStopped

\* Each of the two threads is scheduled.  Senders, chip, interrupts, the end of a
\* survey and the stop, which take finitely many steps, need no more than not to be
\* kept waiting for ever together; nobody has to issue a frame or begin anything.
Others ==
    \/ \E s \in Senders : Call(s)
    \/ \E f \in chip : ChipSends(f)
    \/ \E f \in reports : Report(f)
    \/ SurveyLetsGo \/ Schedule \/ Stop

Next == FillThread \/ XmitThread \/ Others \/ Begin

Spec == Init /\ [][Next]_vars

Fairness == WF_vars(FillThread) /\ WF_vars(XmitThread) /\ WF_vars(Others)

FairSpec == Spec /\ Fairness

(***************************************************************************)
(* Properties.                                                             *)
(***************************************************************************)
\* Every xmit_buf is in exactly one place: a free list, the pending queue, the
\* transmit thread, the packing thread or one sender.  The counters of free
\* buffers that rtw_pwr_unassociated_idle reads are only right if it is so.
NothingLost ==
    \A b \in Bufs : \/ b \in free \/ b \in ToSet(pending) \/ b = xbuf \/ b = dbuf
                   \/ \E s \in Senders : b = sbuf[s]
NothingShared ==
    /\ \A i, j \in DOMAIN pending : pending[i] = pending[j] => i = j
    /\ free \cap ToSet(pending) = {}
    /\ \A b \in free \cup ToSet(pending) :
            b # xbuf /\ b # dbuf /\ \A s \in Senders : b # sbuf[s]
    /\ xbuf # Nothing => xbuf # dbuf /\ \A s \in Senders : xbuf # sbuf[s]
    /\ \A s, r \in Senders : sbuf[s] = sbuf[r] /\ sbuf[s] # Nothing => s = r
OneOwner == NothingLost /\ NothingShared

\* While RTW_XMIT_THREAD sleeps on xmit_sema over a buffer it might send, some
\* thread is about to raise the semaphore; likewise for RTWHALXT.  Buffers put
\* back at the head and buffers a survey held back are what could be forgotten.
SomebodyWakes == kick \/ dpc \in {"fullup", "up"} \/ \E s \in Senders : spc[s] = "up"
NoLostWakeup ==
    /\ xpc = "down" /\ sema = 0 /\ ~stopped
       /\ (IF survey THEN Passing # {} ELSE pending # <<>>) => SomebodyWakes
    /\ dpc = "down" /\ sdio_sema = 0 /\ ~stopped => acq = <<>>

\* A sender that waited and is told success was told so by the report of a frame
\* that was acknowledged: its own, or one whose own sender had given up.  (A stop
\* makes issue_xxx_ex turn -1, nothing sent, into success as well.)
Acknowledged(s) == told[s] = "success" /\ s \in Waits
Over(f) == f[2] < try[f[1]] \/ told[f[1]] # "none"
SuccessHasItsReport ==
    \A s \in Senders : Acknowledged(s) /\ ~stopped =>
        credit[s] \in acked /\ (credit[s][1] = s \/ Over(credit[s]))

\* What the log of issue_nulldata calls ", acked": the peer acknowledged a frame
\* of this call.  c2h_ccx_rpt does not compare the report's sequence number.
SuccessMeansAcked ==
    \A s \in Senders : Acknowledged(s) /\ ~stopped => \E f \in acked : f[1] = s

\* The buffers on their way to the chip, the one in hand first, and the frames
\* of a kind in them, the data frames not packed yet included.
InFlight == (IF xpc = "poll" THEN <<xbuf>> ELSE <<>>) \o pending
PartOf(k, b) == IF KindOf(load[b][1]) = k THEN load[b] ELSE <<>>
Packed == IF dbuf = Nothing THEN <<>> ELSE load[dbuf]
FramesOf(k) ==
    FlattenSeq([i \in DOMAIN InFlight |-> PartOf(k, InFlight[i])])
        \o (IF k = "data" THEN Packed \o acq ELSE <<>>)

ProbeQueue == INSTANCE TxQueue WITH queue <- FramesOf("probe")
OtherQueue == INSTANCE TxQueue WITH queue <- FramesOf("other")
DataQueue  == INSTANCE TxQueue WITH queue <- FramesOf("data")

\* Frames of one kind go to the chip in the order they were handed over, also
\* when a buffer is put back and when a survey lets some kinds pass.
ImplementsTxQueue == ProbeQueue!Spec /\ OtherQueue!Spec /\ DataQueue!Spec

\* Work ends: whatever is pending is sent, through a survey, a full chip, an empty
\* pool of buffers, unless the driver stops; and then the stop completes, whatever
\* the threads and the senders are in the middle of.
AtWork == pending # <<>> \/ acq # <<>> \/ stp \notin {"up", "down"}
AtRest == stp = "down" \/ (stp = "up" /\ pending = <<>> /\ acq = <<>>)
ComesToRest == AtWork ~> AtRest
=============================================================================
