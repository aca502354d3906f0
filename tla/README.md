# TLA+ verification of the RTL8822BS SDIO driver

This directory models parts of the Realtek RTL8822BS Wi-Fi driver (Linux,
SDIO, Amlogic S905) in TLA+, checks the models with TLC on small instances,
and proves the most important results with TLAPS for every instance.

The repository is about 500 000 lines, most of them register tables, the
firmware image, and the vendored PHYDM and HALMAC libraries. The driver's own
concurrent logic is in `core/`, `hal/rtl8822b/` and `os_dep/`. The build
configuration the models follow is the one in `include/autoconf.h` and the
Makefile: SDIO, `CONFIG_80211N_HT`, `CONFIG_RECV_REORDERING_CTRL`,
`CONFIG_RECV_THREAD_MODE`, `CONFIG_LPS_LCLK` with
`CONFIG_DETECT_CPWM_BY_POLLING` and `CONFIG_LPS_RPWM_TIMER`,
`CONFIG_XMIT_THREAD_MODE`, `CONFIG_XMIT_ACK`, `CONFIG_BT_COEXIST`; without
`CONFIG_CONCURRENT_MODE`, TDLS, WAPI, MCC, WoWLAN and
`CONFIG_EVENT_THREAD_MODE`.

## Inventory

**A-MPDU receive reordering** (`core/rtw_recv.c`). State, per station and TID:
`enable`, `indicate_seq` (12 bits, or 0xffff for "no frame yet"),
`bReorderWaiting`, a sorted pending queue with a spinlock, a timer.
Operations: `recv_indicatepkt_reorder` in the receive thread, the timer handler, the
direct path when no session is enabled. Written from elsewhere without the
lock: `add_ba_rsp_hdl` in the command thread, `OnAction_back` and
`rtw_process_bar_frame` in the receive thread, `_send_delba_sta_tid`;
`rtw_free_stainfo` cancels the timer and drains the queue. Hard: the window
wraps at 4096, the timer is cancelled after the unlock, the stores without
the lock. Correct means: frames leave in stream order, each once, and none
stays for ever.

**Command queue and thread** (`core/rtw_cmd.c`). State: a list of `cmd_obj`,
a counting semaphore, `cmdthd_running`, and for a synchronous command a
`submit_ctx` on the caller's stack reached through `cmd_obj->sctx` under
`sctx_mutex`. Operations: filter and enqueue, the thread's loop, completion,
the caller's timeout, stop with its drain, restart. Hard: the filter and the
insertion are not atomic; a caller may give up while its command is executed;
a command may be put back at the head. Correct means: one owner per object,
first come first served, no completion into a dead stack frame, no sleeping
thread over a queued command, and a stop that ends.

**Leisure power save** (`core/rtw_pwrctrl.c`). State: `rpwm` requested,
`cpwm` reached, the `alives` bits of the tasks that need the chip, the rpwm
timer with its work item, `ps_deny`. It wakes the command thread
(`cmd_queue_sema`) and the transmit thread (`xmit_sema`) when the firmware has
woken up. Hard: polling and the timer race; a wake-up may be forgotten.

**Transmit** (`core/rtw_xmit.c`, `hal/rtl8822b/sdio/rtl8822bs_xmit.c`).
State: xmit_frame and xmit_buf pools, per-station queues, the pending xmit_buf
queue with its semaphore, `ack_tx_ops`. RTWHALXT packs data frames into buffers,
RTW_XMIT_THREAD writes buffers to the chip; a management frame may wait for the
chip's report. Hard: a survey holds back most frames and lets go at any moment;
a full chip sends a buffer back to the head of the queue; reports come late;
the stop joins threads that may sleep, spin or wait for each other. Correct
means: each buffer has one owner, no thread sleeps over a buffer it may send,
a kind of frames keeps its order, a waiter is answered by a real report, and
the work and the stop come to an end.

**SDIO receive and frame pools** (`rtl8822bs_recv.c`, `rtl8822bs_ops.c`,
`rtw_recv.c`). recv_buf and recv_frame pools between the interrupt and the
receive thread, the defragmentation queue, `uc_swdec_pending_queue`.
Hard: the pools at their limits.

**MLME** (`core/rtw_mlme.c`, `core/rtw_mlme_ext.c`). `fw_state` with scan,
join, roaming and disconnect; survey, link and scan-timeout timers; commands
and their c2h events. A survey is started by a request of the kernel or by the
driver itself, walks its channels with a timer and a command per channel, and
ends with an event. Hard: a timeout racing the completion, an abort flag shared
by several waiters, a suspend in the middle, power save taking the chip away.
Correct means: every request of the kernel is answered once, and neither the
survey nor its flag stays for ever.

**Station table, AP, P2P** (`rtw_sta_mgt.c`, `rtw_ap.c`, `rtw_p2p.c`).
Hash table and pools of stations with their expiry; remain-on-channel.

**HALMAC glue** (`hal/hal_halmac.c`). An indicator per feature, with an
allocated `submit_ctx` that the waiter frees after a timeout.

**Bluetooth attach tool** (`bluetooth/`). A user-space program that downloads
a patch over the three-wire UART protocol, with retries driven by SIGALRM.

Everything else (ciphers, parsing of elements, efuse, LED, debugging, factory
test, coexistence tables, register programming, PHYDM, HALMAC, platform pins,
scripts) keeps no concurrent state of its own or is vendored; `PROJECT.json`
lists it with the reason.

Interactions: user interfaces and timers submit commands; the command thread
runs the MLME and the Block Ack set-up, which writes to the reorder control;
power save gates the command and transmit threads; the receive thread feeds
the reorder window and the MLME; interface stop and start end and restart all
threads.

## Modules

| module | models | |
|---|---|---|
| `ReorderBuffer` | what reordering promises: a frame is buffered once and only before later ones left; the smallest leaves first | abstract |
| `RxReorder` | the reorder control of one (station, TID) with the receive thread, the timer handler, the command thread, station removal, driver stop and the peer | refines `ReorderBuffer` while a session is up |
| `CommandQueue` | what the queue promises: accepted commands finish one at a time, in order | abstract |
| `CmdThread` | queue, thread, callers with `submit_ctx`, stop and restart, LPS_LCLK as the command thread meets it | refines `CommandQueue` |
| `SiteSurvey` | scan requests of the kernel and of the driver, the survey in the command thread, its timers, aborts, IPS, suspend and resume | |
| `TxQueue` | what the transmit queue promises: the frames of a kind go to the chip in the order they were handed over | abstract |
| `TxPath` | management senders, network stack, RTWHALXT, RTW_XMIT_THREAD, survey, chip and reports, stop | refines `TxQueue` for each of three kinds |
| `ReorderBufferProofs`, `RxReorderProofs`, `RxSessionProofs`, `CmdThreadProofs`, `SiteSurveyProofs`, `TxPathProofs`, `TxOrderProofs` | the proofs | |

The configurations `MC_*.cfg` instantiate the modules directly: all constants
are numbers, Booleans or model values. Definitions named like `SlideNoWrap` or
`RequeueTail` that no next-state relation uses are faulty versions of the
action next to them: they show that the property they are paired with in
`PROJECT.json` can fail.

### How RxReorder corresponds to the code

A frame is its position in the originator's stream; the driver sees only
`Sn(n)`, its 12-bit number. The queue's spinlock is `lock`, and what is done
under it is split into the steps whose interleaving with the *unlocked*
writers matters: computing `wend` (`InitWindow`), the test against the window
(`DropOld`), sliding (`SlideWindow`), the insertion (`InsertSorted`), and each
turn of `recv_indicatepkts_in_order` (`TakeHead`, then `IndicateHead`). An
unlocked store to `indicate_seq` that falls between the load and the store of
an update by another thread may be lost: `Increments`, `RacingStore`. The timer is a flag; cancelling it
is `del_timer_sync`, so it waits for a running handler (`RxCancelTimer`,
`FreeCancelTimer`). The direct path, used while `enable` is false, is three
steps (`DirectSet`, `DirectProcess`, `DirectAdvance`), since
`recv_process_mpdu` runs between the two writes of `indicate_seq`.

The peer is modelled by what 802.11 lets it send: with an agreement, any frame
within its own window `winO..winO+WSize-1`, any number of times; without one,
one frame at a time. It learns of an accepted session when it acknowledges the
ADDBA response, before the driver enables it. The peer and the air (loss,
repetition, reordering) are therefore in `Arrive` and `PeerAdvances`; a frame
never arrives if `Arrive` never happens for it.

### How CmdThread corresponds to the code

A command is named by its `cmd_obj`; `live` is the set of allocated ones,
`attached` those whose `sctx` is set. `caller[c]` and `th` are program
counters between the points where another thread can see a difference: a
caller filters, inserts, ups the semaphore, waits, takes `sctx_mutex`, clears.
The thread's places follow `rtw_cmd_thread` line by line, including the label
`_next` that takes further commands without a `down`. The faults in the size,
code and handler tables of a command are programming errors and end in the
same `post_process` as a refused command.

Power states are reduced to "at least PS_STATE_S2", the only test the command
path makes; `Poll` chooses whether the firmware answers before the polling
limit. With polling the CPWM interrupt is masked
(`hal/rtl8822b/sdio/rtl8822bs_ops.c`), so `cpwm_int_hdl` runs only from the
work item. Other tasks' alive bits and other minimum levels are not in this
module: they only keep the firmware awake more often.

`RTW_CANNOT_RUN` is `stopped`; surprise removal is left out.
`_rtw_down_sema` is the uninterruptible `down` in this build, so its failure
branch does not happen. Linked-list insertion cannot fail, so
`H2C_ENQ_HEAD_FAIL` does not happen either.

### How SiteSurvey corresponds to the code

A request is the number of the call that made it. `kernel_req` is what cfg80211
has open, `scan_request` what the driver thinks it has; `under_survey` is
`_FW_UNDER_SURVEY`. `user` walks through `cfg80211_rtw_scan`: it answers at
once, or takes `scan_req_lock` and the MLME lock, sets the flag and enqueues
the command (`rtw_sitesurvey_cmd`), and only then stores the request. The
command thread runs `sitesurvey_cmd_hdl` in one step per command, since nobody
else writes `struct ss_res`, and the done event in the steps between which
other threads see a difference (clear the flag, cancel the timer, join,
report). `to` and `sh` are the handlers of the scan timeout and of the survey
timer; `ab` the threads in `_rtw_wait_scan_done`, with an abort
(`rtw_scan_abort`) or without; `pm` is `rtw_suspend_common` and
`rtw_dev_unload`. `ips_enter` and `rtw_pwr_wakeup` take the chip away and bring
it back, and `ips_leave` resets the survey's state.

Left out: failing allocations of survey commands and events, listen states of
P2P and antenna diversity, several interfaces. All calls from outside share
the bound `MaxCalls`.

### How TxPath corresponds to the code

A frame is a sender with its try, or the network stack with a number. `load`
is the frames in a buffer; the chip is the set of frames it has not sent.
`spc[s]` is where a call of `issue_xxx` stands: allocation, the test of
`RTW_CANNOT_RUN`, `ack_tx_mutex`, `rtw_sctx_init`, the insertion into the
pending queue, the up of `xmit_sema` outside that queue's lock, the wait. `dpc`
and `xpc` are the two threads. RTWHALXT packs under `pxmitpriv->lock`, so the
network stack waits meanwhile (`Packing`); a full buffer is enqueued under it,
the last one after it. RTW_XMIT_THREAD asks whether a survey holds frames back
*before* it locks the queue (`XmitSelect`, then `XmitTake`), polls the chip, and
puts the buffer back without leaving its loop (`XmitPutBack`). A survey is two
flags: frames are held back, and the kick (`rtw_os_xmit_schedule`) is still to
come, possibly when the next survey has begun; both are steps of the command
thread and so exclude a sender that is that thread. `stp` is the stop: the flag, `rtw_ack_tx_done`, the three joins.

Left out: the firmware's sleep (`rtw_register_tx_alive` succeeds; the wake-up
protocol is in `CmdThread`), IPS, whose `rtw_reset_drv_sw` ends a survey without
the kick (IPS begins only with all buffers free), more than one station and access category,
beacons and reserved pages (written in the caller's context), coalescing
failures, write errors of the bus, `xmit_block` (debugging and LPS-PG). After a
stop nothing is started again; buffers a stop leaves pending stay there, and
the start that follows does not wake the thread for them until another
buffer comes. Which free buffer is taken is not told apart, the semaphores
saturate at `SemaMax` (a model with more ups than that only wakes threads that
find nothing), and the chip sends in any order.

## Runs

| run | shows | bounds |
|---|---|---|
| `rx_session` | with a session up the window implements `ReorderBuffer`, liveness included (`ImplementsReorderBuffer`), so frames leave in order, once (`DeliversInOrder`) | window 3, stream 4093..4099 across the wrap |
| `rx_lifecycle` | teardown, renewed set-up or rejection, BAR, stop, removal, all at once: types of the module, sorted queue, no stranded frame | window 2, 3 frames across the wrap, one exchange of each kind |
| `rx_renegotiation` | `EveryFrameLeaves`: no teardown, set-up, BAR or station removal strands a frame; it leaves the queue or its station is gone | window 2, frames 4095 and 4096, one exchange of each kind, no arrival after three indications |
| `rx_delba_order` | *violated*: after a DELBA older frames leave behind newer ones | one DELBA |
| `rx_freed` | *violated*: a station's queue and timer are used after it was freed | one removal |
| `cmd_session` | interface up, hardware coming and going: implements `CommandQueue` with liveness; every waiter returns; no lost wake-up; the caller's buffers outlive the execution when nobody gives up | three commands, two synchronous |
| `cmd_lifecycle` | callers that give up, power save, stop, drain, restart: ownership, safe `submit_ctx`, order, and a stop that completes | two commands, two submissions each, one restart |
| `cmd_late_enqueue` | *violated*: a command is inserted after the last drain | two commands |
| `cmd_lps_wakeup` | *violated*: the retry of the work item wakes the chip and not the command thread | two commands |

| `scan` | all of `SiteSurvey`: `KernelAgrees`, `RequestHasReporter`, `SurveyDriven`, `AbortAnswers`, `DownIsQuiet`; every request is answered, every survey ends | two channels, a visit home after one, three calls from outside, two threads that wait, timeouts |
| `tx` | all of `TxPath`: ownership, no lost wake-up, reports, order per kind (`ImplementsTxQueue`), and that everything comes to rest | two waiting senders and one that does not, one of them the command thread, two buffers of each kind, a chip with room for one frame, three calls from outside |
| `tx_report` | *violated*: a sender is told success by the report of another sender's frame | two senders |

Why the bounds are enough: a window of 2 or 3 frames gives the cases before,
inside, at the end of and beyond the window, and a stream that crosses 4095
exercises both branches of the slide; a longer stream repeats them. For
commands, two are needed for any question of order, three for a caller to
enqueue while the thread works on one and another is queued; one restart shows
what a stopped thread leaves to the next. For a survey, two channels with a
visit home after the first give every transition of its state machine; three
calls put a request, an abort and a suspend (or a second request, or a scan of
the driver's own) into one behaviour; four calls with one waiter were
checked once as well. For the transmit path a chip with room for one frame
makes the put-back happen at once, two buffers of a kind are needed for order
and for a pool that runs dry, and the senders cover the four cases that
matter: waiting or not, held back by a survey or not, on the command thread
or not. Both transmit runs have `TryCnt = 1`: with 2, `tx` passes two million
states without an end in sight, so the retry of `Return` is not exercised by
TLC. The theorems on `TxPath` hold for every `TryCnt`.

`CHECK_DEADLOCK FALSE` is set in every run: traffic and submissions end,
and then the system rests with no step enabled.

Findings. Each *violated* run refutes something a comment of the code says.
(1) DELBA leaves the queue behind an enabled direct path
(`rtw_mlme_ext.c:4026`). (2) `rtw_free_stainfo` against a receive thread that
has looked up the station (`rtw_sta_mgt.c:688`). (3) `rtw_enqueue_cmd` tests
`cmdthd_running` and inserts later (`rtw_cmd.c:476`). (4) the work item's
second `rtw_set_rpwm` never ups `cmd_queue_sema` (`rtw_pwrctrl.c:1570`).
(5) `c2h_ccx_rpt` completes the wait of whoever holds `ack_tx_mutex`, without
a look at the sequence number the driver put into the descriptor
(`rtl8822b_cmd.c:1207`); a frame that a survey holds back for longer than its
sender waits makes it happen with a prompt chip.

What the models show besides, without a property against it: after a scan
timeout the old survey goes on and its done event answers the next request
early; `scan_abort` set by `rtw_scan_abort_no_wait` just after a survey ended
cuts the next one short; an abort from the command thread itself
(`rtw_sreset`) can only time out; `issue_nulldata` and its sisters return
success for a frame that was not sent because the driver stops.

Two other ways to break `LeavesInOrder` have no run of their own and are seen
by editing `MC_rx_delba_order.cfg`: a BAR that moves the window over queued
frames or back behind indicated ones (`MaxBar = 1`, `MaxDelba = 0`), and frames
that arrive between the acknowledgement of the ADDBA response and the store to
`enable` (`Established = FALSE`, `MaxAddba = 1`, `MaxDelba = 0`).

## Fairness

`RxReorder`: the receive thread, the command thread, the freeing thread and
the timer softirq are scheduled (weak fairness); an armed timer expires; the
spinlock is a queued lock, so a thread that waits for it gets it (strong
fairness of the `Lock` actions), and `del_timer_sync` returns once the handler
is seen finished. Nothing is assumed of the peer, of the air or of whoever
stops the driver.

`SiteSurvey`: `cfg80211_rtw_scan` once called, the command thread, both timers and their
handlers, the waiters and the suspend are scheduled. The one strong fairness
is for the end of the time on the operating channel: the handler runs again and
again while it waits for it (`StayHome` and `LeaveHome` alternate with the
timer), and time passes. Nobody has to ask for a scan, abort or suspend.

`TxPath`: three weak fairnesses: RTWHALXT, RTW_XMIT_THREAD, and everybody else
together. The last one is enough since senders, reports, chip, survey and stop
take finitely many steps, and it does not ask for any of them in
particular. Nobody has to issue a frame, begin a survey or stop.

`CmdThread`: the command thread, each caller past its submission, the stopping
thread and the timer with its work item are scheduled. `sctx_mutex` needs no
strong fairness: its holders release it in one step and a caller takes it once
per submission. Command handlers return. Nobody is obliged to submit, stop or
start.

## Proofs

Proved by TLAPS, for all values of the constants that satisfy the assumptions
in the modules (`WSizeAssumption`, `StreamAssumption`, `BoundsAssumption`;
`CmdsAssumption`, `NamesAssumption`, `LimitAssumption`; `SurveyAssumption`,
`LimitsAssumption`, `WaitersAssumption`; `SendersAssumption`,
`BuffersAssumption` and the `LimitsAssumption` of `TxPath`):

- `InOrderDelivery`: the abstract buffer delivers in order, each frame once.
- `TypeCorrect`: `RxReorder` keeps its types. `TypeOK` is inductive because
  `FrameHeld` says where a thread's frame pointer is set; the arithmetic of
  the 12-bit numbers is isolated in lemmas over typed numbers.
- `QueueAlwaysSorted`: under all interleavings of the unlocked writers the
  pending queue is sorted. The argument does not use `indicate_seq` at all:
  insertion before the first frame that is not smaller keeps neighbours sorted,
  and every other writer takes from the head or empties the queue.
- `NoFrameStranded`: `PendingHasTimer`, from the strengthening that
  `bReorderWaiting` implies an armed timer or a running handler, except where
  a thread is between the two steps that make it true.
- `SessionDelivers`, `SessionLeaves`, `SessionRefines`, `ShortStreamDelivers`: with
  a session up (`Session`: established, and no ADDBA, DELBA or BAR) `RxReorder`
  delivers in order, whether or not the driver stops and the station is removed;
  `SessionLeaves` is the very property `rx_delba_order` shows violated, so what
  breaks it is one of those exchanges. Where the station is not removed
  (`rtw_free_stainfo` throws away what is queued) every step of `RxReorder` is also
  one of `ReorderBuffer` or none. The invariant says
  what the 12-bit numbers stand for: `indicate_seq` is the number of some `I` in
  the originator's stream, beyond the newest frame indicated, at most 2048 beyond
  it and at most a window beyond what the originator still tries to deliver;
  everything queued is in that reach too. Then `SN_LESS` orders the frames it is
  given as the stream does. `wend` is the end of the window as the thread saw it,
  `Fresh` covers the first frame, for which `indicate_seq` is still unset, and
  `Early` the frame that left the originator's window while it waited for the
  lock. The one condition is `InReach`: the frame being received is less than
  2048 beyond the newest one indicated, which is as far as `SN_LESS` can tell.
  Some such condition is needed. If 0 was indicated, 2 is queued and the originator gives
  up everything before 4097 ahead of the reordering timer, 4097 comes as number 1
  and is indicated before 2; from 2048 on a new frame is dropped as an
  old one. A stream of at most 2048 frames meets the condition by itself.
- `CommandOwnership`, `SctxSafety`, `GiveUpSafety`: from the inductive
  invariant of `CmdThreadProofs` (types; `OneOwner`; who holds the mutex and
  where; a submit context is still "SUBMITTED" exactly as long as it may be
  attached; the thread lets go of the object only after its mutex section).
  `OneOwner` alone is inductive only with the type part; the other two need
  the agreement between `attached`, `status` and both program counters.
- `CommandOrder`: `Spec => KeepsCommandOrder`, a refinement: `Insert` maps to
  `Accept`, `Free` to `Finish`, everything else stutters, since `Work`
  counts the command in the thread's hands as the first of the queue.
- `CmdTypes`, `CallersBuffers`, `CommandWakeup`: on top of that invariant, the
  counters and flags; where `~CanTimeout`, a waiting caller's command is
  completed by the thread alone, so the caller is still past its insertion
  while the command runs; where `~CanSleep`, a thread that rests, sleeps or is
  not there leaves a queued command only with the semaphore up or its caller
  about to raise it (the violation run `cmd_lps_wakeup` shows that the second
  condition cannot be dropped).
- `RequestAgreement`, `RequestReporting`, `AbortSafety`, `SuspendSafety`: one
  inductive invariant. What it adds to the properties: while `cfg80211_rtw_scan` runs
  the driver holds no request and the kernel's is new to every waiter; the two
  locks imply the flag; from the moment a suspend has dealt with the survey the
  flag no longer counts as a reporter.
- `SurveyNeverStalls`: its own invariant, over the timer, its handler, the
  commands in the queue and the places where the state is not `DISABLE`.
- `SurveyTypes`: the types, which need that `PROCESS` is a state only while
  `channel_idx` is below `ch_num`, and the ranges of the request numbers from
  the invariant of `RequestAgreement`.
- `BufferOwnership`, `WakeupSafety`, `ReportSafety`: one inductive invariant of
  `TxPathProofs`. Ownership needs to know where each thread has a buffer in hand.
  The wake-ups need what a thread has decided but not done: one that saw a
  survey looks only at the frames that may pass, so the invariant speaks
  of its place, of `xmit_sema` and of whoever is between insertion and up. A
  report is followed backwards: what is acknowledged or reported was in the
  chip, before that in a buffer in nobody's hand, and its sender is then either
  past the queue holding `ack_tx_mutex` or done with that try (`Launched`), so
  the waiter it completes is its sender or its sender has given up.
- `LoneWaiterAcked`: so the confusion that `tx_report` shows takes two waiting
  senders: where only one ever waits, `SuccessMeansAcked` holds.
- `TransmitTypes` (`TxOrderProofs`): the types, on top of that invariant. A
  call that is under way has made at least one try and `Return` starts another
  only below `TryCnt`; a buffer that is not free is loaded, a management buffer
  with one frame of a sender, a data buffer with frames of the network stack
  (`Loaded`), since RTWHALXT takes a buffer only over a queue that is not empty.
- `TxOrder`: `Spec => ImplementsTxQueue`, a refinement. `FramesOf(k)` concatenates
  what the buffers in flight hold of kind `k`, and for data frames what is packed
  and what is not packed yet. Insertion maps to `Accept`, `NetXmit` to `Accept` of
  the data queue; the write or the drop of the buffer in hand to `Leave` of the
  frames in it; everything else stutters. Three facts carry it: no step changes a
  buffer in flight (`CarriedKept`, from `OneOwner`); packing and the
  insertion of a data buffer move frames without changing the concatenation
  (`FillMoves`, `FillPutInOrder`); the buffer `XmitTake` takes from the middle of
  the queue overtakes only buffers that hold nothing of its kind (`MoveToFront`,
  `TakeInOrder`), which needs `Loaded`. What `FlattenSeq` makes of a concatenation
  is proved from its definition: `FlattenIsSum` shows that it is the last of the
  partial sums (`Sums`) of its argument, and `Induction` is induction over the
  naturals stated for a set, from the least element of its complement, since the
  library's theorem with an operator parameter cannot be instantiated here.

Every safety property and every action property that a passing run checks is
stated by a theorem. Only model-checked: everything that needs fairness
(`EveryFrameLeaves`, `EveryWaiterReturns`, `StopCompletes`,
`EveryRequestAnswered`, `SurveyEnds`, `ComesToRest`, and the liveness in
`ImplementsReorderBuffer` and `ImplementsCommandQueue`, whose parts without
fairness are `SessionRefines` and `CommandOrder`), and that the violation
runs find what they find.

## Not modelled

What `PROJECT.json` lists as not modelled. Most of the repository's lines can
have no model worth having: about 150 000 are field definitions, radio tables
and the firmware image, another 120 000 are the vendored PHYDM, coexistence
and HALMAC libraries, which compute register values in the caller's context.
The models map parts of the driver's own concurrent core. Inside them are left
out: frame contents, encryption and defragmentation; the bodies of command
handlers; memory exhaustion in allocations; surprise removal of the card;
several interfaces; `RTW_CMDF_DIRECTLY`, which calls the handler in the
caller's context and does not touch the queue.

## Plan

Done: the reorder window, the command thread with LPS as it meets it, the
survey, the transmit path, and the proofs above. What would come next, in
this order:

1. `LpsLclk`: `alives` of both threads, `rpwm`/`cpwm`, enter and leave, IPS,
   `ps_deny`; composed with `CmdThread` and `TxPath`. Property: a registered
   task is never left below S2 for ever; the chip is not put down under a task
   that was told it may go on.
2. `RecvPools`: recv_buf and recv_frame pools, `uc_swdec_pending_queue`,
   defragmentation queue; conservation of frames, reception goes on.
3. Join, roaming and disconnect in `fw_state`, on top of `SiteSurvey`.
4. `HalmacEvent`: the waiter frees an indicator's `submit_ctx` after a timeout
   while the indication may hold it.
5. Proofs: what remains true of the order in `RxReorder` across sessions.
